---------------------------- MODULE LoginLimiter ----------------------------
(***************************************************************************)
(* The in-memory fixed window of internal/auth that throttles attempts by  *)
(* client address.  Each operation runs under the limiter's mutex; what    *)
(* happens between two of them is up to the caller.                        *)
(***************************************************************************)
EXTENDS Naturals

CONSTANTS
    MaxAttempts,    \* attempts a window takes before Allow says no
    Window          \* the length of a window, in ticks of the clock

ASSUME MaxAttemptsAssumption == MaxAttempts \in Nat \ {0}
ASSUME WindowAssumption == Window \in Nat

\* A loginAttemptWindow: how many attempts it counted and how old it is.  An
\* entry of the map has counted at least one, so count 0 stands for no entry.
NoAttempts == [count |-> 0, age |-> 0]

LoginWindow == [count: Nat, age: 0 .. Window + 1]

Elapsed(w) == w.age > Window

\* Faulty: one attempt too many.
AllowsOneMore(w) == w.count = 0 \/ Elapsed(w) \/ w.count <= MaxAttempts

Allows(w) == w.count = 0 \/ Elapsed(w) \/ w.count < MaxAttempts

\* Allow drops an entry whose window has elapsed.
AfterAllow(w) == IF Elapsed(w) THEN NoAttempts ELSE w

RecordFailure(w) ==
    IF w.count = 0 \/ Elapsed(w) THEN [count |-> 1, age |-> 0]
    ELSE [w EXCEPT !.count = @ + 1]

RecordSuccess(w) == NoAttempts

\* Time passes for an entry; beyond the window its exact age is immaterial.
Aged(w) == IF w.count = 0 \/ Elapsed(w) THEN w ELSE [w EXCEPT !.age = @ + 1]

=============================================================================
