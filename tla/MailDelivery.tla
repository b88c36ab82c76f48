---------------------------- MODULE MailDelivery ----------------------------
(***************************************************************************)
(* What the outbox promises for each notification's mail: it is pending    *)
(* until it is sent, given up after so many failures, or skipped; one mail *)
(* is attempted at a time; and it is attempted again after the mail server *)
(* took it only if that was missed.                                        *)
(***************************************************************************)
EXTENDS Naturals

CONSTANTS Mails, MaxFailures

VARIABLES
    fate,       \* of each mail
    failures,   \* how many failures have been recorded
    taken,      \* how often the mail server took it: 0, 1 or 2 for more
    missed,     \* those it took at a time nobody noticed
    attempt     \* at most one: made, and not recorded yet

vars == <<fate, failures, taken, missed, attempt>>

Init ==
    /\ fate = [m \in Mails |-> "none"]
    /\ failures = [m \in Mails |-> 0]
    /\ taken = [m \in Mails |-> 0]
    /\ missed = {}
    /\ attempt = {}

Ask(m) ==
    /\ fate[m] = "none"
    /\ fate' = [fate EXCEPT ![m] = "pending"]
    /\ UNCHANGED <<failures, taken, missed, attempt>>

Take(m) == taken' = [taken EXCEPT ![m] = IF @ = 0 THEN 1 ELSE 2]

Answer(m, ok) == attempt' = {[mail |-> m, ok |-> ok]}

\* The answer is true, or the mail was taken and the answer is a failure.
Attempt(m) ==
    /\ attempt = {} /\ fate[m] = "pending"
    /\ taken[m] = 0 \/ m \in missed
    /\ \/ Take(m) /\ Answer(m, TRUE) /\ UNCHANGED missed
       \/ Answer(m, FALSE) /\ UNCHANGED <<taken, missed>>
       \/ Take(m) /\ Answer(m, FALSE) /\ missed' = missed \cup {m}
    /\ UNCHANGED <<fate, failures>>

RecordSent(m) ==
    /\ attempt = {[mail |-> m, ok |-> TRUE]}
    /\ fate' = [fate EXCEPT ![m] = "sent"]
    /\ attempt' = {}
    /\ UNCHANGED <<failures, taken, missed>>

RecordFailure(m) ==
    /\ attempt = {[mail |-> m, ok |-> FALSE]}
    /\ failures' = [failures EXCEPT ![m] = @ + 1]
    /\ fate' = [fate EXCEPT ![m] = IF failures[m] + 1 = MaxFailures THEN "failed" ELSE "pending"]
    /\ attempt' = {}
    /\ UNCHANGED <<taken, missed>>

\* The attempt leaves no record.
Forget ==
    /\ attempt # {}
    /\ missed' = missed \cup {a.mail : a \in {x \in attempt : x.ok}}
    /\ attempt' = {}
    /\ UNCHANGED <<fate, failures, taken>>

Skip(m) ==
    /\ attempt = {} /\ fate[m] = "pending"
    /\ fate' = [fate EXCEPT ![m] = "skipped"]
    /\ UNCHANGED <<failures, taken, missed, attempt>>

Next ==
    \/ \E m \in Mails : Ask(m) \/ Attempt(m) \/ RecordSent(m) \/ RecordFailure(m) \/ Skip(m)
    \/ Forget

Spec == Init /\ [][Next]_vars
=============================================================================
