---------------------------- MODULE LimiterProofs ----------------------------
(***************************************************************************)
(* How far attempts in flight can overrun the limiters, for any number of  *)
(* clients and requests and any limit and window.                          *)
(***************************************************************************)
EXTENDS SessionsProofs

\* Between Allow and RecordFailure, of a login and of a request for a reset.
LoginStates == {"allowed", "verified", "failed"}
AskStates == {"asking"}

\* Requests that go through a login's statements without the limiter's leave.
AnonymousStates == {"registered", "confirming", "authorized", "changed", "consumed", "revoked"}

\* They count for no client.
Anonymous == \A r \in Requests : req[r].pc \in AnonymousStates => req[r].client = None

BInv == Anonymous /\ FailuresBounded

-----------------------------------------------------------------------------
\* Counting.

LEMMA Finite ==
    ASSUME NEW S, S \subseteq Requests
    PROVE  IsFiniteSet(S) /\ Cardinality(S) \in Nat /\ Cardinality(S) <= Cardinality(Requests)
           /\ Cardinality(Requests) \in Nat
  <1>1. IsFiniteSet(Requests)
    BY SetsAssumption
  <1> QED
    BY <1>1, FS_Subset, FS_CardinalityType

LEMMA Fewer ==
    ASSUME NEW S, S \subseteq Requests, NEW T, T \subseteq S
    PROVE  Cardinality(T) \in Nat /\ Cardinality(S) \in Nat /\ Cardinality(T) <= Cardinality(S)
  <1>1. IsFiniteSet(S)
    BY Finite
  <1> QED
    BY <1>1, FS_Subset, FS_CardinalityType

LEMMA OneLess ==
    ASSUME NEW S, S \subseteq Requests, NEW r \in S, NEW T, T \subseteq S \ {r}
    PROVE  Cardinality(T) \in Nat /\ Cardinality(S) \in Nat
           /\ Cardinality(T) + 1 <= Cardinality(S)
  <1>1. IsFiniteSet(S)
    BY Finite
  <1>2. Cardinality(S \ {r}) = Cardinality(S) - 1
    BY <1>1, FS_RemoveElement
  <1>3. Cardinality(T) \in Nat /\ Cardinality(T) <= Cardinality(S \ {r})
    BY Fewer
  <1>4. Cardinality(S) \in Nat
    BY Finite
  <1> QED
    BY <1>2, <1>3, <1>4

LEMMA Counts ==
    ASSUME TypeOK, NEW c \in Clients
    PROVE  /\ logins[c].count \in Nat /\ asks[c].count \in Nat
           /\ MaxAttempts \in Nat \ {0}
           /\ Cardinality(Requests) \in Nat
  BY Finite, MaxAttemptsAssumption DEF TypeOK, LoginWindow

\* What the limiter's operations do to the count.
LEMMA WindowCounts ==
    ASSUME NEW w \in LoginWindow
    PROVE  /\ Aged(w).count = w.count
           /\ RecordSuccess(w).count = 0
           /\ RecordFailure(w).count <= w.count + 1
           /\ AfterAllow(w).count <= w.count
           /\ Allows(w) => AfterAllow(w).count <= MaxAttempts - 1
  BY MaxAttemptsAssumption, WindowAssumption
  DEF LoginWindow, Aged, RecordSuccess, RecordFailure, AfterAllow, Allows, Elapsed, NoAttempts
-----------------------------------------------------------------------------
\* What a step may do to the attempts in flight.

\* A request that becomes q starts no attempt of its own.
Quiet(p, q) ==
    \/ q.pc \notin LoginStates \cup AskStates \cup AnonymousStates
    \/ q.client = None
    \/ q.client = p.client /\ p.pc = q.pc
    \/ q.client = p.client /\ p.pc \in AnonymousStates
    \/ q.client = p.client /\ p.pc \in LoginStates /\ q.pc \in LoginStates

\* No attempts beyond those in flight.
NoMorePending ==
    \A c \in Clients :
        /\ Pending(c, LoginStates)' \subseteq Pending(c, LoginStates)
        /\ Pending(c, AskStates)' \subseteq Pending(c, AskStates)

CountsNoMore ==
    \A c \in Clients :
        logins'[c].count <= logins[c].count /\ asks'[c].count <= asks[c].count

LEMMA QuietStep ==
    ASSUME TypeOK, Anonymous, req' \in [Requests -> Request],
           \A r \in Requests : Quiet(req[r], req'[r])
    PROVE  Anonymous' /\ NoMorePending
  <1>1. None \notin Clients
    BY SetsAssumption
  <1>2. \A r \in Requests : req'[r].client \in Clients /\ req'[r].pc \in LoginStates =>
                               req[r].client = req'[r].client /\ req[r].pc \in LoginStates
    BY <1>1 DEF Quiet, Anonymous, LoginStates, AskStates, AnonymousStates
  <1>3. \A r \in Requests : req'[r].client \in Clients /\ req'[r].pc \in AskStates =>
                               req[r].client = req'[r].client /\ req[r].pc \in AskStates
    BY <1>1 DEF Quiet, Anonymous, LoginStates, AskStates, AnonymousStates
  <1>4. \A r \in Requests : req'[r].pc \in AnonymousStates => req'[r].client = None
    BY DEF Quiet, Anonymous, LoginStates, AskStates, AnonymousStates
  <1> QED
    BY <1>2, <1>3, <1>4 DEF Anonymous, NoMorePending, Pending

LEMMA BoundKept ==
    ASSUME TypeOK, TypeOK', FailuresBounded, NoMorePending, CountsNoMore
    PROVE  FailuresBounded'
  <1> SUFFICES ASSUME NEW c \in Clients
               PROVE  /\ logins'[c].count + Cardinality(Pending(c, LoginStates)')
                            <= MaxAttempts - 1 + Cardinality(Requests)
                      /\ asks'[c].count + Cardinality(Pending(c, AskStates)')
                            <= MaxAttempts - 1 + Cardinality(Requests)
    BY DEF FailuresBounded, LoginStates, AskStates
  <1>1. /\ logins[c].count + Cardinality(Pending(c, LoginStates))
              <= MaxAttempts - 1 + Cardinality(Requests)
        /\ asks[c].count + Cardinality(Pending(c, AskStates))
              <= MaxAttempts - 1 + Cardinality(Requests)
    BY DEF FailuresBounded, LoginStates, AskStates
  <1>2. /\ Cardinality(Pending(c, LoginStates)') \in Nat
        /\ Cardinality(Pending(c, LoginStates)) \in Nat
        /\ Cardinality(Pending(c, LoginStates)') <= Cardinality(Pending(c, LoginStates))
    <2>1. Pending(c, LoginStates) \subseteq Requests
      BY DEF Pending
    <2> QED
      BY <2>1, Fewer DEF NoMorePending
  <1>3. /\ Cardinality(Pending(c, AskStates)') \in Nat
        /\ Cardinality(Pending(c, AskStates)) \in Nat
        /\ Cardinality(Pending(c, AskStates)') <= Cardinality(Pending(c, AskStates))
    <2>1. Pending(c, AskStates) \subseteq Requests
      BY DEF Pending
    <2> QED
      BY <2>1, Fewer DEF NoMorePending
  <1>4. /\ logins[c].count \in Nat /\ asks[c].count \in Nat
        /\ MaxAttempts \in Nat \ {0} /\ Cardinality(Requests) \in Nat
    BY Counts
  <1>5. logins'[c].count \in Nat /\ asks'[c].count \in Nat
    BY DEF TypeOK, LoginWindow
  <1>6. logins'[c].count <= logins[c].count /\ asks'[c].count <= asks[c].count
    BY DEF CountsNoMore
  <1> QED
    BY <1>1, <1>2, <1>3, <1>4, <1>5, <1>6

\* The limiters as they are.
LEMMA SameLimiters == ASSUME TypeOK, UNCHANGED <<logins, asks>> PROVE CountsNoMore
  <1>1. \A c \in Clients : logins[c].count \in Nat /\ asks[c].count \in Nat
    BY DEF TypeOK, LoginWindow
  <1> QED
    BY <1>1 DEF CountsNoMore

LEMMA OnlyOneMoves ==
    ASSUME TypeOK, Anonymous, NEW r \in Requests, NEW q \in Request,
           req' = [req EXCEPT ![r] = q], Quiet(req[r], q)
    PROVE  Anonymous' /\ NoMorePending
  <1>1. req \in [Requests -> Request]
    BY DEF TypeOK
  <1>2. req' \in [Requests -> Request]
    BY <1>1
  <1>3. ASSUME NEW s \in Requests PROVE Quiet(req[s], req'[s])
    <2>1. CASE s = r
      BY <1>1, <2>1
    <2>2. CASE s # r
      BY <1>1, <2>2 DEF Quiet
    <2> QED
      BY <2>1, <2>2
  <1> QED
    BY <1>2, <1>3, QuietStep
LEMMA FinishQuiet ==
    ASSUME TypeOK, Anonymous, NEW r \in Requests, Finish(r)
    PROVE  Anonymous' /\ NoMorePending
  <1>1. req' = [req EXCEPT ![r] = Idle]
    BY DEF Finish
  <1>2. Quiet(req[r], Idle)
    BY DEF Quiet, Idle, LoginStates, AskStates, AnonymousStates
  <1> QED
    BY <1>1, <1>2, IdleType, OnlyOneMoves

\* Going on without starting an attempt.
LEMMA GotoQuiet ==
    ASSUME TypeOK, Anonymous, NEW r \in Requests, NEW pc \in PCs, Goto(r, pc),
           \/ pc \notin LoginStates \cup AskStates \cup AnonymousStates
           \/ req[r].pc \in AnonymousStates
           \/ req[r].pc \in LoginStates /\ pc \in LoginStates
    PROVE  Anonymous' /\ NoMorePending
  <1> DEFINE q == [req[r] EXCEPT !.pc = pc]
  <1>1. req[r] \in Request
    BY DEF TypeOK
  <1>2. q \in Request /\ q.pc = pc /\ q.client = req[r].client
    BY <1>1 DEF Request
  <1>3. req' = [req EXCEPT ![r] = q]
    BY DEF Goto
  <1> HIDE DEF q
  <1>4. Quiet(req[r], q)
    BY <1>2 DEF Quiet
  <1> QED
    BY <1>2, <1>3, <1>4, OnlyOneMoves

\* Requests that begin on behalf of no client.
LEMMA BeginQuiet ==
    ASSUME TypeOK, TypeOK', Anonymous, NEW r \in Requests,
           req' = [req EXCEPT ![r] = req'[r]], req'[r].client = None
    PROVE  Anonymous' /\ NoMorePending
  <1>1. req'[r] \in Request
    BY DEF TypeOK
  <1>2. Quiet(req[r], req'[r])
    BY DEF Quiet
  <1> QED
    BY <1>1, <1>2, OnlyOneMoves

LEMMA VisitQuiet ==
    ASSUME TypeOK, TypeOK', Anonymous, NEW r \in Requests,
           Visit(r) \/ BeginRegister(r) \/ BeginConfirm(r)
    PROVE  Anonymous' /\ NoMorePending
  <1>1. req \in [Requests -> Request]
    BY DEF TypeOK
  <1>2. ASSUME NEW q, req' = [req EXCEPT ![r] = q], q.client = None
        PROVE  Anonymous' /\ NoMorePending
    <2>1. req'[r] = q
      BY <1>1, <1>2
    <2> QED
      BY <1>2, <2>1, BeginQuiet
  <1>3. CASE Visit(r)
    <2>1. PICK t \in issued \cap Tokens :
              req' = [req EXCEPT ![r] = [Idle EXCEPT !.pc = "arrived", !.token = t,
                                                     !.bar = SessionBar(t)]]
      BY <1>3 DEF Visit
    <2>2. [Idle EXCEPT !.pc = "arrived", !.token = t, !.bar = SessionBar(t)].client = None
      BY DEF Idle
    <2> QED
      BY <1>2, <2>1, <2>2
  <1>4. CASE BeginRegister(r)
    <2>1. PICK u \in Users \ DOMAIN accounts, p \in Passwords :
              req' = [req EXCEPT ![r] = [Idle EXCEPT !.pc = "registered", !.kind = "register",
                                                     !.user = u, !.password = p]]
      BY <1>4 DEF BeginRegister
    <2>2. [Idle EXCEPT !.pc = "registered", !.kind = "register", !.user = u,
                       !.password = p].client = None
      BY DEF Idle
    <2> QED
      BY <1>2, <2>1, <2>2
  <1>5. CASE BeginConfirm(r)
    <2>1. PICK t \in issued \cap ResetTokens, p \in Passwords :
              req' = [req EXCEPT ![r] =
                        [Idle EXCEPT !.pc = "confirming", !.kind = "confirm", !.token = t,
                                     !.password = p,
                                     !.bar = IF Valid(resets, t) THEN None ELSE "ended"]]
      BY <1>5 DEF BeginConfirm
    <2> DEFINE b == IF Valid(resets, t) THEN None ELSE "ended"
    <2>2. [Idle EXCEPT !.pc = "confirming", !.kind = "confirm", !.token = t, !.password = p,
                       !.bar = b].client = None
      BY DEF Idle
    <2> QED
      BY <1>2, <2>1, <2>2
  <1> QED
    BY <1>3, <1>4, <1>5

LEMMA LoginFailsQuiet ==
    ASSUME TypeOK, Anonymous, NEW r \in Requests, LoginFails(r),
           req[r].pc \in LoginStates \cup AnonymousStates
    PROVE  Anonymous' /\ NoMorePending
  <1>1. "failed" \in PCs /\ "failed" \in LoginStates
    BY DEF PCs, LoginStates
  <1> QED
    BY <1>1, FinishQuiet, GotoQuiet DEF LoginFails

\* The steps that leave the limiters alone.
LEMMA StepQuiet ==
    ASSUME TypeOK, TypeOK', Anonymous, NEW r \in Requests, Step(r),
           ~CountFailure(r), ~ClearFailures(r), ~CountReset(r)
    PROVE  Anonymous' /\ NoMorePending /\ UNCHANGED <<logins, asks>>
  <1>1. /\ \A pc \in {"resolving", "serving", "leaving", "verified", "opened", "changed",
                      "consumed", "revoked"} : pc \in PCs
        /\ \A pc \in {"resolving", "serving", "leaving", "opened"} :
              pc \notin LoginStates \cup AskStates \cup AnonymousStates
        /\ "verified" \in LoginStates
        /\ {"registered", "changed", "consumed", "revoked"} \subseteq AnonymousStates
    BY DEF PCs, LoginStates, AskStates, AnonymousStates
  <1>2. req \in [Requests -> Request] /\ req' \in [Requests -> Request]
    BY DEF TypeOK
  <1>3. CASE ReadSession(r)
    <2> DEFINE pc == IF sessions[req[r].token].left < SessionTTL \div 2
                     THEN "renewing" ELSE "resolving"
               q == [req[r] EXCEPT !.user = sessions[req[r].token].user, !.left = SessionTTL,
                                   !.pc = pc]
    <2>1. req' = [req EXCEPT ![r] = q]
      BY <1>3 DEF ReadSession
    <2>2. req'[r] = q /\ q \in Request
      BY <1>2, <2>1
    <2>3. q.pc \in {"renewing", "resolving"}
      BY <1>2 DEF Request
    <2> HIDE DEF q
    <2>4. Quiet(req[r], q)
      BY <2>3 DEF Quiet, LoginStates, AskStates, AnonymousStates
    <2> QED
      BY <1>3, <2>1, <2>2, <2>4, OnlyOneMoves DEF ReadSession
  <1>4. CASE NoSession(r)
    BY <1>1, <1>4, FinishQuiet, GotoQuiet DEF NoSession, Unresolved
  <1>5. CASE Refresh(r)
    BY <1>1, <1>5, GotoQuiet DEF Refresh
  <1>6. CASE Resolve(r)
    BY <1>1, <1>6, FinishQuiet, GotoQuiet DEF Resolve, Resolved, Unresolved
  <1>7. CASE Serve(r) \/ Logout(r) \/ IssueReset(r)
    BY <1>7, FinishQuiet DEF Serve, Logout, IssueReset
  <1>8. CASE Verify(r)
    <2>1. req[r].pc \in LoginStates \cup AnonymousStates
      BY <1>8 DEF Verify, LoggingIn, LoginStates, AnonymousStates
    <2> QED
      BY <1>1, <1>8, <2>1, LoginFailsQuiet, GotoQuiet DEF Verify
  <1>9. CASE OpenSession(r)
    BY <1>1, <1>9, FinishQuiet, GotoQuiet DEF OpenSession
  <1>10. CASE ReadReset(r)
    <2>1. CASE Finish(r)
      BY <1>10, <2>1, FinishQuiet DEF ReadReset
    <2>2. CASE req' = [req EXCEPT ![r].pc = "authorized",
                                  ![r].user = resets[req[r].token].user]
      <3> DEFINE q == [req[r] EXCEPT !.pc = "authorized", !.user = resets[req[r].token].user]
      <3>1. req' = [req EXCEPT ![r] = q]
        BY <2>2
      <3>2. req'[r] = q /\ q \in Request
        BY <1>2, <3>1
      <3>3. q.client = req[r].client /\ req[r].pc \in AnonymousStates
        BY <1>2, <1>10 DEF Request, ReadReset, At, AnonymousStates
      <3> HIDE DEF q
      <3>4. Quiet(req[r], q)
        BY <3>3 DEF Quiet
      <3> QED
        BY <1>10, <3>1, <3>2, <3>4, OnlyOneMoves DEF ReadReset
    <2> QED
      BY <1>10, <2>1, <2>2 DEF ReadReset
  <1>11. CASE ChangePassword(r)
    <2> DEFINE q == [req[r] EXCEPT !.pc = "changed", !.before = SessionsOf(req[r].user)]
    <2>1. req' = [req EXCEPT ![r] = q]
      BY <1>11 DEF ChangePassword
    <2>2. req'[r] = q /\ q \in Request
      BY <1>2, <2>1
    <2>3. q.client = req[r].client /\ req[r].pc \in AnonymousStates
      BY <1>2, <1>11 DEF Request, ChangePassword, At, AnonymousStates
    <2> HIDE DEF q
    <2>4. Quiet(req[r], q)
      BY <2>3 DEF Quiet
    <2> QED
      BY <1>11, <2>1, <2>2, <2>4, OnlyOneMoves DEF ChangePassword
  <1>12. CASE ConsumeReset(r)
    BY <1>1, <1>12, GotoQuiet DEF ConsumeReset, At
  <1>13. CASE RevokeSessions(r)
    BY <1>1, <1>13, GotoQuiet DEF RevokeSessions, At
  <1> QED
    BY <1>3, <1>4, <1>5, <1>6, <1>7, <1>8, <1>9, <1>10, <1>11, <1>12, <1>13 DEF Step
-----------------------------------------------------------------------------
\* The steps of the limiters.

\* The bound for one limiter and one client.
Within(count, S) == count + Cardinality(S) <= MaxAttempts - 1 + Cardinality(Requests)

LEMMA BoundIs ==
    FailuresBounded <=> \A c \in Clients : /\ Within(logins[c].count, Pending(c, LoginStates))
                                           /\ Within(asks[c].count, Pending(c, AskStates))
  BY DEF FailuresBounded, Within, LoginStates, AskStates

\* Fewer attempts, counted no higher.
LEMMA WithinKept ==
    ASSUME NEW k \in Nat, NEW l \in Nat, l <= k, NEW S, S \subseteq Requests,
           NEW T, T \subseteq S, Within(k, S)
    PROVE  Within(l, T)
  BY Fewer, Finite, MaxAttemptsAssumption DEF Within

\* An attempt in flight becomes one that is counted.
LEMMA WithinCounted ==
    ASSUME NEW k \in Nat, NEW l \in Nat, l <= k + 1, NEW S, S \subseteq Requests,
           NEW r \in S, NEW T, T \subseteq S \ {r}, Within(k, S)
    PROVE  Within(l, T)
  BY OneLess, Finite, MaxAttemptsAssumption DEF Within

\* Below the limit there is room for all requests at once.
LEMMA WithinAllowed ==
    ASSUME NEW k \in Nat, k <= MaxAttempts - 1, NEW S, S \subseteq Requests
    PROVE  Within(k, S)
  BY Finite, MaxAttemptsAssumption DEF Within

LEMMA PendingRequests ==
    ASSUME NEW c, NEW W
    PROVE  Pending(c, W) \subseteq Requests /\ Pending(c, W)' \subseteq Requests
  BY DEF Pending

LEMMA CountFailureBounds ==
    ASSUME TypeOK, TypeOK', BInv, NEW r \in Requests, CountFailure(r)
    PROVE  BInv'
  <1>1. Anonymous' /\ NoMorePending
    BY FinishQuiet DEF BInv, CountFailure
  <1> DEFINE d == req[r].client
  <1>2. /\ logins' = [logins EXCEPT ![d] = RecordFailure(logins[d])]
        /\ asks' = asks /\ req[r].pc = "failed" /\ req' = [req EXCEPT ![r] = Idle]
    BY DEF CountFailure, At, Finish
  <1>3. /\ \A c \in Clients : logins[c] \in LoginWindow /\ asks[c] \in LoginWindow
        /\ \A c \in Clients : logins'[c] \in LoginWindow /\ asks'[c] \in LoginWindow
        /\ logins \in [Clients -> LoginWindow] /\ req \in [Requests -> Request]
    BY DEF TypeOK
  <1>4. \A c \in Clients : /\ Within(logins[c].count, Pending(c, LoginStates))
                           /\ Within(asks[c].count, Pending(c, AskStates))
    BY BoundIs DEF BInv
  <1>5. ASSUME NEW c \in Clients
        PROVE  /\ Within(logins'[c].count, Pending(c, LoginStates)')
               /\ Within(asks'[c].count, Pending(c, AskStates)')
    <2>1. /\ logins[c].count \in Nat /\ logins'[c].count \in Nat /\ asks[c].count \in Nat
      BY <1>3 DEF LoginWindow
    <2>2. Within(asks'[c].count, Pending(c, AskStates)')
      BY <1>1, <1>2, <1>4, <2>1, PendingRequests, WithinKept DEF NoMorePending
    <2>3. CASE c # d
      <3>1. logins'[c] = logins[c]
        BY <1>2, <1>3, <2>3
      <3> QED
        BY <1>1, <1>4, <2>1, <2>2, <3>1, PendingRequests, WithinKept DEF NoMorePending
    <2>4. CASE c = d
      <3>1. logins'[c].count <= logins[c].count + 1
        BY <1>2, <1>3, <2>4, WindowCounts
      <3>2. r \in Pending(c, LoginStates)
        BY <1>2, <2>4 DEF Pending, LoginStates
      <3>3. r \notin Pending(c, LoginStates)'
        BY <1>2, <1>3 DEF Pending, LoginStates, Idle
      <3> QED
        BY <1>1, <1>4, <2>1, <2>2, <3>1, <3>2, <3>3, PendingRequests, WithinCounted
        DEF NoMorePending
    <2> QED
      BY <2>3, <2>4
  <1> QED
    BY <1>1, <1>5 DEF BInv, FailuresBounded, Within, LoginStates, AskStates
LEMMA CountResetBounds ==
    ASSUME TypeOK, TypeOK', BInv, NEW r \in Requests, CountReset(r)
    PROVE  BInv'
  <1> DEFINE d == req[r].client
  <1>1. Anonymous' /\ NoMorePending
    <2>1. "counted" \in PCs /\ "counted" \notin LoginStates \cup AskStates \cup AnonymousStates
      BY DEF PCs, LoginStates, AskStates, AnonymousStates
    <2> QED
      BY <2>1, GotoQuiet DEF BInv, CountReset
  <1>2. /\ asks' = [asks EXCEPT ![d] = RecordFailure(asks[d])]
        /\ logins' = logins /\ req[r].pc = "asking" /\ req' = [req EXCEPT ![r].pc = "counted"]
    BY DEF CountReset, At, Goto
  <1>3. /\ \A c \in Clients : logins[c] \in LoginWindow /\ asks[c] \in LoginWindow
        /\ \A c \in Clients : logins'[c] \in LoginWindow /\ asks'[c] \in LoginWindow
        /\ asks \in [Clients -> LoginWindow] /\ req \in [Requests -> Request]
    BY DEF TypeOK
  <1>4. \A c \in Clients : /\ Within(logins[c].count, Pending(c, LoginStates))
                           /\ Within(asks[c].count, Pending(c, AskStates))
    BY BoundIs DEF BInv
  <1>5. ASSUME NEW c \in Clients
        PROVE  /\ Within(logins'[c].count, Pending(c, LoginStates)')
               /\ Within(asks'[c].count, Pending(c, AskStates)')
    <2>1. /\ asks[c].count \in Nat /\ asks'[c].count \in Nat /\ logins[c].count \in Nat
      BY <1>3 DEF LoginWindow
    <2>2. Within(logins'[c].count, Pending(c, LoginStates)')
      BY <1>1, <1>2, <1>4, <2>1, PendingRequests, WithinKept DEF NoMorePending
    <2>3. CASE c # d
      <3>1. asks'[c] = asks[c]
        BY <1>2, <1>3, <2>3
      <3> QED
        BY <1>1, <1>4, <2>1, <2>2, <3>1, PendingRequests, WithinKept DEF NoMorePending
    <2>4. CASE c = d
      <3>1. asks'[c].count <= asks[c].count + 1
        BY <1>2, <1>3, <2>4, WindowCounts
      <3>2. r \in Pending(c, AskStates)
        BY <1>2, <2>4 DEF Pending, AskStates
      <3>3. r \notin Pending(c, AskStates)'
        <4>1. req'[r].pc = "counted"
          BY <1>2, <1>3 DEF Request
        <4> QED
          BY <4>1 DEF Pending, AskStates
      <3> QED
        BY <1>1, <1>4, <2>1, <2>2, <3>1, <3>2, <3>3, PendingRequests, WithinCounted
        DEF NoMorePending
    <2> QED
      BY <2>3, <2>4
  <1> QED
    BY <1>1, <1>5 DEF BInv, FailuresBounded, Within, LoginStates, AskStates

\* Allow lets an attempt in only below the limit, which leaves room for every
\* request.
LEMMA BeginLoginBounds ==
    ASSUME TypeOK, TypeOK', BInv, NEW r \in Requests, BeginLogin(r)
    PROVE  BInv'
  <1>1. PICK d \in Clients, u \in Users, p \in Passwords :
            /\ Allows(logins[d])
            /\ logins' = [logins EXCEPT ![d] = AfterAllow(logins[d])]
            /\ req' = [req EXCEPT ![r] = [Idle EXCEPT !.pc = "allowed", !.kind = "login",
                                              !.client = d, !.user = u, !.password = p]]
    BY DEF BeginLogin
  <1> DEFINE q == [Idle EXCEPT !.pc = "allowed", !.kind = "login", !.client = d, !.user = u,
                               !.password = p]
  <1>2. q.pc = "allowed" /\ q.client = d
    BY DEF Idle
  <1>3. /\ \A c \in Clients : logins[c] \in LoginWindow /\ asks[c] \in LoginWindow
        /\ \A c \in Clients : logins'[c] \in LoginWindow
        /\ logins \in [Clients -> LoginWindow] /\ req \in [Requests -> Request]
    BY DEF TypeOK
  <1>4. req' = [req EXCEPT ![r] = q]
    BY <1>1
  <1> HIDE DEF q
  <1>5. req'[r] = q /\ \A s \in Requests \ {r} : req'[s] = req[s]
    BY <1>3, <1>4
  <1>6. Anonymous'
    BY <1>2, <1>5 DEF BInv, Anonymous, AnonymousStates
  <1>7. \A c \in Clients : /\ Within(logins[c].count, Pending(c, LoginStates))
                           /\ Within(asks[c].count, Pending(c, AskStates))
    BY BoundIs DEF BInv
  <1>8. \A c \in Clients : /\ Pending(c, AskStates)' \subseteq Pending(c, AskStates)
                           /\ c # d => Pending(c, LoginStates)' \subseteq Pending(c, LoginStates)
    BY <1>2, <1>5 DEF Pending, LoginStates, AskStates
  <1>9. ASSUME NEW c \in Clients
        PROVE  /\ Within(logins'[c].count, Pending(c, LoginStates)')
               /\ Within(asks'[c].count, Pending(c, AskStates)')
    <2>1. logins[c].count \in Nat /\ logins'[c].count \in Nat /\ asks[c].count \in Nat
      BY <1>3 DEF LoginWindow
    <2>2. asks' = asks
      BY DEF BeginLogin
    <2>3. Within(asks'[c].count, Pending(c, AskStates)')
      BY <1>7, <1>8, <2>1, <2>2, PendingRequests, WithinKept
    <2>4. CASE c # d
      <3>1. logins'[c] = logins[c]
        BY <1>1, <1>3, <2>4
      <3> QED
        BY <1>7, <1>8, <2>1, <2>3, <2>4, <3>1, PendingRequests, WithinKept
    <2>5. CASE c = d
      <3>1. logins'[c].count <= MaxAttempts - 1
        BY <1>1, <1>3, <2>5, WindowCounts
      <3> QED
        BY <2>1, <2>3, <3>1, PendingRequests, WithinAllowed
    <2> QED
      BY <2>4, <2>5
  <1> QED
    BY <1>6, <1>9 DEF BInv, FailuresBounded, Within, LoginStates, AskStates

LEMMA BeginResetBounds ==
    ASSUME TypeOK, TypeOK', BInv, NEW r \in Requests, BeginReset(r)
    PROVE  BInv'
  <1>1. PICK d \in Clients, u \in Users :
            /\ Allows(asks[d])
            /\ asks' = [asks EXCEPT ![d] = AfterAllow(asks[d])]
            /\ req' = [req EXCEPT ![r] = [Idle EXCEPT !.pc = "asking", !.kind = "reset",
                                              !.client = d, !.user = u]]
    BY DEF BeginReset
  <1> DEFINE q == [Idle EXCEPT !.pc = "asking", !.kind = "reset", !.client = d, !.user = u]
  <1>2. q.pc = "asking" /\ q.client = d
    BY DEF Idle
  <1>3. /\ \A c \in Clients : logins[c] \in LoginWindow /\ asks[c] \in LoginWindow
        /\ \A c \in Clients : asks'[c] \in LoginWindow
        /\ asks \in [Clients -> LoginWindow] /\ req \in [Requests -> Request]
    BY DEF TypeOK
  <1>4. req' = [req EXCEPT ![r] = q]
    BY <1>1
  <1> HIDE DEF q
  <1>5. req'[r] = q /\ \A s \in Requests \ {r} : req'[s] = req[s]
    BY <1>3, <1>4
  <1>6. Anonymous'
    BY <1>2, <1>5 DEF BInv, Anonymous, AnonymousStates
  <1>7. \A c \in Clients : /\ Within(logins[c].count, Pending(c, LoginStates))
                           /\ Within(asks[c].count, Pending(c, AskStates))
    BY BoundIs DEF BInv
  <1>8. \A c \in Clients : /\ Pending(c, LoginStates)' \subseteq Pending(c, LoginStates)
                           /\ c # d => Pending(c, AskStates)' \subseteq Pending(c, AskStates)
    BY <1>2, <1>5 DEF Pending, LoginStates, AskStates
  <1>9. ASSUME NEW c \in Clients
        PROVE  /\ Within(logins'[c].count, Pending(c, LoginStates)')
               /\ Within(asks'[c].count, Pending(c, AskStates)')
    <2>1. asks[c].count \in Nat /\ asks'[c].count \in Nat /\ logins[c].count \in Nat
      BY <1>3 DEF LoginWindow
    <2>2. logins' = logins
      BY DEF BeginReset
    <2>3. Within(logins'[c].count, Pending(c, LoginStates)')
      BY <1>7, <1>8, <2>1, <2>2, PendingRequests, WithinKept
    <2>4. CASE c # d
      <3>1. asks'[c] = asks[c]
        BY <1>1, <1>3, <2>4
      <3> QED
        BY <1>7, <1>8, <2>1, <2>3, <2>4, <3>1, PendingRequests, WithinKept
    <2>5. CASE c = d
      <3>1. asks'[c].count <= MaxAttempts - 1
        BY <1>1, <1>3, <2>5, WindowCounts
      <3> QED
        BY <2>1, <2>3, <3>1, PendingRequests, WithinAllowed
    <2> QED
      BY <2>4, <2>5
  <1> QED
    BY <1>6, <1>9 DEF BInv, FailuresBounded, Within, LoginStates, AskStates

LEMMA ClearFailuresBounds ==
    ASSUME TypeOK, TypeOK', BInv, NEW r \in Requests, ClearFailures(r)
    PROVE  BInv'
  <1>1. Anonymous' /\ NoMorePending
    BY FinishQuiet DEF BInv, ClearFailures
  <1>2. CountsNoMore
    <2>1. \A c \in Clients : logins[c] \in LoginWindow /\ asks[c] \in LoginWindow
      BY DEF TypeOK
    <2>2. \A c \in Clients : /\ logins[c].count \in Nat /\ asks[c].count \in Nat
                             /\ RecordSuccess(logins[c]).count = 0
      BY <2>1, WindowCounts DEF LoginWindow
    <2>3. /\ logins' = [logins EXCEPT ![req[r].client] = RecordSuccess(logins[req[r].client])]
          /\ asks' = asks /\ logins \in [Clients -> LoginWindow]
      BY DEF ClearFailures, TypeOK
    <2> QED
      BY <2>2, <2>3 DEF CountsNoMore
  <1> QED
    BY <1>1, <1>2, BoundKept DEF BInv

-----------------------------------------------------------------------------
\* The invariant.

LEMMA AbandonBounds ==
    ASSUME TypeOK, TypeOK', BInv, NEW r \in Requests, Abandon(r)
    PROVE  BInv'
  <1>1. CASE At(r, "verified")
    <2>1. req[r].pc \in LoginStates \cup AnonymousStates
      BY <1>1 DEF At, LoginStates
    <2> QED
      BY <1>1, <2>1, LoginFailsQuiet, SameLimiters, BoundKept DEF Abandon, BInv
  <1>2. CASE ~At(r, "verified")
    BY <1>2, FinishQuiet, SameLimiters, BoundKept DEF Abandon, BInv
  <1> QED
    BY <1>1, <1>2

\* Requests keep their place and their client.
LEMMA InPlace ==
    ASSUME TypeOK, TypeOK', BInv, CountsNoMore,
           \A r \in Requests : req'[r].pc = req[r].pc /\ req'[r].client = req[r].client
    PROVE  BInv'
  <1>1. \A r \in Requests : Quiet(req[r], req'[r])
    BY DEF Quiet
  <1>2. req' \in [Requests -> Request]
    BY DEF TypeOK
  <1> QED
    BY <1>1, <1>2, QuietStep, BoundKept DEF BInv

LEMMA RestartBounds == ASSUME TypeOK, TypeOK', BInv, Restart PROVE BInv'
  <1>1. \A r \in Requests : req'[r] = Idle
    BY DEF Restart
  <1>2. \A r \in Requests : Quiet(req[r], req'[r])
    BY <1>1 DEF Quiet, Idle, LoginStates, AskStates, AnonymousStates
  <1>3. req' \in [Requests -> Request]
    BY DEF TypeOK
  <1>4. CountsNoMore
    <2>1. \A c \in Clients : logins[c].count \in Nat /\ asks[c].count \in Nat
      BY DEF TypeOK, LoginWindow
    <2> QED
      BY <2>1 DEF Restart, NoAttempts, CountsNoMore
  <1> QED
    BY <1>2, <1>3, <1>4, QuietStep, BoundKept DEF BInv

LEMMA ReactivateBounds ==
    ASSUME TypeOK, TypeOK', BInv, NEW u \in Users, Reactivate(u) PROVE BInv'
  <1>1. \A r \in Requests : req'[r].pc = req[r].pc /\ req'[r].client = req[r].client
    <2>1. \A r \in Requests : req[r] \in Request
      BY DEF TypeOK
    <2>2. req' = [r \in Requests |-> IF req[r].bar = u THEN [req[r] EXCEPT !.bar = None]
                                     ELSE req[r]]
      BY DEF Reactivate
    <2>3. \A p \in Request : [p EXCEPT !.bar = None].pc = p.pc
                             /\ [p EXCEPT !.bar = None].client = p.client
      BY DEF Request
    <2> QED
      BY <2>1, <2>2, <2>3
  <1> QED
    BY <1>1, InPlace, SameLimiters DEF Reactivate

LEMMA TickBounds == ASSUME TypeOK, TypeOK', BInv, Tick PROVE BInv'
  <1>1. \A r \in Requests : req'[r].pc = req[r].pc /\ req'[r].client = req[r].client
    <2>1. \A r \in Requests : req[r] \in Request
      BY DEF TypeOK
    <2>2. req' = [r \in Requests |-> IF At(r, "renewing") THEN Later(req[r]) ELSE req[r]]
      BY DEF Tick
    <2>3. \A p \in Request : Later(p).pc = p.pc /\ Later(p).client = p.client
      BY DEF Request, Later
    <2> QED
      BY <2>1, <2>2, <2>3
  <1>2. CountsNoMore
    <2>1. \A c \in Clients : /\ logins[c] \in LoginWindow /\ asks[c] \in LoginWindow
                             /\ logins[c].count \in Nat /\ asks[c].count \in Nat
      BY DEF TypeOK, LoginWindow
    <2>2. \A c \in Clients : logins'[c] = Aged(logins[c]) /\ asks'[c] = Aged(asks[c])
      BY DEF Tick
    <2> QED
      BY <2>1, <2>2, WindowCounts DEF CountsNoMore
  <1> QED
    BY <1>1, <1>2, InPlace

LEMMA RequestBounds ==
    ASSUME TypeOK, TypeOK', BInv, NEW r \in Requests, Arrive(r) \/ Step(r) \/ Abandon(r)
    PROVE  BInv'
  <1>1. CASE Visit(r) \/ BeginRegister(r) \/ BeginConfirm(r)
    <2>1. UNCHANGED <<logins, asks>>
      BY <1>1 DEF Visit, BeginRegister, BeginConfirm
    <2> QED
      BY <1>1, <2>1, VisitQuiet, SameLimiters, BoundKept DEF BInv
  <1>2. CASE Step(r) /\ ~CountFailure(r) /\ ~ClearFailures(r) /\ ~CountReset(r)
    BY <1>2, StepQuiet, SameLimiters, BoundKept DEF BInv
  <1> QED
    BY <1>1, <1>2, BeginLoginBounds, BeginResetBounds, CountFailureBounds, CountResetBounds,
       ClearFailuresBounds, AbandonBounds DEF Arrive

LEMMA BoundsStep == TypeOK /\ TypeOK' /\ BInv /\ [Next]_vars => BInv'
  <1> SUFFICES ASSUME TypeOK, TypeOK', BInv, [Next]_vars PROVE BInv'
    OBVIOUS
  <1>1. CASE \E r \in Requests : Arrive(r) \/ Step(r) \/ Abandon(r)
    BY <1>1, RequestBounds
  <1>2. CASE UNCHANGED <<logins, asks, req>>
    BY <1>2, InPlace, SameLimiters
  <1> QED
    BY <1>1, <1>2, ReactivateBounds, RestartBounds, TickBounds
    DEF Next, Suspend, CreateUser, SweepSessions, SweepResets, vars

LEMMA BoundsInit == Init => BInv
  <1> SUFFICES ASSUME Init PROVE BInv
    OBVIOUS
  <1>1. \A r \in Requests : req[r] = Idle
    BY DEF Init
  <1>2. Anonymous
    BY <1>1 DEF Anonymous, Idle, AnonymousStates
  <1>3. \A c \in Clients : logins[c].count = 0 /\ asks[c].count = 0
    BY DEF Init, NoAttempts
  <1>4. 0 \in Nat /\ 0 <= MaxAttempts - 1
    BY MaxAttemptsAssumption
  <1>5. FailuresBounded
    BY <1>3, <1>4, PendingRequests, WithinAllowed, BoundIs
  <1> QED
    BY <1>2, <1>5 DEF BInv

\* Attempts from one address overrun the limit by no more than the requests in
\* flight, however Allow, the check of the password and RecordFailure interleave.
THEOREM LimitersHold == Spec => []FailuresBounded
  <1>1. BInv => FailuresBounded
    BY DEF BInv
  <1> QED
    BY <1>1, BoundsInit, BoundsStep, SessionsTypeCorrect, PTL DEF Spec
=============================================================================
