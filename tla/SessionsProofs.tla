--------------------------- MODULE SessionsProofs ---------------------------
(***************************************************************************)
(* Theorems about Sessions for any users, clients, tokens and requests and *)
(* any lifetimes and limits.                                               *)
(***************************************************************************)
EXTENDS Sessions, FiniteSetTheorems, TLAPS

-----------------------------------------------------------------------------
\* Rows.

\* A row written under a key, and rows deleted.
LEMMA PutEffect ==
    ASSUME NEW f, NEW k, NEW r
    PROVE  /\ DOMAIN Put(f, k, r) = DOMAIN f \cup {k}
           /\ Put(f, k, r)[k] = r
           /\ \A x \in DOMAIN f \ {k} : Put(f, k, r)[x] = f[x]
  BY DEF Put

LEMMA WithoutEffect ==
    ASSUME NEW f, NEW K
    PROVE  /\ DOMAIN Without(f, K) = DOMAIN f \ K
           /\ \A x \in DOMAIN f \ K : Without(f, K)[x] = f[x]
  BY DEF Without, Restrict

\* A table: rows of one type under keys of one set.
IsTable(f, K, R) == f \in [DOMAIN f -> R] /\ DOMAIN f \subseteq K

LEMMA PutType ==
    ASSUME NEW K, NEW R, NEW f, IsTable(f, K, R), NEW k \in K, NEW r \in R
    PROVE  IsTable(Put(f, k, r), K, R)
  BY DEF IsTable, Put

LEMMA WithoutType ==
    ASSUME NEW K, NEW R, NEW f, IsTable(f, K, R), NEW D
    PROVE  IsTable(Without(f, D), K, R)
  BY DEF IsTable, Without, Restrict

\* Time passes for a row.
LEMMA LaterType ==
    ASSUME NEW n \in Nat, NEW U, NEW r \in [user: U, left: -1 .. n]
    PROVE  Later(r) \in [user: U, left: -1 .. n] /\ Later(r).user = r.user
  BY DEF Later

\* A limiter's window stays one.
LEMMA WindowType ==
    ASSUME NEW w, w \in LoginWindow
    PROVE  /\ AfterAllow(w) \in LoginWindow
           /\ RecordFailure(w) \in LoginWindow
           /\ RecordSuccess(w) \in LoginWindow
           /\ Aged(w) \in LoginWindow
  BY WindowAssumption DEF LoginWindow, AfterAllow, RecordFailure, RecordSuccess, Aged, NoAttempts,
                          Elapsed

\* The limiters' part of the type invariant.
LimitersTyped == logins \in [Clients -> LoginWindow] /\ asks \in [Clients -> LoginWindow]

USE DEF LimitersTyped

-----------------------------------------------------------------------------
\* The inductive invariant, request by request: q is a request, the other
\* arguments are the tables it meets.

\* What a request works with exists; the sessions a reset found are its user's
\* until they are revoked, and then they are gone.
Formed(q, acc, ses, iss) ==
    /\ q.pc \in {"arrived", "renewing", "resolving", "serving", "leaving"} =>
          q.token \in iss \cap Tokens
    /\ q.pc \in {"confirming", "authorized", "changed", "consumed"} =>
          q.kind = "confirm" /\ q.token \in iss \cap ResetTokens /\ q.password \in Passwords
    /\ q.pc \in {"renewing", "resolving", "verified", "authorized", "changed", "consumed"} =>
          q.user \in DOMAIN acc
    /\ q.pc \in {"allowed", "registered"} => q.kind # "confirm"
    /\ q.before \subseteq iss
    /\ q.pc \in {"changed", "consumed"} =>
          \A t \in q.before \cap DOMAIN ses : ses[t].user = q.user
    /\ q.kind = "confirm" /\ q.pc \in {"revoked", "verified"} => q.before \cap DOMAIN ses = {}

Served == {"serving", "authorized", "changed", "consumed", "revoked"}

\* What bars a request still holds, as far as the request has not met it yet.
Barred(q, acc, ses, rst, dead) ==
    /\ q.bar \in Users => q.bar \in DOMAIN acc /\ ~acc[q.bar].active
    /\ q.pc = "arrived" =>
          /\ q.bar = "ended" => q.token \in dead
          /\ q.bar \in Users /\ q.token \in DOMAIN ses => ses[q.token].user = q.bar
    /\ q.pc \in {"renewing", "resolving"} => q.bar \in {None, q.user}
    /\ q.pc = "confirming" =>
          /\ q.bar \in {None, "ended"}
          /\ q.bar = "ended" => ~Valid(rst, q.token)
    /\ q.pc \in Served => q.bar = None

\* Session tokens that have ended.
Dead == {t \in issued \cap Tokens :
            t \notin DOMAIN sessions \/ (Expired(sessions[t]) /\ ~Renewing(t))}

SInv ==
    /\ TypeOK
    /\ \A r \in Requests :
          /\ Formed(req[r], accounts, sessions, issued)
          /\ Barred(req[r], accounts, sessions, resets, Dead)

\* What any step does to the tables: nothing that has ended comes back, and no
\* session changes hands.
Mild ==
    /\ DOMAIN accounts \subseteq DOMAIN accounts' /\ issued \subseteq issued'
    /\ \A t \in issued \cap DOMAIN sessions' :
          t \in DOMAIN sessions /\ sessions'[t].user = sessions[t].user
    /\ \A t \in issued : Valid(resets', t) => Valid(resets, t)
    /\ Dead \subseteq Dead'

\* A request that a step leaves alone, but for the deadline and the bar.
LEMMA Undisturbed ==
    ASSUME SInv, Mild, NEW r \in Requests, NEW q \in Request,
           q.pc = req[r].pc, q.kind = req[r].kind, q.user = req[r].user,
           q.token = req[r].token, q.password = req[r].password, q.before = req[r].before,
           q.bar \in {req[r].bar, None},
           q.bar \in Users => ~accounts'[q.bar].active
    PROVE  /\ Formed(q, accounts', sessions', issued')
           /\ Barred(q, accounts', sessions', resets', Dead')
  <1> DEFINE p == req[r]
  <1>1. Formed(p, accounts, sessions, issued) /\ Barred(p, accounts, sessions, resets, Dead)
    BY DEF SInv
  <1>2. Formed(q, accounts', sessions', issued')
    BY <1>1 DEF Formed, Mild
  <1>3. None \notin Users /\ None # "ended"
    BY SetsAssumption
  <1>4. q.pc \in {"arrived", "confirming"} => q.token \in issued
    BY <1>1 DEF Formed
  <1>5. q.bar \in Users => q.bar \in DOMAIN accounts' /\ ~accounts'[q.bar].active
    BY <1>1, <1>3 DEF Barred, Mild
  <1>6. q.pc = "arrived" /\ q.bar = "ended" => q.token \in Dead'
    BY <1>1, <1>3 DEF Barred, Mild
  <1>7. q.pc = "arrived" /\ q.bar \in Users /\ q.token \in DOMAIN sessions' =>
            sessions'[q.token].user = q.bar
    BY <1>1, <1>3, <1>4 DEF Barred, Mild
  <1>8. q.pc \in {"renewing", "resolving"} => q.bar \in {None, q.user}
    BY <1>1 DEF Barred
  <1>9. q.pc = "confirming" =>
            q.bar \in {None, "ended"} /\ (q.bar = "ended" => ~Valid(resets', q.token))
    BY <1>1, <1>3, <1>4 DEF Barred, Mild
  <1>10. q.pc \in Served => q.bar = None
    BY <1>1 DEF Barred
  <1> QED
    BY <1>2, <1>5, <1>6, <1>7, <1>8, <1>9, <1>10 DEF Barred

\* One request moves on to q, the others and the bars are left alone.
LEMMA OneMoves ==
    ASSUME SInv, Mild, TypeOK', NEW r \in Requests, NEW q \in Request,
           req' = [req EXCEPT ![r] = q],
           \A u \in DOMAIN accounts : accounts'[u].active = accounts[u].active,
           Formed(q, accounts', sessions', issued'),
           Barred(q, accounts', sessions', resets', Dead')
    PROVE  SInv'
  <1>1. req \in [Requests -> Request]
    BY DEF SInv, TypeOK
  <1>2. req'[r] = q /\ \A s \in Requests \ {r} : req'[s] = req[s]
    BY <1>1
  <1>3. ASSUME NEW s \in Requests \ {r}
        PROVE  /\ Formed(req[s], accounts', sessions', issued')
               /\ Barred(req[s], accounts', sessions', resets', Dead')
    <2>1. req[s].bar \in Users => ~accounts'[req[s].bar].active
      BY DEF SInv, Barred
    <2>2. req[s] \in Request
      BY <1>1
    <2> QED
      BY <2>1, <2>2, Undisturbed
  <1> QED
    BY <1>2, <1>3 DEF SInv

-----------------------------------------------------------------------------
\* What a request becomes.

\* The fields of a request other than pc and left.
Carries(q, p) ==
    /\ q.kind = p.kind /\ q.user = p.user /\ q.token = p.token
    /\ q.password = p.password /\ q.before = p.before /\ q.bar = p.bar

LEMMA GotoEffect ==
    ASSUME req \in [Requests -> Request], NEW r \in Requests, NEW pc \in PCs, Goto(r, pc)
    PROVE  \E q \in Request : req' = [req EXCEPT ![r] = q] /\ q.pc = pc /\ Carries(q, req[r])
  <1> DEFINE q == [req[r] EXCEPT !.pc = pc]
  <1>1. q \in Request /\ q.pc = pc /\ Carries(q, req[r])
    BY DEF Request, Carries
  <1>2. req' = [req EXCEPT ![r] = q]
    BY DEF Goto
  <1> QED
    BY <1>1, <1>2

LEMMA IdleType == Idle \in Request
  <1>1. 0 \in -1 .. SessionTTL
    BY TTLAssumption
  <1> QED
    BY <1>1 DEF Idle, Request, PCs, Kinds

\* An idle request asks nothing of the tables.
LEMMA IdleHolds ==
    ASSUME NEW acc, NEW ses, NEW iss, NEW rst, NEW dead
    PROVE  Formed(Idle, acc, ses, iss) /\ Barred(Idle, acc, ses, rst, dead)
  BY SetsAssumption DEF Idle, Formed, Barred, Served

\* Which tokens have ended can only be more, unless a row is written or a
\* renewal begins.
LEMMA DeadGrows ==
    ASSUME issued \subseteq issued',
           \A t \in Dead \cap DOMAIN sessions' :
              t \in DOMAIN sessions /\ Expired(sessions'[t]),
           \A t \in Dead : t \in DOMAIN sessions /\ Renewing(t)' => Renewing(t)
    PROVE  Dead \subseteq Dead'
  BY DEF Dead

LEMMA RenewingOnly ==
    ASSUME req \in [Requests -> Request], NEW r \in Requests, NEW q,
           req' = [req EXCEPT ![r] = q], NEW t, Renewing(t)'
    PROVE  Renewing(t) \/ (q.pc = "renewing" /\ q.token = t)
  BY DEF Renewing, At

-----------------------------------------------------------------------------
\* Steps that change one request and nothing else but the limiters.

LEMMA LocalStep ==
    ASSUME SInv, NEW r \in Requests, NEW q \in Request, req' = [req EXCEPT ![r] = q],
           UNCHANGED <<accounts, sessions, issued, resets>>,
           LimitersTyped',
           q.pc = "renewing" => Valid(sessions, q.token),
           Formed(q, accounts, sessions, issued),
           Barred(q, accounts, sessions, resets, Dead)
    PROVE  SInv'
  <1>1. req \in [Requests -> Request]
    BY DEF SInv, TypeOK
  <1>2. TypeOK'
    BY <1>1 DEF SInv, TypeOK
  <1>3. Dead \subseteq Dead'
    <2>1. ASSUME NEW t \in Dead, t \in DOMAIN sessions, Renewing(t)' PROVE Renewing(t)
      BY <1>1, <2>1, RenewingOnly DEF Dead, Valid
    <2> QED
      BY <2>1, DeadGrows DEF Dead, Valid
  <1>4. Mild
    BY <1>3 DEF Mild, Valid
  <1>5. Barred(q, accounts', sessions', resets', Dead')
    BY <1>3 DEF Barred
  <1> QED
    BY <1>2, <1>4, <1>5, OneMoves
\* What the invariant says of one request.
LEMMA OfRequest ==
    ASSUME SInv, NEW r \in Requests
    PROVE  /\ req \in [Requests -> Request] /\ req[r] \in Request
           /\ Formed(req[r], accounts, sessions, issued)
           /\ Barred(req[r], accounts, sessions, resets, Dead)
           /\ LimitersTyped
  BY DEF SInv, TypeOK

\* A request that is over.
LEMMA FinishKeeps ==
    ASSUME SInv, NEW r \in Requests, Finish(r),
           UNCHANGED <<accounts, sessions, issued, resets>>,
           LimitersTyped'
    PROVE  SInv'
  <1>1. req' = [req EXCEPT ![r] = Idle]
    BY DEF Finish
  <1>2. Idle.pc # "renewing"
    BY DEF Idle
  <1> QED
    BY <1>1, <1>2, IdleType, IdleHolds, LocalStep

\* A request that goes on to where the invariant asks nothing it did not ask
\* before.
LEMMA GotoKeeps ==
    ASSUME SInv, NEW r \in Requests, NEW pc \in PCs \ {"renewing"}, Goto(r, pc),
           UNCHANGED <<accounts, sessions, issued, resets>>,
           LimitersTyped',
           \A q \in Request : q.pc = pc /\ Carries(q, req[r]) =>
               /\ Formed(q, accounts, sessions, issued)
               /\ Barred(q, accounts, sessions, resets, Dead)
    PROVE  SInv'
  <1>1. PICK q \in Request : req' = [req EXCEPT ![r] = q] /\ q.pc = pc /\ Carries(q, req[r])
    BY OfRequest, GotoEffect
  <1> QED
    BY <1>1, LocalStep

LEMMA VisitKeeps == ASSUME SInv, NEW r \in Requests, Visit(r) PROVE SInv'
  <1>1. PICK t \in issued \cap Tokens :
            req' = [req EXCEPT ![r] = [Idle EXCEPT !.pc = "arrived", !.token = t,
                                                   !.bar = SessionBar(t)]]
    BY DEF Visit
  <1> DEFINE q == [Idle EXCEPT !.pc = "arrived", !.token = t, !.bar = SessionBar(t)]
  <1>2. /\ SessionBar(t) \in Users \cup {None, "ended"}
        /\ SessionBar(t) = "ended" => t \in Dead
        /\ SessionBar(t) \in Users =>
              /\ SessionBar(t) \in DOMAIN accounts
              /\ ~accounts[SessionBar(t)].active
              /\ t \in DOMAIN sessions /\ sessions[t].user = SessionBar(t)
    BY SetsAssumption DEF SessionBar, Dead, SInv, TypeOK
  <1> DEFINE b == SessionBar(t)
  <1>3. /\ q.pc = "arrived" /\ q.token = t /\ q.bar = b /\ q.kind = "visit" /\ q.before = {}
    BY DEF Idle
  <1>4. q \in Request
    BY <1>2, IdleType DEF Request, PCs
  <1> HIDE DEF q, b
  <1>5. Formed(q, accounts, sessions, issued)
    BY <1>3 DEF Formed
  <1>6. Barred(q, accounts, sessions, resets, Dead)
    BY <1>2, <1>3 DEF Barred, Served, b
  <1>7. req' = [req EXCEPT ![r] = q] /\ UNCHANGED <<accounts, sessions, issued, resets, logins, asks>>
    BY <1>1 DEF Visit, q
  <1> QED
    BY <1>3, <1>4, <1>5, <1>6, <1>7, OfRequest, LocalStep

LEMMA ReadSessionKeeps == ASSUME SInv, NEW r \in Requests, ReadSession(r) PROVE SInv'
  <1> DEFINE p == req[r]
             s == sessions[p.token]
             pc == IF s.left < SessionTTL \div 2 THEN "renewing" ELSE "resolving"
             q == [p EXCEPT !.user = s.user, !.left = SessionTTL, !.pc = pc]
  <1>1. /\ p \in Request /\ p.pc = "arrived" /\ Valid(sessions, p.token)
        /\ Formed(p, accounts, sessions, issued)
        /\ Barred(p, accounts, sessions, resets, Dead)
    BY OfRequest DEF ReadSession, At
  <1>2. s.user \in DOMAIN accounts /\ s.user \in Users
    BY <1>1 DEF Valid, SInv, TypeOK
  <1>3. pc \in {"renewing", "resolving"} /\ SessionTTL \in -1 .. SessionTTL
    BY TTLAssumption
  <1> HIDE DEF s, pc
  <1>4. q \in Request
    BY <1>1, <1>2, <1>3 DEF Request, PCs
  <1>5. /\ q.pc = pc /\ q.user = s.user /\ q.token = p.token /\ q.bar = p.bar
        /\ q.kind = p.kind /\ q.before = p.before
    BY <1>1 DEF Request
  <1>6. req' = [req EXCEPT ![r] = q] /\ UNCHANGED <<accounts, sessions, issued, resets, logins, asks>>
    BY DEF ReadSession, s, pc
  <1>7. q.bar \in {None, q.user} /\ (q.bar \in Users => q.bar \in DOMAIN accounts /\ ~accounts[q.bar].active)
    <2>1. p.bar # "ended"
      BY <1>1 DEF Barred, Dead, Valid
    <2>2. p.bar \in Users => p.bar = s.user
      BY <1>1 DEF Barred, Valid, s
    <2>3. p.bar \in Users \cup {None, "ended"}
      BY <1>1 DEF Request
    <2> QED
      BY <1>1, <1>5, <2>1, <2>2, <2>3 DEF Barred
  <1> HIDE DEF q, p
  <1>8. Formed(q, accounts, sessions, issued)
    BY <1>1, <1>2, <1>3, <1>5 DEF Formed
  <1>9. Barred(q, accounts, sessions, resets, Dead)
    BY <1>3, <1>5, <1>7 DEF Barred, Served
  <1> QED
    BY <1>1, <1>4, <1>5, <1>6, <1>8, <1>9, OfRequest, LocalStep

LEMMA NoSessionKeeps == ASSUME SInv, NEW r \in Requests, NoSession(r) PROVE SInv'
  <1>1. /\ req[r].pc = "arrived"
        /\ Formed(req[r], accounts, sessions, issued)
        /\ Barred(req[r], accounts, sessions, resets, Dead)
    BY OfRequest DEF NoSession, At
  <1>2. /\ UNCHANGED <<accounts, sessions, issued, resets>>
        /\ LimitersTyped'
    BY OfRequest DEF NoSession
  <1>3. CASE Finish(r)
    BY <1>2, <1>3, FinishKeeps
  <1>4. CASE Goto(r, "leaving")
    <2>1. ASSUME NEW q \in Request, q.pc = "leaving", Carries(q, req[r])
          PROVE  /\ Formed(q, accounts, sessions, issued)
                 /\ Barred(q, accounts, sessions, resets, Dead)
      BY <1>1, <2>1 DEF Formed, Barred, Carries, Served
    <2>2. "leaving" \in PCs \ {"renewing"}
      BY DEF PCs
    <2> QED
      BY <1>2, <1>4, <2>1, <2>2, GotoKeeps
  <1> QED
    BY <1>3, <1>4 DEF NoSession, Unresolved
LEMMA ResolveKeeps == ASSUME SInv, NEW r \in Requests, Resolve(r) PROVE SInv'
  <1>1. /\ req[r].pc = "resolving"
        /\ Formed(req[r], accounts, sessions, issued)
        /\ Barred(req[r], accounts, sessions, resets, Dead)
    BY OfRequest DEF Resolve, At
  <1>2. /\ UNCHANGED <<accounts, sessions, issued, resets>>
        /\ LimitersTyped'
    BY OfRequest DEF Resolve
  <1>3. CASE Finish(r)
    BY <1>2, <1>3, FinishKeeps
  <1>4. CASE Goto(r, "leaving")
    <2>1. ASSUME NEW q \in Request, q.pc = "leaving", Carries(q, req[r])
          PROVE  /\ Formed(q, accounts, sessions, issued)
                 /\ Barred(q, accounts, sessions, resets, Dead)
      BY <1>1, <2>1 DEF Formed, Barred, Carries, Served
    <2>2. "leaving" \in PCs \ {"renewing"}
      BY DEF PCs
    <2> QED
      BY <1>2, <1>4, <2>1, <2>2, GotoKeeps
  <1>5. CASE Goto(r, "serving") /\ accounts[req[r].user].active
    \* an active user is not the one that bars the request
    <2>1. req[r].user \in DOMAIN accounts /\ req[r].user \in Users
      BY <1>1 DEF Formed, SInv, TypeOK
    <2>2. req[r].bar = None
      BY <1>1, <1>5, <2>1 DEF Barred
    <2>3. ASSUME NEW q \in Request, q.pc = "serving", Carries(q, req[r])
          PROVE  /\ Formed(q, accounts, sessions, issued)
                 /\ Barred(q, accounts, sessions, resets, Dead)
      BY <1>1, <2>2, <2>3, SetsAssumption DEF Formed, Barred, Carries, Served
    <2>4. "serving" \in PCs \ {"renewing"}
      BY DEF PCs
    <2> QED
      BY <1>2, <1>5, <2>3, <2>4, GotoKeeps
  <1> QED
    BY <1>3, <1>4, <1>5 DEF Resolve, Resolved, Unresolved

LEMMA ServeKeeps == ASSUME SInv, NEW r \in Requests, Serve(r) PROVE SInv'
  BY OfRequest, FinishKeeps DEF Serve

LEMMA BeginLoginKeeps == ASSUME SInv, NEW r \in Requests, BeginLogin(r) PROVE SInv'
  <1>1. PICK c \in Clients, u \in Users, p \in Passwords :
            /\ logins' = [logins EXCEPT ![c] = AfterAllow(@)]
            /\ req' = [req EXCEPT ![r] = [Idle EXCEPT !.pc = "allowed", !.kind = "login",
                                              !.client = c, !.user = u, !.password = p]]
    BY DEF BeginLogin
  <1> DEFINE q == [Idle EXCEPT !.pc = "allowed", !.kind = "login", !.client = c, !.user = u,
                               !.password = p]
  <1>2. q.pc = "allowed" /\ q.kind = "login" /\ q.before = {} /\ q.bar = None
    BY DEF Idle
  <1>3. q \in Request
    BY IdleType DEF Request, PCs, Kinds
  <1> HIDE DEF q
  <1>4. Formed(q, accounts, sessions, issued) /\ Barred(q, accounts, sessions, resets, Dead)
    BY <1>2, SetsAssumption DEF Formed, Barred, Served
  <1>5. LimitersTyped'
    <2>1. AfterAllow(logins[c]) \in LoginWindow
      BY OfRequest, WindowType
    <2> QED
      BY <1>1, <2>1, OfRequest DEF BeginLogin, LoginWindow, SInv, TypeOK
  <1>6. req' = [req EXCEPT ![r] = q] /\ UNCHANGED <<accounts, sessions, issued, resets>>
    BY <1>1 DEF BeginLogin, q
  <1> QED
    BY <1>2, <1>3, <1>4, <1>5, <1>6, LocalStep

LEMMA BeginResetKeeps == ASSUME SInv, NEW r \in Requests, BeginReset(r) PROVE SInv'
  <1>1. PICK c \in Clients, u \in Users :
            /\ asks' = [asks EXCEPT ![c] = AfterAllow(@)]
            /\ req' = [req EXCEPT ![r] = [Idle EXCEPT !.pc = "asking", !.kind = "reset",
                                              !.client = c, !.user = u]]
    BY DEF BeginReset
  <1> DEFINE q == [Idle EXCEPT !.pc = "asking", !.kind = "reset", !.client = c, !.user = u]
  <1>2. q.pc = "asking" /\ q.kind = "reset" /\ q.before = {} /\ q.bar = None
    BY DEF Idle
  <1>3. q \in Request
    BY IdleType DEF Request, PCs, Kinds
  <1> HIDE DEF q
  <1>4. Formed(q, accounts, sessions, issued) /\ Barred(q, accounts, sessions, resets, Dead)
    BY <1>2, SetsAssumption DEF Formed, Barred, Served
  <1>5. LimitersTyped'
    <2>1. AfterAllow(asks[c]) \in LoginWindow
      BY OfRequest, WindowType
    <2> QED
      BY <1>1, <2>1, OfRequest DEF BeginReset, LoginWindow, SInv, TypeOK
  <1>6. req' = [req EXCEPT ![r] = q] /\ UNCHANGED <<accounts, sessions, issued, resets>>
    BY <1>1 DEF BeginReset, q
  <1> QED
    BY <1>2, <1>3, <1>4, <1>5, <1>6, LocalStep

LEMMA BeginConfirmKeeps == ASSUME SInv, NEW r \in Requests, BeginConfirm(r) PROVE SInv'
  <1>1. PICK t \in issued \cap ResetTokens, p \in Passwords :
            req' = [req EXCEPT ![r] =
                      [Idle EXCEPT !.pc = "confirming", !.kind = "confirm", !.token = t,
                                   !.password = p,
                                   !.bar = IF Valid(resets, t) THEN None ELSE "ended"]]
    BY DEF BeginConfirm
  <1> DEFINE b == IF Valid(resets, t) THEN None ELSE "ended"
             q == [Idle EXCEPT !.pc = "confirming", !.kind = "confirm", !.token = t,
                               !.password = p, !.bar = b]
  <1>2. b \in {None, "ended"} /\ (b = "ended" => ~Valid(resets, t))
    BY SetsAssumption
  <1>3. /\ q.pc = "confirming" /\ q.kind = "confirm" /\ q.token = t /\ q.password = p
        /\ q.before = {} /\ q.bar = b
    BY DEF Idle
  <1> HIDE DEF b
  <1>4. q \in Request
    BY <1>2, IdleType DEF Request, PCs, Kinds
  <1> HIDE DEF q
  <1>5. Formed(q, accounts, sessions, issued) /\ Barred(q, accounts, sessions, resets, Dead)
    BY <1>2, <1>3, SetsAssumption DEF Formed, Barred, Served
  <1>6. req' = [req EXCEPT ![r] = q] /\ UNCHANGED <<accounts, sessions, issued, resets, logins, asks>>
    BY <1>1 DEF BeginConfirm, q, b
  <1> QED
    BY <1>3, <1>4, <1>5, <1>6, OfRequest, LocalStep

LEMMA ReadResetKeeps == ASSUME SInv, NEW r \in Requests, ReadReset(r) PROVE SInv'
  <1> DEFINE p == req[r]
             u == resets[p.token].user
             q == [p EXCEPT !.pc = "authorized", !.user = u]
  <1>1. /\ p \in Request /\ p.pc = "confirming"
        /\ Formed(p, accounts, sessions, issued)
        /\ Barred(p, accounts, sessions, resets, Dead)
    BY OfRequest DEF ReadReset, At
  <1>2. CASE Valid(resets, p.token)
    <2>1. u \in DOMAIN accounts /\ u \in Users
      BY <1>2 DEF Valid, SInv, TypeOK
    <2> HIDE DEF u
    <2>2. q \in Request
      BY <1>1, <2>1 DEF Request, PCs
    <2>3. /\ q.pc = "authorized" /\ q.user = u /\ q.token = p.token /\ q.bar = p.bar
          /\ q.kind = p.kind /\ q.before = p.before /\ q.password = p.password
      BY <1>1 DEF Request
    <2>4. req' = [req EXCEPT ![r] = q] /\ UNCHANGED <<accounts, sessions, issued, resets, logins, asks>>
      BY <1>2 DEF ReadReset, u
    <2>5. q.bar = None
      BY <1>1, <1>2, <2>3 DEF Barred
    <2> HIDE DEF q, p
    <2>6. Formed(q, accounts, sessions, issued) /\ Barred(q, accounts, sessions, resets, Dead)
      BY <1>1, <2>1, <2>3, <2>5, SetsAssumption DEF Formed, Barred, Served
    <2> QED
      BY <2>2, <2>3, <2>4, <2>6, OfRequest, LocalStep
  <1>3. CASE ~Valid(resets, p.token)
    BY <1>3, OfRequest, FinishKeeps DEF ReadReset
  <1> QED
    BY <1>2, <1>3

LEMMA LoginFailsKeeps ==
    ASSUME SInv, NEW r \in Requests, LoginFails(r), UNCHANGED <<accounts, sessions, issued, resets>>,
           LimitersTyped'
    PROVE  SInv'
  <1>1. CASE Finish(r)
    BY <1>1, FinishKeeps
  <1>2. CASE Goto(r, "failed")
    <2>1. ASSUME NEW q \in Request, q.pc = "failed", Carries(q, req[r])
          PROVE  /\ Formed(q, accounts, sessions, issued)
                 /\ Barred(q, accounts, sessions, resets, Dead)
      BY <2>1, OfRequest DEF Formed, Barred, Carries, Served
    <2>2. "failed" \in PCs \ {"renewing"}
      BY DEF PCs
    <2> QED
      BY <1>2, <2>1, <2>2, GotoKeeps
  <1> QED
    BY <1>1, <1>2 DEF LoginFails

LEMMA VerifyKeeps == ASSUME SInv, NEW r \in Requests, Verify(r) PROVE SInv'
  <1>1. /\ UNCHANGED <<accounts, sessions, issued, resets>>
        /\ LimitersTyped'
    BY OfRequest DEF Verify
  <1>2. CASE LoginFails(r)
    BY <1>1, <1>2, LoginFailsKeeps
  <1>3. CASE Goto(r, "verified") /\ Accepts(req[r].user, req[r].password)
    <2>1. req[r].pc \in {"allowed", "registered", "revoked"} /\ req[r].user \in DOMAIN accounts
      BY <1>3 DEF Verify, LoggingIn, Accepts
    <2>2. ASSUME NEW q \in Request, q.pc = "verified", Carries(q, req[r])
          PROVE  /\ Formed(q, accounts, sessions, issued)
                 /\ Barred(q, accounts, sessions, resets, Dead)
      BY <2>1, <2>2, OfRequest DEF Formed, Barred, Carries, Served
    <2>3. "verified" \in PCs \ {"renewing"}
      BY DEF PCs
    <2> QED
      BY <1>1, <1>3, <2>2, <2>3, GotoKeeps
  <1> QED
    BY <1>2, <1>3 DEF Verify

LEMMA CountFailureKeeps == ASSUME SInv, NEW r \in Requests, CountFailure(r) PROVE SInv'
  <1>1. LimitersTyped'
    <2>1. \A c \in Clients : RecordFailure(logins[c]) \in LoginWindow
      BY OfRequest, WindowType
    <2> QED
      BY <2>1, OfRequest DEF CountFailure, LoginWindow
  <1> QED
    BY <1>1, FinishKeeps DEF CountFailure

LEMMA ClearFailuresKeeps == ASSUME SInv, NEW r \in Requests, ClearFailures(r) PROVE SInv'
  <1>1. LimitersTyped'
    <2>1. \A c \in Clients : RecordSuccess(logins[c]) \in LoginWindow
      BY OfRequest, WindowType
    <2> QED
      BY <2>1, OfRequest DEF ClearFailures, LoginWindow
  <1> QED
    BY <1>1, FinishKeeps DEF ClearFailures

LEMMA CountResetKeeps == ASSUME SInv, NEW r \in Requests, CountReset(r) PROVE SInv'
  <1>1. LimitersTyped'
    <2>1. \A c \in Clients : RecordFailure(asks[c]) \in LoginWindow
      BY OfRequest, WindowType
    <2> QED
      BY <2>1, OfRequest DEF CountReset, LoginWindow
  <1>2. ASSUME NEW q \in Request, q.pc = "counted", Carries(q, req[r])
        PROVE  /\ Formed(q, accounts, sessions, issued)
               /\ Barred(q, accounts, sessions, resets, Dead)
    BY <1>2, OfRequest DEF Formed, Barred, Carries, Served
  <1>3. "counted" \in PCs \ {"renewing"}
    BY DEF PCs
  <1> QED
    BY <1>1, <1>2, <1>3, GotoKeeps DEF CountReset

LEMMA AbandonKeeps == ASSUME SInv, NEW r \in Requests, Abandon(r) PROVE SInv'
  BY OfRequest, FinishKeeps, LoginFailsKeeps DEF Abandon
-----------------------------------------------------------------------------
\* Steps that write a table.  What a step has to leave of each.

AccountsKept ==
    /\ IsTable(accounts', Users, Account)
    /\ DOMAIN accounts \subseteq DOMAIN accounts'
    /\ \A u \in DOMAIN accounts : accounts'[u].active = accounts[u].active

SessionsKept ==
    /\ IsTable(sessions', Tokens, Session)
    /\ \A t \in DOMAIN sessions' : t \in issued' /\ sessions'[t].user \in DOMAIN accounts'
    /\ \A t \in issued \cap DOMAIN sessions' :
          /\ t \in DOMAIN sessions /\ sessions'[t].user = sessions[t].user
          /\ t \in Dead => Expired(sessions'[t])

ResetsKept ==
    /\ IsTable(resets', ResetTokens, ResetToken)
    /\ \A t \in DOMAIN resets' : t \in issued' /\ resets'[t].user \in DOMAIN accounts'
    /\ \A t \in issued : Valid(resets', t) => Valid(resets, t)

IssuedKept == issued \subseteq issued' /\ issued' \subseteq Tokens \cup ResetTokens

LEMMA TablesTyped ==
    ASSUME SInv
    PROVE  /\ IsTable(accounts, Users, Account)
           /\ IsTable(sessions, Tokens, Session)
           /\ IsTable(resets, ResetTokens, ResetToken)
           /\ \A t \in DOMAIN sessions : t \in issued /\ sessions[t].user \in DOMAIN accounts
           /\ \A t \in DOMAIN resets : t \in issued /\ resets[t].user \in DOMAIN accounts
           /\ issued \subseteq Tokens \cup ResetTokens
  BY DEF SInv, TypeOK, IsTable

LEMMA SameAccounts == ASSUME SInv, UNCHANGED accounts PROVE AccountsKept
  BY TablesTyped DEF AccountsKept

LEMMA SameIssued == ASSUME SInv, UNCHANGED issued PROVE IssuedKept
  BY TablesTyped DEF IssuedKept

\* Rows that stay are as they were, whether or not others were deleted.
LEMMA FewerSessions ==
    ASSUME SInv, NEW D, sessions' = sessions \/ sessions' = Without(sessions, D),
           IssuedKept, DOMAIN accounts \subseteq DOMAIN accounts'
    PROVE  SessionsKept
  <1>1. DOMAIN sessions' \subseteq DOMAIN sessions /\ \A t \in DOMAIN sessions' : sessions'[t] = sessions[t]
    <2>1. CASE sessions' = sessions
      BY <2>1
    <2>2. CASE sessions' = Without(sessions, D)
      <3>1. /\ DOMAIN Without(sessions, D) = DOMAIN sessions \ D
            /\ \A t \in DOMAIN sessions \ D : Without(sessions, D)[t] = sessions[t]
        BY WithoutEffect
      <3> QED
        BY <2>2, <3>1
    <2> QED
      BY <2>1, <2>2
  <1>2. IsTable(sessions', Tokens, Session)
    BY TablesTyped, WithoutType
  <1>3. \A t \in Dead \cap DOMAIN sessions : Expired(sessions[t])
    BY DEF Dead
  <1> QED
    BY <1>1, <1>2, <1>3, TablesTyped DEF SessionsKept, IssuedKept

LEMMA FewerResets ==
    ASSUME SInv, NEW D, resets' = resets \/ resets' = Without(resets, D),
           IssuedKept, DOMAIN accounts \subseteq DOMAIN accounts'
    PROVE  ResetsKept
  <1>1. DOMAIN resets' \subseteq DOMAIN resets /\ \A t \in DOMAIN resets' : resets'[t] = resets[t]
    <2>1. CASE resets' = resets
      BY <2>1
    <2>2. CASE resets' = Without(resets, D)
      <3>1. /\ DOMAIN Without(resets, D) = DOMAIN resets \ D
            /\ \A t \in DOMAIN resets \ D : Without(resets, D)[t] = resets[t]
        BY WithoutEffect
      <3> QED
        BY <2>2, <3>1
    <2> QED
      BY <2>1, <2>2
  <1>2. IsTable(resets', ResetTokens, ResetToken)
    BY TablesTyped, WithoutType
  <1> QED
    BY <1>1, <1>2, TablesTyped DEF ResetsKept, IssuedKept, Valid

LEMMA TableStep ==
    ASSUME SInv, AccountsKept, SessionsKept, ResetsKept, IssuedKept, LimitersTyped',
           NEW r \in Requests, NEW q \in Request, q.pc \notin {"renewing", "arrived"},
           req' = [req EXCEPT ![r] = q],
           Formed(q, accounts', sessions', issued'),
           Barred(q, accounts', sessions', resets', Dead)
    PROVE  SInv'
  <1>1. req \in [Requests -> Request]
    BY OfRequest
  <1>2. TypeOK'
    <2>1. req' \in [Requests -> Request]
      BY <1>1
    <2> QED
      BY <2>1 DEF TypeOK, AccountsKept, SessionsKept, ResetsKept, IssuedKept, IsTable
  <1>3. Dead \subseteq Dead'
    <2>1. ASSUME NEW t \in Dead, t \in DOMAIN sessions, Renewing(t)' PROVE Renewing(t)
      BY <1>1, <2>1, RenewingOnly
    <2>2. \A t \in Dead : t \in issued
      BY DEF Dead
    <2> QED
      BY <2>1, <2>2, DeadGrows DEF SessionsKept, IssuedKept
  <1>4. Mild
    BY <1>3 DEF Mild, AccountsKept, SessionsKept, ResetsKept, IssuedKept
  <1>5. Barred(q, accounts', sessions', resets', Dead')
    BY DEF Barred
  <1>6. \A u \in DOMAIN accounts : accounts'[u].active = accounts[u].active
    BY DEF AccountsKept
  <1> QED
    BY <1>2, <1>4, <1>5, <1>6, OneMoves
LEMMA RefreshKeeps == ASSUME SInv, NEW r \in Requests, Refresh(r) PROVE SInv'
  <1> DEFINE p == req[r]
  <1>1. /\ p \in Request /\ p.pc = "renewing" /\ p.left \in -1 .. SessionTTL
        /\ Formed(p, accounts, sessions, issued)
        /\ Barred(p, accounts, sessions, resets, Dead)
    BY OfRequest DEF Refresh, At, Request
  <1>2. AccountsKept /\ IssuedKept /\ ResetsKept
    BY SameAccounts, SameIssued, FewerResets DEF Refresh
  <1>3. SessionsKept
    <2>1. p.token \notin Dead \/ p.token \notin DOMAIN sessions
      BY <1>1 DEF Dead, Renewing, At
    <2>2. sessions' = IF p.token \in DOMAIN sessions
                      THEN [sessions EXCEPT ![p.token].left = p.left] ELSE sessions
      BY DEF Refresh
    <2>3. CASE p.token \notin DOMAIN sessions
      BY <1>2, <2>2, <2>3, FewerSessions DEF Refresh
    <2>4. CASE p.token \in DOMAIN sessions
      <3> DEFINE s == [sessions[p.token] EXCEPT !.left = p.left]
      <3>1. s \in Session /\ s.user = sessions[p.token].user
        BY <1>1, <2>4, TablesTyped DEF IsTable, Session
      <3> HIDE DEF s
      <3>2. sessions' = [sessions EXCEPT ![p.token] = s]
        BY <2>2, <2>4 DEF s
      <3>3. /\ DOMAIN sessions' = DOMAIN sessions
            /\ \A t \in DOMAIN sessions : sessions'[t] = IF t = p.token THEN s ELSE sessions[t]
        BY <3>2
      <3>4. IsTable(sessions', Tokens, Session)
        BY <3>1, <3>2, TablesTyped DEF IsTable
      <3>5. \A t \in Dead \cap DOMAIN sessions : Expired(sessions[t])
        BY DEF Dead
      <3>6. UNCHANGED <<accounts, issued>>
        BY DEF Refresh
      <3> QED
        BY <2>1, <2>4, <3>1, <3>3, <3>4, <3>5, <3>6, TablesTyped DEF SessionsKept
    <2> QED
      BY <2>3, <2>4
  <1>4. PICK q \in Request : req' = [req EXCEPT ![r] = q] /\ q.pc = "resolving" /\ Carries(q, p)
    <2>1. "resolving" \in PCs
      BY DEF PCs
    <2> QED
      BY <2>1, OfRequest, GotoEffect DEF Refresh
  <1>5. UNCHANGED <<accounts, issued, resets>> /\ LimitersTyped'
    BY OfRequest DEF Refresh
  <1>6. \A t \in DOMAIN sessions' \cap issued : t \in DOMAIN sessions
    BY <1>3 DEF SessionsKept
  <1>7. Formed(q, accounts', sessions', issued') /\ Barred(q, accounts', sessions', resets', Dead)
    BY <1>1, <1>4, <1>5 DEF Formed, Barred, Carries, Served
  <1> QED
    BY <1>2, <1>3, <1>4, <1>5, <1>7, TableStep

LEMMA LogoutKeeps == ASSUME SInv, NEW r \in Requests, Logout(r) PROVE SInv'
  <1>1. UNCHANGED <<accounts, issued, resets>> /\ LimitersTyped'
    BY OfRequest DEF Logout
  <1>2. AccountsKept /\ IssuedKept /\ ResetsKept /\ SessionsKept
    BY <1>1, SameAccounts, SameIssued, FewerResets, FewerSessions DEF Logout
  <1>3. req' = [req EXCEPT ![r] = Idle] /\ Idle.pc \notin {"renewing", "arrived"}
    BY DEF Logout, Finish, Idle
  <1> QED
    BY <1>1, <1>2, <1>3, IdleType, IdleHolds, TableStep

\* A new account changes nothing for those that are there.
LEMMA NewAccount ==
    ASSUME SInv, NEW u \in Users \ DOMAIN accounts, NEW p \in Passwords,
           accounts' = Put(accounts, u, [active |-> TRUE, password |-> p])
    PROVE  AccountsKept
  <1> DEFINE a == [active |-> TRUE, password |-> p]
  <1>1. a \in Account
    BY DEF Account
  <1> HIDE DEF a
  <1>2. accounts' = Put(accounts, u, a)
    BY DEF a
  <1>3. IsTable(accounts', Users, Account)
    BY <1>1, <1>2, TablesTyped, PutType
  <1>4. /\ DOMAIN Put(accounts, u, a) = DOMAIN accounts \cup {u}
        /\ \A x \in DOMAIN accounts \ {u} : Put(accounts, u, a)[x] = accounts[x]
    BY DEF Put
  <1> QED
    BY <1>2, <1>3, <1>4 DEF AccountsKept

LEMMA BeginRegisterKeeps == ASSUME SInv, NEW r \in Requests, BeginRegister(r) PROVE SInv'
  <1>1. PICK u \in Users \ DOMAIN accounts, p \in Passwords :
            /\ accounts' = Put(accounts, u, [active |-> TRUE, password |-> p])
            /\ req' = [req EXCEPT ![r] = [Idle EXCEPT !.pc = "registered",
                                              !.kind = "register", !.user = u, !.password = p]]
    BY DEF BeginRegister
  <1> DEFINE q == [Idle EXCEPT !.pc = "registered", !.kind = "register", !.user = u,
                               !.password = p]
  <1>2. UNCHANGED <<sessions, issued, resets>> /\ LimitersTyped'
    BY OfRequest DEF BeginRegister
  <1>3. AccountsKept
    BY <1>1, NewAccount
  <1>4. DOMAIN accounts \subseteq DOMAIN accounts'
    BY <1>3 DEF AccountsKept
  <1>5. IssuedKept /\ ResetsKept /\ SessionsKept
    BY <1>2, <1>4, SameIssued, FewerResets, FewerSessions
  <1>6. q.pc = "registered" /\ q.kind = "register" /\ q.before = {} /\ q.bar = None
    BY DEF Idle
  <1>7. q \in Request
    BY IdleType DEF Request, PCs, Kinds
  <1>8. req' = [req EXCEPT ![r] = q]
    BY <1>1
  <1> HIDE DEF q
  <1>9. Formed(q, accounts', sessions', issued') /\ Barred(q, accounts', sessions', resets', Dead)
    BY <1>6, SetsAssumption DEF Formed, Barred, Served
  <1> QED
    BY <1>2, <1>3, <1>5, <1>6, <1>7, <1>8, <1>9, TableStep

LEMMA OpenSessionKeeps == ASSUME SInv, NEW r \in Requests, OpenSession(r) PROVE SInv'
  <1> DEFINE p == req[r]
  <1>1. /\ p \in Request /\ p.pc = "verified"
        /\ Formed(p, accounts, sessions, issued)
        /\ Barred(p, accounts, sessions, resets, Dead)
    BY OfRequest DEF OpenSession, At
  <1>2. PICK t \in Tokens \ issued :
            /\ sessions' = Put(sessions, t, [user |-> p.user, left |-> SessionTTL])
            /\ issued' = issued \cup {t}
    BY DEF OpenSession
  <1>3. UNCHANGED <<accounts, resets>> /\ LimitersTyped'
    BY OfRequest DEF OpenSession
  <1>4. IssuedKept
    BY <1>2, TablesTyped DEF IssuedKept
  <1>5. AccountsKept /\ ResetsKept
    BY <1>3, <1>4, SameAccounts, FewerResets
  <1>6. SessionsKept
    <2> DEFINE s == [user |-> p.user, left |-> SessionTTL]
    <2>1. p.user \in DOMAIN accounts
      BY <1>1 DEF Formed
    <2>2. p.user \in Users
      BY <2>1, TablesTyped DEF IsTable
    <2>3. s \in Session /\ s.user = p.user
      BY <2>2, TTLAssumption DEF Session
    <2> HIDE DEF s
    <2>4. sessions' = Put(sessions, t, s)
      BY <1>2 DEF s
    <2>5. IsTable(sessions', Tokens, Session)
      BY <2>3, <2>4, TablesTyped, PutType
    <2>6. /\ DOMAIN Put(sessions, t, s) = DOMAIN sessions \cup {t}
          /\ Put(sessions, t, s)[t] = s
          /\ \A x \in DOMAIN sessions \ {t} : Put(sessions, t, s)[x] = sessions[x]
      BY DEF Put
    <2>7. \A x \in Dead \cap DOMAIN sessions : Expired(sessions[x])
      BY DEF Dead
    <2> QED
      BY <1>2, <1>3, <2>1, <2>3, <2>4, <2>5, <2>6, <2>7, TablesTyped DEF SessionsKept
  <1>7. CASE Finish(r)
    <2>1. req' = [req EXCEPT ![r] = Idle] /\ Idle.pc \notin {"renewing", "arrived"}
      BY <1>7 DEF Finish, Idle
    <2> QED
      BY <1>3, <1>4, <1>5, <1>6, <2>1, IdleType, IdleHolds, TableStep
  <1>8. CASE Goto(r, "opened")
    <2>1. PICK q \in Request : req' = [req EXCEPT ![r] = q] /\ q.pc = "opened" /\ Carries(q, p)
      <3>1. "opened" \in PCs
        BY DEF PCs
      <3> QED
        BY <1>8, <3>1, OfRequest, GotoEffect
    <2>2. Formed(q, accounts', sessions', issued') /\ Barred(q, accounts', sessions', resets', Dead)
      BY <1>1, <1>2, <1>3, <2>1 DEF Formed, Barred, Carries, Served
    <2> QED
      BY <1>3, <1>4, <1>5, <1>6, <2>1, <2>2, TableStep
  <1> QED
    BY <1>7, <1>8 DEF OpenSession
LEMMA IssueResetKeeps == ASSUME SInv, NEW r \in Requests, IssueReset(r) PROVE SInv'
  <1> DEFINE u == req[r].user
             k == [user |-> u, left |-> ResetTTL]
  <1>1. PICK t \in ResetTokens \ issued :
            resets' = Put(resets, t, k) /\ issued' = issued \cup {t}
    BY DEF IssueReset
  <1>2. UNCHANGED <<accounts, sessions>> /\ LimitersTyped'
    BY OfRequest DEF IssueReset
  <1>3. IssuedKept
    BY <1>1, TablesTyped DEF IssuedKept
  <1>4. AccountsKept /\ SessionsKept
    BY <1>2, <1>3, SameAccounts, FewerSessions
  <1>5. u \in DOMAIN accounts
    BY DEF IssueReset
  <1>6. u \in Users
    BY <1>5, TablesTyped DEF IsTable
  <1> HIDE DEF u
  <1>7. k \in ResetToken /\ k.user = u
    BY <1>6, TTLAssumption DEF ResetToken
  <1> HIDE DEF k
  <1>8. ResetsKept
    <2>1. IsTable(resets', ResetTokens, ResetToken)
      BY <1>1, <1>7, TablesTyped, PutType
    <2>2. /\ DOMAIN Put(resets, t, k) = DOMAIN resets \cup {t}
          /\ Put(resets, t, k)[t] = k
          /\ \A x \in DOMAIN resets \ {t} : Put(resets, t, k)[x] = resets[x]
      BY DEF Put
    <2> QED
      BY <1>1, <1>2, <1>5, <1>7, <2>1, <2>2, TablesTyped DEF ResetsKept, Valid
  <1>9. req' = [req EXCEPT ![r] = Idle] /\ Idle.pc \notin {"renewing", "arrived"}
    BY DEF IssueReset, Finish, Idle
  <1> QED
    BY <1>2, <1>3, <1>4, <1>8, <1>9, IdleType, IdleHolds, TableStep

LEMMA ChangePasswordKeeps == ASSUME SInv, NEW r \in Requests, ChangePassword(r) PROVE SInv'
  <1> DEFINE p == req[r]
             q == [p EXCEPT !.pc = "changed", !.before = SessionsOf(p.user)]
  <1>1. /\ p \in Request /\ p.pc = "authorized"
        /\ Formed(p, accounts, sessions, issued)
        /\ Barred(p, accounts, sessions, resets, Dead)
    BY OfRequest DEF ChangePassword, At
  <1>2. UNCHANGED <<sessions, issued, resets>> /\ LimitersTyped'
    BY OfRequest DEF ChangePassword
  <1>3. AccountsKept
    <2> DEFINE a == [accounts[p.user] EXCEPT !.password = p.password]
    <2>1. p.user \in DOMAIN accounts /\ p.password \in Passwords
      BY <1>1 DEF Formed
    <2>2. a \in Account /\ a.active = accounts[p.user].active
      BY <2>1, TablesTyped DEF IsTable, Account
    <2> HIDE DEF a
    <2>3. accounts' = [accounts EXCEPT ![p.user] = a]
      BY DEF ChangePassword, a
    <2>4. IsTable(accounts', Users, Account)
      BY <2>2, <2>3, TablesTyped DEF IsTable
    <2> QED
      BY <2>2, <2>3, <2>4 DEF AccountsKept
  <1>4. DOMAIN accounts \subseteq DOMAIN accounts'
    BY <1>3 DEF AccountsKept
  <1>5. IssuedKept /\ SessionsKept /\ ResetsKept
    BY <1>2, <1>4, SameIssued, FewerSessions, FewerResets
  <1>6. SessionsOf(p.user) \subseteq DOMAIN sessions /\ SessionsOf(p.user) \subseteq issued \cap Tokens
    BY TablesTyped DEF SessionsOf, IsTable
  <1>7. q \in Request
    BY <1>1, <1>6 DEF Request, PCs
  <1>8. /\ q.pc = "changed" /\ q.before = SessionsOf(p.user) /\ q.user = p.user
        /\ q.token = p.token /\ q.bar = p.bar /\ q.kind = p.kind /\ q.password = p.password
    BY <1>1 DEF Request
  <1>9. req' = [req EXCEPT ![r] = q]
    BY DEF ChangePassword
  <1>10. \A t \in SessionsOf(p.user) : sessions[t].user = p.user
    BY DEF SessionsOf
  <1>11. p.bar = None
    BY <1>1 DEF Barred, Served
  <1> HIDE DEF q, p
  <1>12. Formed(q, accounts', sessions', issued')
    BY <1>1, <1>2, <1>4, <1>6, <1>8, <1>10 DEF Formed
  <1>13. Barred(q, accounts', sessions', resets', Dead)
    BY <1>8, <1>11, SetsAssumption DEF Barred, Served
  <1> QED
    BY <1>2, <1>3, <1>5, <1>7, <1>8, <1>9, <1>12, <1>13, TableStep

LEMMA ConsumeResetKeeps == ASSUME SInv, NEW r \in Requests, ConsumeReset(r) PROVE SInv'
  <1> DEFINE p == req[r]
  <1>1. /\ p.pc = "changed"
        /\ Formed(p, accounts, sessions, issued)
        /\ Barred(p, accounts, sessions, resets, Dead)
    BY OfRequest DEF ConsumeReset, At
  <1>2. UNCHANGED <<accounts, sessions, issued>> /\ LimitersTyped'
    BY OfRequest DEF ConsumeReset
  <1>3. AccountsKept /\ IssuedKept /\ SessionsKept /\ ResetsKept
    BY <1>2, SameAccounts, SameIssued, FewerSessions, FewerResets DEF ConsumeReset
  <1>4. PICK q \in Request : req' = [req EXCEPT ![r] = q] /\ q.pc = "consumed" /\ Carries(q, p)
    <2>1. "consumed" \in PCs
      BY DEF PCs
    <2> QED
      BY <2>1, OfRequest, GotoEffect DEF ConsumeReset
  <1>5. p.bar = None
    BY <1>1 DEF Barred, Served
  <1>6. Formed(q, accounts', sessions', issued')
    BY <1>1, <1>2, <1>4 DEF Formed, Carries
  <1>7. Barred(q, accounts', sessions', resets', Dead)
    BY <1>4, <1>5, SetsAssumption DEF Barred, Carries, Served
  <1> QED
    BY <1>2, <1>3, <1>4, <1>6, <1>7, TableStep

\* The sessions the reset found are still its user's, so none survives.
LEMMA RevokeSessionsKeeps == ASSUME SInv, NEW r \in Requests, RevokeSessions(r) PROVE SInv'
  <1> DEFINE p == req[r]
             D == SessionsOf(p.user)
  <1>1. /\ p.pc = "consumed"
        /\ Formed(p, accounts, sessions, issued)
        /\ Barred(p, accounts, sessions, resets, Dead)
    BY OfRequest DEF RevokeSessions, At
  <1>2. UNCHANGED <<accounts, issued, resets>> /\ LimitersTyped' /\ sessions' = Without(sessions, D)
    BY OfRequest DEF RevokeSessions
  <1>3. AccountsKept /\ IssuedKept /\ SessionsKept /\ ResetsKept
    BY <1>2, SameAccounts, SameIssued, FewerSessions, FewerResets
  <1>4. PICK q \in Request : req' = [req EXCEPT ![r] = q] /\ q.pc = "revoked" /\ Carries(q, p)
    <2>1. "revoked" \in PCs
      BY DEF PCs
    <2> QED
      BY <2>1, OfRequest, GotoEffect DEF RevokeSessions
  <1>5. p.bar = None
    BY <1>1 DEF Barred, Served
  <1>6. q.before \cap DOMAIN sessions' = {}
    <2>1. \A t \in p.before \cap DOMAIN sessions : t \in D
      BY <1>1 DEF Formed, SessionsOf
    <2>2. DOMAIN sessions' = DOMAIN sessions \ D
      BY <1>2, WithoutEffect
    <2> QED
      BY <1>4, <2>1, <2>2 DEF Carries
  <1>7. Formed(q, accounts', sessions', issued')
    BY <1>1, <1>2, <1>4, <1>6 DEF Formed, Carries
  <1>8. Barred(q, accounts', sessions', resets', Dead)
    BY <1>4, <1>5, SetsAssumption DEF Barred, Carries, Served
  <1> QED
    BY <1>2, <1>3, <1>4, <1>7, <1>8, TableStep
-----------------------------------------------------------------------------
\* Steps of administrators, the clock and the background workers.

\* The request as before, but for its deadline and perhaps a bar less.
Persists(q, p) ==
    /\ q.pc = p.pc /\ q.kind = p.kind /\ q.user = p.user /\ q.token = p.token
    /\ q.password = p.password /\ q.before = p.before
    /\ q.bar \in {p.bar, None}

LEMMA GlobalStep ==
    ASSUME SInv, LimitersTyped', SessionsKept, ResetsKept, IssuedKept,
           IsTable(accounts', Users, Account), DOMAIN accounts \subseteq DOMAIN accounts',
           req' \in [Requests -> Request],
           \A r \in Requests : req'[r] = Idle \/ Persists(req'[r], req[r]),
           \A r \in Requests : req'[r].bar \in Users /\ req'[r].bar \in DOMAIN accounts =>
                                  ~accounts'[req'[r].bar].active
    PROVE  SInv'
  <1>1. TypeOK'
    BY DEF TypeOK, SessionsKept, ResetsKept, IssuedKept, IsTable
  <1>2. Dead \subseteq Dead'
    <2>1. ASSUME NEW t \in Dead, t \in DOMAIN sessions, Renewing(t)' PROVE Renewing(t)
      <3>1. PICK r \in Requests : req'[r].pc = "renewing" /\ req'[r].token = t
        BY <2>1 DEF Renewing, At
      <3>2. req'[r] # Idle
        BY <3>1 DEF Idle
      <3> QED
        BY <3>1, <3>2 DEF Renewing, At, Persists
    <2>2. \A t \in Dead : t \in issued
      BY DEF Dead
    <2> QED
      BY <2>1, <2>2, DeadGrows DEF SessionsKept, IssuedKept
  <1>3. Mild
    BY <1>2 DEF Mild, SessionsKept, ResetsKept, IssuedKept
  <1>4. ASSUME NEW r \in Requests
        PROVE  /\ Formed(req'[r], accounts', sessions', issued')
               /\ Barred(req'[r], accounts', sessions', resets', Dead')
    <2>1. CASE req'[r] = Idle
      BY <2>1, IdleHolds
    <2>2. CASE Persists(req'[r], req[r])
      <3>1. req'[r].bar \in Users => req'[r].bar = req[r].bar
        BY <2>2, SetsAssumption DEF Persists
      <3>2. req[r].bar \in Users => req[r].bar \in DOMAIN accounts
        BY OfRequest DEF Barred
      <3>3. req'[r].bar \in Users => ~accounts'[req'[r].bar].active
        BY <3>1, <3>2
      <3> QED
        BY <1>3, <2>2, <3>3, Undisturbed DEF Persists
    <2> QED
      BY <2>1, <2>2
  <1> QED
    BY <1>1, <1>4 DEF SInv

\* Requests that are not touched.
LEMMA SameRequests ==
    ASSUME SInv, UNCHANGED req
    PROVE  /\ req' \in [Requests -> Request]
           /\ \A r \in Requests : Persists(req'[r], req[r])
           /\ \A r \in Requests : req'[r].bar \in Users =>
                 req'[r].bar \in DOMAIN accounts /\ ~accounts[req'[r].bar].active
  BY OfRequest DEF SInv, TypeOK, Persists, Barred

LEMMA RestartKeeps == ASSUME SInv, Restart PROVE SInv'
  <1>1. UNCHANGED <<accounts, sessions, issued, resets>>
    BY DEF Restart
  <1>2. AccountsKept /\ IssuedKept /\ SessionsKept /\ ResetsKept
    BY <1>1, SameAccounts, SameIssued, FewerSessions, FewerResets
  <1>3. LimitersTyped'
    <2>1. NoAttempts \in LoginWindow
      BY WindowAssumption DEF NoAttempts, LoginWindow
    <2> QED
      BY <2>1 DEF Restart
  <1>4. \A r \in Requests : req'[r] = Idle
    BY DEF Restart
  <1>5. req' \in [Requests -> Request]
    BY IdleType DEF Restart
  <1>6. Idle.bar \notin Users
    BY SetsAssumption DEF Idle
  <1> QED
    BY <1>1, <1>2, <1>3, <1>4, <1>5, <1>6, TablesTyped, GlobalStep DEF AccountsKept

LEMMA CreateUserKeeps ==
    ASSUME SInv, NEW u \in Users, NEW p \in Passwords, CreateUser(u, p) PROVE SInv'
  <1>1. UNCHANGED <<sessions, issued, resets, req>> /\ LimitersTyped'
    BY DEF CreateUser, SInv, TypeOK
  <1>2. AccountsKept
    BY NewAccount DEF CreateUser
  <1>3. IssuedKept /\ SessionsKept /\ ResetsKept
    BY <1>1, <1>2, SameIssued, FewerSessions, FewerResets DEF AccountsKept
  <1> QED
    BY <1>1, <1>2, <1>3, SameRequests, GlobalStep DEF AccountsKept

\* One account becomes active or inactive.
LEMMA ActiveChanged ==
    ASSUME SInv, NEW u \in DOMAIN accounts, NEW b \in BOOLEAN,
           accounts' = [accounts EXCEPT ![u].active = b]
    PROVE  /\ IsTable(accounts', Users, Account)
           /\ DOMAIN accounts' = DOMAIN accounts
           /\ accounts'[u].active = b
           /\ \A x \in DOMAIN accounts \ {u} : accounts'[x].active = accounts[x].active
  <1> DEFINE a == [accounts[u] EXCEPT !.active = b]
  <1>1. a \in Account /\ a.active = b
    BY TablesTyped DEF IsTable, Account
  <1> HIDE DEF a
  <1>2. accounts' = [accounts EXCEPT ![u] = a]
    BY DEF a
  <1> QED
    BY <1>1, <1>2, TablesTyped DEF IsTable

LEMMA SuspendKeeps == ASSUME SInv, NEW u \in Users, Suspend(u) PROVE SInv'
  <1>1. UNCHANGED <<sessions, issued, resets, req>> /\ LimitersTyped'
    BY DEF Suspend, SInv, TypeOK
  <1>2. /\ IsTable(accounts', Users, Account)
        /\ DOMAIN accounts' = DOMAIN accounts
        /\ accounts'[u].active = FALSE
        /\ \A x \in DOMAIN accounts \ {u} : accounts'[x].active = accounts[x].active
    BY ActiveChanged DEF Suspend
  <1>3. IssuedKept /\ SessionsKept /\ ResetsKept
    BY <1>1, <1>2, SameIssued, FewerSessions, FewerResets
  <1>4. \A r \in Requests : req'[r].bar \in Users /\ req'[r].bar \in DOMAIN accounts =>
                                ~accounts'[req'[r].bar].active
    BY <1>1, <1>2, SameRequests
  <1> QED
    BY <1>1, <1>2, <1>3, <1>4, SameRequests, GlobalStep

LEMMA ReactivateKeeps == ASSUME SInv, NEW u \in Users, Reactivate(u) PROVE SInv'
  <1>1. UNCHANGED <<sessions, issued, resets>> /\ LimitersTyped'
    BY DEF Reactivate, SInv, TypeOK
  <1>2. /\ IsTable(accounts', Users, Account)
        /\ DOMAIN accounts' = DOMAIN accounts
        /\ \A x \in DOMAIN accounts \ {u} : accounts'[x].active = accounts[x].active
    BY ActiveChanged DEF Reactivate
  <1>3. IssuedKept /\ SessionsKept /\ ResetsKept
    BY <1>1, <1>2, SameIssued, FewerSessions, FewerResets
  <1>4. req' = [r \in Requests |-> IF req[r].bar = u THEN [req[r] EXCEPT !.bar = None]
                                   ELSE req[r]]
    BY DEF Reactivate
  <1>5. ASSUME NEW r \in Requests
        PROVE  /\ req'[r] \in Request /\ Persists(req'[r], req[r])
               /\ req'[r].bar \in Users /\ req'[r].bar \in DOMAIN accounts =>
                     ~accounts'[req'[r].bar].active
    <2>1. /\ req[r] \in Request
          /\ req[r].bar \in Users => ~accounts[req[r].bar].active
      BY OfRequest DEF Barred
    <2>2. CASE req[r].bar = u
      <3>1. req'[r] = [req[r] EXCEPT !.bar = None]
        BY <1>4, <2>2
      <3> QED
        BY <2>1, <3>1, SetsAssumption DEF Request, Persists
    <2>3. CASE req[r].bar # u
      BY <1>2, <1>4, <2>1, <2>3 DEF Persists
    <2> QED
      BY <2>2, <2>3
  <1>6. req' \in [Requests -> Request]
    BY <1>4, <1>5
  <1> QED
    BY <1>1, <1>2, <1>3, <1>5, <1>6, GlobalStep

LEMMA SweepSessionsKeeps == ASSUME SInv, SweepSessions PROVE SInv'
  <1>1. UNCHANGED <<accounts, issued, resets, req>> /\ LimitersTyped'
    BY DEF SweepSessions, SInv, TypeOK
  <1>2. AccountsKept /\ IssuedKept /\ SessionsKept /\ ResetsKept
    BY <1>1, SameAccounts, SameIssued, FewerSessions, FewerResets DEF SweepSessions
  <1> QED
    BY <1>1, <1>2, SameRequests, GlobalStep DEF AccountsKept

LEMMA SweepResetsKeeps == ASSUME SInv, SweepResets PROVE SInv'
  <1>1. UNCHANGED <<accounts, sessions, issued, req>> /\ LimitersTyped'
    BY DEF SweepResets, SInv, TypeOK
  <1>2. AccountsKept /\ IssuedKept /\ SessionsKept /\ ResetsKept
    BY <1>1, SameAccounts, SameIssued, FewerSessions, FewerResets DEF SweepResets
  <1> QED
    BY <1>1, <1>2, SameRequests, GlobalStep DEF AccountsKept

LEMMA TickKeeps == ASSUME SInv, Tick PROVE SInv'
  <1>1. UNCHANGED <<accounts, issued>>
    BY DEF Tick
  <1>2. AccountsKept /\ IssuedKept
    BY <1>1, SameAccounts, SameIssued
  <1>3. LimitersTyped'
    <2>1. \A c \in Clients : Aged(logins[c]) \in LoginWindow /\ Aged(asks[c]) \in LoginWindow
      BY OfRequest, WindowType DEF SInv, TypeOK
    <2> QED
      BY <2>1 DEF Tick
  <1>4. SessionsKept
    <2>1. ASSUME NEW t \in DOMAIN sessions
          PROVE  /\ Later(sessions[t]) \in Session /\ Later(sessions[t]).user = sessions[t].user
                 /\ Expired(sessions[t]) => Expired(Later(sessions[t]))
      <3>1. sessions[t] \in Session
        BY TablesTyped DEF IsTable
      <3>2. /\ Later(sessions[t]) \in Session /\ Later(sessions[t]).user = sessions[t].user
        BY <3>1, TTLAssumption, LaterType DEF Session
      <3>3. Expired(sessions[t]) => Later(sessions[t]) = sessions[t]
        BY <3>1 DEF Later, Expired, Session
      <3> QED
        BY <3>2, <3>3
    <2>2. /\ DOMAIN sessions' = DOMAIN sessions
          /\ \A t \in DOMAIN sessions : sessions'[t] = Later(sessions[t])
      BY DEF Tick
    <2>3. IsTable(sessions', Tokens, Session)
      BY <2>1, TablesTyped DEF Tick, IsTable
    <2>4. \A t \in Dead \cap DOMAIN sessions : Expired(sessions[t])
      BY DEF Dead
    <2> QED
      BY <1>1, <2>1, <2>2, <2>3, <2>4, TablesTyped DEF SessionsKept
  <1>5. ResetsKept
    <2>1. ASSUME NEW t \in DOMAIN resets
          PROVE  /\ Later(resets[t]) \in ResetToken /\ Later(resets[t]).user = resets[t].user
                 /\ Expired(resets[t]) => Expired(Later(resets[t]))
      <3>1. resets[t] \in ResetToken
        BY TablesTyped DEF IsTable
      <3>2. /\ Later(resets[t]) \in ResetToken /\ Later(resets[t]).user = resets[t].user
        BY <3>1, TTLAssumption, LaterType DEF ResetToken
      <3>3. Expired(resets[t]) => Later(resets[t]) = resets[t]
        BY <3>1 DEF Later, Expired, ResetToken
      <3> QED
        BY <3>2, <3>3
    <2>2. /\ DOMAIN resets' = DOMAIN resets
          /\ \A t \in DOMAIN resets : resets'[t] = Later(resets[t])
      BY DEF Tick
    <2>3. IsTable(resets', ResetTokens, ResetToken)
      BY <2>1, TablesTyped DEF Tick, IsTable
    <2> QED
      BY <1>1, <2>1, <2>2, <2>3, TablesTyped DEF ResetsKept, Valid
  <1>6. req' = [r \in Requests |-> IF At(r, "renewing") THEN Later(req[r]) ELSE req[r]]
    BY DEF Tick
  <1>7. ASSUME NEW r \in Requests
        PROVE  req'[r] \in Request /\ Persists(req'[r], req[r])
    <2>1. req[r] \in Request
      BY OfRequest
    <2>2. CASE req'[r] = req[r]
      BY <2>1, <2>2 DEF Persists
    <2>3. CASE req'[r] = Later(req[r])
      <3> DEFINE left == IF req[r].left < 0 THEN req[r].left ELSE req[r].left - 1
      <3>1. left \in -1 .. SessionTTL
        BY <2>1, TTLAssumption DEF Request
      <3>2. Later(req[r]) = [req[r] EXCEPT !.left = left]
        BY DEF Later
      <3> HIDE DEF left
      <3> QED
        BY <2>1, <2>3, <3>1, <3>2 DEF Request, Persists
    <2> QED
      BY <1>6, <2>2, <2>3
  <1>8. req' \in [Requests -> Request]
    BY <1>6, <1>7
  <1>9. \A r \in Requests : req'[r].bar \in Users /\ req'[r].bar \in DOMAIN accounts =>
                                ~accounts'[req'[r].bar].active
    BY <1>1, <1>7, OfRequest, SetsAssumption DEF Persists, Barred
  <1> QED
    BY <1>2, <1>3, <1>4, <1>5, <1>7, <1>8, <1>9, GlobalStep DEF AccountsKept
-----------------------------------------------------------------------------
\* The invariant.

LEMMA SessionsInit == Init => SInv
  <1> SUFFICES ASSUME Init PROVE SInv
    OBVIOUS
  <1>1. /\ accounts \in [DOMAIN accounts -> Account] /\ DOMAIN accounts \subseteq Users
    BY DEF Init
  <1>2. DOMAIN sessions = {} /\ DOMAIN resets = {} /\ issued = {}
    BY DEF Init
  <1>3. sessions \in [DOMAIN sessions -> Session] /\ resets \in [DOMAIN resets -> ResetToken]
    BY DEF Init
  <1>4. logins \in [Clients -> LoginWindow] /\ asks \in [Clients -> LoginWindow]
    <2>1. NoAttempts \in LoginWindow
      BY WindowAssumption DEF NoAttempts, LoginWindow
    <2> QED
      BY <2>1 DEF Init
  <1>5. req \in [Requests -> Request] /\ \A r \in Requests : req[r] = Idle
    BY IdleType DEF Init
  <1>6. TypeOK
    BY <1>1, <1>2, <1>3, <1>4, <1>5 DEF TypeOK
  <1> QED
    BY <1>5, <1>6, IdleHolds DEF SInv

LEMMA ArriveKeeps == ASSUME SInv, NEW r \in Requests, Arrive(r) PROVE SInv'
  BY VisitKeeps, BeginLoginKeeps, BeginRegisterKeeps, BeginResetKeeps, BeginConfirmKeeps
  DEF Arrive

LEMMA StepKeeps == ASSUME SInv, NEW r \in Requests, Step(r) PROVE SInv'
  BY ReadSessionKeeps, NoSessionKeeps, RefreshKeeps, ResolveKeeps, ServeKeeps, LogoutKeeps,
     VerifyKeeps, OpenSessionKeeps, CountFailureKeeps, ClearFailuresKeeps, CountResetKeeps,
     IssueResetKeeps, ReadResetKeeps, ChangePasswordKeeps, ConsumeResetKeeps,
     RevokeSessionsKeeps
  DEF Step

LEMMA StutterKeeps == ASSUME SInv, UNCHANGED vars PROVE SInv'
  <1>1. UNCHANGED <<accounts, sessions, issued, resets, logins, asks, req>>
    BY DEF vars
  <1>2. LimitersTyped'
    BY <1>1 DEF SInv, TypeOK
  <1>3. AccountsKept /\ IssuedKept /\ SessionsKept /\ ResetsKept
    BY <1>1, SameAccounts, SameIssued, FewerSessions, FewerResets
  <1> QED
    BY <1>1, <1>2, <1>3, SameRequests, GlobalStep DEF AccountsKept

LEMMA SessionsStep == SInv /\ [Next]_vars => SInv'
  <1> SUFFICES ASSUME SInv, [Next]_vars PROVE SInv'
    OBVIOUS
  <1>1. CASE \E r \in Requests : Arrive(r) \/ Step(r) \/ Abandon(r)
    BY <1>1, ArriveKeeps, StepKeeps, AbandonKeeps
  <1>2. CASE \E u \in Users : Suspend(u) \/ Reactivate(u)
    BY <1>2, SuspendKeeps, ReactivateKeeps
  <1>3. CASE \E u \in Users, p \in Passwords : CreateUser(u, p)
    BY <1>3, CreateUserKeeps
  <1>4. CASE Restart \/ SweepSessions \/ SweepResets \/ Tick
    BY <1>4, RestartKeeps, SweepSessionsKeeps, SweepResetsKeeps, TickKeeps
  <1>5. CASE UNCHANGED vars
    BY <1>5, StutterKeeps
  <1> QED
    BY <1>1, <1>2, <1>3, <1>4, <1>5 DEF Next

LEMMA SessionsInvariant == Spec => []SInv
  BY SessionsInit, SessionsStep, PTL DEF Spec

-----------------------------------------------------------------------------
\* Theorems.

\* Rows and requests have their types, a session or a reset token belongs to
\* an account that exists, and none is stored that was not drawn.
THEOREM SessionsTypeCorrect == Spec => []TypeOK
  <1>1. SInv => TypeOK
    BY DEF SInv
  <1> QED
    BY <1>1, SessionsInvariant, PTL

\* Nobody is served on a session or reset token that had ended when the
\* request arrived, nor a user suspended before it arrived and ever since,
\* whatever was renewed, deleted, reset or swept in between.
THEOREM EndedSessionsServeNobody == Spec => []NoServiceAfterEnd
  <1>1. SInv => NoServiceAfterEnd
    BY DEF SInv, NoServiceAfterEnd, Barred, Served
  <1> QED
    BY <1>1, SessionsInvariant, PTL

\* After a reset none of the sessions is left that were open when it changed
\* the password: a renewal in flight brings none of them back.
THEOREM ResetsRevoke == Spec => []ResetRevokes
  <1>1. SInv => ResetRevokes
    BY DEF SInv, ResetRevokes, Formed
  <1> QED
    BY <1>1, SessionsInvariant, PTL

\* New keys of a table are tokens drawn just now.
OnlyNewKeys ==
    \A t \in issued : t \in DOMAIN sessions' \cup DOMAIN resets' =>
                         t \in DOMAIN sessions \cup DOMAIN resets

LEMMA StepDrawsTokens == ASSUME NEW r \in Requests, Step(r) PROVE OnlyNewKeys
  <1>1. CASE UNCHANGED <<sessions, resets>>
    BY <1>1 DEF OnlyNewKeys
  <1>2. CASE Refresh(r)
    <2>1. DOMAIN sessions' = DOMAIN sessions /\ resets' = resets
      BY <1>2 DEF Refresh
    <2> QED
      BY <2>1 DEF OnlyNewKeys
  <1>3. CASE Logout(r)
    <2>1. DOMAIN sessions' \subseteq DOMAIN sessions /\ resets' = resets
      BY <1>3 DEF Logout, Without, Restrict
    <2> QED
      BY <2>1 DEF OnlyNewKeys
  <1>4. CASE OpenSession(r)
    BY <1>4 DEF OpenSession, Put, OnlyNewKeys
  <1>5. CASE IssueReset(r)
    BY <1>5 DEF IssueReset, Put, OnlyNewKeys
  <1>6. CASE ConsumeReset(r)
    <2>1. DOMAIN resets' \subseteq DOMAIN resets /\ sessions' = sessions
      BY <1>6 DEF ConsumeReset, Without, Restrict
    <2> QED
      BY <2>1 DEF OnlyNewKeys
  <1>7. CASE RevokeSessions(r)
    <2>1. DOMAIN sessions' \subseteq DOMAIN sessions /\ resets' = resets
      BY <1>7 DEF RevokeSessions, Without, Restrict
    <2> QED
      BY <2>1 DEF OnlyNewKeys
  <1> QED
    BY <1>1, <1>2, <1>3, <1>4, <1>5, <1>6, <1>7
    DEF Step, ReadSession, NoSession, Resolve, Serve, Verify, CountFailure, ClearFailures,
        CountReset, ReadReset, ChangePassword

LEMMA NextDrawsTokens == [Next]_vars => OnlyNewKeys
  <1> SUFFICES ASSUME [Next]_vars PROVE OnlyNewKeys
    OBVIOUS
  <1>1. CASE UNCHANGED <<sessions, resets>>
    BY <1>1 DEF OnlyNewKeys
  <1>2. CASE \E r \in Requests : Step(r)
    BY <1>2, StepDrawsTokens
  <1>3. CASE SweepSessions
    <2>1. DOMAIN sessions' \subseteq DOMAIN sessions /\ resets' = resets
      BY <1>3 DEF SweepSessions, Without, Restrict
    <2> QED
      BY <2>1 DEF OnlyNewKeys
  <1>4. CASE SweepResets
    <2>1. DOMAIN resets' \subseteq DOMAIN resets /\ sessions' = sessions
      BY <1>4 DEF SweepResets, Without, Restrict
    <2> QED
      BY <2>1 DEF OnlyNewKeys
  <1>5. CASE Tick
    <2>1. DOMAIN sessions' = DOMAIN sessions /\ DOMAIN resets' = DOMAIN resets
      BY <1>5 DEF Tick
    <2> QED
      BY <2>1 DEF OnlyNewKeys
  <1> QED
    BY <1>1, <1>2, <1>3, <1>4, <1>5
    DEF Next, Arrive, Visit, BeginLogin, BeginRegister, BeginReset, BeginConfirm, Abandon,
        Restart, CreateUser, Suspend, Reactivate, vars

\* A session or a reset token that has left its table is never in it again.
THEOREM EndedIsEnded == Spec => EndedStaysEnded
  <1>1. [Next]_vars => [\A t \in issued :
                          t \notin DOMAIN sessions \cup DOMAIN resets
                          => t \notin DOMAIN sessions' \cup DOMAIN resets']_vars
    BY NextDrawsTokens DEF OnlyNewKeys
  <1> QED
    BY <1>1, PTL DEF Spec, EndedStaysEnded
=============================================================================
