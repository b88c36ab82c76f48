------------------------------ MODULE Sessions ------------------------------
(***************************************************************************)
(* Who may act: accounts, login sessions and password-reset tokens, with   *)
(* the handlers of internal/api that use them, the functions of            *)
(* internal/auth they call and the hourly sweeps of checklists-server.     *)
(*                                                                         *)
(* Nothing here runs in a transaction: every statement commits at once,    *)
(* and any other request may run between two of them.  Deadlines are kept  *)
(* as the time that is left, so the clock needs no bound.                  *)
(***************************************************************************)
EXTENDS LoginLimiter, Integers, FiniteSets, Functions

CONSTANTS
    Users,          \* usernames
    Passwords,
    Clients,        \* client addresses, as one server's limiters tell them apart
    Tokens,         \* the session tokens newSessionToken will draw
    ResetTokens,    \* the reset tokens newRandomToken will draw
    Requests,       \* requests in flight at the same time
    SessionTTL,     \* in ticks, like ResetTTL and Window
    ResetTTL,
    None            \* nil

ASSUME TTLAssumption == SessionTTL \in Nat \ {0} /\ ResetTTL \in Nat
ASSUME SetsAssumption ==
    /\ None \notin Users \cup Passwords \cup Clients \cup Tokens \cup ResetTokens
    /\ "ended" \notin Users \cup {None}
    /\ Tokens \cap ResetTokens = {}
    /\ IsFiniteSet(Requests)

VARIABLES
    accounts,       \* rows of users: is_active and the password the hash is of
    sessions,       \* rows of sessions by token
    issued,         \* session and reset tokens ever stored
    resets,         \* rows of password_reset_tokens by token
    logins, asks,   \* the limiters of /login and of /password-reset/request
    req             \* the requests

vars == <<accounts, sessions, issued, resets, logins, asks, req>>

-----------------------------------------------------------------------------
\* Rows.

Account == [active: BOOLEAN, password: Passwords]
Session == [user: Users, left: -1 .. SessionTTL]
ResetToken == [user: Users, left: -1 .. ResetTTL]

\* f with the row r under the key k.
Put(f, k, r) == [x \in DOMAIN f \cup {k} |-> IF x = k THEN r ELSE f[x]]

Without(f, K) == Restrict(f, DOMAIN f \ K)

\* now.After(ExpiresAt); a row's deadline is met exactly when nothing is left.
Expired(row) == row.left < 0

\* The token's row exists and has not expired.
Valid(rows, t) == t \in DOMAIN rows /\ ~Expired(rows[t])

SessionsOf(u) == {t \in DOMAIN sessions : sessions[t].user = u}

Later(row) == [row EXCEPT !.left = IF @ < 0 THEN @ ELSE @ - 1]

-----------------------------------------------------------------------------
\* Requests.
\*
\* arrived - renewing - resolving - serving       withSession, then any handler
\* ... - leaving                                  or handleLogout
\* allowed - verified - opened, failed            handleLogin
\* registered - verified                          handleRegister
\* asking - counted                               handlePasswordResetRequest
\* confirming - authorized - changed - consumed - revoked - verified
\*                                                handlePasswordResetConfirm
PCs == {"idle", "arrived", "renewing", "resolving", "serving", "leaving",
        "allowed", "verified", "opened", "failed", "registered", "asking",
        "counted", "confirming", "authorized", "changed", "consumed", "revoked"}

Kinds == {"visit", "login", "register", "reset", "confirm"}

\* "bar" and "before" only record history.  bar: what should keep the request
\* from being served since it arrived, namely that its token had "ended" by
\* then, or that its user was suspended and has been ever since.  before: the
\* user's sessions when a reset changed the password.
Request == [pc: PCs, kind: Kinds, client: Clients \cup {None}, user: Users \cup {None},
            token: Tokens \cup ResetTokens \cup {None}, password: Passwords \cup {None},
            left: -1 .. SessionTTL, bar: Users \cup {None, "ended"}, before: SUBSET Tokens]

Idle == [pc |-> "idle", kind |-> "visit", client |-> None, user |-> None,
         token |-> None, password |-> None, left |-> 0, bar |-> None, before |-> {}]

At(r, pc) == req[r].pc = pc

Goto(r, pc) == req' = [req EXCEPT ![r].pc = pc]

Finish(r) == req' = [req EXCEPT ![r] = Idle]

\* The accounts of a fresh install and of any later day; nobody logged in.
Init ==
    /\ accounts \in UNION {[S -> Account] : S \in SUBSET Users}
    /\ sessions = [t \in {} |-> None]
    /\ issued = {}
    /\ resets = [t \in {} |-> None]
    /\ logins = [c \in Clients |-> NoAttempts]
    /\ asks = [c \in Clients |-> NoAttempts]
    /\ req = [r \in Requests |-> Idle]

-----------------------------------------------------------------------------
\* A request with a session cookie: withSession and CurrentUser.

\* A session has ended when its row is gone, or when it has expired and no
\* request that read it in time is still about to renew it.
Renewing(t) == \E r \in Requests : At(r, "renewing") /\ req[r].token = t

SessionBar(t) ==
    IF t \notin DOMAIN sessions \/ (Expired(sessions[t]) /\ ~Renewing(t)) THEN "ended"
    ELSE LET u == sessions[t].user IN IF accounts[u].active THEN None ELSE u

\* A browser keeps its cookie whatever happens to the session.
Visit(r) ==
    /\ At(r, "idle")
    /\ \E t \in issued \cap Tokens :
          req' = [req EXCEPT ![r] = [Idle EXCEPT !.pc = "arrived", !.token = t,
                                                 !.bar = SessionBar(t)]]
    /\ UNCHANGED <<accounts, sessions, issued, resets, logins, asks>>

\* sessions.Get, and whether less than half the lifetime remains.
ReadSession(r) ==
    LET q == req[r] IN
    /\ At(r, "arrived")
    /\ Valid(sessions, q.token)
    /\ req' = [req EXCEPT
         ![r].user = sessions[q.token].user,
         ![r].left = SessionTTL,
         ![r].pc   = IF sessions[q.token].left < SessionTTL \div 2
                     THEN "renewing" ELSE "resolving"]
    /\ UNCHANGED <<accounts, sessions, issued, resets, logins, asks>>

\* Faulty: an upsert brings a deleted session back.
RefreshUpserts(r) ==
    LET q == req[r] IN
    /\ At(r, "renewing")
    /\ sessions' = Put(sessions, q.token, [user |-> q.user, left |-> q.left])
    /\ Goto(r, "resolving")
    /\ UNCHANGED <<accounts, issued, resets, logins, asks>>

\* sessions.Refresh to the deadline computed at the read: an UPDATE, which
\* matches no row if the session has been deleted meanwhile.
Refresh(r) ==
    LET q == req[r] IN
    /\ At(r, "renewing")
    /\ sessions' = IF q.token \in DOMAIN sessions
                   THEN [sessions EXCEPT ![q.token].left = q.left]
                   ELSE sessions
    /\ Goto(r, "resolving")
    /\ UNCHANGED <<accounts, issued, resets, logins, asks>>

\* withSession does not look at the route, so which handler it is called for is
\* left open until here.  With nobody found behind the request most answer 401,
\* while handleLogout deletes the session the cookie names all the same.
Resolved(r) == Goto(r, "serving") \/ Goto(r, "leaving")

Unresolved(r) == Finish(r) \/ Goto(r, "leaving")

NoSession(r) ==
    /\ At(r, "arrived")
    /\ ~Valid(sessions, req[r].token)
    /\ Unresolved(r)
    /\ UNCHANGED <<accounts, sessions, issued, resets, logins, asks>>

\* Faulty: whoever has a session is served.
ResolveTrusting(r) ==
    /\ At(r, "resolving")
    /\ Resolved(r)
    /\ UNCHANGED <<accounts, sessions, issued, resets, logins, asks>>

\* users.GetByID, whose is_active is as of now and not of the login.
Resolve(r) ==
    /\ At(r, "resolving")
    /\ IF accounts[req[r].user].active THEN Resolved(r) ELSE Unresolved(r)
    /\ UNCHANGED <<accounts, sessions, issued, resets, logins, asks>>

\* The handler behind RequireAuth.
Serve(r) ==
    /\ At(r, "serving")
    /\ Finish(r)
    /\ UNCHANGED <<accounts, sessions, issued, resets, logins, asks>>

Logout(r) ==
    /\ At(r, "leaving")
    /\ sessions' = Without(sessions, {req[r].token})
    /\ Finish(r)
    /\ UNCHANGED <<accounts, issued, resets, logins, asks>>

-----------------------------------------------------------------------------
\* Login.  A request the limiter turns away leaves everything as it is.

BeginLogin(r) ==
    /\ At(r, "idle")
    /\ Tokens \ issued # {}  \* the bound on logins
    /\ \E c \in Clients, u \in Users, p \in Passwords :
          /\ Allows(logins[c])
          /\ logins' = [logins EXCEPT ![c] = AfterAllow(@)]
          /\ req' = [req EXCEPT ![r] = [Idle EXCEPT !.pc = "allowed", !.kind = "login",
                                            !.client = c, !.user = u, !.password = p]]
    /\ UNCHANGED <<accounts, sessions, issued, resets, asks>>

\* Self-registration, the user logged straight in; a taken name is a 409.
BeginRegister(r) ==
    /\ At(r, "idle")
    /\ \E u \in Users \ DOMAIN accounts, p \in Passwords :
          /\ accounts' = Put(accounts, u, [active |-> TRUE, password |-> p])
          /\ req' = [req EXCEPT ![r] = [Idle EXCEPT !.pc = "registered",
                                            !.kind = "register", !.user = u, !.password = p]]
    /\ UNCHANGED <<sessions, issued, resets, logins, asks>>

LoggingIn(r) == req[r].pc \in {"allowed", "registered", "revoked"}

Accepts(u, p) ==
    u \in DOMAIN accounts /\ accounts[u].active /\ accounts[u].password = p

\* Only handleLogin has a limiter to tell of a failure.
LoginFails(r) == IF req[r].kind = "login" THEN Goto(r, "failed") ELSE Finish(r)

\* GetByUsername, is_active and the password hash, all of one row.
Verify(r) ==
    /\ LoggingIn(r)
    /\ IF Accepts(req[r].user, req[r].password) THEN Goto(r, "verified") ELSE LoginFails(r)
    /\ UNCHANGED <<accounts, sessions, issued, resets, logins, asks>>

\* sessions.Create with a token never drawn before.
OpenSession(r) ==
    /\ At(r, "verified")
    /\ \E t \in Tokens \ issued :
          /\ sessions' = Put(sessions, t, [user |-> req[r].user, left |-> SessionTTL])
          /\ issued' = issued \cup {t}
    /\ IF req[r].kind = "login" THEN Goto(r, "opened") ELSE Finish(r)
    /\ UNCHANGED <<accounts, resets, logins, asks>>

CountFailure(r) ==
    /\ At(r, "failed")
    /\ logins' = [logins EXCEPT ![req[r].client] = RecordFailure(@)]
    /\ Finish(r)
    /\ UNCHANGED <<accounts, sessions, issued, resets, asks>>

ClearFailures(r) ==
    /\ At(r, "opened")
    /\ logins' = [logins EXCEPT ![req[r].client] = RecordSuccess(@)]
    /\ Finish(r)
    /\ UNCHANGED <<accounts, sessions, issued, resets, asks>>

-----------------------------------------------------------------------------
\* Password reset.  A request counts as an attempt whatever becomes of it, but
\* Allow and RecordFailure take the mutex one after the other.

BeginReset(r) ==
    /\ At(r, "idle")
    /\ ResetTokens \ issued # {}  \* the bound on reset requests
    /\ \E c \in Clients, u \in Users :
          /\ Allows(asks[c])
          /\ asks' = [asks EXCEPT ![c] = AfterAllow(@)]
          /\ req' = [req EXCEPT ![r] = [Idle EXCEPT !.pc = "asking", !.kind = "reset",
                                            !.client = c, !.user = u]]
    /\ UNCHANGED <<accounts, sessions, issued, resets, logins>>

CountReset(r) ==
    /\ At(r, "asking")
    /\ asks' = [asks EXCEPT ![req[r].client] = RecordFailure(@)]
    /\ Goto(r, "counted")
    /\ UNCHANGED <<accounts, sessions, issued, resets, logins>>

\* Faulty: a token for whatever name was asked for.
IssueResetForAnyone(r) ==
    /\ At(r, "counted")
    /\ \E t \in ResetTokens \ issued :
          /\ resets' = Put(resets, t, [user |-> req[r].user, left |-> ResetTTL])
          /\ issued' = issued \cup {t}
    /\ Finish(r)
    /\ UNCHANGED <<accounts, sessions, logins, asks>>

\* RequestPasswordReset for an active user with an email.  Nothing learns the
\* token before it is stored, so reading the user is part of storing it.
IssueReset(r) ==
    /\ At(r, "counted")
    /\ req[r].user \in DOMAIN accounts /\ accounts[req[r].user].active
    /\ \E t \in ResetTokens \ issued :
          /\ resets' = Put(resets, t, [user |-> req[r].user, left |-> ResetTTL])
          /\ issued' = issued \cup {t}
    /\ Finish(r)
    /\ UNCHANGED <<accounts, sessions, logins, asks>>

\* Someone follows the mailed link, any time later and as often as they like.
BeginConfirm(r) ==
    /\ At(r, "idle")
    /\ \E t \in issued \cap ResetTokens, p \in Passwords :
          req' = [req EXCEPT ![r] =
                    [Idle EXCEPT !.pc = "confirming", !.kind = "confirm", !.token = t,
                                 !.password = p,
                                 !.bar = IF Valid(resets, t) THEN None ELSE "ended"]]
    /\ UNCHANGED <<accounts, sessions, issued, resets, logins, asks>>

\* tokens.Get and the deadline; users.GetByID does not look at is_active.
ReadReset(r) ==
    LET t == req[r].token IN
    /\ At(r, "confirming")
    /\ IF Valid(resets, t)
       THEN req' = [req EXCEPT ![r].pc = "authorized", ![r].user = resets[t].user]
       ELSE Finish(r)
    /\ UNCHANGED <<accounts, sessions, issued, resets, logins, asks>>

ChangePassword(r) ==
    LET q == req[r] IN
    /\ At(r, "authorized")
    /\ accounts' = [accounts EXCEPT ![q.user].password = q.password]
    /\ req' = [req EXCEPT ![r].pc = "changed", ![r].before = SessionsOf(q.user)]
    /\ UNCHANGED <<sessions, issued, resets, logins, asks>>

\* tokens.Delete, which does not mind a row that is gone already.
ConsumeReset(r) ==
    /\ At(r, "changed")
    /\ resets' = Without(resets, {req[r].token})
    /\ Goto(r, "consumed")
    /\ UNCHANGED <<accounts, sessions, issued, logins, asks>>

\* Faulty: spares the sessions that are due for renewal.
RevokeFreshSessions(r) ==
    /\ At(r, "consumed")
    /\ sessions' = Without(sessions, {t \in SessionsOf(req[r].user) :
                                         sessions[t].left >= SessionTTL \div 2})
    /\ Goto(r, "revoked")
    /\ UNCHANGED <<accounts, issued, resets, logins, asks>>

\* sessions.DeleteByUserID; the user is then logged in (Verify, OpenSession).
RevokeSessions(r) ==
    /\ At(r, "consumed")
    /\ sessions' = Without(sessions, SessionsOf(req[r].user))
    /\ Goto(r, "revoked")
    /\ UNCHANGED <<accounts, issued, resets, logins, asks>>

-----------------------------------------------------------------------------
\* Failures, administrators, the clock and the background workers.

\* A malformed form, a statement that fails, a missing CSRF token, a client
\* that goes away: the request ends and what it did stays.  A login that could
\* not store its session counts as failed; the limiter's own steps cannot fail.
Abandon(r) ==
    /\ req[r].pc \notin {"idle", "failed", "opened"}
    /\ IF At(r, "verified") THEN LoginFails(r) ELSE Finish(r)
    /\ UNCHANGED <<accounts, sessions, issued, resets, logins, asks>>

\* The process stops and is started again: requests and limiters are lost.
Restart ==
    /\ req' = [r \in Requests |-> Idle]
    /\ logins' = [c \in Clients |-> NoAttempts]
    /\ asks' = [c \in Clients |-> NoAttempts]
    /\ UNCHANGED <<accounts, sessions, issued, resets>>

\* An administrator's new user, or one more row of an import: each row is a
\* statement of its own, and a taken name fails just that row.
CreateUser(u, p) ==
    /\ u \notin DOMAIN accounts
    /\ accounts' = Put(accounts, u, [active |-> TRUE, password |-> p])
    /\ UNCHANGED <<sessions, issued, resets, logins, asks, req>>

Suspend(u) ==
    /\ u \in DOMAIN accounts
    /\ accounts' = [accounts EXCEPT ![u].active = FALSE]
    /\ UNCHANGED <<sessions, issued, resets, logins, asks, req>>

Reactivate(u) ==
    /\ u \in DOMAIN accounts
    /\ accounts' = [accounts EXCEPT ![u].active = TRUE]
    /\ req' = [r \in Requests |-> IF req[r].bar = u THEN [req[r] EXCEPT !.bar = None]
                                  ELSE req[r]]
    /\ UNCHANGED <<sessions, issued, resets, logins, asks>>

\* The hourly sweeps of expired rows.
SweepSessions ==
    /\ sessions' = Without(sessions, {t \in DOMAIN sessions : Expired(sessions[t])})
    /\ UNCHANGED <<accounts, issued, resets, logins, asks, req>>

SweepResets ==
    /\ resets' = Without(resets, {t \in DOMAIN resets : Expired(resets[t])})
    /\ UNCHANGED <<accounts, sessions, issued, logins, asks, req>>

\* A renewal's deadline is fixed when it is computed, so it draws near too.
Tick ==
    /\ sessions' = [t \in DOMAIN sessions |-> Later(sessions[t])]
    /\ resets' = [t \in DOMAIN resets |-> Later(resets[t])]
    /\ logins' = [c \in Clients |-> Aged(logins[c])]
    /\ asks' = [c \in Clients |-> Aged(asks[c])]
    /\ req' = [r \in Requests |-> IF At(r, "renewing") THEN Later(req[r]) ELSE req[r]]
    /\ UNCHANGED <<accounts, issued>>

Arrive(r) ==
    Visit(r) \/ BeginLogin(r) \/ BeginRegister(r) \/ BeginReset(r) \/ BeginConfirm(r)

\* The next statement of a request that is being served.
Step(r) ==
    \/ ReadSession(r)
    \/ NoSession(r)
    \/ Refresh(r)
    \/ Resolve(r)
    \/ Serve(r)
    \/ Logout(r)
    \/ Verify(r)
    \/ OpenSession(r)
    \/ CountFailure(r)
    \/ ClearFailures(r)
    \/ CountReset(r)
    \/ IssueReset(r)
    \/ ReadReset(r)
    \/ ChangePassword(r)
    \/ ConsumeReset(r)
    \/ RevokeSessions(r)

Next ==
    \/ \E r \in Requests : Arrive(r) \/ Step(r) \/ Abandon(r)
    \/ \E u \in Users : Suspend(u) \/ Reactivate(u)
    \/ \E u \in Users, p \in Passwords : CreateUser(u, p)
    \/ Restart
    \/ SweepSessions
    \/ SweepResets
    \/ Tick

Spec == Init /\ [][Next]_vars

-----------------------------------------------------------------------------
\* Correctness.

\* The columns' types and foreign keys, and no token stored that was not drawn.
TypeOK ==
    /\ accounts \in [DOMAIN accounts -> Account] /\ DOMAIN accounts \subseteq Users
    /\ sessions \in [DOMAIN sessions -> Session] /\ DOMAIN sessions \subseteq Tokens
    /\ resets \in [DOMAIN resets -> ResetToken] /\ DOMAIN resets \subseteq ResetTokens
    /\ \A t \in DOMAIN sessions : sessions[t].user \in DOMAIN accounts
    /\ \A t \in DOMAIN resets : resets[t].user \in DOMAIN accounts
    /\ DOMAIN sessions \cup DOMAIN resets \subseteq issued
    /\ issued \subseteq Tokens \cup ResetTokens
    /\ logins \in [Clients -> LoginWindow] /\ asks \in [Clients -> LoginWindow]
    /\ req \in [Requests -> Request]

\* A token that has left its table never comes back, however a logout, a
\* reset or a sweep is interleaved with the renewal of the same session.
EndedStaysEnded ==
    [][\A t \in issued :
          t \notin DOMAIN sessions \cup DOMAIN resets
          => t \notin DOMAIN sessions' \cup DOMAIN resets']_vars

\* No request is served that arrived with a session or a reset token that had
\* ended, or for a user who was suspended before it arrived and still is
\* (CurrentUser re-reads both; ConfirmPasswordReset re-reads the token).
NoServiceAfterEnd ==
    \A r \in Requests :
        req[r].pc \in {"serving", "authorized", "changed", "consumed", "revoked"}
        => req[r].bar = None

\* A reset that has got past the revocation leaves none of the sessions that
\* were open when the password changed, renewals in flight included.
ResetRevokes ==
    \A r \in Requests :
        req[r].kind = "confirm" /\ req[r].pc \in {"revoked", "verified"}
        => req[r].before \cap DOMAIN sessions = {}

\* The limiters let through at most as many attempts beyond MaxAttempts as
\* other requests can be between their Allow and their RecordFailure.
Pending(c, pcs) == {r \in Requests : req[r].client = c /\ req[r].pc \in pcs}

FailuresBounded ==
    \A c \in Clients :
        /\ logins[c].count + Cardinality(Pending(c, {"allowed", "verified", "failed"}))
              <= MaxAttempts - 1 + Cardinality(Requests)
        /\ asks[c].count + Cardinality(Pending(c, {"asking"}))
              <= MaxAttempts - 1 + Cardinality(Requests)

\* A reset token changes one password once: of two confirmations in flight
\* with the same token only one gets as far as changing the password.
TokenUsedOnce ==
    \A r, s \in Requests :
        /\ r # s
        /\ req[r].kind = "confirm" /\ req[r].pc \in {"changed", "consumed", "revoked", "verified"}
        /\ req[s].kind = "confirm" /\ req[s].pc \in {"changed", "consumed", "revoked", "verified"}
        => req[r].token # req[s].token
=============================================================================
