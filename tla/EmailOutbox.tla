---------------------------- MODULE EmailOutbox ----------------------------
(***************************************************************************)
(* The notification emails: the outbox columns of the notifications table, *)
(* the worker of checklists-server that sweeps them, and the start and the *)
(* shutdown of the process the worker lives in.                            *)
(*                                                                         *)
(* The worker is one goroutine and its statements autocommit.  A mail goes *)
(* out between two of them, so the outbox and the mail server can only be  *)
(* kept in step as long as nothing fails in between.                       *)
(***************************************************************************)
EXTENDS Naturals, FiniteSets, FiniteSetsExt

CONSTANTS
    Ids,                \* notification ids, in the order of created_at
    Users,              \* recipients
    Addressed,          \* users whose email is not NULL; nothing changes it
    EmailBatchSize,
    MaxEmailAttempts

ASSUME IdsAssumption == Ids \subseteq Nat /\ IsFiniteSet(Ids)
ASSUME AddressedAssumption == Addressed \subseteq Users
ASSUME LimitsAssumption == EmailBatchSize \in Nat \ {0} /\ MaxEmailAttempts \in Nat \ {0}

VARIABLES
    rows,       \* the notifications: recipient, email_status, email_attempts
    active,     \* users with is_active
    smtp,       \* tenants.smtp_host is set
    server,     \* where main is
    worker,     \* runEmailDelivery: what it does, its batch, the recipient it read
    delivered,  \* how often the mail server took each mail: 0, 1 or 2 for more
    lost        \* mails it took without the outbox getting to know

vars == <<rows, active, smtp, server, worker, delivered, lost>>

Row == [user: Users, status: {"pending", "sent", "failed", "skipped"},
        attempts: 0 .. MaxEmailAttempts]

\* up - draining - waiting - down: SIGTERM, Shutdown of both HTTP servers, then
\* waitWithTimeout.  failing: a server could not listen, main is in log.Fatalf.
ServerStates == {"up", "draining", "waiting", "failing", "down"}

\* waiting for the ticker; at the next row of the batch; recipient read;
\* marking it skipped, or sending, and then marking what came of it.
WorkerStates == {"waiting", "next", "read", "skipping", "sending", "accepted",
                 "rejected", "done"}

Waiting == [pc |-> "waiting", batch |-> {}, recipient |-> FALSE]

\* The worker's context is cancelled by the signal; its statements then fail,
\* a mail.Send in progress, which takes no context, does not.
Cancelled == server \in {"draining", "waiting"}

At(pc) == worker.pc = pc

Goto(pc) == worker' = [worker EXCEPT !.pc = pc]

\* The loop takes the oldest row first.
Current == Min(worker.batch)

\* On to the next row of the batch, or back to the ticker.
Advance ==
    LET rest == worker.batch \ {Current}
    IN worker' = IF rest = {} THEN Waiting
                 ELSE [pc |-> "next", batch |-> rest, recipient |-> FALSE]

\* Faulty: takes up again what it has given up on.
UnsentIncluded == {n \in DOMAIN rows : rows[n].status \in {"pending", "failed"}}

Pending == {n \in DOMAIN rows : rows[n].status = "pending"}

\* ORDER BY created_at LIMIT: rows with fewer than that many before them.
Oldest(S) == {n \in S : Cardinality({m \in S : m < n}) < EmailBatchSize}

Init ==
    /\ rows = [n \in {} |-> 0]
    /\ active \in SUBSET Users
    /\ smtp \in BOOLEAN
    /\ server = "up"
    /\ worker = Waiting
    /\ delivered = [n \in Ids |-> 0]
    /\ lost = {}

-----------------------------------------------------------------------------
\* The rest of the server.  A request that was let in may commit until the
\* process is gone: Shutdown waits for it, but not for ever, and ends no handler.

\* A transaction that inserted a notification commits.  created_at is its
\* start, so an older row may appear after a younger one.
Notify(n, u) ==
    /\ server # "down"
    /\ n \notin DOMAIN rows
    /\ rows' = [x \in DOMAIN rows \cup {n} |->
                   IF x = n THEN [user |-> u, status |-> "pending", attempts |-> 0]
                   ELSE rows[x]]
    /\ UNCHANGED <<active, smtp, server, worker, delivered, lost>>

SetActive(u) ==
    /\ server # "down"
    /\ \/ active' = active \ {u}
       \/ active' = active \cup {u}
    /\ UNCHANGED <<rows, smtp, server, worker, delivered, lost>>

\* Both handlers insist on a host, so mail is never switched off again.
UpdateMailConfig ==
    /\ server # "down"
    /\ smtp' = TRUE
    /\ UNCHANGED <<rows, active, server, worker, delivered, lost>>

-----------------------------------------------------------------------------
\* The worker.

\* The ticker fires and ListPendingEmail finds something.
Sweep ==
    /\ server \in {"up", "failing"}
    /\ At("waiting")
    /\ Pending # {}
    /\ worker' = [pc |-> "next", batch |-> Oldest(Pending), recipient |-> FALSE]
    /\ UNCHANGED <<rows, active, smtp, server, delivered, lost>>

\* users.GetByID: can this recipient be mailed?
ReadRecipient ==
    /\ At("next") /\ ~Cancelled
    /\ LET u == rows[Current].user IN
       worker' = [worker EXCEPT !.pc = "read", !.recipient = u \in Addressed \cap active]
    /\ UNCHANGED <<rows, active, smtp, server, delivered, lost>>

\* tenants.GetByID, and the decision.
ReadTenant ==
    /\ At("read") /\ ~Cancelled
    /\ Goto(IF smtp /\ worker.recipient THEN "sending" ELSE "skipping")
    /\ UNCHANGED <<rows, active, smtp, server, delivered, lost>>

\* Marks the current row.
Mark(status, attempts) ==
    rows' = [rows EXCEPT ![Current].status = status, ![Current].attempts = attempts]

MarkSkipped ==
    /\ At("skipping") /\ ~Cancelled
    /\ Mark("skipped", rows[Current].attempts)
    /\ Advance
    /\ UNCHANGED <<active, smtp, server, delivered, lost>>

Deliver(n) == delivered' = [delivered EXCEPT ![n] = IF @ = 0 THEN 1 ELSE 2]

\* Faulty: an error of mail.Send goes unnoticed.
SendUnchecked ==
    /\ At("sending")
    /\ Deliver(Current) \/ UNCHANGED delivered
    /\ Goto("accepted")
    /\ UNCHANGED <<rows, active, smtp, server, lost>>

\* mail.Send: the mail server takes the mail, or does not, or takes it but its
\* reply does not arrive and looks like a failure.
Send ==
    /\ At("sending")
    /\ \/ Deliver(Current) /\ Goto("accepted") /\ UNCHANGED lost
       \/ Goto("rejected") /\ UNCHANGED <<delivered, lost>>
       \/ Deliver(Current) /\ Goto("rejected") /\ lost' = lost \cup {Current}
    /\ UNCHANGED <<rows, active, smtp, server>>

\* Faulty: only the time is noted.
MarkSentTimeOnly ==
    /\ At("accepted") /\ ~Cancelled
    /\ Advance
    /\ UNCHANGED <<rows, active, smtp, server, delivered, lost>>

MarkSent ==
    /\ At("accepted") /\ ~Cancelled
    /\ Mark("sent", rows[Current].attempts)
    /\ Advance
    /\ UNCHANGED <<active, smtp, server, delivered, lost>>

\* Faulty: the attempt being recorded is not counted against the limit.
GivesUpLate(attempts) == attempts >= MaxEmailAttempts

GivesUp(attempts) == attempts + 1 >= MaxEmailAttempts

\* Faulty: takes the mail server's refusal for the end of it.
MarkFailedSkips ==
    /\ At("rejected") /\ ~Cancelled
    /\ Mark("skipped", rows[Current].attempts)
    /\ Advance
    /\ UNCHANGED <<active, smtp, server, delivered, lost>>

MarkFailed ==
    LET attempts == rows[Current].attempts IN
    /\ At("rejected") /\ ~Cancelled
    /\ Mark(IF GivesUp(attempts) THEN "failed" ELSE "pending", attempts + 1)
    /\ Advance
    /\ UNCHANGED <<active, smtp, server, delivered, lost>>

\* Faulty: the error ends the sweep.
StatementFailsAborts ==
    /\ worker.pc \in {"next", "read", "skipping", "accepted", "rejected"}
    /\ lost' = IF At("accepted") THEN lost \cup {Current} ELSE lost
    /\ worker' = Waiting
    /\ UNCHANGED <<rows, active, smtp, server, delivered>>

\* A statement of deliverOne fails: the error is logged, the row stays as it
\* is and the loop goes on.
StatementFails ==
    /\ worker.pc \in {"next", "read", "skipping", "accepted", "rejected"}
    /\ lost' = IF At("accepted") THEN lost \cup {Current} ELSE lost
    /\ Advance
    /\ UNCHANGED <<rows, active, smtp, server, delivered>>

\* ctx.Done() while the worker waits for the ticker.
WorkerStops ==
    /\ Cancelled
    /\ At("waiting")
    /\ Goto("done")
    /\ UNCHANGED <<rows, active, smtp, server, delivered, lost>>

-----------------------------------------------------------------------------
\* main.

Terminate ==
    /\ server = "up"
    /\ server' = "draining"
    /\ UNCHANGED <<rows, active, smtp, worker, delivered, lost>>

\* http.Server.Shutdown of both servers, bounded by a timeout of its own.
Drained ==
    /\ server = "draining"
    /\ server' = "waiting"
    /\ UNCHANGED <<rows, active, smtp, worker, delivered, lost>>

\* The process is gone, its goroutines with it.
Down ==
    /\ server' = "down"
    /\ worker' = Waiting
    /\ lost' = IF At("accepted") THEN lost \cup {Current} ELSE lost
    /\ UNCHANGED <<rows, active, smtp, delivered>>

\* Faulty: waits for the worker as long as it takes.
ExitWhenDone == server = "waiting" /\ At("done") /\ Down

\* waitWithTimeout: main returns when the worker is done, or after a while.
Exit == server = "waiting" /\ Down

\* A listener fails: main drains the servers and exits, without cancelling the
\* worker and without waiting for it.
ServeFails ==
    /\ server = "up"
    /\ server' = "failing"
    /\ UNCHANGED <<rows, active, smtp, worker, delivered, lost>>

Fatal == server = "failing" /\ Down

Crash == server # "down" /\ Down

Start ==
    /\ server = "down"
    /\ server' = "up"
    /\ UNCHANGED <<rows, active, smtp, worker, delivered, lost>>

WorkerStep ==
    \/ Sweep
    \/ ReadRecipient
    \/ ReadTenant
    \/ MarkSkipped
    \/ Send
    \/ MarkSent
    \/ MarkFailed

Next ==
    \/ \E n \in Ids, u \in Users : Notify(n, u)
    \/ \E u \in Users : SetActive(u)
    \/ UpdateMailConfig
    \/ WorkerStep
    \/ StatementFails
    \/ WorkerStops
    \/ Terminate
    \/ Drained
    \/ Exit
    \/ ServeFails
    \/ Fatal
    \/ Crash
    \/ Start

Spec == Init /\ [][Next]_vars

\* A statement of deliverOne comes back, one way or the other.
StatementReturns ==
    \/ ReadRecipient
    \/ ReadTenant
    \/ MarkSkipped
    \/ MarkSent
    \/ MarkFailed
    \/ StatementFails

\* The worker goes on when a statement has come back, with a result or an error,
\* and main goes on whatever the worker does.  Nothing is assumed of Send, which
\* has no timeout and may never return, of what a statement comes back with,
\* the one that lists the batch included, nor of the process being started again.
Fairness ==
    /\ WF_vars(StatementReturns)
    /\ WF_vars(Drained)
    /\ WF_vars(Exit)
    /\ WF_vars(Fatal)

FairSpec == Spec /\ Fairness

-----------------------------------------------------------------------------
\* Correctness.

\* The state; the batch is made of rows that exist, and runs out with the sweep.
TypeOK ==
    /\ DOMAIN rows \subseteq Ids /\ rows \in [DOMAIN rows -> Row]
    /\ active \subseteq Users
    /\ smtp \in BOOLEAN
    /\ server \in ServerStates
    /\ worker \in [pc: WorkerStates, batch: SUBSET Ids, recipient: BOOLEAN]
    /\ worker.batch = {} <=> worker.pc \in {"waiting", "done"}
    /\ worker.batch \subseteq DOMAIN rows
    /\ delivered \in [Ids -> 0 .. 2]
    /\ lost \subseteq Ids

\* What has been settled stays settled, whatever restarts, reactivations or
\* changed settings come later (ListPendingEmail selects pending rows only).
SettledForGood ==
    [][\A n \in DOMAIN rows : rows[n].status # "pending" => rows'[n] = rows[n]]_vars

\* The outbox says "sent" only of a mail the mail server took, and gives up
\* exactly at the limit of attempts (deliverOne's order, MarkEmailFailed's CASE).
StatusTrue ==
    \A n \in DOMAIN rows :
        /\ rows[n].status = "sent" => delivered[n] > 0
        /\ rows[n].status = "failed" <=> rows[n].attempts = MaxEmailAttempts

\* A mail goes out twice only after a delivery the outbox never got to know
\* of: a stop, a failed statement or a lost reply between Send and MarkEmailSent.
MailedTwiceOnlyIfLost == \A n \in Ids : delivered[n] = 2 => n \in lost

\* Batches, ticks, failing statements, stops and restarts come to this: each
\* notification's mail is attempted, recorded, retried and settled on its own.
Delivery == INSTANCE MailDelivery WITH
    Mails       <- Ids,
    MaxFailures <- MaxEmailAttempts,
    fate        <- [n \in Ids |-> IF n \in DOMAIN rows THEN rows[n].status ELSE "none"],
    failures    <- [n \in Ids |-> IF n \in DOMAIN rows THEN rows[n].attempts ELSE 0],
    taken       <- delivered,
    missed      <- lost,
    attempt     <- IF At("accepted") \/ At("rejected")
                   THEN {[mail |-> Current, ok |-> At("accepted")]} ELSE {}

ImplementsDelivery == Delivery!Spec

\* Rows whose statements fail at every tick are first in every batch for ever.
\* As long as there are fewer of them than a batch has room for, nothing but
\* them stays pending, provided that the process stays up in the end, that the
\* batch can be listed at some tick, and that the mail server, one way or the
\* other, answers (deliverPendingEmails goes on after an error,
\* ListPendingEmail's order and limit).
EverySettled ==
    \A Unreadable \in SUBSET Ids :
        /\ Cardinality(Unreadable) < EmailBatchSize
        /\ <>[](server = "up")
        /\ WF_vars(Sweep)
        /\ []<>~At("sending")
        /\ <>[][StatementFails => Current \in Unreadable]_vars
        => <>[](Pending \subseteq Unreadable)

\* A process told to stop ends, even if the worker hangs in the mail server.
ShutdownEnds == server \in {"draining", "waiting", "failing"} ~> server = "down"
=============================================================================
