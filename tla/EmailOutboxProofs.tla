------------------------- MODULE EmailOutboxProofs -------------------------
(***************************************************************************)
(* Theorems about EmailOutbox for any notifications and users, any size of *)
(* a batch and any number of attempts.                                     *)
(***************************************************************************)
EXTENDS EmailOutbox, FiniteSetTheorems, WellFoundedInduction, TLAPS

-----------------------------------------------------------------------------
\* Batches.

\* A nonempty set of ids has a least one, since the intervals 0..n below its
\* members cannot shrink for ever.
LEMMA LeastExists ==
    ASSUME NEW S \in SUBSET Nat, S # {}
    PROVE  Min(S) \in S /\ \A n \in S : Min(S) <= n
  <1> DEFINE below == {0 .. n : n \in S}
  <1>1. below \subseteq FiniteSubsetsOf(Nat) /\ below # {}
    <2>1. ASSUME NEW n \in S PROVE 0 .. n \in FiniteSubsetsOf(Nat)
      <3>1. IsFiniteSet(0 .. n)
        BY FS_Interval
      <3> QED
        BY <3>1 DEF FiniteSubsetsOf
    <2> QED
      BY <2>1
  <1>2. PICK least \in below : \A other \in below : <<other, least>> \notin StrictSubsetOrdering(Nat)
    BY <1>1, FS_StrictSubsetOrderingWellFounded, WFMin
  <1>3. PICK x \in S : least = 0 .. x
    OBVIOUS
  <1>4. ASSUME NEW y \in S, y < x PROVE FALSE
    <2>1. 0 .. y \in below
      OBVIOUS
    <2>2. 0 .. y \subseteq 0 .. x /\ 0 .. y # 0 .. x
      <3>1. x \in 0 .. x /\ x \notin 0 .. y
        BY <1>4
      <3> QED
        BY <1>4, <3>1
    <2>3. <<0 .. y, 0 .. x>> \in StrictSubsetOrdering(Nat)
      BY <1>1, <1>3, <2>1, <2>2 DEF StrictSubsetOrdering, FiniteSubsetsOf
    <2> QED
      BY <1>2, <1>3, <2>1, <2>3
  <1>5. \A y \in S : x <= y
    BY <1>4
  <1> QED
    BY <1>5 DEF Min

\* A sweep that finds something gets some of it.
LEMMA OldestType ==
    ASSUME NEW S \in SUBSET Ids, S # {}
    PROVE  Oldest(S) \subseteq S /\ Oldest(S) # {}
  <1> DEFINE least == Min(S)
  <1>1. S \subseteq Nat
    BY IdsAssumption
  <1>2. least \in S /\ \A n \in S : least <= n
    BY <1>1, LeastExists
  <1> HIDE DEF least
  <1>3. {m \in S : m < least} = {}
    <2>1. ASSUME NEW m \in S, m < least PROVE FALSE
      <3>1. least <= m /\ m \in Nat /\ least \in Nat
        BY <1>1, <1>2
      <3> QED
        BY <2>1, <3>1
    <2> QED
      BY <2>1
  <1>4. Cardinality({m \in S : m < least}) = 0
    BY <1>3, FS_EmptySet
  <1>5. 0 < EmailBatchSize
    BY LimitsAssumption
  <1> QED
    BY <1>2, <1>4, <1>5 DEF Oldest

\* Between waiting and done there is a current row.
LEMMA CurrentExists ==
    ASSUME TypeOK, worker.pc \notin {"waiting", "done"}
    PROVE  Current \in worker.batch /\ Current \in DOMAIN rows /\ Current \in Ids
  <1>1. worker.batch # {} /\ worker.batch \in SUBSET Nat
    BY IdsAssumption DEF TypeOK
  <1>2. Current \in worker.batch
    BY <1>1, LeastExists DEF Current
  <1> QED
    BY <1>2 DEF TypeOK

LEMMA AdvanceDrops ==
    ASSUME TypeOK, worker.pc \notin {"waiting", "done"}, Advance
    PROVE  /\ worker' \in [pc: {"waiting", "next"}, batch: SUBSET Ids, recipient: BOOLEAN]
           /\ worker'.batch = worker.batch \ {Current}
           /\ worker'.batch = {} <=> worker'.pc = "waiting"
  BY CurrentExists DEF TypeOK, Advance, Waiting

LEMMA GotoKeepsBatch ==
    ASSUME TypeOK, NEW pc \in WorkerStates, Goto(pc)
    PROVE  /\ worker' \in [pc: WorkerStates, batch: SUBSET Ids, recipient: BOOLEAN]
           /\ worker'.pc = pc
           /\ worker'.batch = worker.batch
           /\ Current' = Current
  <1>1. worker' = [worker EXCEPT !.pc = pc]
    BY DEF Goto
  <1>2. worker'.pc = pc /\ worker'.batch = worker.batch
    BY <1>1 DEF TypeOK
  <1>3. worker' \in [pc: WorkerStates, batch: SUBSET Ids, recipient: BOOLEAN]
    BY <1>1 DEF TypeOK
  <1> QED
    BY <1>2, <1>3 DEF Current

-----------------------------------------------------------------------------
\* The inductive invariant.

\* What the worker has in hand is not settled: nobody else settles anything,
\* and the worker drops a row from its batch when it marks it.
BatchPending == \A n \in worker.batch : rows[n].status = "pending"

\* What the worker takes for accepted has been accepted.
AcceptedTrue == At("accepted") => delivered[Current] > 0

\* A mail the mail server took is settled, is about to be, or is known as lost.
DeliveryKnown ==
    \A n \in Ids : delivered[n] > 0 =>
        \/ n \in lost
        \/ n \in DOMAIN rows /\ rows[n].status # "pending"
        \/ At("accepted") /\ n = Current

OInv ==
    /\ TypeOK
    /\ StatusTrue
    /\ MailedTwiceOnlyIfLost
    /\ BatchPending
    /\ AcceptedTrue
    /\ DeliveryKnown

LEMMA OutboxInit == Init => OInv
  BY DEF Init, OInv, TypeOK, StatusTrue, MailedTwiceOnlyIfLost, BatchPending, AcceptedTrue,
         DeliveryKnown, Row, Waiting, WorkerStates, ServerStates, At

\* Steps of main and of the administrators leave the outbox alone.
LEMMA AsideStep ==
    ASSUME OInv, UNCHANGED <<rows, worker, delivered, lost>>,
           active' \subseteq Users, smtp' \in BOOLEAN, server' \in ServerStates
    PROVE  OInv'
  <1>1. Current' = Current
    BY DEF Current
  <1>2. TypeOK'
    BY DEF OInv, TypeOK
  <1> QED
    BY <1>1, <1>2 DEF OInv, StatusTrue, MailedTwiceOnlyIfLost, BatchPending, AcceptedTrue,
                      DeliveryKnown, At

LEMMA NotifyStep ==
    ASSUME OInv, NEW n \in Ids, NEW u \in Users, Notify(n, u)
    PROVE  OInv'
  <1> USE DEF OInv
  <1>1. DOMAIN rows' = DOMAIN rows \cup {n} /\ n \notin DOMAIN rows
    BY DEF Notify
  <1>2. rows'[n] = [user |-> u, status |-> "pending", attempts |-> 0]
    BY DEF Notify
  <1>3. \A x \in DOMAIN rows : rows'[x] = rows[x]
    BY DEF Notify
  <1>4. UNCHANGED <<active, smtp, server, worker, delivered, lost>> /\ Current' = Current
    BY DEF Notify, Current
  <1>5. rows' \in [DOMAIN rows' -> Row]
    <2>1. [user |-> u, status |-> "pending", attempts |-> 0] \in Row
      BY LimitsAssumption DEF Row
    <2> QED
      BY <2>1 DEF Notify, TypeOK
  <1>6. TypeOK'
    BY <1>1, <1>4, <1>5 DEF TypeOK
  <1>7. StatusTrue'
    BY <1>1, <1>2, <1>3, <1>4, LimitsAssumption DEF StatusTrue
  <1>8. BatchPending'
    BY <1>1, <1>3, <1>4 DEF BatchPending, TypeOK
  <1>9. (MailedTwiceOnlyIfLost /\ AcceptedTrue)'
    BY <1>4 DEF MailedTwiceOnlyIfLost, AcceptedTrue, At
  <1>10. DeliveryKnown'
    BY <1>1, <1>2, <1>3, <1>4 DEF DeliveryKnown, At
  <1> QED
    BY <1>6, <1>7, <1>8, <1>9, <1>10

\* The worker goes on with the same row, or takes up a batch.
LEMMA OnwardStep ==
    ASSUME OInv, UNCHANGED <<rows, active, smtp, server, delivered, lost>>, ~At("accepted"),
           worker' \in [pc: WorkerStates \ {"accepted"}, batch: SUBSET Ids, recipient: BOOLEAN],
           worker'.batch = {} <=> worker'.pc \in {"waiting", "done"},
           worker'.batch \subseteq Pending
    PROVE  OInv'
  <1> USE DEF OInv
  <1>1. TypeOK'
    BY DEF TypeOK, Pending
  <1>2. (StatusTrue /\ MailedTwiceOnlyIfLost)'
    BY DEF StatusTrue, MailedTwiceOnlyIfLost
  <1>3. BatchPending'
    BY DEF BatchPending, Pending
  <1>4. (AcceptedTrue /\ DeliveryKnown)'
    BY DEF AcceptedTrue, DeliveryKnown, At
  <1> QED
    BY <1>1, <1>2, <1>3, <1>4

LEMMA SweepStep == ASSUME OInv, Sweep PROVE OInv'
  <1>1. Pending \in SUBSET Ids /\ Pending # {}
    BY DEF Sweep, Pending, OInv, TypeOK
  <1>2. Oldest(Pending) \subseteq Pending /\ Oldest(Pending) # {}
    BY <1>1, OldestType
  <1>3. worker' = [pc |-> "next", batch |-> Oldest(Pending), recipient |-> FALSE]
    BY DEF Sweep
  <1>4. ~At("accepted")
    BY DEF Sweep, At
  <1> QED
    BY <1>1, <1>2, <1>3, <1>4, OnwardStep DEF Sweep, WorkerStates

LEMMA BatchSubsetPending == ASSUME OInv PROVE worker.batch \subseteq Pending
  BY DEF OInv, BatchPending, Pending, TypeOK

LEMMA ReadRecipientStep == ASSUME OInv, ReadRecipient PROVE OInv'
  <1> DEFINE mailable == rows[Current].user \in Addressed \cap active
  <1>1. worker' = [worker EXCEPT !.pc = "read", !.recipient = mailable]
    BY DEF ReadRecipient
  <1>2. mailable \in BOOLEAN
    OBVIOUS
  <1>3. At("next") /\ ~At("accepted")
    BY DEF ReadRecipient, At
  <1>4. worker \in [pc: WorkerStates, batch: SUBSET Ids, recipient: BOOLEAN]
    BY DEF OInv, TypeOK
  <1> HIDE DEF mailable
  <1>5. /\ worker' \in [pc: {"read"}, batch: SUBSET Ids, recipient: BOOLEAN]
        /\ worker'.batch = worker.batch
    BY <1>1, <1>2, <1>4
  <1>6. worker.batch # {}
    BY <1>3 DEF OInv, TypeOK, At
  <1> QED
    BY <1>3, <1>5, <1>6, BatchSubsetPending, OnwardStep DEF ReadRecipient, WorkerStates

LEMMA ReadTenantStep == ASSUME OInv, ReadTenant PROVE OInv'
  <1> DEFINE pc == IF smtp /\ worker.recipient THEN "sending" ELSE "skipping"
  <1>1. pc \in {"sending", "skipping"} /\ pc \in WorkerStates
    BY DEF WorkerStates
  <1>2. Goto(pc) /\ At("read") /\ UNCHANGED <<rows, active, smtp, server, delivered, lost>>
    BY DEF ReadTenant
  <1> HIDE DEF pc
  <1>3. /\ worker' \in [pc: WorkerStates, batch: SUBSET Ids, recipient: BOOLEAN]
        /\ worker'.pc = pc /\ worker'.batch = worker.batch
    BY <1>1, <1>2, GotoKeepsBatch DEF OInv
  <1>4. worker.batch # {} /\ ~At("accepted")
    BY <1>2 DEF OInv, TypeOK, At
  <1>5. worker' \in [pc: WorkerStates \ {"accepted"}, batch: SUBSET Ids, recipient: BOOLEAN]
    BY <1>1, <1>3
  <1> QED
    BY <1>1, <1>2, <1>3, <1>4, <1>5, BatchSubsetPending, OnwardStep

LEMMA WorkerStopsStep == ASSUME OInv, WorkerStops PROVE OInv'
  <1>1. Goto("done") /\ At("waiting") /\ UNCHANGED <<rows, active, smtp, server, delivered, lost>>
    BY DEF WorkerStops
  <1>2. /\ worker' \in [pc: WorkerStates, batch: SUBSET Ids, recipient: BOOLEAN]
        /\ worker'.pc = "done" /\ worker'.batch = worker.batch
    BY <1>1, GotoKeepsBatch DEF OInv, WorkerStates
  <1>3. worker.batch = {} /\ ~At("accepted")
    BY <1>1 DEF OInv, TypeOK, At
  <1>4. worker' \in [pc: WorkerStates \ {"accepted"}, batch: SUBSET Ids, recipient: BOOLEAN]
    BY <1>2
  <1> QED
    BY <1>1, <1>2, <1>3, <1>4, OnwardStep

LEMMA SendStep == ASSUME OInv, Send PROVE OInv'
  <1> USE DEF OInv
  <1>1. At("sending") /\ UNCHANGED <<rows, active, smtp, server>>
    BY DEF Send
  <1>2. /\ Current \in worker.batch /\ Current \in DOMAIN rows /\ Current \in Ids
        /\ worker.batch # {}
    BY <1>1, CurrentExists DEF At, TypeOK
  <1>3. PICK pc \in {"accepted", "rejected"} : Goto(pc)
    BY DEF Send
  <1>4. /\ worker' \in [pc: WorkerStates, batch: SUBSET Ids, recipient: BOOLEAN]
        /\ worker'.pc = pc /\ worker'.batch = worker.batch /\ Current' = Current
    BY <1>3, GotoKeepsBatch DEF WorkerStates
  <1>5. rows[Current].status = "pending"
    BY <1>2 DEF BatchPending
  <1>6. /\ delivered' \in [Ids -> 0 .. 2]
        /\ \A n \in Ids : n # Current => delivered'[n] = delivered[n]
        /\ delivered[Current] = 0 /\ delivered'[Current] = 2 => Current \in lost
    BY <1>2 DEF Send, Deliver, TypeOK
  <1>7. \/ pc = "accepted" /\ delivered'[Current] > 0 /\ lost' = lost
        \/ pc = "rejected" /\ delivered'[Current] = delivered[Current] /\ lost' = lost
        \/ pc = "rejected" /\ lost' = lost \cup {Current}
    BY <1>2, <1>3, <1>4 DEF Send, Deliver, TypeOK, Goto
  <1>8. delivered[Current] > 0 => Current \in lost
    BY <1>1, <1>2, <1>5 DEF DeliveryKnown, At
  <1>9. TypeOK'
    BY <1>1, <1>2, <1>4, <1>6, <1>7 DEF TypeOK
  <1>10. StatusTrue'
    BY <1>1, <1>2, <1>5, <1>6 DEF StatusTrue, TypeOK
  <1>11. MailedTwiceOnlyIfLost'
    BY <1>2, <1>6, <1>7, <1>8 DEF MailedTwiceOnlyIfLost, TypeOK
  <1>12. (BatchPending /\ AcceptedTrue)'
    BY <1>1, <1>4, <1>7 DEF BatchPending, AcceptedTrue, At
  <1>13. DeliveryKnown'
    BY <1>1, <1>2, <1>4, <1>6, <1>7, <1>8 DEF DeliveryKnown, At, TypeOK
  <1> QED
    BY <1>9, <1>10, <1>11, <1>12, <1>13

\* The worker is done with the current row, which is or is not settled now.
LEMMA MarkStep ==
    ASSUME OInv, worker.pc \notin {"waiting", "done"}, Advance,
           NEW s \in {"pending", "sent", "failed", "skipped"}, NEW k \in 0 .. MaxEmailAttempts,
           Mark(s, k) \/ (UNCHANGED rows /\ s = rows[Current].status /\ k = rows[Current].attempts),
           UNCHANGED <<active, smtp, server, delivered>>,
           lost \subseteq lost', lost' \subseteq lost \cup {Current},
           s = "sent" => delivered[Current] > 0,
           s = "failed" <=> k = MaxEmailAttempts,
           s = "pending" /\ At("accepted") => Current \in lost'
    PROVE  OInv'
  <1> USE DEF OInv
  <1>1. Current \in worker.batch /\ Current \in DOMAIN rows /\ Current \in Ids
    BY CurrentExists
  <1>2. /\ DOMAIN rows' = DOMAIN rows
        /\ rows'[Current].status = s /\ rows'[Current].attempts = k
        /\ \A n \in DOMAIN rows : n # Current => rows'[n] = rows[n]
    <2>1. CASE Mark(s, k)
      <3>1. rows[Current] \in [user: Users, status: {"pending", "sent", "failed", "skipped"},
                               attempts: 0 .. MaxEmailAttempts]
        BY <1>1 DEF TypeOK, Row
      <3>2. rows' = [rows EXCEPT ![Current] = [rows[Current] EXCEPT !.status = s, !.attempts = k]]
        BY <2>1, <1>1 DEF Mark, TypeOK
      <3> QED
        BY <1>1, <3>1, <3>2 DEF TypeOK
    <2>2. CASE UNCHANGED rows /\ s = rows[Current].status /\ k = rows[Current].attempts
      BY <2>2
    <2> QED
      BY <2>1, <2>2
  <1>3. rows' \in [DOMAIN rows' -> Row]
    BY <1>1 DEF Mark, TypeOK, Row
  <1>4. /\ worker' \in [pc: {"waiting", "next"}, batch: SUBSET Ids, recipient: BOOLEAN]
        /\ worker'.batch = worker.batch \ {Current}
        /\ worker'.batch = {} <=> worker'.pc = "waiting"
    BY AdvanceDrops
  <1>5. TypeOK'
    BY <1>1, <1>2, <1>3, <1>4 DEF TypeOK, WorkerStates
  <1>6. StatusTrue'
    BY <1>1, <1>2 DEF StatusTrue
  <1>7. MailedTwiceOnlyIfLost'
    BY DEF MailedTwiceOnlyIfLost
  <1>8. BatchPending'
    BY <1>2, <1>4 DEF BatchPending, TypeOK
  <1>9. AcceptedTrue'
    BY <1>4 DEF AcceptedTrue, At
  <1>10. DeliveryKnown'
    <2> SUFFICES ASSUME NEW n \in Ids, delivered[n] > 0, n \notin lost'
                 PROVE  n \in DOMAIN rows /\ rows'[n].status # "pending"
      BY <1>2 DEF DeliveryKnown
    <2>1. CASE n = Current
      BY <1>1, <1>2, <2>1 DEF DeliveryKnown, BatchPending
    <2>2. CASE n # Current
      BY <1>2, <2>2 DEF DeliveryKnown
    <2> QED
      BY <2>1, <2>2
  <1> QED
    BY <1>5, <1>6, <1>7, <1>8, <1>9, <1>10

\* What a step of the worker finds at the current row.
LEMMA CurrentUnsettled ==
    ASSUME OInv, worker.pc \notin {"waiting", "done"}
    PROVE  /\ Current \in DOMAIN rows /\ Current \in Ids
           /\ rows[Current].status = "pending"
           /\ rows[Current].attempts \in 0 .. MaxEmailAttempts - 1
  <1>1. Current \in worker.batch /\ Current \in DOMAIN rows /\ Current \in Ids
    BY CurrentExists DEF OInv
  <1>2. rows[Current].status = "pending"
    BY <1>1 DEF OInv, BatchPending
  <1>3. rows[Current].attempts \in 0 .. MaxEmailAttempts /\ rows[Current].attempts # MaxEmailAttempts
    BY <1>1, <1>2 DEF OInv, StatusTrue, TypeOK, Row
  <1> QED
    BY <1>1, <1>2, <1>3, LimitsAssumption

LEMMA MarkSkippedStep == ASSUME OInv, MarkSkipped PROVE OInv'
  <1>1. At("skipping") /\ worker.pc \notin {"waiting", "done"}
    BY DEF MarkSkipped, At
  <1>2. rows[Current].attempts \in 0 .. MaxEmailAttempts - 1
    BY <1>1, CurrentUnsettled
  <1> QED
    BY <1>1, <1>2, MarkStep, LimitsAssumption DEF MarkSkipped

LEMMA MarkSentStep == ASSUME OInv, MarkSent PROVE OInv'
  <1>1. At("accepted") /\ worker.pc \notin {"waiting", "done"}
    BY DEF MarkSent, At
  <1>2. rows[Current].attempts \in 0 .. MaxEmailAttempts - 1
    BY <1>1, CurrentUnsettled
  <1>3. delivered[Current] > 0
    BY <1>1 DEF OInv, AcceptedTrue
  <1> QED
    BY <1>1, <1>2, <1>3, MarkStep, LimitsAssumption DEF MarkSent

LEMMA MarkFailedStep == ASSUME OInv, MarkFailed PROVE OInv'
  <1> DEFINE k == rows[Current].attempts
             s == IF GivesUp(k) THEN "failed" ELSE "pending"
  <1>1. At("rejected") /\ ~At("accepted") /\ worker.pc \notin {"waiting", "done"}
    BY DEF MarkFailed, At
  <1>2. k \in 0 .. MaxEmailAttempts - 1
    BY <1>1, CurrentUnsettled
  <1>3. Mark(s, k + 1) /\ Advance /\ UNCHANGED <<active, smtp, server, delivered, lost>>
    BY DEF MarkFailed
  <1>4. s \in {"failed", "pending"} /\ (s = "failed" <=> k + 1 = MaxEmailAttempts)
    BY <1>2, LimitsAssumption DEF GivesUp
  <1>5. k + 1 \in 0 .. MaxEmailAttempts
    BY <1>2, LimitsAssumption
  <1> HIDE DEF k, s
  <1> QED
    BY <1>1, <1>3, <1>4, <1>5, MarkStep

LEMMA StatementFailsStep == ASSUME OInv, StatementFails PROVE OInv'
  <1>1. worker.pc \notin {"waiting", "done"}
    BY DEF StatementFails
  <1>2. /\ rows[Current].status = "pending"
        /\ rows[Current].attempts \in 0 .. MaxEmailAttempts - 1
    BY <1>1, CurrentUnsettled
  <1>3. rows[Current].attempts \in 0 .. MaxEmailAttempts /\ rows[Current].attempts # MaxEmailAttempts
    BY <1>2, LimitsAssumption
  <1>4. lost' = IF At("accepted") THEN lost \cup {Current} ELSE lost
    BY DEF StatementFails
  <1> QED
    BY <1>1, <1>2, <1>3, <1>4, MarkStep DEF StatementFails

LEMMA DownStep == ASSUME OInv, Down PROVE OInv'
  <1> USE DEF OInv
  <1>1. /\ worker' = Waiting /\ server' = "down" /\ UNCHANGED <<rows, active, smtp, delivered>>
        /\ lost' = IF At("accepted") THEN lost \cup {Current} ELSE lost
    BY DEF Down
  <1>2. At("accepted") => Current \in Ids
    BY CurrentExists DEF At
  <1>3. TypeOK'
    BY <1>1, <1>2 DEF TypeOK, Waiting, WorkerStates, ServerStates
  <1>4. (StatusTrue /\ MailedTwiceOnlyIfLost)'
    BY <1>1 DEF StatusTrue, MailedTwiceOnlyIfLost
  <1>5. (BatchPending /\ AcceptedTrue)'
    BY <1>1 DEF BatchPending, AcceptedTrue, At, Waiting
  <1>6. DeliveryKnown'
    BY <1>1 DEF DeliveryKnown, At
  <1> QED
    BY <1>3, <1>4, <1>5, <1>6

LEMMA OutboxStep == OInv /\ [Next]_vars => OInv'
  <1> SUFFICES ASSUME OInv, [Next]_vars PROVE OInv'
    OBVIOUS
  <1>1. ASSUME NEW n \in Ids, NEW u \in Users, Notify(n, u) PROVE OInv'
    BY <1>1, NotifyStep
  <1>2. ASSUME NEW u \in Users, SetActive(u) PROVE OInv'
    BY <1>2, AsideStep DEF SetActive, OInv, TypeOK
  <1>3. CASE UpdateMailConfig
    BY <1>3, AsideStep DEF UpdateMailConfig, OInv, TypeOK
  <1>4. CASE Terminate \/ Drained \/ ServeFails \/ Start
    BY <1>4, AsideStep DEF Terminate, Drained, ServeFails, Start, OInv, TypeOK, ServerStates
  <1>5. CASE Exit \/ Fatal \/ Crash
    BY <1>5, DownStep DEF Exit, Fatal, Crash
  <1>6. CASE WorkerStep
    BY <1>6, SweepStep, ReadRecipientStep, ReadTenantStep, MarkSkippedStep, SendStep,
       MarkSentStep, MarkFailedStep DEF WorkerStep
  <1>7. CASE StatementFails
    BY <1>7, StatementFailsStep
  <1>8. CASE WorkerStops
    BY <1>8, WorkerStopsStep
  <1>9. CASE UNCHANGED vars
    BY <1>9, AsideStep DEF vars, OInv, TypeOK
  <1> QED
    BY <1>1, <1>2, <1>3, <1>4, <1>5, <1>6, <1>7, <1>8, <1>9 DEF Next

LEMMA OutboxInvariant == Spec => []OInv
  BY OutboxInit, OutboxStep, PTL DEF Spec

-----------------------------------------------------------------------------
\* Theorems.

\* The columns have their types, and the worker's batch names rows that exist.
THEOREM OutboxTypeCorrect == Spec => []TypeOK
  <1>1. OInv => TypeOK
    BY DEF OInv
  <1> QED
    BY <1>1, OutboxInvariant, PTL

\* "sent" is said only of a mail the mail server took, and "failed" exactly
\* when the attempts are used up, whatever fails or restarts in between.
THEOREM OutboxTellsTheTruth == Spec => []StatusTrue
  <1>1. OInv => StatusTrue
    BY DEF OInv
  <1> QED
    BY <1>1, OutboxInvariant, PTL

\* The mail server gets a mail a second time only if the outbox missed its
\* first delivery.
THEOREM NoNeedlessSecondMail == Spec => []MailedTwiceOnlyIfLost
  <1>1. OInv => MailedTwiceOnlyIfLost
    BY DEF OInv
  <1> QED
    BY <1>1, OutboxInvariant, PTL

\* Only the current row changes, and it was pending.
LEMMA SettledStep ==
    ASSUME OInv, [Next]_vars, NEW n \in DOMAIN rows, rows[n].status # "pending"
    PROVE  rows'[n] = rows[n]
  <1>1. ASSUME NEW m \in Ids, NEW u \in Users, Notify(m, u) PROVE rows'[n] = rows[n]
    BY <1>1 DEF Notify
  <1>2. ASSUME worker.pc \notin {"waiting", "done"}, NEW s, NEW k, Mark(s, k)
        PROVE  rows'[n] = rows[n]
    <2>1. n # Current
      BY <1>2, CurrentUnsettled
    <2> QED
      BY <1>2, <2>1 DEF Mark, OInv, TypeOK
  <1>3. CASE MarkSkipped \/ MarkSent \/ MarkFailed
    BY <1>2, <1>3 DEF MarkSkipped, MarkSent, MarkFailed, At
  <1>4. CASE UNCHANGED rows
    BY <1>4
  <1> QED
    BY <1>1, <1>3, <1>4 DEF Next, SetActive, UpdateMailConfig, WorkerStep, Sweep, ReadRecipient,
       ReadTenant, Send, StatementFails, WorkerStops, Terminate, Drained, Exit, ServeFails,
       Fatal, Crash, Down, Start, vars

\* A notification that was sent, skipped or given up is never touched again.
THEOREM SettledIsSettled == Spec => SettledForGood
  <1>1. OInv /\ [Next]_vars => [\A n \in DOMAIN rows : rows[n].status # "pending" => rows'[n] = rows[n]]_vars
    BY SettledStep
  <1> QED
    BY <1>1, OutboxInvariant, PTL DEF Spec, SettledForGood

-----------------------------------------------------------------------------
\* The refinement: the outbox as MailDelivery sees it.

Fate == [n \in Ids |-> IF n \in DOMAIN rows THEN rows[n].status ELSE "none"]

Failures == [n \in Ids |-> IF n \in DOMAIN rows THEN rows[n].attempts ELSE 0]

Outcome ==
    IF At("accepted") \/ At("rejected") THEN {[mail |-> Current, ok |-> At("accepted")]} ELSE {}

Seen == <<Fate, Failures, delivered, lost, Outcome>>

LEMMA DeliveryInit == Init => Delivery!Init
  BY DEF Init, Waiting, At, Delivery!Init

\* Without a mark and without an outcome nothing is seen of a step.
LEMMA Unseen ==
    ASSUME UNCHANGED <<rows, delivered, lost>>, Outcome' = Outcome
    PROVE  UNCHANGED Seen
  BY DEF Seen, Fate, Failures

\* Between two mails, and while a worker reads and decides, there is no outcome.
LEMMA NoOutcome ==
    ASSUME ~At("accepted"), ~At("rejected")
    PROVE  Outcome = {}
  BY DEF Outcome

LEMMA NoOutcomeAfter ==
    ASSUME worker'.pc \notin {"accepted", "rejected"}
    PROVE  Outcome' = {}
  BY DEF Outcome, At

\* What a mark shows.
LEMMA MarkSeen ==
    ASSUME TypeOK, Current \in DOMAIN rows, Current \in Ids, NEW s, NEW k, Mark(s, k)
    PROVE  /\ Fate' = [Fate EXCEPT ![Current] = s]
           /\ Failures' = [Failures EXCEPT ![Current] = k]
           /\ k = rows[Current].attempts => Failures' = Failures
  <1>1. rows[Current] \in [user: Users, status: {"pending", "sent", "failed", "skipped"},
                           attempts: 0 .. MaxEmailAttempts]
    BY DEF TypeOK, Row
  <1>2. rows' = [rows EXCEPT ![Current] = [rows[Current] EXCEPT !.status = s, !.attempts = k]]
    BY DEF Mark, TypeOK
  <1>3. /\ DOMAIN rows' = DOMAIN rows
        /\ rows'[Current].status = s /\ rows'[Current].attempts = k
        /\ \A n \in DOMAIN rows : n # Current => rows'[n] = rows[n]
    BY <1>1, <1>2 DEF TypeOK
  <1>4. \A n \in Ids : Fate'[n] = IF n = Current THEN s ELSE Fate[n]
    BY <1>3 DEF Fate
  <1>5. \A n \in Ids : Failures'[n] = IF n = Current THEN k ELSE Failures[n]
    BY <1>3 DEF Failures
  <1>6. k = rows[Current].attempts => \A n \in Ids : Failures'[n] = Failures[n]
    BY <1>5 DEF Failures
  <1> QED
    BY <1>4, <1>5, <1>6 DEF Fate, Failures

LEMMA NotifyAsks ==
    ASSUME OInv, NEW n \in Ids, NEW u \in Users, Notify(n, u)
    PROVE  Delivery!Ask(n)
  <1>1. /\ DOMAIN rows' = DOMAIN rows \cup {n} /\ n \notin DOMAIN rows
        /\ rows'[n] = [user |-> u, status |-> "pending", attempts |-> 0]
        /\ \A x \in DOMAIN rows : rows'[x] = rows[x]
    BY DEF Notify
  <1>2. UNCHANGED <<worker, delivered, lost>> /\ Outcome' = Outcome
    BY DEF Notify, Outcome, At, Current
  <1>3. Fate[n] = "none" /\ Fate' = [Fate EXCEPT ![n] = "pending"]
    <2>1. \A x \in Ids : Fate'[x] = IF x = n THEN "pending" ELSE Fate[x]
      BY <1>1 DEF Fate
    <2>2. Fate[n] = "none"
      BY <1>1 DEF Fate
    <2> QED
      BY <2>1, <2>2 DEF Fate
  <1>4. Failures' = Failures
    BY <1>1 DEF Failures
  <1> QED
    BY <1>2, <1>3, <1>4 DEF Delivery!Ask, Fate, Failures, Outcome

LEMMA SendAttempts ==
    ASSUME OInv, Send
    PROVE  Delivery!Attempt(Current)
  <1>1. At("sending") /\ UNCHANGED rows
    BY DEF Send
  <1>2. /\ Current \in DOMAIN rows /\ Current \in Ids
        /\ rows[Current].status = "pending"
    BY <1>1, CurrentUnsettled DEF At
  <1>3. Outcome = {} /\ Fate[Current] = "pending"
    BY <1>1, <1>2, NoOutcome DEF At, Fate
  <1>4. delivered[Current] = 0 \/ Current \in lost
    BY <1>1, <1>2 DEF OInv, DeliveryKnown, TypeOK, At
  <1>5. Fate' = Fate /\ Failures' = Failures
    BY <1>1 DEF Fate, Failures
  <1>6. ASSUME NEW pc \in {"accepted", "rejected"}, Goto(pc)
        PROVE  Outcome' = {[mail |-> Current, ok |-> pc = "accepted"]}
    <2>1. worker'.pc = pc /\ Current' = Current
      BY <1>6, GotoKeepsBatch DEF OInv, WorkerStates
    <2> QED
      BY <1>6, <2>1 DEF Outcome, At
  <1>7. \/ Delivery!Take(Current) /\ Delivery!Answer(Current, TRUE) /\ UNCHANGED lost
        \/ Delivery!Answer(Current, FALSE) /\ UNCHANGED <<delivered, lost>>
        \/ Delivery!Take(Current) /\ Delivery!Answer(Current, FALSE) /\ lost' = lost \cup {Current}
    <2>1. Deliver(Current) => Delivery!Take(Current)
      BY DEF Deliver, Delivery!Take
    <2>2. Goto("accepted") => Delivery!Answer(Current, TRUE)
      BY <1>6 DEF Delivery!Answer, Outcome
    <2>3. Goto("rejected") => Delivery!Answer(Current, FALSE)
      BY <1>6 DEF Delivery!Answer, Outcome
    <2> QED
      BY <2>1, <2>2, <2>3 DEF Send
  <1> QED
    BY <1>3, <1>4, <1>5, <1>7 DEF Delivery!Attempt, Fate, Failures, Outcome

LEMMA MarkSentRecords ==
    ASSUME OInv, MarkSent
    PROVE  Delivery!RecordSent(Current)
  <1>1. At("accepted") /\ Mark("sent", rows[Current].attempts) /\ Advance
        /\ UNCHANGED <<delivered, lost>>
    BY DEF MarkSent
  <1>2. Current \in DOMAIN rows /\ Current \in Ids /\ TypeOK
    BY <1>1, CurrentUnsettled DEF At, OInv
  <1>3. Fate' = [Fate EXCEPT ![Current] = "sent"] /\ Failures' = Failures
    BY <1>1, <1>2, MarkSeen
  <1>4. Outcome = {[mail |-> Current, ok |-> TRUE]} /\ Outcome' = {}
    BY <1>1, <1>2, AdvanceDrops, NoOutcomeAfter DEF Outcome, At
  <1> QED
    BY <1>1, <1>3, <1>4 DEF Delivery!RecordSent, Fate, Failures, Outcome

LEMMA MarkFailedRecords ==
    ASSUME OInv, MarkFailed
    PROVE  Delivery!RecordFailure(Current)
  <1> DEFINE k == rows[Current].attempts
             s == IF GivesUp(k) THEN "failed" ELSE "pending"
  <1>1. At("rejected") /\ Mark(s, k + 1) /\ Advance /\ UNCHANGED <<delivered, lost>>
    BY DEF MarkFailed
  <1>2. Current \in DOMAIN rows /\ Current \in Ids /\ k \in 0 .. MaxEmailAttempts - 1 /\ TypeOK
    BY <1>1, CurrentUnsettled DEF At, OInv
  <1>3. s = IF k + 1 = MaxEmailAttempts THEN "failed" ELSE "pending"
    BY <1>2, LimitsAssumption DEF GivesUp
  <1>4. Failures[Current] = k
    BY <1>2 DEF Failures
  <1> HIDE DEF k, s
  <1>5. Fate' = [Fate EXCEPT ![Current] = s] /\ Failures' = [Failures EXCEPT ![Current] = k + 1]
    BY <1>1, <1>2, MarkSeen
  <1>6. Outcome = {[mail |-> Current, ok |-> FALSE]} /\ Outcome' = {}
    BY <1>1, <1>2, AdvanceDrops, NoOutcomeAfter DEF Outcome, At
  <1> QED
    BY <1>1, <1>3, <1>4, <1>5, <1>6 DEF Delivery!RecordFailure, Fate, Failures, Outcome

LEMMA MarkSkippedSkips ==
    ASSUME OInv, MarkSkipped
    PROVE  Delivery!Skip(Current)
  <1>1. At("skipping") /\ Mark("skipped", rows[Current].attempts) /\ Advance
        /\ UNCHANGED <<delivered, lost>>
    BY DEF MarkSkipped
  <1>2. /\ Current \in DOMAIN rows /\ Current \in Ids /\ TypeOK
        /\ rows[Current].status = "pending"
    BY <1>1, CurrentUnsettled DEF At, OInv
  <1>3. Fate' = [Fate EXCEPT ![Current] = "skipped"] /\ Failures' = Failures
    BY <1>1, <1>2, MarkSeen
  <1>4. Fate[Current] = "pending" /\ Outcome = {} /\ Outcome' = {}
    BY <1>1, <1>2, AdvanceDrops, NoOutcome, NoOutcomeAfter DEF At, Fate
  <1> QED
    BY <1>1, <1>3, <1>4 DEF Delivery!Skip, Fate, Failures, Outcome

\* A statement that fails and a process that ends lose the outcome, if there
\* is one, and nothing else.
LEMMA OutcomeLost ==
    ASSUME UNCHANGED <<rows, delivered>>, worker'.pc \notin {"accepted", "rejected"},
           lost' = IF At("accepted") THEN lost \cup {Current} ELSE lost
    PROVE  Delivery!Forget \/ UNCHANGED Seen
  <1>1. Outcome' = {}
    BY NoOutcomeAfter
  <1>2. Fate' = Fate /\ Failures' = Failures
    BY DEF Fate, Failures
  <1>3. CASE Outcome = {}
    <2>1. ~At("accepted")
      BY <1>3 DEF Outcome
    <2> QED
      BY <1>1, <1>3, <2>1, Unseen
  <1>4. CASE Outcome # {}
    <2>1. lost' = lost \cup {a.mail : a \in {x \in Outcome : x.ok}}
      <3>1. CASE At("accepted")
        <4> DEFINE a == [mail |-> Current, ok |-> TRUE]
        <4>1. Outcome = {a}
          BY <3>1 DEF Outcome
        <4>2. a.ok /\ a.mail = Current
          OBVIOUS
        <4> HIDE DEF a
        <4>3. {x \in Outcome : x.ok} = {a}
          BY <4>1, <4>2
        <4> QED
          BY <3>1, <4>2, <4>3
      <3>2. CASE ~At("accepted")
        BY <3>2 DEF Outcome
      <3> QED
        BY <3>1, <3>2
    <2> QED
      BY <1>1, <1>2, <1>4, <2>1 DEF Delivery!Forget, Fate, Failures, Outcome
  <1> QED
    BY <1>3, <1>4

LEMMA DeliveryStep ==
    ASSUME OInv, [Next]_vars
    PROVE  Delivery!Next \/ UNCHANGED Seen
  <1>1. ASSUME NEW n \in Ids, NEW u \in Users, Notify(n, u) PROVE Delivery!Next
    BY <1>1, NotifyAsks DEF Delivery!Next
  <1>2. ASSUME UNCHANGED <<rows, worker, delivered, lost>> PROVE UNCHANGED Seen
    BY <1>2, Unseen DEF Outcome, At, Current
  <1>3. CASE Sweep \/ ReadRecipient \/ ReadTenant \/ WorkerStops
    <2>1. worker.pc \in {"waiting", "next", "read"} /\ UNCHANGED <<rows, delivered, lost>>
      BY <1>3 DEF Sweep, ReadRecipient, ReadTenant, WorkerStops, At
    <2>2. worker'.pc \notin {"accepted", "rejected"}
      <3>1. worker \in [pc: WorkerStates, batch: SUBSET Ids, recipient: BOOLEAN]
        BY DEF OInv, TypeOK
      <3>2. CASE Sweep
        BY <3>2 DEF Sweep
      <3>3. CASE ReadRecipient
        BY <3>1, <3>3 DEF ReadRecipient
      <3>4. CASE ReadTenant
        BY <3>1, <3>4 DEF ReadTenant, Goto
      <3>5. CASE WorkerStops
        BY <3>1, <3>5 DEF WorkerStops, Goto
      <3> QED
        BY <1>3, <3>2, <3>3, <3>4, <3>5
    <2> QED
      BY <2>1, <2>2, NoOutcome, NoOutcomeAfter, Unseen DEF At
  <1>4. ASSUME worker.pc \notin {"waiting", "done"} PROVE Current \in Ids
    BY <1>4, CurrentUnsettled
  <1>5. CASE Send
    <2>1. Current \in Ids
      BY <1>4, <1>5 DEF Send, At
    <2>2. PICK m \in Ids : m = Current
      BY <2>1
    <2>3. Delivery!Attempt(m)
      BY <1>5, <2>2, SendAttempts DEF Delivery!Attempt, Delivery!Take, Delivery!Answer
    <2> QED
      BY <2>3 DEF Delivery!Next
  <1>6. CASE MarkSkipped \/ MarkSent \/ MarkFailed
    <2>1. Current \in Ids
      BY <1>4, <1>6 DEF MarkSkipped, MarkSent, MarkFailed, At
    <2>2. PICK m \in Ids : m = Current
      BY <2>1
    <2>3. Delivery!Skip(m) \/ Delivery!RecordSent(m) \/ Delivery!RecordFailure(m)
      BY <1>6, <2>2, MarkSkippedSkips, MarkSentRecords, MarkFailedRecords
         DEF Delivery!Skip, Delivery!RecordSent, Delivery!RecordFailure
    <2> QED
      BY <2>3 DEF Delivery!Next
  <1>7. CASE StatementFails
    <2>1. worker.pc \notin {"waiting", "done"} /\ Advance /\ TypeOK
      BY <1>7 DEF StatementFails, OInv
    <2>2. worker'.pc \notin {"accepted", "rejected"}
      BY <2>1, AdvanceDrops
    <2> QED
      BY <1>7, <2>2, OutcomeLost DEF StatementFails, Delivery!Next
  <1>8. CASE Exit \/ Fatal \/ Crash
    <2>1. Down /\ worker'.pc \notin {"accepted", "rejected"}
      BY <1>8 DEF Exit, Fatal, Crash, Down, Waiting
    <2> QED
      BY <2>1, OutcomeLost DEF Down, Delivery!Next
  <1> QED
    BY <1>1, <1>2, <1>3, <1>5, <1>6, <1>7, <1>8 DEF Next, WorkerStep, SetActive, UpdateMailConfig,
       Terminate, Drained, ServeFails, Start, vars

\* Whatever batches, failing statements, stops and restarts do, each mail is
\* attempted one at a time, recorded at most once per attempt, settled once,
\* and sent again only when an acceptance was missed.
THEOREM OutboxImplementsDelivery == Spec => ImplementsDelivery
  <1>1. Init => Delivery!Init
    BY DeliveryInit
  <1>2. OInv /\ [Next]_vars => [Delivery!Next]_(Delivery!vars)
    BY DeliveryStep DEF Seen, Fate, Failures, Outcome, Delivery!vars
  <1> QED
    BY <1>1, <1>2, OutboxInvariant, PTL DEF Spec, ImplementsDelivery, Delivery!Spec
=============================================================================
