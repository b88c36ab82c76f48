-------------------------- MODULE NotifyHubProofs --------------------------
(***************************************************************************)
(* Theorems about NotifyHub for any notifications and any number of        *)
(* streams.                                                                *)
(***************************************************************************)
EXTENDS NotifyHub, FiniteSetTheorems, TLAPS

-----------------------------------------------------------------------------
\* Type correctness.

LEMMA CountType == Count \in Nat
  <1>1. Unread \subseteq Notes
    BY DEF Unread
  <1>2. IsFiniteSet(Unread)
    BY <1>1, NotesAssumption, FS_Subset
  <1> QED
    BY <1>2, FS_CardinalityType DEF Count

\* A call for a refresh keeps the count shown and on its way.
LEMMA RefreshedType ==
    ASSUME NEW b \in Badges
    PROVE  Refreshed(b) \in Badges
  <1>1. CASE b.request = "idle"
    <2>1. Refreshed(b) = [b EXCEPT !.request = "asked"]
      BY <1>1 DEF Refreshed
    <2> QED
      BY <2>1 DEF Badges
  <1>2. CASE b.request # "idle"
    <2>1. Refreshed(b) = [b EXCEPT !.again = TRUE]
      BY <1>2 DEF Refreshed
    <2> QED
      BY <2>1 DEF Badges
  <1> QED
    BY <1>1, <1>2

LEMMA RequestFailsType ==
    ASSUME badge \in Badges, RequestFails
    PROVE  badge' \in Badges
  <1> DEFINE next == IF badge.again THEN "asked" ELSE "idle"
  <1>1. next \in {"idle", "asked", "answered"}
    OBVIOUS
  <1>2. badge' = [badge EXCEPT !.request = next, !.count = 0, !.again = FALSE]
    BY DEF RequestFails
  <1> HIDE DEF next
  <1> QED
    BY <1>1, <1>2 DEF Badges

LEMMA TypeInit == Init => TypeOK
  BY DEF Init, TypeOK, NoteStates, Badges

LEMMA TypeStep == TypeOK /\ [Next]_vars => TypeOK'
  <1> SUFFICES ASSUME TypeOK, [Next]_vars PROVE TypeOK'
    OBVIOUS
  <1> USE DEF TypeOK, NoteStates
  <1>1. ASSUME NEW n \in Notes, Insert(n) PROVE TypeOK'
    BY <1>1 DEF Insert, Becomes
  <1>2. ASSUME NEW n \in Notes, Publish(n) PROVE TypeOK'
    BY <1>2 DEF Publish, Becomes
  <1>3. ASSUME NEW n \in Notes, EndTx(n) PROVE TypeOK'
    BY <1>3 DEF EndTx, Becomes
  <1>4. ASSUME NEW n \in Notes, MarkRead(n) PROVE TypeOK'
    BY <1>4, RefreshedType DEF MarkRead, Becomes
  <1>5. ASSUME NEW n \in Notes, MarkReadElsewhere(n) PROVE TypeOK'
    BY <1>5 DEF MarkReadElsewhere, Becomes
  <1>6. ASSUME NEW c \in Streams, Connect(c) PROVE TypeOK'
    BY <1>6 DEF Connect
  <1>7. ASSUME NEW c \in Streams, Receive(c) PROVE TypeOK'
    BY <1>7 DEF Receive
  <1>8. ASSUME NEW c \in Streams, Write(c) PROVE TypeOK'
    BY <1>8, RefreshedType DEF Write
  <1>9. ASSUME NEW c \in Streams, Leave(c) PROVE TypeOK'
    BY <1>9 DEF Leave
  <1>10. CASE Cut
    BY <1>10 DEF Cut
  <1>11. CASE Poll
    BY <1>11, RefreshedType DEF Poll
  <1>12. CASE ReadBadge
    <2>1. badge' \in Badges
      BY <1>12, CountType DEF ReadBadge, Badges
    <2> QED
      BY <1>12, <2>1 DEF ReadBadge
  <1>13. CASE Swap
    <2>1. badge' \in Badges
      BY <1>13 DEF Swap, Badges
    <2> QED
      BY <1>13, <2>1 DEF Swap
  <1>14. CASE RequestFails
    BY <1>14, RequestFailsType DEF RequestFails
  <1>15. CASE UNCHANGED vars
    BY <1>15 DEF vars
  <1> QED
    BY <1>1, <1>2, <1>3, <1>4, <1>5, <1>6, <1>7, <1>8, <1>9, <1>10, <1>11,
       <1>12, <1>13, <1>14, <1>15 DEF Next

\* The state has its type, and the hub's map is exactly the channels of the
\* handlers that run: Subscribe and the deferred unsubscribe neither leak one
\* nor lose one, whatever is published and cut meanwhile.
THEOREM HubTypeCorrect == Spec => []TypeOK
  BY TypeInit, TypeStep, PTL DEF Spec

-----------------------------------------------------------------------------
\* No wake is lost.

\* A channel that is not in the hub has nothing outstanding.
QuietOutside == \A c \in Streams : c \notin subs => due[c] = {}

WInv == TypeOK /\ QuietOutside /\ NoWakeLost

LEMMA WakeInit == Init => WInv
  BY TypeInit DEF Init, WInv, QuietOutside, NoWakeLost

LEMMA WakeStep == WInv /\ [Next]_vars => WInv'
  <1> SUFFICES ASSUME WInv, [Next]_vars PROVE (QuietOutside /\ NoWakeLost)'
    BY TypeStep DEF WInv
  <1> USE DEF WInv, QuietOutside, NoWakeLost
  <1>1. ASSUME NEW n \in Notes, Publish(n) PROVE (QuietOutside /\ NoWakeLost)'
    BY <1>1 DEF Publish, TypeOK
  <1>2. ASSUME NEW c \in Streams, Connect(c) PROVE (QuietOutside /\ NoWakeLost)'
    BY <1>2 DEF Connect, TypeOK
  <1>3. ASSUME NEW c \in Streams, Receive(c) PROVE (QuietOutside /\ NoWakeLost)'
    BY <1>3 DEF Receive, TypeOK
  <1>4. ASSUME NEW c \in Streams, Leave(c) PROVE (QuietOutside /\ NoWakeLost)'
    BY <1>4 DEF Leave, TypeOK
  <1>5. ASSUME UNCHANGED <<subs, full, due>> PROVE (QuietOutside /\ NoWakeLost)'
    BY <1>5
  <1> QED
    BY <1>1, <1>2, <1>3, <1>4, <1>5
    DEF Next, Insert, EndTx, MarkRead, MarkReadElsewhere, Write, Cut, Poll, ReadBadge,
        Swap, RequestFails, vars

\* A wake that found the channel full is covered by the one in it: after every
\* publication a handler will look at the table at least once more.
THEOREM WakesSurvive == Spec => []NoWakeLost
  <1>1. WInv => NoWakeLost
    BY DEF WInv
  <1> QED
    BY WakeInit, WakeStep, <1>1, PTL DEF Spec
=============================================================================
