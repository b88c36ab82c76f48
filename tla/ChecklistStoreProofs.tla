------------------------ MODULE ChecklistStoreProofs ------------------------
(***************************************************************************)
(* Theorems about ChecklistStore for every value of its constants: any     *)
(* users, any number of requests, any finite set of item ids, every kind   *)
(* of request, any order a client may send.                                *)
(***************************************************************************)
EXTENDS ChecklistStore, FiniteSetTheorems, TLAPS

-----------------------------------------------------------------------------
\* The domain methods: each keeps a checklist well-formed and returns events.

IsResult(res) ==
    /\ res \in [list: {res.list}, events: SUBSET Events]
    /\ IsChecklist(res.list)

\* A pair of a well-formed, settled list and of events is what a method owes.
LEMMA ResultFormed ==
    ASSUME NEW l, IsChecklist(l), Settled(l), NEW E \in SUBSET Events
    PROVE  /\ IsResult([list |-> l, events |-> E])
           /\ Settled([list |-> l, events |-> E].list)
  BY DEF IsResult

\* The position of a new item and the size of a list are natural numbers.
LEMMA LiveFinite ==
    ASSUME NEW c, IsChecklist(c)
    PROVE  IsFiniteSet(Live(c)) /\ Cardinality(Live(c)) \in Nat
  <1>1. Live(c) \subseteq ItemIds
    BY DEF IsChecklist, IsItemList, Live
  <1>2. IsFiniteSet(Live(c))
    BY <1>1, ItemIdsAssumption, FS_Subset
  <1> QED
    BY <1>2, FS_CardinalityType

\* An event without an item is an event.
LEMMA ListEventType ==
    ASSUME NEW a \in Actions, NEW u \in Users
    PROVE  ListEvent(a, u) \in Events
  BY DEF ListEvent, Event, Events

LEMMA EventType ==
    ASSUME NEW a \in Actions, NEW u \in Users, NEW i \in ItemIds
    PROVE  Event(a, u, i) \in Events
  BY DEF Event, Events

\* Replacing the items by well-formed ones keeps a checklist well-formed, and
\* so does replacing its status.
LEMMA ItemsReplaced ==
    ASSUME NEW c, IsChecklist(c), NEW f, IsItemList(f), NEW s \in Status
    PROVE  /\ IsChecklist([c EXCEPT !.items = f])
           /\ IsChecklist([c EXCEPT !.status = s])
           /\ [c EXCEPT !.items = f].items = f
           /\ [c EXCEPT !.items = f].status = c.status
           /\ [c EXCEPT !.status = s].items = c.items
           /\ [c EXCEPT !.status = s].status = s
  BY DEF IsChecklist

LEMMA TickType ==
    ASSUME NEW item \in Item, NEW u \in Users
    PROVE  Ticked(item, u) \in Item /\ Unticked(item) \in Item
  BY DEF Ticked, Unticked, Item, MaybeUser

LEMMA ReopenType ==
    ASSUME NEW c, NEW d, IsChecklist(d), NEW u \in Users, NEW e \in Events
    PROVE  IsResult(Reopen(c, d, u, e)) /\ Settled(Reopen(c, d, u, e).list)
  <1>1. ListEvent("reopened", u) \in Events
    BY ListEventType DEF Actions
  <1>2. IsChecklist([d EXCEPT !.status = "open"]) /\ [d EXCEPT !.status = "open"].status = "open"
    BY DEF IsChecklist, Status
  <1> QED
    BY <1>1, <1>2 DEF Reopen, IsResult, Settled

\* Every method: well-formed result, and a list that is not open is all checked.
LEMMA CheckItemSettles ==
    ASSUME NEW c, IsChecklist(c), NEW u \in Users, NEW i \in Live(c)
    PROVE  IsResult(CheckItem(c, u, i)) /\ Settled(CheckItem(c, u, i).list)
  <1> DEFINE f == [c.items EXCEPT ![i] = Ticked(@, u)]
             d == [c EXCEPT !.items[i] = Ticked(@, u)]
             next == IF ~AllItemsChecked(d) THEN "open"
                     ELSE IF c.approver # None THEN "validating" ELSE "complete"
             told == CASE next = "open"       -> {}
                       [] next = "validating" -> {ListEvent("submitted_for_validation", u)}
                       [] next = "complete"   -> {ListEvent("completed", u)}
  <1>1. IsItemList(f)
    BY TickType DEF IsChecklist, IsItemList, Live
  <1>2. d = [c EXCEPT !.items = f]
    BY DEF IsChecklist
  <1>3. IsChecklist(d)
    BY <1>1, <1>2, ItemsReplaced DEF Status
  <1>4. next \in Status
    BY DEF Status
  <1>5. IsChecklist([d EXCEPT !.status = next]) /\ [d EXCEPT !.status = next].items = d.items
        /\ [d EXCEPT !.status = next].status = next
    BY <1>3, <1>4 DEF IsChecklist
  <1>6. next # "open" => AllItemsChecked([d EXCEPT !.status = next])
    BY <1>5 DEF AllItemsChecked, Live
  <1>7. Event("item_checked", u, i) \in Events
    BY EventType DEF IsChecklist, IsItemList, Live, Actions
  <1>8. told \subseteq Events
    BY <1>4, ListEventType DEF Status, Actions
  <1>9. CheckItem(c, u, i) = [list   |-> [d EXCEPT !.status = next],
                              events |-> {Event("item_checked", u, i)} \cup told]
    BY DEF CheckItem
  <1>10. Settled([d EXCEPT !.status = next])
    BY <1>5, <1>6 DEF Settled
  <1> HIDE DEF d, next, told
  <1> QED
    BY <1>5, <1>7, <1>8, <1>9, <1>10, ResultFormed

LEMMA ApproveSettles ==
    ASSUME NEW c, IsChecklist(c), Settled(c), NEW u \in Users, CanApprove(c, u)
    PROVE  IsResult(Approve(c, u)) /\ Settled(Approve(c, u).list)
  <1> DEFINE d == [c EXCEPT !.status = "complete"]
  <1>1. IsChecklist(d) /\ d.items = c.items
    BY DEF IsChecklist, Status
  <1>2. Settled(d)
    BY <1>1 DEF Settled, CanApprove, AllItemsChecked, Live
  <1>3. {ListEvent("approved", u), ListEvent("completed", u)} \subseteq Events
    BY ListEventType DEF Actions
  <1> HIDE DEF d
  <1>4. Approve(c, u) = [list |-> d,
                         events |-> {ListEvent("approved", u), ListEvent("completed", u)}]
    BY DEF Approve, d
  <1> QED
    BY <1>1, <1>2, <1>3, <1>4, ResultFormed

LEMMA RejectSettles ==
    ASSUME NEW c, IsChecklist(c), NEW u \in Users, NEW S \in SUBSET Live(c)
    PROVE  IsResult(Reject(c, u, S)) /\ Settled(Reject(c, u, S).list)
  <1> DEFINE SentBack(item) ==
                [Unticked(item) EXCEPT
                    !.override = IF item.by # None THEN item.by ELSE item.override]
             f == [i \in Live(c) |-> IF i \in S THEN SentBack(c.items[i]) ELSE c.items[i]]
             d == [c EXCEPT !.status = "open", !.items = f]
             E == {Event("item_unchecked", u, i) : i \in S} \cup {ListEvent("rejected", u)}
  <1>1. ASSUME NEW item \in Item PROVE SentBack(item) \in Item
    BY DEF Unticked, Item, MaybeUser
  <1>2. IsItemList(f)
    BY <1>1 DEF IsChecklist, IsItemList, Live
  <1>3. IsChecklist(d) /\ d.status = "open"
    BY <1>2 DEF IsChecklist, Status
  <1>4. E \subseteq Events
    BY EventType, ListEventType DEF Actions, IsChecklist, IsItemList, Live
  <1>5. Reject(c, u, S) = [list |-> d, events |-> E]
    BY DEF Reject
  <1> HIDE DEF d, E
  <1> QED
    BY <1>3, <1>4, <1>5, ResultFormed DEF Settled

\* The creator's edits all end in Reopen.
LEMMA AddItemSettles ==
    ASSUME NEW c, IsChecklist(c), NEW u \in Users, NEW new \in ItemIds
    PROVE  IsResult(AddItem(c, u, new)) /\ Settled(AddItem(c, u, new).list)
  <1> DEFINE item == [checked |-> FALSE, by |-> None, override |-> None,
                      pos |-> Cardinality(Live(c))]
             f == [i \in Live(c) \cup {new} |-> IF i = new THEN item ELSE c.items[i]]
  <1>1. item \in Item
    BY LiveFinite DEF Item, MaybeUser
  <1>2. IsItemList(f)
    BY <1>1 DEF IsChecklist, IsItemList, Live
  <1>3. IsChecklist([c EXCEPT !.items = f])
    BY <1>2, ItemsReplaced DEF Status
  <1>4. ListEvent("item_added", u) \in Events
    BY ListEventType DEF Actions
  <1>5. AddItem(c, u, new) = Reopen(c, [c EXCEPT !.items = f], u, ListEvent("item_added", u))
    BY DEF AddItem
  <1> HIDE DEF f
  <1> QED
    BY <1>3, <1>4, <1>5, ReopenType

LEMMA RemoveItemSettles ==
    ASSUME NEW c, IsChecklist(c), NEW u \in Users, NEW gone \in Live(c),
           NEW place \in RemovePlaces(c, gone)
    PROVE  IsResult(RemoveItem(c, u, gone, place)) /\ Settled(RemoveItem(c, u, gone, place).list)
  <1> DEFINE f == [i \in Live(c) \ {gone} |-> [c.items[i] EXCEPT !.pos = place[i]]]
  <1>1. IsFiniteSet(Live(c) \ {gone})
    BY LiveFinite, FS_Subset
  <1>2. Cardinality(Live(c) \ {gone}) \in Nat
    BY <1>1, FS_CardinalityType
  <1>3. place \in [Live(c) \ {gone} -> 0 .. Cardinality(Live(c) \ {gone}) - 1]
    BY DEF RemovePlaces, Places
  <1>4. \A i \in Live(c) \ {gone} : place[i] \in Nat
    BY <1>2, <1>3
  <1>5. IsItemList(f)
    BY <1>4 DEF IsChecklist, IsItemList, Live, Item
  <1>6. IsChecklist([c EXCEPT !.items = f])
    BY <1>5, ItemsReplaced DEF Status
  <1>7. Event("item_removed", u, gone) \in Events
    BY EventType DEF IsChecklist, IsItemList, Live, Actions
  <1>8. RemoveItem(c, u, gone, place)
        = Reopen(c, [c EXCEPT !.items = f], u, Event("item_removed", u, gone))
    BY DEF RemoveItem
  <1> HIDE DEF f
  <1> QED
    BY <1>6, <1>7, <1>8, ReopenType

LEMMA ReorderItemsSettles ==
    ASSUME NEW c, IsChecklist(c), NEW u \in Users, NEW order \in Orders(c),
           NEW place \in ReorderPlaces(c, order)
    PROVE  IsResult(ReorderItems(c, u, place)) /\ Settled(ReorderItems(c, u, place).list)
  <1> DEFINE f == [i \in DOMAIN place |-> [c.items[i] EXCEPT !.pos = place[i]]]
  <1>1. order \in [0 .. Cardinality(Live(c)) - 1 -> Live(c)]
    BY DEF Orders
  <1>2. /\ DOMAIN place \subseteq Live(c)
        /\ \A i \in DOMAIN place : place[i] \in 0 .. Cardinality(Live(c)) - 1
    BY <1>1 DEF ReorderPlaces
  <1>3. \A i \in DOMAIN place : place[i] \in Nat
    BY <1>2, LiveFinite
  <1>4. IsItemList(f)
    BY <1>2, <1>3 DEF IsChecklist, IsItemList, Live, Item
  <1>5. IsChecklist([c EXCEPT !.items = f])
    BY <1>4, ItemsReplaced DEF Status
  <1>6. ListEvent("items_reordered", u) \in Events
    BY ListEventType DEF Actions
  <1>7. ReorderItems(c, u, place)
        = Reopen(c, [c EXCEPT !.items = f], u, ListEvent("items_reordered", u))
    BY DEF ReorderItems
  <1> HIDE DEF f
  <1> QED
    BY <1>5, <1>6, <1>7, ReopenType

LEMMA SetItemCheckedSettles ==
    ASSUME NEW c, IsChecklist(c), NEW u \in Users, NEW i \in Live(c), NEW b \in BOOLEAN
    PROVE  IsResult(SetItemChecked(c, u, i, b)) /\ Settled(SetItemChecked(c, u, i, b).list)
  <1> DEFINE item == IF b THEN Ticked(c.items[i], u) ELSE Unticked(c.items[i])
             f == [c.items EXCEPT ![i] = item]
             e == Event(IF b THEN "item_checked" ELSE "item_unchecked", u, i)
  <1>1. IsItemList(f)
    BY TickType DEF IsChecklist, IsItemList, Live
  <1>2. IsChecklist([c EXCEPT !.items = f])
    BY <1>1, ItemsReplaced DEF Status
  <1>3. e \in Events
    BY EventType DEF IsChecklist, IsItemList, Live, Actions
  <1>4. SetItemChecked(c, u, i, b) = Reopen(c, [c EXCEPT !.items = f], u, e)
    BY DEF SetItemChecked
  <1> HIDE DEF f, e
  <1> QED
    BY <1>2, <1>3, <1>4, ReopenType

-----------------------------------------------------------------------------
\* The audit log and the notifications.

LEMMA ReplayType ==
    ASSUME NEW t \in Trails, NEW E \in SUBSET Events
    PROVE  Replay(t, E) \in Trails
  <1>1. ASSUME NEW a, Has(E, a) PROVE ActorOf(E, a) \in Users
    BY <1>1 DEF Has, ActorOf, Logged, Events
  <1>2. ASSUME NEW a PROVE ItemsOf(E, a) \subseteq ItemIds \cup {None}
    BY DEF ItemsOf, Logged, Events
  <1>3. t.size + (IF Has(E, "item_added") THEN 1 ELSE 0)
               - (IF Has(E, "item_removed") THEN 1 ELSE 0) \in Int
    BY DEF Trails
  <1> QED
    BY <1>1, <1>2, <1>3 DEF Replay, Trails, MaybeUser, Status

LEMMA NotificationsType ==
    ASSUME NEW c, IsChecklist(c), NEW E \in SUBSET Events
    PROVE  NotificationsFor(c, E) \in SUBSET Notifications
  <1>1. ASSUME NEW e \in E, Recipient(c, e) # None
        PROVE  [type |-> e.action, to |-> Recipient(c, e)] \in Notifications
    <2>1. e.action \in NotificationTypes
      BY <1>1 DEF Recipient, NotificationTypes
    <2>2. Recipient(c, e) \in MaybeUser
      BY DEF Recipient, IsChecklist, MaybeUser
    <2> QED
      BY <1>1, <2>1, <2>2 DEF Notifications, MaybeUser
  <1> QED
    BY <1>1 DEF NotificationsFor

-----------------------------------------------------------------------------
\* Type correctness, and with it: a list that is not open is all checked.

IInv == TypeOK /\ ListsSettled /\ DoneMeansAllChecked

LEMMA IdleType == IsRequest(Idle)
  <1>1. IsChecklist(NoList)
    BY DEF NoList, IsChecklist, IsItemList, Status, MaybeUser
  <1> QED
    BY <1>1 DEF IsRequest, Idle, PCs, MaybeUser

\* What may be under way when the list appears.
LEMMA UnderWayType ==
    ASSUME NEW q \in UnderWay
    PROVE  /\ IsRequest(q)
           /\ q.pc \in {"idle", "halfway", "overtaken"}
           /\ q.events = {}
  <1>1. q.list = NoList /\ IsChecklist(NoList)
    BY IdleType DEF UnderWay, IsRequest, Idle
  <1> QED
    BY <1>1 DEF UnderWay, IsRequest, PCs, MaybeUser

\* One request changes, the rest of the state that IInv reads does not.
LEMMA RequestStep ==
    ASSUME IInv, NEW r \in Requests, NEW q, IsRequest(q),
           q.pc \in {"loaded", "saved"} => Settled(q.list),
           req' = [req EXCEPT ![r] = q],
           lock' \in Requests \cup {None},
           UNCHANGED <<row, used, active, members, trail, notified>>
    PROVE  IInv'
  <1>1. req' = [s \in Requests |-> req'[s]]
    BY DEF IInv, TypeOK
  <1>2. \A s \in Requests : req'[s] = IF s = r THEN q ELSE req[s]
    BY DEF IInv, TypeOK
  <1>3. TypeOK'
    BY <1>1, <1>2 DEF IInv, TypeOK
  <1>4. ListsSettled'
    BY <1>2 DEF IInv, ListsSettled
  <1>5. DoneMeansAllChecked'
    BY DEF IInv, DoneMeansAllChecked
  <1> QED
    BY <1>3, <1>4, <1>5 DEF IInv

\* The request is over: IInv asks nothing more of it.
LEMMA FinishStep ==
    ASSUME IInv, NEW r \in Requests, Finish(r)
    PROVE  /\ req' = [s \in Requests |-> req'[s]]
           /\ \A s \in Requests : IsRequest(req'[s])
           /\ \A s \in Requests :
                 req'[s].pc \in {"loaded", "saved"} => Settled(req'[s].list)
  <1>1. \A s \in Requests : req'[s] = IF s = r THEN Idle ELSE req[s]
    BY DEF IInv, TypeOK, Finish
  <1>2. Idle.pc = "idle"
    BY DEF Idle
  <1> QED
    BY <1>1, <1>2, IdleType DEF IInv, TypeOK, ListsSettled, Finish

LEMMA UnlockType ==
    ASSUME TypeOK, NEW r \in Requests, Unlock(r)
    PROVE  lock' \in Requests \cup {None}
  BY DEF TypeOK, Unlock

LEMMA InitIInv == Init => IInv
  <1> SUFFICES ASSUME Init PROVE IInv
    OBVIOUS
  <1>0. PICK S \in SUBSET ItemIds : \E f \in Places(S) :
            /\ row.items = [i \in S |-> [checked |-> FALSE, by |-> None,
                                          override |-> None, pos |-> f[i]]]
            /\ row = [status |-> "open", assignee |-> row.assignee,
                       approver |-> row.approver, items |-> row.items]
            /\ row.assignee \in MaybeUser
            /\ row.approver \in MaybeUser
    BY DEF Init
  <1>1. PICK f \in Places(S) :
            /\ row.items = [i \in S |-> [checked |-> FALSE, by |-> None,
                                          override |-> None, pos |-> f[i]]]
            /\ row = [status |-> "open", assignee |-> row.assignee,
                       approver |-> row.approver, items |-> row.items]
            /\ row.assignee \in MaybeUser
            /\ row.approver \in MaybeUser
    BY <1>0
  <1>2. Cardinality(S) \in Nat
    BY ItemIdsAssumption, FS_Subset, FS_CardinalityType
  <1>3. \A i \in S : f[i] \in Nat
    BY <1>2 DEF Places
  <1>4. IsChecklist(row)
    BY <1>1, <1>3 DEF IsChecklist, IsItemList, Item, Status, MaybeUser
  <1>5. members \in SUBSET Users
    BY DEF Init
  <1>6. trail \in Trails
    BY <1>1, <1>2 DEF Init, Trails, Status, MaybeUser
  <1>10. req = [r \in Requests |-> req[r]] /\ \A r \in Requests : req[r] \in UnderWay
    BY DEF Init
  <1>7. TypeOK
    BY <1>1, <1>4, <1>5, <1>6, <1>10, UnderWayType DEF Init, TypeOK
  <1>8. ListsSettled
    BY <1>10, UnderWayType DEF ListsSettled
  <1>9. DoneMeansAllChecked
    BY <1>1 DEF DoneMeansAllChecked, Settled
  <1> QED
    BY <1>7, <1>8, <1>9 DEF IInv
\* Arrivals.
LEMMA ArriveStep ==
    ASSUME IInv, NEW r \in Requests, Arrive(r)
    PROVE  IInv'
  <1>1. ASSUME NEW pc \in PCs \ {"loaded", "saved"}, NEW u \in Users,
               NEW seen \in MaybeUser, Begin(r, pc, u, seen)
        PROVE  IInv'
    <2> DEFINE q == [Idle EXCEPT !.pc = pc, !.user = u, !.expect = seen]
    <2>1. IsRequest(q) /\ q.pc \notin {"loaded", "saved"}
      BY IdleType DEF IsRequest, Idle, MaybeUser
    <2>2. /\ req' = [req EXCEPT ![r] = q]
          /\ UNCHANGED <<row, used, active, members, lock, trail, notified>>
      BY <1>1 DEF Begin
    <2> HIDE DEF q
    <2> QED
      BY <2>1, <2>2, RequestStep DEF IInv, TypeOK
  <1>2. active \subseteq Users /\ None \in MaybeUser /\ Users \subseteq MaybeUser
    BY DEF IInv, TypeOK, MaybeUser
  <1> QED
    BY <1>1, <1>2
       DEF Arrive, BeginMutation, BeginClaim, BeginClaimUI, BeginSuspension, PCs

\* Statements that only move the request on: the row, if locked, is unchanged.
LEMMA GotoStep ==
    ASSUME IInv, NEW r \in Requests, ~At(r, "idle"),
           NEW pc \in PCs \ {"idle", "loaded", "saved"}, Goto(r, pc),
           lock' \in Requests \cup {None},
           UNCHANGED <<row, used, active, members, trail, notified>>
    PROVE  IInv'
  <1> DEFINE q == [req[r] EXCEPT !.pc = pc]
  <1>1. IsRequest(req[r])
    BY DEF IInv, TypeOK
  <1>2. IsRequest(q) /\ q.pc = pc
    BY <1>1 DEF IsRequest, At
  <1>3. req' = [req EXCEPT ![r] = q]
    BY DEF Goto
  <1> HIDE DEF q
  <1> QED
    BY <1>2, <1>3, RequestStep

LEMMA LoadStep ==
    ASSUME IInv, NEW r \in Requests, Load(r)
    PROVE  IInv'
  <1> DEFINE q == [req[r] EXCEPT !.pc = "loaded", !.list = row]
  <1>1. IsRequest(req[r]) /\ IsChecklist(row) /\ Settled(row)
    BY DEF IInv, TypeOK, DoneMeansAllChecked
  <1>2. IsRequest(q) /\ q.list = row
    BY <1>1 DEF IsRequest, PCs, Load, At
  <1>3. req' = [req EXCEPT ![r] = q] /\ lock' = r
    BY DEF Load
  <1> HIDE DEF q
  <1> QED
    BY <1>1, <1>2, <1>3, RequestStep DEF Load

LEMMA SaveStep ==
    ASSUME IInv, NEW r \in Requests, At(r, "loaded"),
           NEW res, IsResult(res), Settled(res.list), Save(r, res)
    PROVE  IInv'
  <1> DEFINE q == [req[r] EXCEPT !.pc = "saved", !.list = res.list, !.events = res.events]
  <1>1. IsRequest(req[r])
    BY DEF IInv, TypeOK
  <1>2. IsRequest(q) /\ q.list = res.list
    BY <1>1 DEF IsRequest, IsResult, PCs, At
  <1>3. req' = [req EXCEPT ![r] = q]
    BY DEF Save
  <1>4. lock' \in Requests \cup {None}
    BY DEF Save, IInv, TypeOK
  <1> HIDE DEF q
  <1> QED
    BY <1>2, <1>3, <1>4, RequestStep DEF Save

\* The seven domain calls.
LEMMA HandlerStep ==
    ASSUME IInv, NEW r \in Requests,
           \/ HandleCheckItem(r) \/ HandleApprove(r) \/ HandleReject(r)
           \/ HandleAddItem(r) \/ HandleRemoveItem(r) \/ HandleReorder(r)
           \/ HandleSetItemChecked(r)
    PROVE  IInv'
  <1> DEFINE c == req[r].list
             u == req[r].user
  <1>1. At(r, "loaded")
    BY DEF HandleCheckItem, HandleApprove, HandleReject, HandleAddItem,
           HandleRemoveItem, HandleReorder, HandleSetItemChecked
  <1>2. IsChecklist(c) /\ u \in Users /\ Settled(c)
    BY <1>1 DEF IInv, TypeOK, IsRequest, ListsSettled, At
  <1>3. CASE HandleCheckItem(r)
    <2>1. PICK i \in Live(c) : Save(r, CheckItem(c, u, i))
      BY <1>3 DEF HandleCheckItem
    <2> QED
      BY <1>1, <1>2, <2>1, CheckItemSettles, SaveStep
  <1>4. CASE HandleApprove(r)
    <2>1. CanApprove(c, u) /\ Save(r, Approve(c, u))
      BY <1>4 DEF HandleApprove
    <2> QED
      BY <1>1, <1>2, <2>1, ApproveSettles, SaveStep
  <1>5. CASE HandleReject(r)
    <2>1. PICK S \in SUBSET Live(c) : Save(r, Reject(c, u, S))
      BY <1>5 DEF HandleReject
    <2> QED
      BY <1>1, <1>2, <2>1, RejectSettles, SaveStep
  <1>6. CASE HandleAddItem(r)
    <2>1. PICK new \in ItemIds : Save(r, AddItem(c, u, new))
      BY <1>6 DEF HandleAddItem
    <2> QED
      BY <1>1, <1>2, <2>1, AddItemSettles, SaveStep
  <1>7. CASE HandleRemoveItem(r)
    <2>1. PICK i \in Live(c) : \E place \in RemovePlaces(c, i) :
              Save(r, RemoveItem(c, u, i, place))
      BY <1>7 DEF HandleRemoveItem
    <2>2. PICK place \in RemovePlaces(c, i) : Save(r, RemoveItem(c, u, i, place))
      BY <2>1
    <2> QED
      BY <1>1, <1>2, <2>2, RemoveItemSettles, SaveStep
  <1>8. CASE HandleReorder(r)
    <2>1. PICK order \in Orders(c) : \E place \in ReorderPlaces(c, order) :
              Save(r, ReorderItems(c, u, place))
      BY <1>8 DEF HandleReorder
    <2>2. PICK place \in ReorderPlaces(c, order) : Save(r, ReorderItems(c, u, place))
      BY <2>1
    <2> QED
      BY <1>1, <1>2, <2>2, ReorderItemsSettles, SaveStep
  <1>9. CASE HandleSetItemChecked(r)
    <2>1. PICK i \in Live(c), b \in BOOLEAN : Save(r, SetItemChecked(c, u, i, b))
      BY <1>9 DEF HandleSetItemChecked
    <2> QED
      BY <1>1, <1>2, <2>1, SetItemCheckedSettles, SaveStep
  <1> QED
    BY <1>3, <1>4, <1>5, <1>6, <1>7, <1>8, <1>9

\* Save's status and items become the row's in one step.
LEMMA CommitStep ==
    ASSUME IInv, NEW r \in Requests, Commit(r)
    PROVE  IInv'
  <1> DEFINE c == req[r].list
             E == req[r].events
  <1>1. IsChecklist(c) /\ Settled(c) /\ E \in SUBSET Events
    BY DEF Commit, At, IInv, TypeOK, IsRequest, ListsSettled
  <1>2. row' = [row EXCEPT !.status = c.status, !.items = c.items]
    BY DEF Commit
  <1>3. row'.status = c.status /\ row'.items = c.items /\ IsChecklist(row')
    BY <1>1, <1>2 DEF IInv, TypeOK, IsChecklist
  <1>4. Settled(row')
    BY <1>1, <1>3 DEF Settled, AllItemsChecked, Live
  <1>5. used' \in SUBSET ItemIds /\ DOMAIN row'.items \subseteq used'
    BY <1>1, <1>3 DEF Commit, IInv, TypeOK, IsChecklist, IsItemList, Live
  <1>6. trail' \in Trails
    BY <1>1, ReplayType DEF Commit, IInv, TypeOK
  <1>7. notified' \in SUBSET Notifications
    BY <1>1, NotificationsType DEF Commit, IInv, TypeOK
  <1>8. Finish(r) /\ lock' \in Requests \cup {None}
    BY UnlockType DEF Commit, IInv
  <1>9. TypeOK'
    BY <1>3, <1>5, <1>6, <1>7, <1>8, FinishStep DEF TypeOK, Commit, IInv
  <1>10. ListsSettled'
    BY <1>8, FinishStep DEF ListsSettled
  <1> QED
    BY <1>4, <1>9, <1>10 DEF IInv, DoneMeansAllChecked

\* Writing another assignee or approver leaves a row well-formed and settled.
LEMMA RolesReplaced ==
    ASSUME IsChecklist(row), Settled(row), NEW a \in MaybeUser, NEW v \in MaybeUser,
           row' = [row EXCEPT !.assignee = a, !.approver = v]
    PROVE  IsChecklist(row') /\ Settled(row') /\ row'.items = row.items
  <1>1. IsChecklist(row') /\ row'.items = row.items /\ row'.status = row.status
    BY DEF IsChecklist
  <1> QED
    BY <1>1 DEF Settled, AllItemsChecked, Live

LEMMA ClaimStep ==
    ASSUME IInv, NEW r \in Requests,
           \/ WinClaim(r) \/ CommitClaim(r) \/ ViewClaimUI(r) \/ WinClaimUI(r)
           \/ LogClaimUI(r) \/ LoseClaim(r) \/ NotifyLoser(r)
    PROVE  IInv'
  <1>1. CASE WinClaim(r)
    BY <1>1, GotoStep DEF WinClaim, At, PCs
  <1>2. CASE CommitClaim(r)
    <2> DEFINE u == req[r].user
    <2>1. u \in Users /\ row.approver \in MaybeUser
      BY <1>2 DEF CommitClaim, At, IInv, TypeOK, IsRequest, IsChecklist
    <2>2. row' = [row EXCEPT !.assignee = u, !.approver = row.approver]
      BY <1>2 DEF CommitClaim, IInv, TypeOK, IsChecklist
    <2>3. IsChecklist(row') /\ Settled(row') /\ row'.items = row.items
      BY <2>1, <2>2, RolesReplaced DEF IInv, TypeOK, DoneMeansAllChecked, MaybeUser
    <2>4. trail' \in Trails
      <3>1. {ListEvent("claimed", u)} \in SUBSET Events
        BY <2>1, ListEventType DEF Actions
      <3> QED
        BY <1>2, <3>1, ReplayType DEF CommitClaim, IInv, TypeOK
    <2>5. Finish(r) /\ lock' \in Requests \cup {None}
      BY <1>2, UnlockType DEF CommitClaim, IInv
    <2>6. TypeOK'
      BY <1>2, <2>3, <2>4, <2>5, FinishStep DEF TypeOK, CommitClaim, IInv
    <2>7. ListsSettled'
      BY <2>5, FinishStep DEF ListsSettled
    <2> QED
      BY <2>3, <2>6, <2>7 DEF IInv, DoneMeansAllChecked
  <1>3. CASE ViewClaimUI(r)
    <2> DEFINE q == [req[r] EXCEPT !.pc = "viewed", !.expect = row.assignee]
    <2>1. IsRequest(req[r]) /\ IsChecklist(row)
      BY DEF IInv, TypeOK
    <2>2. IsRequest(q) /\ q.pc = "viewed"
      BY <1>3, <2>1 DEF IsRequest, IsChecklist, PCs, ViewClaimUI, At
    <2>3. req' = [req EXCEPT ![r] = q] /\ lock' \in Requests \cup {None}
      BY <1>3 DEF ViewClaimUI, IInv, TypeOK
    <2> HIDE DEF q
    <2> QED
      BY <1>3, <2>2, <2>3, RequestStep DEF ViewClaimUI
  <1>4. CASE WinClaimUI(r)
    <2> DEFINE u == req[r].user
               q == [req[r] EXCEPT !.pc = "unlogged"]
    <2>1. u \in Users /\ row.approver \in MaybeUser
      BY <1>4 DEF WinClaimUI, At, IInv, TypeOK, IsRequest, IsChecklist
    <2>2. row' = [row EXCEPT !.assignee = u, !.approver = row.approver]
      BY <1>4 DEF WinClaimUI, IInv, TypeOK, IsChecklist
    <2>3. IsChecklist(row') /\ Settled(row') /\ row'.items = row.items
      BY <2>1, <2>2, RolesReplaced DEF IInv, TypeOK, DoneMeansAllChecked, MaybeUser
    <2>4. IsRequest(q) /\ q.pc = "unlogged"
      BY <2>1 DEF IInv, TypeOK, IsRequest, PCs
    <2>5. req' = [req EXCEPT ![r] = q]
      BY <1>4 DEF WinClaimUI, Goto
    <2> HIDE DEF q
    <2>6. TypeOK'
      BY <1>4, <2>3, <2>4, <2>5 DEF TypeOK, WinClaimUI, IInv
    <2>7. ListsSettled'
      BY <2>4, <2>5 DEF ListsSettled, IInv, TypeOK
    <2> QED
      BY <2>3, <2>6, <2>7 DEF IInv, DoneMeansAllChecked
  <1>5. CASE LogClaimUI(r)
    <2>1. req[r].user \in Users
      BY <1>5 DEF LogClaimUI, At, IInv, TypeOK, IsRequest
    <2>2. {ListEvent("claimed", req[r].user)} \in SUBSET Events
      BY <2>1, ListEventType DEF Actions
    <2>3. trail' \in Trails
      BY <1>5, <2>2, ReplayType DEF LogClaimUI, IInv, TypeOK
    <2>4. TypeOK'
      BY <1>5, <2>3, FinishStep DEF TypeOK, LogClaimUI, IInv
    <2>5. ListsSettled'
      BY <1>5, FinishStep DEF ListsSettled, LogClaimUI
    <2> QED
      BY <1>5, <2>4, <2>5 DEF IInv, DoneMeansAllChecked, LogClaimUI
  <1>6. CASE LoseClaim(r)
    BY <1>6, GotoStep DEF LoseClaim, At, PCs, IInv, TypeOK
  <1>7. CASE NotifyLoser(r)
    <2>1. TypeOK'
      BY <1>7, FinishStep DEF TypeOK, NotifyLoser, IInv
    <2>2. ListsSettled'
      BY <1>7, FinishStep DEF ListsSettled, NotifyLoser
    <2> QED
      BY <1>7, <2>1, <2>2 DEF IInv, DoneMeansAllChecked, NotifyLoser
  <1> QED
    BY <1>1, <1>2, <1>3, <1>4, <1>5, <1>6, <1>7
LEMMA SuspensionStep ==
    ASSUME IInv, NEW r \in Requests,
           \/ Deactivate(r) \/ VacateApprover(r) \/ VacateAssignee(r)
           \/ CommitSuspension(r)
    PROVE  IInv'
  <1> DEFINE u == req[r].user
  <1>1. u \in Users /\ IsRequest(req[r])
    BY DEF Deactivate, VacateApprover, VacateAssignee, CommitSuspension, At,
           IInv, TypeOK, IsRequest
  <1>2. ASSUME NEW pc \in {"unapproved", "unassigned", "overtaken"},
               NEW a \in {"approver_changed", "assignee_changed"},
               ~At(r, "idle"), UpdateRow(r, pc, ListEvent(a, u)),
               UNCHANGED <<row, used, active, members, trail, notified>>
        PROVE  IInv'
    <2> DEFINE q == [req[r] EXCEPT !.pc = pc, !.events = @ \cup {ListEvent(a, u)}]
    <2>1. ListEvent(a, u) \in Events
      BY <1>1, ListEventType DEF Actions
    <2>2. IsRequest(q) /\ q.pc = pc
      BY <1>1, <2>1 DEF IsRequest, PCs
    <2>3. req' = [req EXCEPT ![r] = q] /\ lock' = r
      BY <1>2 DEF UpdateRow
    <2> HIDE DEF q
    <2> QED
      BY <1>2, <2>2, <2>3, RequestStep
  <1>3. CASE Deactivate(r)
    BY <1>3, GotoStep DEF Deactivate, At, PCs, IInv, TypeOK
  <1>4. CASE VacateApprover(r)
    BY <1>2, <1>4, GotoStep DEF VacateApprover, At, PCs, IInv, TypeOK
  <1>5. CASE VacateAssignee(r)
    BY <1>2, <1>5, GotoStep DEF VacateAssignee, AfterVacating, At, PCs, IInv, TypeOK
  <1>6. CASE CommitSuspension(r)
    <2> DEFINE E == req[r].events
               a == IF Has(E, "assignee_changed") THEN None ELSE row.assignee
               v == IF Has(E, "approver_changed") THEN None ELSE row.approver
    <2>1. a \in MaybeUser /\ v \in MaybeUser
      BY DEF IInv, TypeOK, IsChecklist, MaybeUser
    <2>2. row' = [row EXCEPT !.assignee = a, !.approver = v]
      BY <1>6 DEF CommitSuspension, IInv, TypeOK, IsChecklist
    <2> HIDE DEF a, v
    <2>3. IsChecklist(row') /\ Settled(row') /\ row'.items = row.items
      BY <2>1, <2>2, RolesReplaced DEF IInv, TypeOK, DoneMeansAllChecked
    <2>4. trail' \in Trails
      BY <1>1, <1>6, ReplayType DEF CommitSuspension, IInv, TypeOK, IsRequest
    <2>5. active' \in SUBSET Users
      BY <1>6 DEF CommitSuspension, IInv, TypeOK
    <2>6. Finish(r) /\ lock' \in Requests \cup {None}
      BY <1>6, UnlockType DEF CommitSuspension, IInv
    <2>7. TypeOK'
      BY <1>6, <2>3, <2>4, <2>5, <2>6, FinishStep DEF TypeOK, CommitSuspension, IInv
    <2>8. ListsSettled'
      BY <2>6, FinishStep DEF ListsSettled
    <2> QED
      BY <2>3, <2>7, <2>8 DEF IInv, DoneMeansAllChecked
  <1> QED
    BY <1>3, <1>4, <1>5, <1>6

\* A request that ends without committing leaves the database as it was.
LEMMA AbandonStep ==
    ASSUME IInv, NEW r \in Requests, Refuse(r) \/ TriggerRaises(r) \/ Rollback(r)
    PROVE  IInv'
  <1>1. /\ Finish(r)
        /\ Unlock(r)
        /\ UNCHANGED <<row, used, active, members, trail, notified>>
    BY DEF Refuse, TriggerRaises, Rollback
  <1>2. TypeOK'
    BY <1>1, FinishStep, UnlockType DEF TypeOK, IInv
  <1>3. ListsSettled'
    BY <1>1, FinishStep DEF ListsSettled
  <1> QED
    BY <1>1, <1>2, <1>3 DEF IInv, DoneMeansAllChecked

LEMMA UserStep ==
    ASSUME IInv, NEW u \in Users, Reactivate(u) \/ AddMember(u) \/ RemoveMember(u)
    PROVE  IInv'
  <1>1. /\ active' \in SUBSET Users
        /\ members' \in SUBSET Users
        /\ UNCHANGED <<row, used, lock, req, trail, notified>>
    BY DEF Reactivate, AddMember, RemoveMember, IInv, TypeOK
  <1> QED
    BY <1>1 DEF IInv, TypeOK, ListsSettled, DoneMeansAllChecked

LEMMA NextIInv == IInv /\ [Next]_vars => IInv'
  <1> SUFFICES ASSUME IInv, [Next]_vars PROVE IInv'
    OBVIOUS
  <1>1. CASE UNCHANGED vars
    BY <1>1 DEF vars, IInv, TypeOK, ListsSettled, DoneMeansAllChecked
  <1>2. ASSUME NEW r \in Requests, Step(r) PROVE IInv'
    BY <1>2, LoadStep, HandlerStep, AbandonStep, CommitStep, ClaimStep, SuspensionStep
       DEF Step
  <1>3. ASSUME NEW r \in Requests, Arrive(r) \/ Step(r) \/ Rollback(r) PROVE IInv'
    BY <1>2, <1>3, ArriveStep, AbandonStep
  <1> QED
    BY <1>1, <1>3, UserStep DEF Next

LEMMA Invariance == Spec => []IInv
  BY InitIInv, NextIInv, PTL DEF Spec

\* The state always has the types of the tables' columns.
THEOREM TypeCorrect == Spec => []TypeOK
  BY Invariance, PTL DEF IInv

\* Whatever requests do at the same time, a list that awaits validation or is
\* complete has items and all of them are checked.
THEOREM DoneIsDone == Spec => []DoneMeansAllChecked
  BY Invariance, PTL DEF IInv

-----------------------------------------------------------------------------
\* Suspension: it takes effect together with the loss of the approver's role.

SInv == IInv /\ SuspensionClears

\* The steps that change the committed row.
RowWrite(r) == Commit(r) \/ CommitClaim(r) \/ WinClaimUI(r) \/ CommitSuspension(r)

LEMMA RowWriters ==
    ASSUME [Next]_vars
    PROVE  (\E r \in Requests : RowWrite(r)) \/ UNCHANGED row
  <1>1. ASSUME NEW r \in Requests, Arrive(r) PROVE UNCHANGED row
    BY <1>1 DEF Arrive, BeginMutation, BeginClaim, BeginClaimUI, BeginSuspension, Begin
  <1>2. ASSUME NEW r \in Requests,
               \/ HandleCheckItem(r) \/ HandleApprove(r) \/ HandleReject(r)
               \/ HandleAddItem(r) \/ HandleRemoveItem(r) \/ HandleReorder(r)
               \/ HandleSetItemChecked(r)
        PROVE  UNCHANGED row
    <2>1. ASSUME NEW res, Save(r, res) PROVE UNCHANGED row
      BY <2>1 DEF Save
    <2> QED
      BY <1>2, <2>1 DEF HandleCheckItem, HandleApprove, HandleReject, HandleAddItem,
                        HandleRemoveItem, HandleReorder, HandleSetItemChecked
  <1>3. ASSUME NEW r \in Requests,
               \/ Load(r) \/ Refuse(r) \/ WinClaim(r) \/ ViewClaimUI(r)
               \/ LogClaimUI(r) \/ LoseClaim(r) \/ NotifyLoser(r) \/ Deactivate(r)
               \/ VacateApprover(r) \/ VacateAssignee(r) \/ TriggerRaises(r)
               \/ Rollback(r)
        PROVE  UNCHANGED row
    BY <1>3 DEF Load, Refuse, WinClaim, ViewClaimUI, LogClaimUI, LoseClaim,
                NotifyLoser, Deactivate, VacateApprover, VacateAssignee,
                TriggerRaises, Rollback
  <1>4. ASSUME NEW u \in Users, Reactivate(u) \/ AddMember(u) \/ RemoveMember(u)
        PROVE  UNCHANGED row
    BY <1>4 DEF Reactivate, AddMember, RemoveMember
  <1>5. ASSUME NEW r \in Requests, Step(r) PROVE RowWrite(r) \/ UNCHANGED row
    BY <1>2, <1>3, <1>5 DEF Step, RowWrite
  <1>6. CASE UNCHANGED vars
    BY <1>6 DEF vars
  <1> QED
    BY <1>1, <1>3, <1>4, <1>5, <1>6 DEF Next

\* Nobody becomes the approver of a list that exists.
LEMMA ApproverNeverSet ==
    ASSUME IInv, [Next]_vars
    PROVE  row'.approver \in {row.approver, None}
  <1>1. ASSUME NEW r \in Requests, Commit(r) PROVE row'.approver = row.approver
    BY <1>1 DEF Commit, IInv, TypeOK, IsChecklist
  <1>2. ASSUME NEW r \in Requests, CommitClaim(r) \/ WinClaimUI(r)
        PROVE  row'.approver = row.approver
    BY <1>2 DEF CommitClaim, WinClaimUI, IInv, TypeOK, IsChecklist
  <1>3. ASSUME NEW r \in Requests, CommitSuspension(r)
        PROVE  row'.approver \in {row.approver, None}
    BY <1>3 DEF CommitSuspension, IInv, TypeOK, IsChecklist
  <1>4. (\E r \in Requests : RowWrite(r)) \/ UNCHANGED row
    BY RowWriters
  <1> QED
    BY <1>1, <1>2, <1>3, <1>4 DEF RowWrite
\* Only a suspension's commit takes somebody's account away.
LEMMA ActiveShrinks ==
    ASSUME [Next]_vars
    PROVE  (\E r \in Requests : CommitSuspension(r)) \/ active \subseteq active'
  <1>1. ASSUME NEW r \in Requests, Arrive(r) PROVE UNCHANGED active
    BY <1>1 DEF Arrive, BeginMutation, BeginClaim, BeginClaimUI, BeginSuspension, Begin
  <1>2. ASSUME NEW r \in Requests,
               \/ HandleCheckItem(r) \/ HandleApprove(r) \/ HandleReject(r)
               \/ HandleAddItem(r) \/ HandleRemoveItem(r) \/ HandleReorder(r)
               \/ HandleSetItemChecked(r)
        PROVE  UNCHANGED active
    <2>1. ASSUME NEW res, Save(r, res) PROVE UNCHANGED active
      BY <2>1 DEF Save
    <2> QED
      BY <1>2, <2>1 DEF HandleCheckItem, HandleApprove, HandleReject, HandleAddItem,
                        HandleRemoveItem, HandleReorder, HandleSetItemChecked
  <1>3. ASSUME NEW r \in Requests,
               \/ Load(r) \/ Refuse(r) \/ Commit(r) \/ WinClaim(r) \/ CommitClaim(r)
               \/ ViewClaimUI(r) \/ WinClaimUI(r) \/ LogClaimUI(r) \/ LoseClaim(r)
               \/ NotifyLoser(r) \/ Deactivate(r) \/ VacateApprover(r)
               \/ VacateAssignee(r) \/ TriggerRaises(r) \/ Rollback(r)
        PROVE  UNCHANGED active
    BY <1>3 DEF Load, Refuse, Commit, WinClaim, CommitClaim, ViewClaimUI, WinClaimUI,
                LogClaimUI, LoseClaim, NotifyLoser, Deactivate, VacateApprover,
                VacateAssignee, TriggerRaises, Rollback
  <1>4. ASSUME NEW u \in Users, Reactivate(u) \/ AddMember(u) \/ RemoveMember(u)
        PROVE  active \subseteq active'
    BY <1>4 DEF Reactivate, AddMember, RemoveMember
  <1>5. ASSUME NEW r \in Requests, Step(r)
        PROVE  CommitSuspension(r) \/ UNCHANGED active
    BY <1>2, <1>3, <1>5 DEF Step
  <1>6. CASE UNCHANGED vars
    BY <1>6 DEF vars
  <1> QED
    BY <1>1, <1>3, <1>4, <1>5, <1>6 DEF Next

\* A request that is inside a suspension after the step was there before it,
\* or has just executed one of its UPDATEs.
LEMMA SuspensionSteps ==
    ASSUME IInv, [Next]_vars, NEW s \in Requests,
           req'[s].pc \in {"unapproved", "unassigned"}
    PROVE  req'[s] = req[s] \/ VacateApprover(s) \/ VacateAssignee(s)
  <1>0. /\ \A r \in Requests : IsRequest(req[r])
        /\ req = [r \in Requests |-> req[r]]
    BY DEF IInv, TypeOK
  <1>1. ASSUME NEW r \in Requests, NEW pc, NEW u, NEW seen, Begin(r, pc, u, seen),
               pc \in {"begun", "claiming", "opening", "suspending"}
        PROVE  req'[s] = req[s]
    BY <1>0, <1>1 DEF Begin, Idle
  <1>2. ASSUME NEW r \in Requests, Arrive(r) PROVE req'[s] = req[s]
    BY <1>1, <1>2 DEF Arrive, BeginMutation, BeginClaim, BeginClaimUI, BeginSuspension
  <1>3. ASSUME NEW r \in Requests, NEW res, Save(r, res) PROVE req'[s] = req[s]
    BY <1>0, <1>3 DEF Save, IsRequest
  <1>4. ASSUME NEW r \in Requests,
               \/ HandleCheckItem(r) \/ HandleApprove(r) \/ HandleReject(r)
               \/ HandleAddItem(r) \/ HandleRemoveItem(r) \/ HandleReorder(r)
               \/ HandleSetItemChecked(r)
        PROVE  req'[s] = req[s]
    BY <1>3, <1>4 DEF HandleCheckItem, HandleApprove, HandleReject, HandleAddItem,
                      HandleRemoveItem, HandleReorder, HandleSetItemChecked
  <1>5. ASSUME NEW r \in Requests, Finish(r) PROVE req'[s] = req[s]
    BY <1>0, <1>5 DEF Finish, Idle
  <1>6. ASSUME NEW r \in Requests,
               \/ Refuse(r) \/ Commit(r) \/ CommitClaim(r) \/ LogClaimUI(r)
               \/ NotifyLoser(r) \/ CommitSuspension(r) \/ TriggerRaises(r)
               \/ Rollback(r)
        PROVE  req'[s] = req[s]
    BY <1>5, <1>6 DEF Refuse, Commit, CommitClaim, LogClaimUI, NotifyLoser,
                      CommitSuspension, TriggerRaises, Rollback
  <1>7. ASSUME NEW r \in Requests,
               Load(r) \/ WinClaim(r) \/ ViewClaimUI(r) \/ WinClaimUI(r)
               \/ LoseClaim(r) \/ Deactivate(r)
        PROVE  req'[s] = req[s]
    BY <1>0, <1>7 DEF Load, WinClaim, ViewClaimUI, WinClaimUI, LoseClaim, Deactivate,
                      Goto, IsRequest
  <1>8. ASSUME NEW r \in Requests, r # s, VacateApprover(r) \/ VacateAssignee(r)
        PROVE  req'[s] = req[s]
    BY <1>0, <1>8 DEF VacateApprover, VacateAssignee, UpdateRow, Goto
  <1>9. ASSUME NEW r \in Requests, Step(r)
        PROVE  req'[s] = req[s] \/ VacateApprover(s) \/ VacateAssignee(s)
    BY <1>4, <1>6, <1>7, <1>8, <1>9 DEF Step
  <1>10. ASSUME NEW u \in Users, Reactivate(u) \/ AddMember(u) \/ RemoveMember(u)
         PROVE  req'[s] = req[s]
    BY <1>10 DEF Reactivate, AddMember, RemoveMember
  <1>11. CASE UNCHANGED vars
    BY <1>11 DEF vars
  <1> QED
    BY <1>2, <1>6, <1>9, <1>10, <1>11 DEF Next

\* A suspension notes the approver's removal before it commits.
LEMMA NextSInv == SInv /\ [Next]_vars => SInv'
  <1> SUFFICES ASSUME SInv, [Next]_vars PROVE SInv'
    OBVIOUS
  <1>1. IInv /\ IInv'
    BY NextIInv DEF SInv
  <1>2. row'.approver \in {row.approver, None}
    BY <1>1, ApproverNeverSet
  <1>3. SuspensionClears'
    <2> SUFFICES ASSUME NEW s \in Requests,
                        req'[s].pc \in {"unapproved", "unassigned"},
                        row'.approver = req'[s].user
                 PROVE  Has(req'[s].events, "approver_changed")
      BY DEF SuspensionClears
    <2>1. row.approver = req'[s].user
      BY <1>1, <1>2, NoneAssumption DEF IInv, TypeOK, IsRequest
    <2>2. \/ req'[s] = req[s]
          \/ VacateApprover(s)
          \/ VacateAssignee(s)
      BY <1>1, SuspensionSteps
    <2>3. CASE req'[s] = req[s]
      BY <2>1, <2>3 DEF SInv, SuspensionClears
    <2>4. CASE VacateApprover(s)
      <3>1. req'[s].user = req[s].user
        BY <2>4, <1>1 DEF VacateApprover, UpdateRow, Goto, IInv, TypeOK, IsRequest
      <3>2. UpdateRow(s, "unapproved", ListEvent("approver_changed", req[s].user))
        BY <2>1, <2>4, <3>1 DEF VacateApprover
      <3>3. ListEvent("approver_changed", req[s].user) \in req'[s].events
        BY <1>1, <3>2 DEF UpdateRow, IInv, TypeOK, IsRequest
      <3> QED
        BY <3>3 DEF Has, Logged, ListEvent, Event
    <2>5. CASE VacateAssignee(s)
      <3>1. /\ req'[s].user = req[s].user
            /\ req[s].events \subseteq req'[s].events
            /\ req[s].pc = "unapproved"
        BY <2>5, <1>1 DEF VacateAssignee, AfterVacating, UpdateRow, Goto, At, IInv, TypeOK, IsRequest
      <3>2. Has(req[s].events, "approver_changed")
        BY <2>1, <3>1 DEF SInv, SuspensionClears
      <3> QED
        BY <3>1, <3>2 DEF Has, Logged
    <2> QED
      BY <2>2, <2>3, <2>4, <2>5
  <1> QED
    BY <1>1, <1>3 DEF SInv

LEMMA InitSInv == Init => SInv
  <1> SUFFICES ASSUME Init PROVE SInv
    OBVIOUS
  <1>1. IInv
    BY InitIInv
  <1>2. SuspensionClears
    BY UnderWayType DEF Init, SuspensionClears
  <1> QED
    BY <1>1, <1>2 DEF SInv

\* In one step: who stops being active and was the approver is it no longer.
LEMMA ApproverStep ==
    ASSUME SInv, [Next]_vars, ApproverIsActive, ~Overtaken(row.approver)
    PROVE  ApproverIsActive'
  <1> SUFFICES ASSUME row'.approver # None PROVE row'.approver \in active'
    BY DEF ApproverIsActive
  <1>1. row'.approver = row.approver /\ row.approver \in active
    BY ApproverNeverSet DEF SInv, ApproverIsActive
  <1>2. CASE active \subseteq active'
    BY <1>1, <1>2
  <1>3. ASSUME NEW r \in Requests, CommitSuspension(r) PROVE row'.approver \in active'
    <2>1. active' = active \ {req[r].user} /\ req[r].pc \in {"unassigned", "overtaken"}
      BY <1>3 DEF CommitSuspension
    <2>2. ASSUME row.approver = req[r].user PROVE FALSE
      <3>1. req[r].pc = "unassigned"
        BY <2>1, <2>2 DEF Overtaken, At
      <3>2. Has(req[r].events, "approver_changed")
        BY <2>2, <3>1 DEF SInv, SuspensionClears
      <3>3. row'.approver = None
        BY <1>3, <3>2 DEF CommitSuspension, SInv, IInv, TypeOK, IsChecklist
      <3> QED
        BY <3>3
    <2> QED
      BY <1>1, <2>1, <2>2
  <1> QED
    BY <1>2, <1>3, ActiveShrinks

\* No suspension that began after a list was created leaves the list with a
\* suspended approver, and nobody suspended becomes one, for any number of
\* users and of approvals in flight: the row orders them.
THEOREM SuspensionEndsApproval == Spec => ApproverStaysActive
  <1> DEFINE Kept == ApproverIsActive => ApproverIsActive' \/ Overtaken(row.approver)
  <1>1. SInv /\ [Next]_vars => Kept
    BY ApproverStep
  <1> HIDE DEF Kept
  <1>2. Spec => [][Kept]_vars
    BY <1>1, InitSInv, NextSInv, PTL DEF Spec
  <1> QED
    BY <1>2 DEF Kept, ApproverStaysActive

-----------------------------------------------------------------------------
\* Suspension and the assignee: without claims the same holds of both roles.

\* Claims are under way only where claims arrive.
ClaimsArrive ==
    \A r \in Requests :
        /\ req[r].pc \in {"claiming", "claimed"} => "claim" \in Kinds
        /\ req[r].pc \in {"opening", "viewed", "unlogged"} => "uiclaim" \in Kinds

LEMMA NextClaimsArrive ==
    ASSUME IInv, ClaimsArrive, [Next]_vars
    PROVE  ClaimsArrive'
  <1>0. /\ \A r \in Requests : IsRequest(req[r])
        /\ req = [r \in Requests |-> req[r]]
    BY DEF IInv, TypeOK
  <1> DEFINE Claims == {"claiming", "claimed"}
             WebClaims == {"opening", "viewed", "unlogged"}
  <1>1. ASSUME NEW r \in Requests, NEW q, req' = [req EXCEPT ![r] = q],
               q.pc \in Claims => "claim" \in Kinds,
               q.pc \in WebClaims => "uiclaim" \in Kinds
        PROVE  ClaimsArrive'
    <2>1. \A s \in Requests : req'[s] = IF s = r THEN q ELSE req[s]
      BY <1>0, <1>1
    <2> QED
      BY <1>1, <2>1 DEF ClaimsArrive
  <1>2. ASSUME NEW r \in Requests, NEW pc, NEW u, NEW seen, Begin(r, pc, u, seen),
               pc \in Claims => "claim" \in Kinds,
               pc \in WebClaims => "uiclaim" \in Kinds
        PROVE  ClaimsArrive'
    <2>1. [Idle EXCEPT !.pc = pc, !.user = u, !.expect = seen].pc = pc
      BY DEF Idle
    <2> QED
      BY <1>1, <1>2, <2>1 DEF Begin
  <1>3. ASSUME NEW r \in Requests, Arrive(r) PROVE ClaimsArrive'
    BY <1>2, <1>3 DEF Arrive, BeginMutation, BeginClaim, BeginClaimUI, BeginSuspension
  <1>4. ASSUME NEW r \in Requests, Finish(r) PROVE ClaimsArrive'
    BY <1>1, <1>4 DEF Finish, Idle
  <1>5. ASSUME NEW r \in Requests,
               \/ Refuse(r) \/ Commit(r) \/ CommitClaim(r) \/ LogClaimUI(r)
               \/ NotifyLoser(r) \/ CommitSuspension(r) \/ TriggerRaises(r)
               \/ Rollback(r)
        PROVE  ClaimsArrive'
    BY <1>4, <1>5 DEF Refuse, Commit, CommitClaim, LogClaimUI, NotifyLoser,
                      CommitSuspension, TriggerRaises, Rollback
  <1>6. ASSUME NEW r \in Requests, NEW res, Save(r, res) PROVE ClaimsArrive'
    <2> DEFINE q == [req[r] EXCEPT !.pc = "saved", !.list = res.list, !.events = res.events]
    <2>1. req' = [req EXCEPT ![r] = q]
      BY <1>6 DEF Save
    <2>2. q.pc = "saved"
      BY <1>0 DEF IsRequest
    <2> QED
      BY <1>1, <2>1, <2>2
  <1>7. ASSUME NEW r \in Requests,
               \/ HandleCheckItem(r) \/ HandleApprove(r) \/ HandleReject(r)
               \/ HandleAddItem(r) \/ HandleRemoveItem(r) \/ HandleReorder(r)
               \/ HandleSetItemChecked(r)
        PROVE  ClaimsArrive'
    BY <1>6, <1>7 DEF HandleCheckItem, HandleApprove, HandleReject, HandleAddItem,
                      HandleRemoveItem, HandleReorder, HandleSetItemChecked
  <1>8. ASSUME NEW r \in Requests, Load(r) PROVE ClaimsArrive'
    <2> DEFINE q == [req[r] EXCEPT !.pc = "loaded", !.list = row]
    <2>1. req' = [req EXCEPT ![r] = q]
      BY <1>8 DEF Load
    <2>2. q.pc = "loaded"
      BY <1>0 DEF IsRequest
    <2> QED
      BY <1>1, <2>1, <2>2
  <1>9. ASSUME NEW r \in Requests, NEW pc, Goto(r, pc),
               pc \in Claims => "claim" \in Kinds,
               pc \in WebClaims => "uiclaim" \in Kinds
        PROVE  ClaimsArrive'
    <2>1. [req[r] EXCEPT !.pc = pc].pc = pc
      BY <1>0 DEF IsRequest
    <2> QED
      BY <1>1, <1>9, <2>1 DEF Goto
  <1>10. ASSUME NEW r \in Requests, NEW pc, NEW e, UpdateRow(r, pc, e),
                pc \notin Claims \cup WebClaims
         PROVE  ClaimsArrive'
    <2> DEFINE q == [req[r] EXCEPT !.pc = pc, !.events = @ \cup {e}]
    <2>1. req' = [req EXCEPT ![r] = q]
      BY <1>10 DEF UpdateRow
    <2>2. q.pc = pc
      BY <1>0 DEF IsRequest
    <2> QED
      BY <1>1, <1>10, <2>1, <2>2
  <1>11. ASSUME NEW r \in Requests, WinClaim(r) PROVE ClaimsArrive'
    BY <1>9, <1>11 DEF WinClaim, At, ClaimsArrive
  <1>12. ASSUME NEW r \in Requests, ViewClaimUI(r) PROVE ClaimsArrive'
    <2> DEFINE q == [req[r] EXCEPT !.pc = "viewed", !.expect = row.assignee]
    <2>1. req' = [req EXCEPT ![r] = q] /\ "uiclaim" \in Kinds
      BY <1>12 DEF ViewClaimUI, At, ClaimsArrive
    <2>2. q.pc = "viewed"
      BY <1>0 DEF IsRequest
    <2> QED
      BY <1>1, <2>1, <2>2
  <1>13. ASSUME NEW r \in Requests, WinClaimUI(r) PROVE ClaimsArrive'
    BY <1>9, <1>13 DEF WinClaimUI, At, ClaimsArrive
  <1>14. ASSUME NEW r \in Requests,
                LoseClaim(r) \/ Deactivate(r) \/ VacateApprover(r) \/ VacateAssignee(r)
         PROVE  ClaimsArrive'
    BY <1>9, <1>10, <1>14
       DEF LoseClaim, Deactivate, VacateApprover, VacateAssignee, AfterVacating
  <1>15. ASSUME NEW r \in Requests, Step(r) PROVE ClaimsArrive'
    BY <1>5, <1>7, <1>8, <1>11, <1>12, <1>13, <1>14, <1>15 DEF Step
  <1>16. ASSUME NEW u \in Users, Reactivate(u) \/ AddMember(u) \/ RemoveMember(u)
         PROVE  ClaimsArrive'
    BY <1>16 DEF Reactivate, AddMember, RemoveMember, ClaimsArrive
  <1>17. CASE UNCHANGED vars
    BY <1>17 DEF vars, ClaimsArrive
  <1> QED
    BY <1>3, <1>5, <1>15, <1>16, <1>17 DEF Next

LEMMA InitClaimsArrive == Init => ClaimsArrive
  BY UnderWayType DEF Init, ClaimsArrive

\* A suspension notes the assignee's removal before it commits.
AssigneeCleared ==
    \A r \in Requests :
        At(r, "unassigned") /\ row.assignee = req[r].user
        => Has(req[r].events, "assignee_changed")

NoClaims == {"claim", "uiclaim"} \cap Kinds = {}

\* Without claims nobody becomes the assignee of a list that exists.
LEMMA AssigneeNeverSet ==
    ASSUME IInv, ClaimsArrive, NoClaims, [Next]_vars
    PROVE  row'.assignee \in {row.assignee, None}
  <1>1. ASSUME NEW r \in Requests, Commit(r) PROVE row'.assignee = row.assignee
    BY <1>1 DEF Commit, IInv, TypeOK, IsChecklist
  <1>2. ASSUME NEW r \in Requests, CommitClaim(r) \/ WinClaimUI(r) PROVE FALSE
    BY <1>2 DEF CommitClaim, WinClaimUI, At, ClaimsArrive, NoClaims
  <1>3. ASSUME NEW r \in Requests, CommitSuspension(r)
        PROVE  row'.assignee \in {row.assignee, None}
    BY <1>3 DEF CommitSuspension, IInv, TypeOK, IsChecklist
  <1>4. (\E r \in Requests : RowWrite(r)) \/ UNCHANGED row
    BY RowWriters
  <1> QED
    BY <1>1, <1>2, <1>3, <1>4 DEF RowWrite

LEMMA NextAssigneeCleared ==
    ASSUME IInv, IInv', AssigneeCleared, row'.assignee \in {row.assignee, None}, [Next]_vars
    PROVE  AssigneeCleared'
  <1> SUFFICES ASSUME NEW s \in Requests, req'[s].pc = "unassigned",
                      row'.assignee = req'[s].user
               PROVE  Has(req'[s].events, "assignee_changed")
    BY DEF AssigneeCleared, At
  <1>1. row.assignee = req'[s].user
    BY NoneAssumption DEF IInv, TypeOK, IsRequest
  <1>2. req'[s] = req[s] \/ VacateApprover(s) \/ VacateAssignee(s)
    BY SuspensionSteps
  <1>3. CASE req'[s] = req[s]
    BY <1>1, <1>3 DEF AssigneeCleared, At
  <1>4. CASE VacateApprover(s)
    BY <1>4 DEF VacateApprover, UpdateRow, Goto, IInv, TypeOK, IsRequest
  <1>5. CASE VacateAssignee(s)
    <2>1. req'[s].user = req[s].user
      BY <1>5 DEF VacateAssignee, UpdateRow, Goto, IInv, TypeOK, IsRequest
    <2>2. UpdateRow(s, AfterVacating(s), ListEvent("assignee_changed", req[s].user))
      BY <1>1, <1>5, <2>1 DEF VacateAssignee
    <2>3. ListEvent("assignee_changed", req[s].user) \in req'[s].events
      BY <2>2 DEF UpdateRow, IInv, TypeOK, IsRequest
    <2> QED
      BY <2>3 DEF Has, Logged, ListEvent, Event
  <1> QED
    BY <1>2, <1>3, <1>4, <1>5

LEMMA AssigneeStep ==
    ASSUME IInv, AssigneeCleared, AssigneeIsActive, ~Overtaken(row.assignee),
           row'.assignee \in {row.assignee, None}, [Next]_vars
    PROVE  AssigneeIsActive'
  <1> SUFFICES ASSUME row'.assignee # None PROVE row'.assignee \in active'
    BY DEF AssigneeIsActive
  <1>1. row'.assignee = row.assignee /\ row.assignee \in active
    BY DEF AssigneeIsActive
  <1>2. CASE active \subseteq active'
    BY <1>1, <1>2
  <1>3. ASSUME NEW r \in Requests, CommitSuspension(r) PROVE row'.assignee \in active'
    <2>1. active' = active \ {req[r].user} /\ req[r].pc \in {"unassigned", "overtaken"}
      BY <1>3 DEF CommitSuspension
    <2>2. ASSUME row.assignee = req[r].user PROVE FALSE
      <3>1. Has(req[r].events, "assignee_changed")
        BY <2>1, <2>2 DEF AssigneeCleared, Overtaken, At
      <3>2. row'.assignee = None
        BY <1>3, <3>1 DEF CommitSuspension, IInv, TypeOK, IsChecklist
      <3> QED
        BY <3>2
    <2> QED
      BY <1>1, <2>1, <2>2
  <1> QED
    BY <1>2, <1>3, ActiveShrinks

\* Where nobody claims, suspension ends the assignee's role as it ends the
\* approver's: what AssigneeStaysActive lacks is the claim's fault.
THEOREM OnlyClaimsAssignSuspended ==
    ASSUME NoClaims
    PROVE  Spec => AssigneeStaysActive
  <1> DEFINE AInv == IInv /\ ClaimsArrive /\ AssigneeCleared
             Kept == AssigneeIsActive => AssigneeIsActive' \/ Overtaken(row.assignee)
  <1>1. Init => AInv
    <2>1. Init => AssigneeCleared
      BY UnderWayType DEF Init, At, AssigneeCleared
    <2> QED
      BY <2>1, InitIInv, InitClaimsArrive
  <1>2. AInv /\ [Next]_vars => AInv'
    BY NextIInv, NextClaimsArrive, AssigneeNeverSet, NextAssigneeCleared
  <1>3. AInv /\ [Next]_vars => Kept
    BY AssigneeNeverSet, AssigneeStep
  <1> HIDE DEF AInv, Kept
  <1>4. Spec => [][Kept]_vars
    BY <1>1, <1>2, <1>3, PTL DEF Spec
  <1> QED
    BY <1>4 DEF Kept, AssigneeStaysActive
=============================================================================
