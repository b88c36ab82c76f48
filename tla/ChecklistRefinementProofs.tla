---------------------- MODULE ChecklistRefinementProofs ----------------------
(***************************************************************************)
(* ChecklistStore implements ChecklistWorkflow, for every value of the     *)
(* constants: with any number of requests in flight, a commit is one thing *)
(* a person may do to a checklist.                                         *)
(*                                                                         *)
(* The argument is the row lock's.  A mutation edits the value it loaded,  *)
(* so its commit is a step of the workflow only if the row is still what   *)
(* it was: LInv says that a request with a loaded or edited list, or with  *)
(* an UPDATE not yet committed, holds the lock, and what its list has to   *)
(* do with the row.                                                        *)
(***************************************************************************)
EXTENDS ChecklistStoreProofs

-----------------------------------------------------------------------------
\* The workflow's steps as a relation of two lists.

Done(c) == {i \in Live(c) : c.items[i].checked}

Checks(c, d) ==
    /\ c.status = "open"
    /\ Live(d) = Live(c)
    /\ \E i \in Live(c) : Done(d) = Done(c) \cup {i}
    /\ d.status = IF Done(d) # Live(c) THEN "open"
                  ELSE IF c.approver = None THEN "complete" ELSE "validating"

Judges(c, d) ==
    /\ c.status = "validating"
    /\ c.approver # None
    /\ Live(d) = Live(c)
    /\ \/ d.status = "complete" /\ Done(d) = Done(c)
       \/ d.status = "open" /\ \E S \in SUBSET Live(c) : Done(d) = Done(c) \ S

Edits(c, d) ==
    /\ d.status = "open"
    /\ \/ \E i \in ItemIds \ Live(c) : Live(d) = Live(c) \cup {i} /\ Done(d) = Done(c)
       \/ \E S \in SUBSET Live(c) : Live(d) = Live(c) \ S /\ Done(d) = Done(c) \ S
       \/ /\ Live(d) = Live(c)
          /\ \E i \in Live(c) : Done(d) \in {Done(c) \cup {i}, Done(c) \ {i}}

Follows(c, d) == Checks(c, d) \/ Judges(c, d) \/ Edits(c, d)

-----------------------------------------------------------------------------
\* Every domain method is a step of the workflow.

LEMMA CheckItemChecks ==
    ASSUME NEW c, IsChecklist(c), NEW u \in Users, NEW i \in Live(c), CanCheckItem(c, u, i)
    PROVE  Checks(c, CheckItem(c, u, i).list)
  <1> DEFINE f == [c.items EXCEPT ![i] = Ticked(@, u)]
             d == [c EXCEPT !.items[i] = Ticked(@, u)]
             next == IF ~AllItemsChecked(d) THEN "open"
                     ELSE IF c.approver # None THEN "validating" ELSE "complete"
             e == [d EXCEPT !.status = next]
  <1>1. CheckItem(c, u, i).list = e
    BY DEF CheckItem
  <1>2. d = [c EXCEPT !.items = f] /\ d.items = f
    BY DEF IsChecklist
  <1>3. e.items = f /\ e.status = next
    BY <1>2 DEF IsChecklist
  <1>4. /\ DOMAIN f = Live(c)
        /\ \A j \in Live(c) : f[j].checked = (j = i \/ c.items[j].checked)
    BY DEF IsChecklist, IsItemList, Live, Ticked, Item
  <1> HIDE DEF f, d, e, next
  <1>5. Live(e) = Live(c) /\ Done(e) = Done(c) \cup {i}
    BY <1>3, <1>4 DEF Live, Done
  <1>6. AllItemsChecked(d) <=> Done(e) = Live(c)
    BY <1>2, <1>3, <1>4, <1>5 DEF AllItemsChecked, Done, Live
  <1>7. next = IF Done(e) # Live(c) THEN "open"
               ELSE IF c.approver = None THEN "complete" ELSE "validating"
    BY <1>6 DEF next
  <1>8. c.status = "open"
    BY DEF CanCheckItem
  <1> QED
    BY <1>1, <1>3, <1>5, <1>7, <1>8 DEF Checks

LEMMA ApproveJudges ==
    ASSUME NEW c, IsChecklist(c), NEW u \in Users, CanApprove(c, u)
    PROVE  Judges(c, Approve(c, u).list)
  <1> DEFINE d == [c EXCEPT !.status = "complete"]
  <1>1. d.items = c.items /\ d.status = "complete"
    BY DEF IsChecklist
  <1>2. c.status = "validating" /\ c.approver # None
    BY NoneAssumption DEF CanApprove
  <1>3. Approve(c, u).list = d
    BY DEF Approve
  <1> HIDE DEF d
  <1> QED
    BY <1>1, <1>2, <1>3 DEF Judges, Live, Done

LEMMA RejectJudges ==
    ASSUME NEW c, IsChecklist(c), NEW u \in Users, NEW S \in SUBSET Live(c), CanReject(c, u)
    PROVE  Judges(c, Reject(c, u, S).list)
  <1> DEFINE SentBack(item) ==
                [Unticked(item) EXCEPT
                    !.override = IF item.by # None THEN item.by ELSE item.override]
             f == [i \in Live(c) |-> IF i \in S THEN SentBack(c.items[i]) ELSE c.items[i]]
             d == [c EXCEPT !.status = "open", !.items = f]
  <1>1. ASSUME NEW item \in Item PROVE SentBack(item).checked = FALSE
    BY DEF Unticked, Item
  <1>2. \A i \in Live(c) : f[i].checked = (c.items[i].checked /\ i \notin S)
    BY <1>1 DEF IsChecklist, IsItemList, Live, Item
  <1>3. Reject(c, u, S).list = d
    BY DEF Reject
  <1>4. d.items = f /\ d.status = "open" /\ DOMAIN f = Live(c)
    BY DEF IsChecklist
  <1>5. c.status = "validating" /\ c.approver # None
    BY NoneAssumption DEF CanReject, CanApprove
  <1> HIDE DEF f, d
  <1>6. Live(d) = Live(c) /\ Done(d) = Done(c) \ S
    BY <1>2, <1>4 DEF Live, Done
  <1> QED
    BY <1>3, <1>4, <1>5, <1>6 DEF Judges

\* The creator's edits: what Reopen returns has the items of the edited list.
LEMMA ReopenList ==
    ASSUME NEW c, IsChecklist(c), NEW f, NEW u, NEW e,
           NEW res, res = Reopen(c, [c EXCEPT !.items = f], u, e)
    PROVE  res.list.items = f /\ res.list.status = "open"
  <1> DEFINE l == [[c EXCEPT !.items = f] EXCEPT !.status = "open"]
  <1>1. l.items = f /\ l.status = "open"
    BY DEF IsChecklist
  <1>2. res.list = l
    BY DEF Reopen
  <1> HIDE DEF l
  <1> QED
    BY <1>1, <1>2

LEMMA AddItemEdits ==
    ASSUME NEW c, IsChecklist(c), NEW u \in Users, NEW new \in ItemIds \ Live(c)
    PROVE  Edits(c, AddItem(c, u, new).list)
  <1> DEFINE item == [checked |-> FALSE, by |-> None, override |-> None,
                      pos |-> Cardinality(Live(c))]
             f == [i \in Live(c) \cup {new} |-> IF i = new THEN item ELSE c.items[i]]
             d == AddItem(c, u, new).list
  <1>1. AddItem(c, u, new) = Reopen(c, [c EXCEPT !.items = f], u, ListEvent("item_added", u))
    BY DEF AddItem
  <1>2. /\ DOMAIN f = Live(c) \cup {new}
        /\ f[new].checked = FALSE
        /\ \A i \in Live(c) : f[i] = c.items[i]
    OBVIOUS
  <1> HIDE DEF f
  <1>3. d.items = f /\ d.status = "open"
    BY <1>1, ReopenList
  <1> HIDE DEF d
  <1>4. Live(d) = Live(c) \cup {new} /\ Done(d) = Done(c)
    BY <1>2, <1>3 DEF Live, Done
  <1> QED
    BY <1>3, <1>4 DEF Edits, d

LEMMA RemoveItemEdits ==
    ASSUME NEW c, IsChecklist(c), NEW u \in Users, NEW gone \in Live(c), NEW place
    PROVE  Edits(c, RemoveItem(c, u, gone, place).list)
  <1> DEFINE f == [i \in Live(c) \ {gone} |-> [c.items[i] EXCEPT !.pos = place[i]]]
             d == RemoveItem(c, u, gone, place).list
  <1>1. RemoveItem(c, u, gone, place)
        = Reopen(c, [c EXCEPT !.items = f], u, Event("item_removed", u, gone))
    BY DEF RemoveItem
  <1>2. /\ DOMAIN f = Live(c) \ {gone}
        /\ \A i \in Live(c) \ {gone} : f[i].checked = c.items[i].checked
    BY DEF IsChecklist, IsItemList, Live, Item
  <1> HIDE DEF f
  <1>3. d.items = f /\ d.status = "open"
    BY <1>1, ReopenList
  <1> HIDE DEF d
  <1>4. Live(d) = Live(c) \ {gone} /\ Done(d) = Done(c) \ {gone}
    BY <1>2, <1>3 DEF Live, Done
  <1> QED
    BY <1>3, <1>4 DEF Edits, d

LEMMA ReorderItemsEdits ==
    ASSUME NEW c, IsChecklist(c), NEW u \in Users, NEW order \in Orders(c),
           NEW place \in ReorderPlaces(c, order)
    PROVE  Edits(c, ReorderItems(c, u, place).list)
  <1> DEFINE f == [i \in DOMAIN place |-> [c.items[i] EXCEPT !.pos = place[i]]]
             d == ReorderItems(c, u, place).list
             S == Live(c) \ DOMAIN place
  <1>1. order \in [0 .. Cardinality(Live(c)) - 1 -> Live(c)]
    BY DEF Orders
  <1>2. DOMAIN place \subseteq Live(c)
    BY <1>1 DEF ReorderPlaces
  <1>3. ReorderItems(c, u, place)
        = Reopen(c, [c EXCEPT !.items = f], u, ListEvent("items_reordered", u))
    BY DEF ReorderItems
  <1>4. /\ DOMAIN f = DOMAIN place
        /\ \A i \in DOMAIN place : f[i].checked = c.items[i].checked
    BY <1>2 DEF IsChecklist, IsItemList, Live, Item
  <1> HIDE DEF f
  <1>5. d.items = f /\ d.status = "open"
    BY <1>3, ReopenList
  <1> HIDE DEF d
  <1>6. Live(d) = Live(c) \ S /\ Done(d) = Done(c) \ S
    BY <1>2, <1>4, <1>5 DEF Live, Done
  <1> QED
    BY <1>5, <1>6 DEF Edits, d

LEMMA SetItemCheckedEdits ==
    ASSUME NEW c, IsChecklist(c), NEW u \in Users, NEW i \in Live(c), NEW b \in BOOLEAN
    PROVE  Edits(c, SetItemChecked(c, u, i, b).list)
  <1> DEFINE f == [c.items EXCEPT ![i] = IF b THEN Ticked(@, u) ELSE Unticked(@)]
             e == Event(IF b THEN "item_checked" ELSE "item_unchecked", u, i)
             d == SetItemChecked(c, u, i, b).list
  <1>1. SetItemChecked(c, u, i, b) = Reopen(c, [c EXCEPT !.items = f], u, e)
    BY DEF SetItemChecked
  <1>2. /\ DOMAIN f = Live(c)
        /\ \A j \in Live(c) : f[j].checked = IF j = i THEN b ELSE c.items[j].checked
    BY DEF IsChecklist, IsItemList, Live, Item, Ticked, Unticked
  <1> HIDE DEF f, e
  <1>3. d.items = f /\ d.status = "open"
    BY <1>1, ReopenList
  <1> HIDE DEF d
  <1>4. Live(d) = Live(c)
    BY <1>2, <1>3 DEF Live
  <1>5. CASE b
    <2>1. Done(d) = Done(c) \cup {i}
      BY <1>2, <1>3, <1>5 DEF Live, Done
    <2> QED
      BY <1>3, <1>4, <2>1 DEF Edits, d
  <1>6. CASE ~b
    <2>1. Done(d) = Done(c) \ {i}
      BY <1>2, <1>3, <1>6 DEF Live, Done
    <2> QED
      BY <1>3, <1>4, <2>1 DEF Edits, d
  <1> QED
    BY <1>5, <1>6

-----------------------------------------------------------------------------
\* Only an approver completes a list that has one, and the events say who.

Approved(c, E) == Logged(E, "approved") = {ListEvent("approved", c.approver)}

Warranted(c, res) ==
    res.list.status = "complete" /\ c.approver # None => Approved(c, res.events)

Owed(c, res) == Follows(c, res.list) /\ Warranted(c, res)

LEMMA ChecksOwed ==
    ASSUME NEW c, NEW res, Checks(c, res.list)
    PROVE  Owed(c, res)
  BY DEF Checks, Follows, Owed, Warranted

LEMMA EditsOwed ==
    ASSUME NEW c, NEW res, Edits(c, res.list)
    PROVE  Owed(c, res)
  BY DEF Edits, Follows, Owed, Warranted

LEMMA ApproveOwed ==
    ASSUME NEW c, IsChecklist(c), NEW u \in Users, CanApprove(c, u)
    PROVE  Owed(c, Approve(c, u))
  <1> DEFINE res == Approve(c, u)
  <1>1. res.events = {ListEvent("approved", u), ListEvent("completed", u)}
    BY DEF Approve
  <1>2. Approved(c, res.events)
    BY <1>1 DEF Approved, Logged, ListEvent, Event, CanApprove
  <1>3. Judges(c, res.list)
    BY ApproveJudges
  <1> HIDE DEF res
  <1>4. Owed(c, res)
    BY <1>2, <1>3 DEF Owed, Follows, Warranted
  <1> QED
    BY <1>4 DEF res

LEMMA RejectOwed ==
    ASSUME NEW c, IsChecklist(c), NEW u \in Users, NEW S \in SUBSET Live(c), CanReject(c, u)
    PROVE  Owed(c, Reject(c, u, S))
  <1> DEFINE res == Reject(c, u, S)
  <1>1. res.list.status = "open"
    BY DEF Reject, IsChecklist
  <1>2. Judges(c, res.list)
    BY RejectJudges
  <1> HIDE DEF res
  <1>3. Owed(c, res)
    BY <1>1, <1>2 DEF Owed, Follows, Warranted
  <1> QED
    BY <1>3 DEF res

-----------------------------------------------------------------------------
\* What request r, being q, has to do with the row lock l and the row c.

\* A suspension past its first UPDATE.
Vacating == {"unapproved", "unassigned", "halfway", "overtaken"}

Holds(q) ==
    \/ q.pc \in {"loaded", "saved", "claimed"}
    \/ q.pc \in Vacating /\ q.events # {}

Own(r, q, l, c) ==
    /\ Holds(q) => l = r
    /\ q.pc = "loaded" => q.list = c
    /\ q.pc = "saved" => Owed(c, q)
    /\ q.pc = "claimed" => q.expect = c.assignee
    /\ q.pc \in {"suspending", "deactivated"} => q.events = {}
    /\ q.pc \in Vacating =>
          \A e \in q.events : e.action \in {"approver_changed", "assignee_changed"}

LInv == \A r \in Requests : Own(r, req[r], lock, row)

RInv == IInv /\ LInv /\ ApprovalOnRecord

-----------------------------------------------------------------------------
\* Whatever a request does that obeys the lock, the others keep what they own.

LEMMA OthersKeep ==
    ASSUME IInv, LInv, NEW r \in Requests, NEW q, req' = [req EXCEPT ![r] = q],
           lock' = lock \/ (lock \in {r, None} /\ lock' \in {r, None}),
           UNCHANGED row \/ lock \in {r, None},
           Own(r, q, lock', row')
    PROVE  LInv'
  <1> SUFFICES ASSUME NEW s \in Requests PROVE Own(s, req'[s], lock', row')
    BY DEF LInv
  <1>1. req'[s] = IF s = r THEN q ELSE req[s]
    BY DEF IInv, TypeOK
  <1>2. Own(s, req[s], lock, row)
    BY DEF LInv
  <1>3. CASE s # r /\ lock \in {r, None}
    <2>1. ~Holds(req[s])
      BY <1>2, <1>3, RequestsAssumption DEF Own
    <2> QED
      BY <1>1, <1>2, <1>3, <2>1 DEF Own, Holds, Vacating
  <1> QED
    BY <1>1, <1>2, <1>3

\* A request outside its transaction's critical part owns nothing.
LEMMA FreeStep ==
    ASSUME IInv, LInv, NEW r \in Requests, NEW q, req' = [req EXCEPT ![r] = q],
           q.pc \in {"idle", "begun", "claiming", "opening", "viewed", "unlogged", "losing"},
           lock' = lock \/ (lock \in {r, None} /\ lock' \in {r, None}),
           UNCHANGED row \/ lock \in {r, None}
    PROVE  LInv'
  <1>1. Own(r, q, lock', row')
    BY DEF Own, Holds, Vacating
  <1> QED
    BY <1>1, OthersKeep

LEMMA ArriveKeeps ==
    ASSUME IInv, LInv, NEW r \in Requests, Arrive(r)
    PROVE  LInv'
  <1>1. ASSUME NEW pc \in {"begun", "claiming", "opening", "suspending"},
               NEW u, NEW seen, Begin(r, pc, u, seen)
        PROVE  LInv'
    <2> DEFINE q == [Idle EXCEPT !.pc = pc, !.user = u, !.expect = seen]
    <2>1. req' = [req EXCEPT ![r] = q] /\ UNCHANGED <<lock, row>>
      BY <1>1 DEF Begin
    <2>2. q.pc = pc /\ q.events = {}
      BY DEF Idle
    <2> HIDE DEF q
    <2>3. Own(r, q, lock', row')
      BY <2>2 DEF Own, Holds, Vacating
    <2> QED
      BY <2>1, <2>3, OthersKeep
  <1> QED
    BY <1>1 DEF Arrive, BeginMutation, BeginClaim, BeginClaimUI, BeginSuspension

LEMMA LoadKeeps ==
    ASSUME IInv, LInv, NEW r \in Requests, Load(r)
    PROVE  LInv'
  <1> DEFINE q == [req[r] EXCEPT !.pc = "loaded", !.list = row]
  <1>1. req' = [req EXCEPT ![r] = q] /\ UNCHANGED row /\ lock = None /\ lock' = r
    BY DEF Load
  <1>2. q.pc = "loaded" /\ q.list = row
    BY DEF IInv, TypeOK, IsRequest
  <1> HIDE DEF q
  <1>3. Own(r, q, lock', row')
    BY <1>1, <1>2 DEF Own, Holds, Vacating
  <1> QED
    BY <1>1, <1>3, OthersKeep

LEMMA SaveKeeps ==
    ASSUME IInv, LInv, NEW r \in Requests, At(r, "loaded"),
           NEW res, Owed(req[r].list, res), Save(r, res)
    PROVE  LInv'
  <1> DEFINE q == [req[r] EXCEPT !.pc = "saved", !.list = res.list, !.events = res.events]
  <1>1. req' = [req EXCEPT ![r] = q] /\ UNCHANGED <<row, lock>>
    BY DEF Save
  <1>2. q.pc = "saved" /\ q.list = res.list /\ q.events = res.events
    BY DEF IInv, TypeOK, IsRequest
  <1>3. Own(r, req[r], lock, row)
    BY DEF LInv
  <1>4. lock = r /\ req[r].list = row
    BY <1>3 DEF Own, Holds, Vacating, At
  <1> HIDE DEF q
  <1>5. Owed(row', q)
    BY <1>1, <1>2, <1>4 DEF Owed, Warranted
  <1>6. Own(r, q, lock', row')
    BY <1>1, <1>2, <1>4, <1>5 DEF Own, Holds, Vacating
  <1> QED
    BY <1>1, <1>6, OthersKeep

LEMMA HandlerKeeps ==
    ASSUME IInv, LInv, NEW r \in Requests,
           \/ HandleCheckItem(r) \/ HandleApprove(r) \/ HandleReject(r)
           \/ HandleAddItem(r) \/ HandleRemoveItem(r) \/ HandleReorder(r)
           \/ HandleSetItemChecked(r)
    PROVE  LInv'
  <1> DEFINE c == req[r].list
             u == req[r].user
  <1>1. At(r, "loaded")
    BY DEF HandleCheckItem, HandleApprove, HandleReject, HandleAddItem,
           HandleRemoveItem, HandleReorder, HandleSetItemChecked
  <1>2. IsChecklist(c) /\ u \in Users
    BY <1>1 DEF IInv, TypeOK, IsRequest, At
  <1>3. Own(r, req[r], lock, row)
    BY DEF LInv
  <1>4. c = row
    BY <1>1, <1>3 DEF Own, At
  <1>5. ASSUME HandleCheckItem(r) PROVE LInv'
    <2>1. PICK i \in Live(c) : CanCheckItem(c, u, i) /\ Save(r, CheckItem(c, u, i))
      BY <1>5 DEF HandleCheckItem
    <2>2. Checks(c, CheckItem(c, u, i).list)
      BY <1>2, <2>1, CheckItemChecks
    <2> QED
      BY <1>1, <2>1, <2>2, ChecksOwed, SaveKeeps
  <1>6. ASSUME HandleApprove(r) PROVE LInv'
    <2>1. CanApprove(c, u) /\ Save(r, Approve(c, u))
      BY <1>6 DEF HandleApprove
    <2>2. Owed(c, Approve(c, u))
      BY <1>2, <2>1, ApproveOwed
    <2> QED
      BY <1>1, <2>1, <2>2, SaveKeeps
  <1>7. ASSUME HandleReject(r) PROVE LInv'
    <2>1. PICK S \in SUBSET Live(c) : CanReject(c, u) /\ Save(r, Reject(c, u, S))
      BY <1>7 DEF HandleReject
    <2>2. Owed(c, Reject(c, u, S))
      BY <1>2, <2>1, RejectOwed
    <2> QED
      BY <1>1, <2>1, <2>2, SaveKeeps
  <1>8. ASSUME HandleAddItem(r) PROVE LInv'
    <2>1. PICK new \in ItemIds \ used : Save(r, AddItem(c, u, new))
      BY <1>8 DEF HandleAddItem
    <2>2. new \in ItemIds \ Live(c)
      BY <1>4 DEF IInv, TypeOK, Live
    <2>3. Edits(c, AddItem(c, u, new).list)
      BY <1>2, <2>2, AddItemEdits
    <2> QED
      BY <1>1, <2>1, <2>3, EditsOwed, SaveKeeps
  <1>9. ASSUME HandleRemoveItem(r) PROVE LInv'
    <2>1. PICK i \in Live(c) : \E place \in RemovePlaces(c, i) :
              Save(r, RemoveItem(c, u, i, place))
      BY <1>9 DEF HandleRemoveItem
    <2>2. PICK place \in RemovePlaces(c, i) : Save(r, RemoveItem(c, u, i, place))
      BY <2>1
    <2>3. Edits(c, RemoveItem(c, u, i, place).list)
      BY <1>2, RemoveItemEdits
    <2> QED
      BY <1>1, <2>2, <2>3, EditsOwed, SaveKeeps
  <1>10. ASSUME HandleReorder(r) PROVE LInv'
    <2>1. PICK order \in Orders(c) : \E place \in ReorderPlaces(c, order) :
              Save(r, ReorderItems(c, u, place))
      BY <1>10 DEF HandleReorder
    <2>2. PICK place \in ReorderPlaces(c, order) : Save(r, ReorderItems(c, u, place))
      BY <2>1
    <2>3. Edits(c, ReorderItems(c, u, place).list)
      BY <1>2, ReorderItemsEdits
    <2> QED
      BY <1>1, <2>2, <2>3, EditsOwed, SaveKeeps
  <1>11. ASSUME HandleSetItemChecked(r) PROVE LInv'
    <2>1. PICK i \in Live(c), b \in BOOLEAN : Save(r, SetItemChecked(c, u, i, b))
      BY <1>11 DEF HandleSetItemChecked
    <2>2. Edits(c, SetItemChecked(c, u, i, b).list)
      BY <1>2, SetItemCheckedEdits
    <2> QED
      BY <1>1, <2>1, <2>2, EditsOwed, SaveKeeps
  <1> QED
    BY <1>5, <1>6, <1>7, <1>8, <1>9, <1>10, <1>11

\* Every end of a request gives the lock back and, if it wrote the row, held it.
LEMMA FinishKeeps ==
    ASSUME IInv, LInv, NEW r \in Requests, Finish(r), Unlock(r) \/ UNCHANGED lock,
           UNCHANGED row \/ lock = r
    PROVE  LInv'
  <1>1. Idle.pc = "idle"
    BY DEF Idle
  <1>2. lock' = lock \/ (lock \in {r, None} /\ lock' \in {r, None})
    BY DEF Unlock
  <1> QED
    BY <1>1, <1>2, FreeStep DEF Finish

LEMMA EndKeeps ==
    ASSUME IInv, LInv, NEW r \in Requests,
           \/ Refuse(r) \/ Commit(r) \/ CommitClaim(r) \/ LogClaimUI(r)
           \/ NotifyLoser(r) \/ CommitSuspension(r) \/ TriggerRaises(r) \/ Rollback(r)
    PROVE  LInv'
  <1>1. Own(r, req[r], lock, row)
    BY DEF LInv
  <1>2. CASE Refuse(r) \/ LogClaimUI(r) \/ NotifyLoser(r) \/ TriggerRaises(r) \/ Rollback(r)
    BY <1>2, FinishKeeps DEF Refuse, LogClaimUI, NotifyLoser, TriggerRaises, Rollback
  <1>3. CASE Commit(r) \/ CommitClaim(r)
    <2>1. lock = r
      BY <1>1, <1>3 DEF Commit, CommitClaim, At, Own, Holds, Vacating
    <2> QED
      BY <1>3, <2>1, FinishKeeps DEF Commit, CommitClaim
  <1>4. CASE CommitSuspension(r)
    <2>1. CASE req[r].events # {}
      <3>1. lock = r
        BY <1>1, <1>4, <2>1 DEF CommitSuspension, At, Own, Holds, Vacating
      <3> QED
        BY <1>4, <3>1, FinishKeeps DEF CommitSuspension
    <2>2. CASE req[r].events = {}
      <3>1. ~Has(req[r].events, "approver_changed") /\ ~Has(req[r].events, "assignee_changed")
        BY <2>2 DEF Has, Logged
      <3>2. row' = row
        BY <1>4, <3>1 DEF CommitSuspension, IInv, TypeOK, IsChecklist
      <3> QED
        BY <1>4, <3>2, FinishKeeps DEF CommitSuspension
    <2> QED
      BY <2>1, <2>2
  <1> QED
    BY <1>2, <1>3, <1>4

LEMMA ClaimKeeps ==
    ASSUME IInv, LInv, NEW r \in Requests,
           WinClaim(r) \/ ViewClaimUI(r) \/ WinClaimUI(r) \/ LoseClaim(r)
    PROVE  LInv'
  <1>1. IsRequest(req[r])
    BY DEF IInv, TypeOK
  <1>2. CASE WinClaim(r)
    <2> DEFINE q == [req[r] EXCEPT !.pc = "claimed"]
    <2>1. /\ req' = [req EXCEPT ![r] = q]
          /\ UNCHANGED row
          /\ lock = None /\ lock' = r
          /\ row.assignee = req[r].expect
      BY <1>2 DEF WinClaim, Goto
    <2>2. q.pc = "claimed" /\ q.expect = req[r].expect
      BY <1>1 DEF IsRequest
    <2> HIDE DEF q
    <2>3. Own(r, q, lock', row')
      BY <2>1, <2>2 DEF Own, Holds, Vacating
    <2> QED
      BY <2>1, <2>3, OthersKeep
  <1>3. CASE ViewClaimUI(r)
    <2> DEFINE q == [req[r] EXCEPT !.pc = "viewed", !.expect = row.assignee]
    <2>1. req' = [req EXCEPT ![r] = q] /\ UNCHANGED <<row, lock>>
      BY <1>3 DEF ViewClaimUI
    <2>2. q.pc = "viewed"
      BY <1>1 DEF IsRequest
    <2> HIDE DEF q
    <2> QED
      BY <2>1, <2>2, FreeStep
  <1>4. ASSUME NEW pc \in {"unlogged", "losing"}, Goto(r, pc), UNCHANGED lock,
               UNCHANGED row \/ lock = None
        PROVE  LInv'
    <2> DEFINE q == [req[r] EXCEPT !.pc = pc]
    <2>1. req' = [req EXCEPT ![r] = q]
      BY <1>4 DEF Goto
    <2>2. q.pc = pc
      BY <1>1 DEF IsRequest
    <2> HIDE DEF q
    <2> QED
      BY <1>4, <2>1, <2>2, FreeStep
  <1> QED
    BY <1>2, <1>3, <1>4 DEF WinClaimUI, LoseClaim

LEMMA SuspensionKeeps ==
    ASSUME IInv, LInv, NEW r \in Requests,
           Deactivate(r) \/ VacateApprover(r) \/ VacateAssignee(r)
    PROVE  LInv'
  <1>1. IsRequest(req[r]) /\ Own(r, req[r], lock, row)
    BY DEF IInv, TypeOK, LInv
  <1>2. ASSUME NEW pc \in {"deactivated"} \cup Vacating, Goto(r, pc),
               UNCHANGED <<lock, row>>,
               \/ pc \in {"deactivated", "unapproved"} /\ req[r].events = {}
               \/ pc \in Vacating /\ req[r].pc \in Vacating
        PROVE  LInv'
    <2> DEFINE q == [req[r] EXCEPT !.pc = pc]
    <2>1. req' = [req EXCEPT ![r] = q]
      BY <1>2 DEF Goto
    <2>2. q.pc = pc /\ q.events = req[r].events
      BY <1>1 DEF IsRequest
    <2> HIDE DEF q
    <2>3. Own(r, q, lock', row')
      BY <1>1, <1>2, <2>2 DEF Own, Holds, Vacating
    <2> QED
      BY <1>2, <2>1, <2>3, OthersKeep
  <1>3. ASSUME NEW pc \in Vacating,
               NEW a \in {"approver_changed", "assignee_changed"}, NEW u,
               UpdateRow(r, pc, ListEvent(a, u)), UNCHANGED row,
               req[r].pc \in {"deactivated"} \cup Vacating
        PROVE  LInv'
    <2> DEFINE ev == ListEvent(a, u)
               q  == [req[r] EXCEPT !.pc = pc, !.events = @ \cup {ev}]
    <2>1. req' = [req EXCEPT ![r] = q] /\ lock \in {r, None} /\ lock' = r
      BY <1>3 DEF UpdateRow, LockFree
    <2>2. q.pc = pc /\ q.events = req[r].events \cup {ev}
      BY <1>1 DEF IsRequest
    <2>3. ev.action \in {"approver_changed", "assignee_changed"}
      BY DEF ListEvent, Event
    <2> HIDE DEF q, ev
    <2>4. Own(r, q, lock', row')
      BY <1>1, <1>3, <2>1, <2>2, <2>3 DEF Own, Holds, Vacating
    <2> QED
      BY <1>3, <2>1, <2>4, OthersKeep
  <1>4. CASE Deactivate(r)
    BY <1>1, <1>2, <1>4 DEF Deactivate, At, Own
  <1>5. CASE VacateApprover(r)
    <2>1. req[r].pc = "deactivated" /\ req[r].events = {} /\ UNCHANGED row
      BY <1>1, <1>5 DEF VacateApprover, At, Own
    <2> QED
      BY <1>2, <1>3, <1>5, <2>1 DEF VacateApprover, Vacating
  <1>6. CASE VacateAssignee(r)
    <2>1. req[r].pc \in Vacating /\ AfterVacating(r) \in Vacating /\ UNCHANGED row
      BY <1>6 DEF VacateAssignee, AfterVacating, Vacating
    <2> QED
      BY <1>2, <1>3, <1>6, <2>1 DEF VacateAssignee
  <1> QED
    BY <1>4, <1>5, <1>6

LEMMA NextLInv ==
    ASSUME IInv, LInv, [Next]_vars
    PROVE  LInv'
  <1>1. ASSUME NEW r \in Requests, Step(r) PROVE LInv'
    BY <1>1, LoadKeeps, HandlerKeeps, EndKeeps, ClaimKeeps, SuspensionKeeps DEF Step
  <1>2. ASSUME NEW r \in Requests, Arrive(r) \/ Rollback(r) PROVE LInv'
    BY <1>2, ArriveKeeps, EndKeeps
  <1>3. ASSUME NEW u \in Users, Reactivate(u) \/ AddMember(u) \/ RemoveMember(u)
        PROVE  UNCHANGED <<row, lock, req>>
    BY <1>3 DEF Reactivate, AddMember, RemoveMember
  <1>4. CASE UNCHANGED <<row, lock, req>>
    BY <1>4 DEF LInv, Own, Holds, Vacating
  <1>5. CASE UNCHANGED vars
    BY <1>4, <1>5 DEF vars
  <1> QED
    BY <1>1, <1>2, <1>3, <1>4, <1>5 DEF Next

LEMMA InitLInv == Init => LInv
  <1> SUFFICES ASSUME Init, NEW r \in Requests PROVE Own(r, req[r], lock, row)
    BY DEF LInv
  <1>1. req[r].pc \in {"idle", "halfway", "overtaken"} /\ req[r].events = {}
    BY UnderWayType DEF Init
  <1> QED
    BY <1>1 DEF Own, Holds, Vacating

-----------------------------------------------------------------------------
\* Deadlock freedom.  LInv says who must hold the lock; that nobody else does
\* is the other half.

Released == lock # None => Holds(req[lock])

\* A step either leaves another request's lock alone, or its own request ends
\* the step with the lock and a reason for it, or nobody has it.
LEMMA StepReleases ==
    ASSUME IInv, Released, NEW r \in Requests, NEW q, req' = [req EXCEPT ![r] = q],
           \/ lock' = None
           \/ lock' = lock /\ lock # r
           \/ lock' = r /\ Holds(q)
    PROVE  Released'
  <1> SUFFICES ASSUME lock' # None PROVE Holds(req'[lock'])
    BY DEF Released
  <1>1. lock' \in Requests => req'[lock'] = IF lock' = r THEN q ELSE req[lock']
    BY DEF IInv, TypeOK
  <1>2. lock \in Requests \cup {None}
    BY DEF IInv, TypeOK
  <1> QED
    BY <1>1, <1>2 DEF Released

\* A request that holds nothing does not have the lock.
LEMMA FreeHasNoLock ==
    ASSUME Released, NEW r \in Requests, ~Holds(req[r])
    PROVE  lock # r
  BY RequestsAssumption DEF Released

LEMMA GotoReleases ==
    ASSUME IInv, Released, NEW r \in Requests, NEW pc, Goto(r, pc), UNCHANGED lock,
           \/ ~Holds(req[r])
           \/ pc \in Vacating /\ req[r].pc \in Vacating
    PROVE  Released'
  <1> DEFINE q == [req[r] EXCEPT !.pc = pc]
  <1>1. IsRequest(req[r])
    BY DEF IInv, TypeOK
  <1>2. req' = [req EXCEPT ![r] = q] /\ q.pc = pc /\ q.events = req[r].events
    BY <1>1 DEF Goto, IsRequest
  <1> HIDE DEF q
  <1>3. CASE lock = r
    <2>1. Holds(req[r])
      BY <1>3, FreeHasNoLock
    <2>2. Holds(q)
      BY <1>2, <2>1 DEF Holds, Vacating
    <2> QED
      BY <1>2, <1>3, <2>2, StepReleases
  <1> QED
    BY <1>2, <1>3, StepReleases

LEMMA HandlerSaves ==
    ASSUME NEW r \in Requests,
           \/ HandleCheckItem(r) \/ HandleApprove(r) \/ HandleReject(r)
           \/ HandleAddItem(r) \/ HandleRemoveItem(r) \/ HandleReorder(r)
           \/ HandleSetItemChecked(r)
    PROVE  At(r, "loaded") /\ \E res : Save(r, res)
  <1>1. At(r, "loaded")
    BY DEF HandleCheckItem, HandleApprove, HandleReject, HandleAddItem,
           HandleRemoveItem, HandleReorder, HandleSetItemChecked
  <1>2. CASE HandleCheckItem(r) \/ HandleApprove(r) \/ HandleReject(r) \/ HandleAddItem(r)
    BY <1>2 DEF HandleCheckItem, HandleApprove, HandleReject, HandleAddItem
  <1>3. CASE HandleRemoveItem(r) \/ HandleReorder(r) \/ HandleSetItemChecked(r)
    BY <1>3 DEF HandleRemoveItem, HandleReorder, HandleSetItemChecked
  <1> QED
    BY <1>1, <1>2, <1>3

LEMMA MutationReleases ==
    ASSUME IInv, Released, NEW r \in Requests,
           \/ Load(r)
           \/ At(r, "loaded") /\ \E res : Save(r, res)
    PROVE  Released'
  <1>1. IsRequest(req[r])
    BY DEF IInv, TypeOK
  <1>2. CASE Load(r)
    <2> DEFINE q == [req[r] EXCEPT !.pc = "loaded", !.list = row]
    <2>1. req' = [req EXCEPT ![r] = q] /\ lock' = r /\ q.pc = "loaded"
      BY <1>1, <1>2 DEF Load, IsRequest
    <2> HIDE DEF q
    <2>2. Holds(q)
      BY <2>1 DEF Holds, Vacating
    <2> QED
      BY <2>1, <2>2, StepReleases
  <1>3. ASSUME At(r, "loaded"), NEW res, Save(r, res) PROVE Released'
    <2> DEFINE q == [req[r] EXCEPT !.pc = "saved", !.list = res.list, !.events = res.events]
    <2>1. req' = [req EXCEPT ![r] = q] /\ lock' = lock /\ q.pc = "saved"
      BY <1>1, <1>3 DEF Save, IsRequest
    <2> HIDE DEF q
    <2>2. Holds(q)
      BY <2>1 DEF Holds, Vacating
    <2> QED
      BY <2>1, <2>2, StepReleases
  <1> QED
    BY <1>2, <1>3

LEMMA UnlockReleases ==
    ASSUME NEW r, Unlock(r)
    PROVE  lock' = None \/ (lock' = lock /\ lock # r)
  BY DEF Unlock

LEMMA EndReleases ==
    ASSUME IInv, Released, NEW r \in Requests,
           \/ Refuse(r) \/ Commit(r) \/ CommitClaim(r) \/ LogClaimUI(r)
           \/ NotifyLoser(r) \/ CommitSuspension(r) \/ TriggerRaises(r) \/ Rollback(r)
    PROVE  Released'
  <1>1. CASE LogClaimUI(r) \/ NotifyLoser(r)
    <2>1. Finish(r) /\ UNCHANGED lock /\ ~Holds(req[r])
      BY <1>1 DEF LogClaimUI, NotifyLoser, At, Holds, Vacating
    <2> QED
      BY <2>1, FreeHasNoLock, StepReleases DEF Finish
  <1>2. ASSUME Finish(r), Unlock(r) PROVE Released'
    <2>1. lock' = None \/ (lock' = lock /\ lock # r)
      BY <1>2, UnlockReleases
    <2> QED
      BY <1>2, <2>1, StepReleases DEF Finish
  <1>3. CASE Refuse(r) \/ Commit(r) \/ CommitClaim(r)
    BY <1>2, <1>3 DEF Refuse, Commit, CommitClaim
  <1>4. CASE CommitSuspension(r) \/ TriggerRaises(r) \/ Rollback(r)
    BY <1>2, <1>4 DEF CommitSuspension, TriggerRaises, Rollback
  <1> QED
    BY <1>1, <1>3, <1>4

LEMMA ClaimReleases ==
    ASSUME IInv, Released, NEW r \in Requests,
           WinClaim(r) \/ ViewClaimUI(r) \/ WinClaimUI(r) \/ LoseClaim(r)
    PROVE  Released'
  <1>1. ~Holds(req[r]) /\ IsRequest(req[r])
    BY DEF WinClaim, ViewClaimUI, WinClaimUI, LoseClaim, At, Holds, Vacating, IInv, TypeOK
  <1>2. CASE WinClaim(r)
    <2> DEFINE q == [req[r] EXCEPT !.pc = "claimed"]
    <2>1. req' = [req EXCEPT ![r] = q] /\ lock' = r /\ q.pc = "claimed"
      BY <1>1, <1>2 DEF WinClaim, Goto, IsRequest
    <2> HIDE DEF q
    <2>2. Holds(q)
      BY <2>1 DEF Holds, Vacating
    <2> QED
      BY <2>1, <2>2, StepReleases
  <1>3. CASE ViewClaimUI(r)
    BY <1>1, <1>3, FreeHasNoLock, StepReleases DEF ViewClaimUI
  <1>4. CASE WinClaimUI(r) \/ LoseClaim(r)
    BY <1>1, <1>4, GotoReleases DEF WinClaimUI, LoseClaim
  <1> QED
    BY <1>2, <1>3, <1>4

LEMMA SuspensionReleases ==
    ASSUME IInv, LInv, Released, NEW r \in Requests,
           Deactivate(r) \/ VacateApprover(r) \/ VacateAssignee(r)
    PROVE  Released'
  <1>1. IsRequest(req[r])
    BY DEF IInv, TypeOK
  <1>2. ASSUME NEW pc \in Vacating, NEW event,
               UpdateRow(r, pc, event)
        PROVE  Released'
    <2> DEFINE q == [req[r] EXCEPT !.pc = pc, !.events = @ \cup {event}]
    <2>1. req' = [req EXCEPT ![r] = q] /\ lock' = r
      BY <1>2 DEF UpdateRow
    <2>2. q.pc = pc /\ event \in q.events
      BY <1>1 DEF IsRequest
    <2> HIDE DEF q
    <2>3. Holds(q)
      BY <2>2 DEF Holds, Vacating
    <2> QED
      BY <2>1, <2>3, StepReleases
  <1>3. CASE Deactivate(r)
    BY <1>3, GotoReleases DEF Deactivate, At, Holds, Vacating
  <1>4. CASE VacateApprover(r)
    <2>1. ~Holds(req[r])
      BY <1>4 DEF VacateApprover, At, Holds, Vacating
    <2> QED
      BY <1>2, <1>4, <2>1, GotoReleases DEF VacateApprover, Vacating
  <1>5. CASE VacateAssignee(r)
    BY <1>2, <1>5, GotoReleases DEF VacateAssignee, AfterVacating, Vacating
  <1> QED
    BY <1>3, <1>4, <1>5

LEMMA NextReleased ==
    ASSUME IInv, LInv, Released, [Next]_vars
    PROVE  Released'
  <1>1. ASSUME NEW r \in Requests, Step(r) PROVE Released'
    BY <1>1, HandlerSaves, MutationReleases, EndReleases, ClaimReleases,
       SuspensionReleases DEF Step
  <1>2. ASSUME NEW r \in Requests, Arrive(r) PROVE Released'
    <2>1. /\ req[r].pc = "idle" /\ UNCHANGED lock
          /\ \E q : req' = [req EXCEPT ![r] = q]
      BY <1>2 DEF Arrive, BeginMutation, BeginClaim, BeginClaimUI, BeginSuspension, Begin, At
    <2>2. lock # r
      BY <2>1, FreeHasNoLock DEF Holds, Vacating
    <2> QED
      BY <2>1, <2>2, StepReleases
  <1>3. ASSUME NEW r \in Requests, Rollback(r) PROVE Released'
    BY <1>3, EndReleases
  <1>4. CASE UNCHANGED <<lock, req>>
    BY <1>4 DEF Released, Holds, Vacating
  <1>5. ASSUME NEW u \in Users, Reactivate(u) \/ AddMember(u) \/ RemoveMember(u)
        PROVE  UNCHANGED <<lock, req>>
    BY <1>5 DEF Reactivate, AddMember, RemoveMember
  <1>6. CASE UNCHANGED vars
    BY <1>4, <1>6 DEF vars
  <1> QED
    BY <1>1, <1>2, <1>3, <1>4, <1>5, <1>6 DEF Next

\* Who waits for the row waits for its holder, and a holder waits for nobody:
\* the users row, if it needed one, it had before.
LEMMA HolderWaitsForNobody ==
    ASSUME Released, NEW r \in Requests, lock = r, NEW s \in Requests
    PROVE  ~At(r, "idle") /\ ~WaitsFor(r, s)
  <1>1. Holds(req[r])
    BY FreeHasNoLock
  <1> QED
    BY <1>1 DEF Holds, Vacating, At, WaitsFor

LEMMA ReleasedIsEnough == Released => WaitsAreShort
  <1> SUFFICES ASSUME Released, NEW r \in Requests, NEW s \in Requests, WaitsFor(r, s)
               PROVE  /\ ~At(s, "idle")
                      /\ \A t, u \in Requests :
                            WaitsFor(s, t) => ~At(t, "idle") /\ ~WaitsFor(t, u)
    BY DEF WaitsAreShort
  <1>1. CASE lock = s
    BY <1>1, HolderWaitsForNobody
  <1>2. CASE req[s].pc \in {"deactivated", "unapproved", "unassigned",
                             "halfway", "overtaken"}
    <2>1. ASSUME NEW t \in Requests, WaitsFor(s, t) PROVE lock = t
      BY <1>2, <2>1 DEF WaitsFor, At
    <2> QED
      BY <1>2, <2>1, HolderWaitsForNobody DEF At
  <1> QED
    BY <1>1, <1>2 DEF WaitsFor

\* No deadlock among any number of requests on a list: the row is locked only
\* by a request that will let go of it without waiting for another.
THEOREM NoDeadlock == Spec => []WaitsAreShort
  <1> DEFINE HInv == IInv /\ LInv /\ Released
  <1>1. Init => HInv
    BY InitIInv, InitLInv DEF Init, Released
  <1>2. HInv /\ [Next]_vars => HInv'
    BY NextIInv, NextLInv, NextReleased
  <1>3. HInv => WaitsAreShort
    BY ReleasedIsEnough
  <1> QED
    BY <1>1, <1>2, <1>3, PTL DEF Spec

-----------------------------------------------------------------------------
\* The steps that write the committed row, and what each does to it.

LEMMA CommitFollows ==
    ASSUME IInv, LInv, NEW r \in Requests, Commit(r)
    PROVE  /\ Follows(row, row')
           /\ UNCHANGED <<row.assignee, row.approver>>
           /\ row'.status = req[r].list.status
  <1> DEFINE c == req[r].list
  <1>1. Own(r, req[r], lock, row) /\ req[r].pc = "saved"
    BY DEF LInv, Commit, At
  <1>2. Follows(row, c)
    BY <1>1 DEF Own, Owed
  <1>3. /\ row'.status = c.status
        /\ row'.items = c.items
        /\ UNCHANGED <<row.assignee, row.approver>>
    BY DEF Commit, IInv, TypeOK, IsChecklist
  <1>4. Live(row') = Live(c) /\ Done(row') = Done(c)
    BY <1>3 DEF Live, Done
  <1> QED
    BY <1>2, <1>3, <1>4 DEF Follows, Checks, Judges, Edits

LEMMA ClaimWrites ==
    ASSUME IInv, LInv, NEW r \in Requests, CommitClaim(r) \/ WinClaimUI(r)
    PROVE  /\ UNCHANGED <<row.status, row.items, row.approver>>
           /\ row'.assignee = req[r].user
           /\ req[r].user \in Users
           /\ row.assignee = req[r].expect
  <1>1. IsRequest(req[r]) /\ Own(r, req[r], lock, row)
    BY DEF IInv, TypeOK, LInv
  <1>2. req[r].user \in Users
    BY <1>1 DEF CommitClaim, WinClaimUI, At, IsRequest
  <1>3. row.assignee = req[r].expect
    BY <1>1 DEF CommitClaim, WinClaimUI, At, Own
  <1>4. /\ UNCHANGED <<row.status, row.items, row.approver>>
        /\ row'.assignee = req[r].user
    BY DEF CommitClaim, WinClaimUI, IInv, TypeOK, IsChecklist
  <1> QED
    BY <1>2, <1>3, <1>4

LEMMA SuspensionWrites ==
    ASSUME IInv, NEW r \in Requests, CommitSuspension(r)
    PROVE  /\ UNCHANGED <<row.status, row.items>>
           /\ row'.assignee \in {row.assignee, None}
           /\ row'.approver \in {row.approver, None}
  BY DEF CommitSuspension, IInv, TypeOK, IsChecklist

-----------------------------------------------------------------------------
\* A new assignee claimed the list from the one it had: the UPDATE compared
\* the two, and the row cannot change between that and the commit.
THEOREM NobodyOvertaken == Spec => ClaimsFromExpected
  <1> DEFINE TakenOver == row'.assignee \notin {row.assignee, None}
             Expected  == \E r \in Requests : /\ req[r].user = row'.assignee
                                              /\ req[r].expect = row.assignee
  <1>1. ASSUME IInv, LInv, [Next]_vars PROVE TakenOver => Expected
    <2>1. (\E r \in Requests : RowWrite(r)) \/ UNCHANGED row
      BY <1>1, RowWriters
    <2>2. ASSUME NEW r \in Requests, Commit(r) \/ CommitSuspension(r) PROVE ~TakenOver
      BY <1>1, <2>2, CommitFollows, SuspensionWrites
    <2>3. ASSUME NEW r \in Requests, CommitClaim(r) \/ WinClaimUI(r) PROVE Expected
      BY <1>1, <2>3, ClaimWrites
    <2> QED
      BY <2>1, <2>2, <2>3 DEF RowWrite
  <1>2. IInv /\ LInv /\ [Next]_vars => [TakenOver => Expected]_vars
    BY <1>1
  <1> HIDE DEF TakenOver, Expected
  <1>3. Init => IInv /\ LInv
    BY InitIInv, InitLInv
  <1>4. IInv /\ LInv /\ [Next]_vars => IInv' /\ LInv'
    BY NextIInv, NextLInv
  <1>5. Spec => [][TakenOver => Expected]_vars
    BY <1>2, <1>3, <1>4, PTL DEF Spec
  <1> QED
    BY <1>5 DEF ClaimsFromExpected, TakenOver, Expected

-----------------------------------------------------------------------------
\* The store implements the workflow.

LEMMA InitWorkflow == Init => Workflow!Init
  <1> SUFFICES ASSUME Init PROVE Workflow!Init
    OBVIOUS
  <1>1. IInv
    BY InitIInv
  <1>2. \A i \in DOMAIN row.items : row.items[i].checked = FALSE
    <2>1. PICK S \in SUBSET ItemIds : \E f \in Places(S) :
             row.items = [i \in S |-> [checked |-> FALSE, by |-> None,
                                       override |-> None, pos |-> f[i]]]
      BY DEF Init
    <2> QED
      BY <2>1
  <1>3. row.status = "open"
    BY DEF Init
  <1>4. /\ DOMAIN row.items \in SUBSET ItemIds
        /\ row.assignee \in Users \cup {None}
        /\ row.approver \in Users \cup {None}
    BY <1>1 DEF IInv, TypeOK, IsChecklist, IsItemList, MaybeUser
  <1> QED
    BY <1>2, <1>3, <1>4 DEF Workflow!Init

LEMMA NextWorkflow ==
    ASSUME IInv, LInv, [Next]_vars
    PROVE  [Workflow!Next]_Workflow!vars
  <1>1. ASSUME NEW r \in Requests, Commit(r) PROVE Workflow!Next
    <2>1. Follows(row, row') /\ UNCHANGED <<row.assignee, row.approver>>
      BY <1>1, CommitFollows
    <2>2. CASE Checks(row, row')
      BY <2>1, <2>2 DEF Checks, Live, Done, Workflow!Next, Workflow!Check
    <2>3. CASE Judges(row, row')
      BY <2>1, <2>3 DEF Judges, Live, Done, Workflow!Next, Workflow!Approve, Workflow!Reject
    <2>4. CASE Edits(row, row')
      BY <2>1, <2>4 DEF Edits, Live, Done, Workflow!Next, Workflow!CreatorEdit
    <2> QED
      BY <2>1, <2>2, <2>3, <2>4 DEF Follows
  <1>2. ASSUME NEW r \in Requests, CommitClaim(r) \/ WinClaimUI(r) PROVE Workflow!Next
    BY <1>2, ClaimWrites DEF Workflow!Next, Workflow!Claim
  <1>3. ASSUME NEW r \in Requests, CommitSuspension(r) PROVE Workflow!Next
    BY <1>3, SuspensionWrites DEF Workflow!Next, Workflow!Vacate
  <1>4. CASE UNCHANGED row
    BY <1>4 DEF Workflow!vars
  <1>5. (\E r \in Requests : RowWrite(r)) \/ UNCHANGED row
    BY RowWriters
  <1> QED
    BY <1>1, <1>2, <1>3, <1>4, <1>5 DEF RowWrite

\* Requests, locks and transactions add nothing to what people may do to a
\* checklist: every commit is one step of the workflow, whatever ran between
\* the statements of its transaction.
THEOREM StoreImplementsWorkflow == Spec => ImplementsWorkflow
  <1>1. Init => IInv /\ LInv /\ Workflow!Init
    BY InitIInv, InitLInv, InitWorkflow
  <1>2. IInv /\ LInv /\ [Next]_vars => IInv' /\ LInv'
    BY NextIInv, NextLInv
  <1>3. IInv /\ LInv /\ [Next]_vars => [Workflow!Next]_Workflow!vars
    BY NextWorkflow
  <1> QED
    BY <1>1, <1>2, <1>3, PTL DEF Spec, ImplementsWorkflow, Workflow!Spec

-----------------------------------------------------------------------------
\* The approval of a complete list is in its audit log.

\* The steps that write the row are those that write the log, except that a
\* claim on the web logs itself one step later.
LEMMA LogWriters ==
    ASSUME [Next]_vars
    PROVE  (\E r \in Requests : RowWrite(r) \/ LogClaimUI(r)) \/ UNCHANGED <<row, trail>>
  <1>1. ASSUME NEW r \in Requests, Arrive(r) PROVE UNCHANGED <<row, trail>>
    BY <1>1 DEF Arrive, BeginMutation, BeginClaim, BeginClaimUI, BeginSuspension, Begin
  <1>2. ASSUME NEW r \in Requests,
               \/ HandleCheckItem(r) \/ HandleApprove(r) \/ HandleReject(r)
               \/ HandleAddItem(r) \/ HandleRemoveItem(r) \/ HandleReorder(r)
               \/ HandleSetItemChecked(r)
        PROVE  UNCHANGED <<row, trail>>
    <2>1. ASSUME NEW res, Save(r, res) PROVE UNCHANGED <<row, trail>>
      BY <2>1 DEF Save
    <2> QED
      BY <1>2, <2>1 DEF HandleCheckItem, HandleApprove, HandleReject, HandleAddItem,
                        HandleRemoveItem, HandleReorder, HandleSetItemChecked
  <1>3. ASSUME NEW r \in Requests,
               \/ Load(r) \/ Refuse(r) \/ WinClaim(r) \/ ViewClaimUI(r)
               \/ LoseClaim(r) \/ NotifyLoser(r) \/ Deactivate(r)
               \/ VacateApprover(r) \/ VacateAssignee(r) \/ TriggerRaises(r)
               \/ Rollback(r)
        PROVE  UNCHANGED <<row, trail>>
    BY <1>3 DEF Load, Refuse, WinClaim, ViewClaimUI, LoseClaim, NotifyLoser,
                Deactivate, VacateApprover, VacateAssignee, TriggerRaises, Rollback
  <1>4. ASSUME NEW u \in Users, Reactivate(u) \/ AddMember(u) \/ RemoveMember(u)
        PROVE  UNCHANGED <<row, trail>>
    BY <1>4 DEF Reactivate, AddMember, RemoveMember
  <1>5. ASSUME NEW r \in Requests, Step(r)
        PROVE  RowWrite(r) \/ LogClaimUI(r) \/ UNCHANGED <<row, trail>>
    BY <1>2, <1>3, <1>5 DEF Step, RowWrite
  <1>6. CASE UNCHANGED vars
    BY <1>6 DEF vars
  <1> QED
    BY <1>1, <1>3, <1>4, <1>5, <1>6 DEF Next

\* Events that neither approve nor send back leave the last approval in place.
LEMMA ReplayKeepsApproval ==
    ASSUME NEW t, NEW E,
           \A e \in E : e.action \notin {"approved", "rejected", "reopened"}
    PROVE  Replay(t, E).approvedBy = t.approvedBy
  <1>1. ~Has(E, "approved") /\ ~Has(E, "rejected") /\ ~Has(E, "reopened")
    BY DEF Has, Logged
  <1> QED
    BY <1>1 DEF Replay

LEMMA ReplayApproved ==
    ASSUME NEW t, NEW c, NEW E, Approved(c, E)
    PROVE  Replay(t, E).approvedBy = c.approver
  <1> DEFINE e == ListEvent("approved", c.approver)
  <1>1. ActorOf(E, "approved") = c.approver
    <2>1. e.actor = c.approver
      BY DEF ListEvent, Event
    <2>2. Logged(E, "approved") = {e}
      BY DEF Approved
    <2> HIDE DEF e
    <2>3. \A x \in Logged(E, "approved") : x = e
      BY <2>2
    <2>4. (CHOOSE x \in Logged(E, "approved") : TRUE) \in Logged(E, "approved")
      BY <2>2
    <2> QED
      BY <2>1, <2>3, <2>4 DEF ActorOf
  <1>2. Has(E, "approved")
    BY DEF Approved, Has
  <1> QED
    BY <1>1, <1>2 DEF Replay

LEMMA NextApproval ==
    ASSUME IInv, LInv, ApprovalOnRecord, [Next]_vars
    PROVE  ApprovalOnRecord'
  <1>1. ASSUME NEW r \in Requests, Commit(r) PROVE ApprovalOnRecord'
    <2> SUFFICES ASSUME row'.status = "complete", row'.approver # None
                 PROVE  trail'.approvedBy = row'.approver
      BY DEF ApprovalOnRecord
    <2>1. Own(r, req[r], lock, row) /\ req[r].pc = "saved"
      BY <1>1 DEF LInv, Commit, At
    <2>2. req[r].list.status = "complete" /\ row'.approver = row.approver
      BY <1>1, CommitFollows
    <2>3. Approved(row, req[r].events)
      BY <2>1, <2>2 DEF Own, Owed, Warranted
    <2>4. trail' = Replay(trail, req[r].events)
      BY <1>1 DEF Commit
    <2> QED
      BY <2>2, <2>3, <2>4, ReplayApproved
  <1>2. ASSUME NEW u, NEW E, E = {ListEvent("claimed", u)}
        PROVE  Replay(trail, E).approvedBy = trail.approvedBy
    <2>1. ListEvent("claimed", u).action = "claimed"
      BY DEF ListEvent, Event
    <2> QED
      BY <1>2, <2>1, ReplayKeepsApproval
  <1>3. ASSUME NEW r \in Requests, CommitClaim(r) \/ WinClaimUI(r) \/ LogClaimUI(r)
        PROVE  ApprovalOnRecord'
    <2>1. row'.status = row.status /\ row'.approver = row.approver
      BY <1>3, ClaimWrites DEF LogClaimUI
    <2>2. trail'.approvedBy = trail.approvedBy
      BY <1>2, <1>3 DEF CommitClaim, WinClaimUI, LogClaimUI
    <2> QED
      BY <2>1, <2>2 DEF ApprovalOnRecord
  <1>4. ASSUME NEW r \in Requests, CommitSuspension(r) PROVE ApprovalOnRecord'
    <2>1. row'.status = row.status /\ row'.approver \in {row.approver, None}
      BY <1>4, SuspensionWrites
    <2>2. /\ trail' = Replay(trail, req[r].events)
          /\ \A e \in req[r].events : e.action \in {"approver_changed", "assignee_changed"}
      BY <1>4 DEF CommitSuspension, LInv, Own, Vacating
    <2>3. trail'.approvedBy = trail.approvedBy
      BY <2>2, ReplayKeepsApproval
    <2> QED
      BY <2>1, <2>3 DEF ApprovalOnRecord
  <1>5. CASE UNCHANGED <<row, trail>>
    BY <1>5 DEF ApprovalOnRecord
  <1>6. (\E r \in Requests : RowWrite(r) \/ LogClaimUI(r)) \/ UNCHANGED <<row, trail>>
    BY LogWriters
  <1> QED
    BY <1>1, <1>3, <1>4, <1>5, <1>6 DEF RowWrite

\* A complete list that has an approver was approved by that approver: no
\* interleaving of a tick, a rejection, a reopening and an approval completes
\* it in another way or leaves an older approval standing.
THEOREM ApprovalsRecorded == Spec => []ApprovalOnRecord
  <1>1. Init => RInv
    <2>1. ASSUME Init PROVE row.status = "open"
      BY <2>1 DEF Init
    <2> QED
      BY <2>1, InitIInv, InitLInv DEF RInv, ApprovalOnRecord
  <1>2. RInv /\ [Next]_vars => RInv'
    BY NextIInv, NextLInv, NextApproval DEF RInv
  <1>3. RInv => ApprovalOnRecord
    BY DEF RInv
  <1> QED
    BY <1>1, <1>2, <1>3, PTL DEF Spec
=============================================================================
