----------------------------- MODULE AuditProofs -----------------------------
(***************************************************************************)
(* What a commit leaves on record, for any users, item ids, requests and   *)
(* kinds of request: the approver is told of a submission; and as long as  *)
(* clients send proper reorders, the audit log replays to the row, the     *)
(* positions stay dense and items leave only by removal.                   *)
(***************************************************************************)
EXTENDS ChecklistRefinementProofs

-----------------------------------------------------------------------------
\* What the methods owe beyond a step of the workflow.  c is the list that was
\* loaded, res the pair of list and events a method returns.

SameRoles(c, d) == d.assignee = c.assignee /\ d.approver = c.approver

\* A list enters validating with the event that its approver is told of.
Announced(c, res) ==
    res.list.status = "validating" =>
        /\ c.status = "open"
        /\ \E e \in res.events : e.action = "submitted_for_validation"

\* t is what a replay of the log should give for c.
Traces(t, c) ==
    /\ t.status = c.status
    /\ t.assignee = c.assignee
    /\ t.approver = c.approver
    /\ t.checked = Done(c)
    /\ t.size = Cardinality(Live(c))

Replays(c, res) == \A t : Traces(t, c) => Traces(Replay(t, res.events), res.list)

Dense(c) == {c.items[i].pos : i \in Live(c)} = 0 .. Cardinality(Live(c)) - 1

KeepsDense(c, d) == Dense(c) => Dense(d)

Removed(c, res) ==
    \A i \in Live(c) \ Live(res.list) : Event("item_removed", Creator, i) \in res.events

Recorded(c, res) ==
    /\ SameRoles(c, res.list)
    /\ Announced(c, res)
    /\ Replays(c, res)
    /\ KeepsDense(c, res.list)
    /\ Removed(c, res)

-----------------------------------------------------------------------------
\* Replaying the events of one call.

LEMMA HasAction ==
    ASSUME NEW E, NEW a
    PROVE  Has(E, a) <=> \E e \in E : e.action = a
  BY DEF Has, Logged

\* What does not touch items leaves the log's account of them alone.
LEMMA ReplayStatus ==
    ASSUME NEW t, t.size \in Nat, NEW E,
           \A e \in E : e.action \notin {"item_checked", "item_unchecked", "item_removed",
                                         "item_added", "claimed", "assignee_changed",
                                         "approver_changed"}
    PROVE  /\ Replay(t, E).assignee = t.assignee
           /\ Replay(t, E).approver = t.approver
           /\ Replay(t, E).checked = t.checked
           /\ Replay(t, E).size = t.size
  <1>1. \A a \in {"item_checked", "item_unchecked", "item_removed", "item_added", "claimed",
                  "assignee_changed", "approver_changed"} :
            ~Has(E, a) /\ ItemsOf(E, a) = {}
    BY HasAction DEF Has, ItemsOf
  <1> QED
    BY <1>1 DEF Replay

EditActions == {"item_checked", "item_unchecked", "item_added", "item_removed", "items_reordered"}

\* One event of the edit, and "reopened" if needed.
EditEvents(c, u, e) == IF c.status = "open" THEN {e} ELSE {e, ListEvent("reopened", u)}

\* The log after an edit by e: R, when it was t before.
EditReplayed(t, e, R) ==
    /\ R.status = "open"
    /\ R.assignee = t.assignee
    /\ R.approver = t.approver
    /\ R.checked = (t.checked \cup (IF e.action = "item_checked" THEN {e.item} ELSE {}))
                   \ (IF e.action \in {"item_unchecked", "item_removed"} THEN {e.item} ELSE {})
    /\ R.size = t.size + (IF e.action = "item_added" THEN 1 ELSE 0)
                       - (IF e.action = "item_removed" THEN 1 ELSE 0)

LEMMA ReopenReplay ==
    ASSUME NEW c, c.status \in Status, NEW u, NEW e, e.action \in EditActions,
           NEW t, t.status = c.status, t.size \in Nat
    PROVE  EditReplayed(t, e, Replay(t, EditEvents(c, u, e)))
  <1> DEFINE E == EditEvents(c, u, e)
             o == ListEvent("reopened", u)
             R == Replay(t, E)
  <1>1. E = IF c.status = "open" THEN {e} ELSE {e, o}
    BY DEF EditEvents
  <1>2. o.action = "reopened"
    BY DEF ListEvent, Event
  <1>5. R = Replay(t, E)
    OBVIOUS
  <1> HIDE DEF E, o, R
  <1>3. \A a \in Actions : Has(E, a) <=> (e.action = a \/ (a = "reopened" /\ c.status # "open"))
    BY <1>1, <1>2, HasAction DEF EditActions
  <1>4. \A a \in EditActions : ItemsOf(E, a) = IF e.action = a THEN {e.item} ELSE {}
    <2> SUFFICES ASSUME NEW a \in EditActions
                 PROVE  ItemsOf(E, a) = IF e.action = a THEN {e.item} ELSE {}
      OBVIOUS
    <2>1. Logged(E, a) = IF e.action = a THEN {e} ELSE {}
      BY <1>1, <1>2 DEF Logged, EditActions
    <2> QED
      BY <2>1 DEF ItemsOf
  <1>6. R.status = "open"
    BY <1>3, <1>5 DEF Replay, EditActions, Actions, Status
  <1>7. R.assignee = t.assignee /\ R.approver = t.approver
    BY <1>3, <1>5 DEF Replay, EditActions, Actions
  <1>8. R.checked = (t.checked \cup ItemsOf(E, "item_checked"))
                    \ (ItemsOf(E, "item_unchecked") \cup ItemsOf(E, "item_removed"))
    BY <1>5 DEF Replay
  <1>9. R.checked = (t.checked \cup (IF e.action = "item_checked" THEN {e.item} ELSE {}))
                    \ (IF e.action \in {"item_unchecked", "item_removed"}
                       THEN {e.item} ELSE {})
    BY <1>4, <1>8 DEF EditActions
  <1>10. R.size = t.size + (IF Has(E, "item_added") THEN 1 ELSE 0)
                         - (IF Has(E, "item_removed") THEN 1 ELSE 0)
    BY <1>5 DEF Replay
  <1>11. /\ Has(E, "item_added") <=> e.action = "item_added"
         /\ Has(E, "item_removed") <=> e.action = "item_removed"
    BY <1>3 DEF Actions
  <1> QED
    BY <1>6, <1>7, <1>9, <1>10, <1>11 DEF EditReplayed, R, E

-----------------------------------------------------------------------------
\* Positions.

\* Distinct places of n items are all the places 0 .. n-1.
LEMMA PlacesFill ==
    ASSUME NEW S, IsFiniteSet(S), NEW f \in Places(S)
    PROVE  {f[i] : i \in S} = 0 .. Cardinality(S) - 1
  <1> DEFINE T == 0 .. Cardinality(S) - 1
  <1>1. Cardinality(S) \in Nat
    BY FS_CardinalityType
  <1>2. IsFiniteSet(T) /\ Cardinality(T) = Cardinality(S)
    BY <1>1, FS_Interval
  <1>3. f \in [S -> T] /\ \A i, j \in S : f[i] = f[j] => i = j
    BY DEF Places
  <1>4. f \in Injection(S, T)
    BY <1>3 DEF Injection, IsInjective
  <1>5. f \in Surjection(S, T)
    BY <1>2, <1>4, FS_Injection
  <1>6. \A t \in T : \E i \in S : f[i] = t
    BY <1>5 DEF Surjection
  <1> QED
    BY <1>3, <1>6

\* A proper order names every item, each at one place.
LEMMA OrderPlaces ==
    ASSUME NEW c, IsChecklist(c), NEW order \in Orders(c), Permutes(order),
           NEW place \in ReorderPlaces(c, order)
    PROVE  /\ DOMAIN place = Live(c)
           /\ {place[i] : i \in Live(c)} = 0 .. Cardinality(Live(c)) - 1
  <1> DEFINE T == 0 .. Cardinality(Live(c)) - 1
  <1>1. IsFiniteSet(Live(c)) /\ Cardinality(Live(c)) \in Nat
    BY LiveFinite
  <1>2. IsFiniteSet(T) /\ Cardinality(T) = Cardinality(Live(c))
    BY <1>1, FS_Interval
  <1>3. order \in [T -> Live(c)] /\ \A p, q \in T : order[p] = order[q] => p = q
    BY DEF Orders, Permutes
  <1>4. order \in Injection(T, Live(c))
    BY <1>3 DEF Injection, IsInjective
  <1>5. order \in Surjection(T, Live(c))
    BY <1>1, <1>2, <1>4, FS_Injection
  <1>6. \A i \in Live(c) : \E p \in T : order[p] = i
    BY <1>5 DEF Surjection
  <1>7. /\ DOMAIN place = {order[p] : p \in T}
        /\ \A p \in T : place[order[p]] \in T /\ order[place[order[p]]] = order[p]
    <2>1. DOMAIN order = T
      BY <1>3
    <2>2. place \in [{order[p] : p \in DOMAIN order} -> DOMAIN order]
      BY DEF ReorderPlaces
    <2>3. \A p \in DOMAIN order : order[place[order[p]]] = order[p]
      BY DEF ReorderPlaces
    <2> HIDE DEF T
    <2> QED
      BY <2>1, <2>2, <2>3
  <1> HIDE DEF T
  <1>8. DOMAIN place = Live(c)
    BY <1>3, <1>6, <1>7
  <1>9. \A p \in T : place[order[p]] = p
    BY <1>3, <1>7
  <1>10. {place[i] : i \in Live(c)} = T
    BY <1>3, <1>6, <1>9
  <1> QED
    BY <1>8, <1>10 DEF T

\* A list that keeps its items at their places stays dense.
LEMMA SamePlaces ==
    ASSUME NEW c, NEW d, Live(d) = Live(c), \A i \in Live(c) : d.items[i].pos = c.items[i].pos
    PROVE  KeepsDense(c, d)
  BY DEF KeepsDense, Dense

LEMMA NewPlaces ==
    ASSUME NEW c, NEW d, NEW place, \A i \in Live(d) : d.items[i].pos = place[i],
           {place[i] : i \in Live(d)} = 0 .. Cardinality(Live(d)) - 1
    PROVE  KeepsDense(c, d)
  BY DEF KeepsDense, Dense

LEMMA TraceSize ==
    ASSUME NEW c, IsChecklist(c), NEW t, Traces(t, c)
    PROVE  t.size \in Nat
  BY LiveFinite DEF Traces

-----------------------------------------------------------------------------
\* The creator's edits.

\* Which items an edit event says are done, and how many are live, after it.
DoneAfter(c, e) ==
    (Done(c) \cup (IF e.action = "item_checked" THEN {e.item} ELSE {}))
    \ (IF e.action \in {"item_unchecked", "item_removed"} THEN {e.item} ELSE {})

SizeAfter(c, e) ==
    Cardinality(Live(c)) + (IF e.action = "item_added" THEN 1 ELSE 0)
                         - (IF e.action = "item_removed" THEN 1 ELSE 0)

LEMMA EditRecorded ==
    ASSUME NEW c, IsChecklist(c), NEW f, NEW u, NEW e, e.action \in EditActions,
           NEW g, g = [c EXCEPT !.items = f], NEW res, res = Reopen(c, g, u, e),
           {i \in DOMAIN f : f[i].checked} = DoneAfter(c, e),
           Cardinality(DOMAIN f) = SizeAfter(c, e),
           KeepsDense(c, res.list),
           \A i \in Live(c) \ DOMAIN f : e = Event("item_removed", Creator, i)
    PROVE  Recorded(c, res)
  <1> DEFINE d == [g EXCEPT !.status = "open"]
  <1>1. d.items = f /\ d.status = "open" /\ SameRoles(c, d) /\ c.status \in Status
    BY DEF IsChecklist, SameRoles
  <1>2. res.list = d /\ e \in res.events
    BY DEF Reopen
  <1> HIDE DEF d
  <1>3. Live(d) = DOMAIN f /\ Done(d) = DoneAfter(c, e)
    BY <1>1 DEF Live, Done
  <1>4. ASSUME NEW t, Traces(t, c) PROVE Traces(Replay(t, res.events), d)
    <2> DEFINE R == Replay(t, res.events)
    <2>1. t.size \in Nat /\ t.status = c.status /\ t.assignee = c.assignee
          /\ t.approver = c.approver /\ t.checked = Done(c) /\ t.size = Cardinality(Live(c))
      BY <1>4, TraceSize DEF Traces
    <2>2. res.events = EditEvents(c, u, e)
      BY DEF Reopen, EditEvents
    <2>3. EditReplayed(t, e, R)
      BY <1>1, <2>1, <2>2, ReopenReplay
    <2> HIDE DEF R
    <2>4. R.checked = DoneAfter(c, e) /\ R.size = SizeAfter(c, e)
      BY <2>1, <2>3 DEF EditReplayed, DoneAfter, SizeAfter
    <2>5. Traces(R, d)
      BY <1>1, <1>3, <2>1, <2>3, <2>4 DEF Traces, SameRoles, EditReplayed
    <2> QED
      BY <2>5 DEF R
  <1>5. Removed(c, res)
    BY <1>2, <1>3 DEF Removed
  <1> QED
    BY <1>1, <1>2, <1>4, <1>5 DEF Recorded, Announced, Replays

LEMMA AddItemRecorded ==
    ASSUME NEW c, IsChecklist(c), NEW u, NEW new \in ItemIds \ Live(c)
    PROVE  Recorded(c, AddItem(c, u, new))
  <1> DEFINE n == Cardinality(Live(c))
             item == [checked |-> FALSE, by |-> None, override |-> None, pos |-> n]
             f == [i \in Live(c) \cup {new} |-> IF i = new THEN item ELSE c.items[i]]
             g == [c EXCEPT !.items = f]
             e == ListEvent("item_added", u)
             res == AddItem(c, u, new)
  <1>1. g = [c EXCEPT !.items = f] /\ res = Reopen(c, g, u, e)
    BY DEF AddItem
  <1>2. /\ DOMAIN f = Live(c) \cup {new}
        /\ f[new].checked = FALSE /\ f[new].pos = n
        /\ \A i \in Live(c) : f[i] = c.items[i]
    OBVIOUS
  <1>3. e.action = "item_added"
    BY DEF ListEvent, Event
  <1>4. IsFiniteSet(Live(c)) /\ n \in Nat
    BY LiveFinite
  <1>5. Cardinality(DOMAIN f) = n + 1
    BY <1>2, <1>4, FS_AddElement
  <1> HIDE DEF f, e, g, res
  <1>6. res.list.items = f
    BY <1>1 DEF Reopen, IsChecklist
  <1>7. {i \in DOMAIN f : f[i].checked} = DoneAfter(c, e)
    BY <1>2, <1>3 DEF DoneAfter, Done, Live
  <1>8. Cardinality(DOMAIN f) = SizeAfter(c, e)
    BY <1>3, <1>4, <1>5 DEF SizeAfter
  <1>9. KeepsDense(c, res.list)
    <2>1. Live(res.list) = Live(c) \cup {new}
      BY <1>2, <1>6 DEF Live
    <2>2. SUFFICES ASSUME Dense(c) PROVE Dense(res.list)
      BY DEF KeepsDense
    <2>3. {f[i].pos : i \in Live(c) \cup {new}} = {c.items[i].pos : i \in Live(c)} \cup {n}
      BY <1>2
    <2>4. {f[i].pos : i \in Live(c) \cup {new}} = (0 .. n - 1) \cup {n}
      BY <2>2, <2>3 DEF Dense
    <2>5. (0 .. n - 1) \cup {n} = 0 .. (n + 1) - 1
      BY <1>4
    <2>6. Cardinality(Live(res.list)) = n + 1
      BY <1>2, <1>5, <2>1
    <2> HIDE DEF n
    <2> QED
      BY <1>6, <2>1, <2>4, <2>5, <2>6 DEF Dense
  <1>10. e.action \in EditActions
    BY <1>3 DEF EditActions
  <1>11. Live(c) \ DOMAIN f = {}
    BY <1>2
  <1> HIDE DEF n
  <1>12. Recorded(c, res)
    BY <1>1, <1>7, <1>8, <1>9, <1>10, <1>11, EditRecorded
  <1> QED
    BY <1>12 DEF res

LEMMA RemoveItemRecorded ==
    ASSUME NEW c, IsChecklist(c), NEW gone \in Live(c), NEW place \in RemovePlaces(c, gone)
    PROVE  Recorded(c, RemoveItem(c, Creator, gone, place))
  <1> DEFINE S == Live(c) \ {gone}
             f == [i \in S |-> [c.items[i] EXCEPT !.pos = place[i]]]
             g == [c EXCEPT !.items = f]
             e == Event("item_removed", Creator, gone)
             res == RemoveItem(c, Creator, gone, place)
  <1>1. g = [c EXCEPT !.items = f] /\ res = Reopen(c, g, Creator, e)
    BY DEF RemoveItem
  <1>2. /\ DOMAIN f = S
        /\ \A i \in S : f[i].checked = c.items[i].checked /\ f[i].pos = place[i]
    BY DEF IsChecklist, IsItemList, Live, Item
  <1>3. e.action = "item_removed" /\ e.item = gone
    BY DEF Event
  <1>4. IsFiniteSet(Live(c)) /\ Cardinality(Live(c)) \in Nat
    BY LiveFinite
  <1>5. IsFiniteSet(S) /\ Cardinality(S) = Cardinality(Live(c)) - 1
    BY <1>4, FS_RemoveElement
  <1>6. {place[i] : i \in S} = 0 .. Cardinality(S) - 1
    BY <1>5, PlacesFill DEF RemovePlaces
  <1> HIDE DEF f, g, res
  <1>7. res.list.items = f
    BY <1>1 DEF Reopen, IsChecklist
  <1>8. \A i \in Live(c) \ S : e = Event("item_removed", Creator, i)
    OBVIOUS
  <1> HIDE DEF e, S
  <1>9. {i \in DOMAIN f : f[i].checked} = DoneAfter(c, e)
    BY <1>2, <1>3 DEF DoneAfter, Done, Live, S
  <1>10. Cardinality(DOMAIN f) = SizeAfter(c, e)
    BY <1>2, <1>3, <1>4, <1>5 DEF SizeAfter
  <1>11. KeepsDense(c, res.list)
    <2>1. Live(res.list) = S
      BY <1>2, <1>7 DEF Live
    <2> QED
      BY <1>2, <1>6, <1>7, <2>1, NewPlaces
  <1>12. e.action \in EditActions
    BY <1>3 DEF EditActions
  <1>13. Recorded(c, res)
    BY <1>1, <1>2, <1>8, <1>9, <1>10, <1>11, <1>12, EditRecorded
  <1> QED
    BY <1>13 DEF res

LEMMA ReorderItemsRecorded ==
    ASSUME NEW c, IsChecklist(c), NEW u, NEW order \in Orders(c), Permutes(order),
           NEW place \in ReorderPlaces(c, order)
    PROVE  Recorded(c, ReorderItems(c, u, place))
  <1> DEFINE f == [i \in DOMAIN place |-> [c.items[i] EXCEPT !.pos = place[i]]]
             g == [c EXCEPT !.items = f]
             e == ListEvent("items_reordered", u)
             res == ReorderItems(c, u, place)
  <1>1. g = [c EXCEPT !.items = f] /\ res = Reopen(c, g, u, e)
    BY DEF ReorderItems
  <1>2. /\ DOMAIN place = Live(c)
        /\ {place[i] : i \in Live(c)} = 0 .. Cardinality(Live(c)) - 1
    BY OrderPlaces
  <1>3. /\ DOMAIN f = Live(c)
        /\ \A i \in Live(c) : f[i].checked = c.items[i].checked /\ f[i].pos = place[i]
    BY <1>2 DEF IsChecklist, IsItemList, Live, Item
  <1>4. e.action = "items_reordered"
    BY DEF ListEvent, Event
  <1>5. Cardinality(Live(c)) \in Nat
    BY LiveFinite
  <1> HIDE DEF f, e, g, res
  <1>6. res.list.items = f
    BY <1>1 DEF Reopen, IsChecklist
  <1>7. {i \in DOMAIN f : f[i].checked} = DoneAfter(c, e)
    BY <1>3, <1>4 DEF DoneAfter, Done, Live
  <1>8. Cardinality(DOMAIN f) = SizeAfter(c, e)
    BY <1>3, <1>4, <1>5 DEF SizeAfter
  <1>9. KeepsDense(c, res.list)
    <2>1. Live(res.list) = Live(c)
      BY <1>3, <1>6 DEF Live
    <2> QED
      BY <1>2, <1>3, <1>6, <2>1, NewPlaces
  <1>10. e.action \in EditActions
    BY <1>4 DEF EditActions
  <1>11. Recorded(c, res)
    BY <1>1, <1>3, <1>7, <1>8, <1>9, <1>10, EditRecorded
  <1> QED
    BY <1>11 DEF res

LEMMA SetItemCheckedRecorded ==
    ASSUME NEW c, IsChecklist(c), NEW u, NEW i \in Live(c), NEW b \in BOOLEAN
    PROVE  Recorded(c, SetItemChecked(c, u, i, b))
  <1> DEFINE f == [c.items EXCEPT ![i] = IF b THEN Ticked(@, u) ELSE Unticked(@)]
             g == [c EXCEPT !.items = f]
             e == Event(IF b THEN "item_checked" ELSE "item_unchecked", u, i)
             res == SetItemChecked(c, u, i, b)
  <1>1. g = [c EXCEPT !.items = f] /\ res = Reopen(c, g, u, e)
    BY DEF SetItemChecked
  <1>2. /\ DOMAIN f = Live(c)
        /\ \A j \in Live(c) : /\ f[j].checked = IF j = i THEN b ELSE c.items[j].checked
                              /\ f[j].pos = c.items[j].pos
    BY DEF IsChecklist, IsItemList, Live, Item, Ticked, Unticked
  <1>3. /\ e.action = IF b THEN "item_checked" ELSE "item_unchecked"
        /\ e.item = i
    BY DEF Event
  <1>4. Cardinality(Live(c)) \in Nat
    BY LiveFinite
  <1> HIDE DEF f, e, g, res
  <1>5. res.list.items = f
    BY <1>1 DEF Reopen, IsChecklist
  <1>6. {j \in DOMAIN f : f[j].checked} = DoneAfter(c, e)
    <2>1. DoneAfter(c, e) = IF b THEN Done(c) \cup {i} ELSE Done(c) \ {i}
      BY <1>3 DEF DoneAfter
    <2> QED
      BY <1>2, <2>1 DEF Done, Live
  <1>7. Cardinality(DOMAIN f) = SizeAfter(c, e)
    BY <1>2, <1>3, <1>4 DEF SizeAfter
  <1>8. KeepsDense(c, res.list)
    <2>1. Live(res.list) = Live(c)
      BY <1>2, <1>5 DEF Live
    <2> QED
      BY <1>2, <1>5, <2>1, SamePlaces
  <1>9. e.action \in EditActions
    BY <1>3 DEF EditActions
  <1>10. Recorded(c, res)
    BY <1>1, <1>2, <1>6, <1>7, <1>8, <1>9, EditRecorded
  <1> QED
    BY <1>10 DEF res

-----------------------------------------------------------------------------
\* The assignee's and the approver's methods.

LEMMA CheckItemRecorded ==
    ASSUME NEW c, IsChecklist(c), NEW u, NEW i \in Live(c), CanCheckItem(c, u, i)
    PROVE  Recorded(c, CheckItem(c, u, i))
  <1> DEFINE f == [c.items EXCEPT ![i] = Ticked(@, u)]
             d == [c EXCEPT !.items[i] = Ticked(@, u)]
             next == IF ~AllItemsChecked(d) THEN "open"
                     ELSE IF c.approver # None THEN "validating" ELSE "complete"
             told == CASE next = "open"       -> {}
                       [] next = "validating" -> {ListEvent("submitted_for_validation", u)}
                       [] next = "complete"   -> {ListEvent("completed", u)}
             x == Event("item_checked", u, i)
             l == [d EXCEPT !.status = next]
             E == {x} \cup told
             res == CheckItem(c, u, i)
  <1>1. res.list = l /\ res.events = E
    BY DEF CheckItem
  <1>2. d = [c EXCEPT !.items = f]
    BY DEF IsChecklist
  <1>3. l.items = f /\ l.status = next /\ SameRoles(c, l)
    BY <1>2 DEF IsChecklist, SameRoles
  <1>4. /\ DOMAIN f = Live(c)
        /\ \A j \in Live(c) : /\ f[j].checked = (j = i \/ c.items[j].checked)
                              /\ f[j].pos = c.items[j].pos
    BY DEF IsChecklist, IsItemList, Live, Ticked, Item
  <1>5. next \in Status /\ c.status = "open"
    BY DEF CanCheckItem, Status
  <1>6. x.action = "item_checked" /\ x.item = i
    BY DEF Event
  <1> HIDE DEF f, d, l, x, next, res
  <1>7. /\ next = "open" => E = {x}
        /\ next = "validating" =>
              \E e \in E : E = {x, e} /\ e.action = "submitted_for_validation"
        /\ next = "complete" => \E e \in E : E = {x, e} /\ e.action = "completed"
    <2> DEFINE s == ListEvent("submitted_for_validation", u)
               k == ListEvent("completed", u)
    <2>1. s.action = "submitted_for_validation" /\ k.action = "completed"
      BY DEF ListEvent, Event
    <2> HIDE DEF s, k
    <2>2. CASE next = "open"
      <3>1. told = {}
        BY <2>2
      <3> QED
        BY <2>2, <3>1
    <2>3. CASE next = "validating"
      <3>1. told = {s}
        BY <2>3 DEF s
      <3> QED
        BY <2>1, <2>3, <3>1
    <2>4. CASE next = "complete"
      <3>1. told = {k}
        BY <2>4 DEF k
      <3> QED
        BY <2>1, <2>4, <3>1
    <2> QED
      BY <1>5, <2>2, <2>3, <2>4 DEF Status
  <1> HIDE DEF E, told
  <1>8. Live(l) = Live(c) /\ Done(l) = Done(c) \cup {i}
    BY <1>3, <1>4 DEF Live, Done
  <1>9. /\ ItemsOf(E, "item_checked") = {i}
        /\ ItemsOf(E, "item_unchecked") = {}
        /\ ItemsOf(E, "item_removed") = {}
    <2>1. Logged(E, "item_checked") = {x} /\ Logged(E, "item_unchecked") = {}
          /\ Logged(E, "item_removed") = {}
      BY <1>5, <1>6, <1>7 DEF Logged, Status
    <2> QED
      BY <1>6, <2>1 DEF ItemsOf
  <1>10. /\ Has(E, "completed") <=> next = "complete"
         /\ Has(E, "submitted_for_validation") <=> next = "validating"
         /\ \A a \in {"rejected", "reopened", "claimed", "assignee_changed", "approver_changed",
                      "item_added", "item_removed"} : ~Has(E, a)
    BY <1>5, <1>6, <1>7, HasAction DEF Status
  <1>11. ASSUME NEW t, Traces(t, c) PROVE Traces(Replay(t, E), l)
    <2>1. t.size \in Nat /\ t.status = c.status /\ t.assignee = c.assignee
          /\ t.approver = c.approver /\ t.checked = Done(c) /\ t.size = Cardinality(Live(c))
      BY <1>11, TraceSize DEF Traces
    <2> DEFINE R == Replay(t, E)
    <2>2. R.checked = (t.checked \cup ItemsOf(E, "item_checked"))
                      \ (ItemsOf(E, "item_unchecked") \cup ItemsOf(E, "item_removed"))
      BY DEF Replay
    <2>3. R.status = next
      BY <1>5, <1>10, <2>1 DEF Replay, Status
    <2>4. R.assignee = t.assignee /\ R.approver = t.approver
      BY <1>10 DEF Replay
    <2>5. R.size = t.size + (IF Has(E, "item_added") THEN 1 ELSE 0)
                          - (IF Has(E, "item_removed") THEN 1 ELSE 0)
      BY DEF Replay
    <2> HIDE DEF R
    <2>6. R.size = t.size
      BY <1>10, <2>1, <2>5
    <2>7. R.checked = Done(l)
      BY <1>8, <1>9, <2>1, <2>2
    <2>8. Traces(R, l)
      BY <1>3, <1>8, <2>1, <2>3, <2>4, <2>6, <2>7 DEF Traces, SameRoles
    <2> QED
      BY <2>8 DEF R
  <1>12. Announced(c, res)
    BY <1>1, <1>3, <1>5, <1>7 DEF Announced
  <1>13. KeepsDense(c, l)
    BY <1>3, <1>4, <1>8, SamePlaces
  <1>14. Recorded(c, res)
    BY <1>1, <1>3, <1>8, <1>11, <1>12, <1>13 DEF Recorded, Replays, Removed
  <1> QED
    BY <1>14 DEF res

LEMMA ApproveRecorded ==
    ASSUME NEW c, IsChecklist(c), NEW u
    PROVE  Recorded(c, Approve(c, u))
  <1> DEFINE l == [c EXCEPT !.status = "complete"]
             E == {ListEvent("approved", u), ListEvent("completed", u)}
             res == Approve(c, u)
  <1>1. res.list = l /\ res.events = E
    BY DEF Approve
  <1>2. l.items = c.items /\ l.status = "complete" /\ SameRoles(c, l)
    BY DEF IsChecklist, SameRoles
  <1>3. /\ \A e \in E : e.action \in {"approved", "completed"}
        /\ \E e \in E : e.action = "completed"
    BY DEF ListEvent, Event
  <1> HIDE DEF l, E, res
  <1>4. Live(l) = Live(c) /\ Done(l) = Done(c)
    BY <1>2 DEF Live, Done
  <1>5. ASSUME NEW t, Traces(t, c) PROVE Traces(Replay(t, E), l)
    <2>1. t.size \in Nat
      BY <1>5, TraceSize
    <2>2. Has(E, "completed")
      BY <1>3, HasAction
    <2>3. Replay(t, E).status = "complete"
      BY <2>2 DEF Replay
    <2>4. /\ Replay(t, E).assignee = t.assignee
          /\ Replay(t, E).approver = t.approver
          /\ Replay(t, E).checked = t.checked
          /\ Replay(t, E).size = t.size
      BY <1>3, <2>1, ReplayStatus
    <2> QED
      BY <1>2, <1>4, <1>5, <2>3, <2>4 DEF Traces, SameRoles
  <1>6. KeepsDense(c, l)
    BY <1>2, <1>4, SamePlaces
  <1>7. Recorded(c, res)
    BY <1>1, <1>2, <1>4, <1>5, <1>6 DEF Recorded, Replays, Removed, Announced
  <1> QED
    BY <1>7 DEF res

LEMMA RejectRecorded ==
    ASSUME NEW c, IsChecklist(c), NEW u, NEW S \in SUBSET Live(c)
    PROVE  Recorded(c, Reject(c, u, S))
  <1> DEFINE SentBack(item) ==
                [Unticked(item) EXCEPT
                    !.override = IF item.by # None THEN item.by ELSE item.override]
             f == [i \in Live(c) |-> IF i \in S THEN SentBack(c.items[i]) ELSE c.items[i]]
             l == [c EXCEPT !.status = "open", !.items = f]
             o == ListEvent("rejected", u)
             E == {Event("item_unchecked", u, i) : i \in S} \cup {o}
             res == Reject(c, u, S)
  <1>1. res.list = l /\ res.events = E
    BY DEF Reject
  <1>2. l.items = f /\ l.status = "open" /\ SameRoles(c, l)
    BY DEF IsChecklist, SameRoles
  <1>3. ASSUME NEW item \in Item
        PROVE  SentBack(item).checked = FALSE /\ SentBack(item).pos = item.pos
    BY DEF Unticked, Item
  <1>4. /\ DOMAIN f = Live(c)
        /\ \A i \in Live(c) : /\ f[i].checked = (c.items[i].checked /\ i \notin S)
                              /\ f[i].pos = c.items[i].pos
    BY <1>3 DEF IsChecklist, IsItemList, Live, Item
  <1>5. /\ o \in E /\ o.action = "rejected"
        /\ \A e \in E : e = o \/ (e.action = "item_unchecked" /\ e.item \in S)
        /\ \A i \in S : \E e \in E : e.action = "item_unchecked" /\ e.item = i
    <2>1. o.action = "rejected"
      BY DEF ListEvent, Event
    <2>2. \A i : /\ Event("item_unchecked", u, i).action = "item_unchecked"
                 /\ Event("item_unchecked", u, i).item = i
      BY DEF Event
    <2> HIDE DEF o
    <2>3. /\ o \in E
          /\ \A e \in E : e = o \/ \E i \in S : e = Event("item_unchecked", u, i)
          /\ \A i \in S : Event("item_unchecked", u, i) \in E
      OBVIOUS
    <2> HIDE DEF E
    <2> QED
      BY <2>1, <2>2, <2>3
  <1> HIDE DEF f, l, o, E, res
  <1>6. Live(l) = Live(c) /\ Done(l) = Done(c) \ S
    BY <1>2, <1>4 DEF Live, Done
  <1>7. /\ ItemsOf(E, "item_checked") = {}
        /\ ItemsOf(E, "item_unchecked") = S
        /\ ItemsOf(E, "item_removed") = {}
    <2>1. Logged(E, "item_checked") = {} /\ Logged(E, "item_removed") = {}
      BY <1>5 DEF Logged
    <2>2. /\ \A e \in Logged(E, "item_unchecked") : e.item \in S
          /\ \A i \in S : \E e \in Logged(E, "item_unchecked") : e.item = i
      BY <1>5 DEF Logged
    <2> QED
      BY <2>1, <2>2 DEF ItemsOf
  <1>8. /\ Has(E, "rejected")
        /\ \A a \in {"completed", "submitted_for_validation", "claimed", "assignee_changed",
                     "approver_changed", "item_added", "item_removed"} : ~Has(E, a)
    BY <1>5, HasAction
  <1>9. ASSUME NEW t, Traces(t, c) PROVE Traces(Replay(t, E), l)
    <2>1. t.size \in Nat /\ t.status = c.status /\ t.assignee = c.assignee
          /\ t.approver = c.approver /\ t.checked = Done(c) /\ t.size = Cardinality(Live(c))
      BY <1>9, TraceSize DEF Traces
    <2> DEFINE R == Replay(t, E)
    <2>2. R.checked = (t.checked \cup ItemsOf(E, "item_checked"))
                      \ (ItemsOf(E, "item_unchecked") \cup ItemsOf(E, "item_removed"))
      BY DEF Replay
    <2>3. R.status = "open" /\ R.assignee = t.assignee /\ R.approver = t.approver
      BY <1>8 DEF Replay
    <2>4. R.size = t.size + (IF Has(E, "item_added") THEN 1 ELSE 0)
                          - (IF Has(E, "item_removed") THEN 1 ELSE 0)
      BY DEF Replay
    <2> HIDE DEF R
    <2>5. R.size = t.size
      BY <1>8, <2>1, <2>4
    <2>6. R.checked = Done(l)
      BY <1>6, <1>7, <2>1, <2>2
    <2>7. Traces(R, l)
      BY <1>2, <1>6, <2>1, <2>3, <2>5, <2>6 DEF Traces, SameRoles
    <2> QED
      BY <2>7 DEF R
  <1>10. KeepsDense(c, l)
    BY <1>2, <1>4, <1>6, SamePlaces
  <1>11. Recorded(c, res)
    BY <1>1, <1>2, <1>6, <1>9, <1>10 DEF Recorded, Replays, Removed, Announced
  <1> QED
    BY <1>11 DEF res

-----------------------------------------------------------------------------
\* A request about to commit carries what it owes to the record.

Filed(c, res) ==
    /\ SameRoles(c, res.list)
    /\ Announced(c, res)
    /\ ~AnyReorder => Recorded(c, res)

RecordsKept == \A r \in Requests : req[r].pc = "saved" => Filed(row, req[r])

Handler(r) ==
    \/ HandleCheckItem(r) \/ HandleApprove(r) \/ HandleReject(r)
    \/ HandleAddItem(r) \/ HandleRemoveItem(r) \/ HandleReorder(r)
    \/ HandleSetItemChecked(r)

LEMMA SaveFiles ==
    ASSUME IInv, LInv, NEW r \in Requests, At(r, "loaded"),
           NEW res, Filed(req[r].list, res), Save(r, res)
    PROVE  Filed(row', req'[r])
  <1>1. /\ UNCHANGED row
        /\ req'[r].list = res.list
        /\ req'[r].events = res.events
    BY DEF Save, IInv, TypeOK, IsRequest
  <1>2. req[r].list = row
    BY DEF LInv, Own, At
  <1> QED
    BY <1>1, <1>2 DEF Filed, SameRoles, Announced, Recorded, Replays, KeepsDense, Removed

LEMMA RecordedFiled ==
    ASSUME NEW c, NEW res, Recorded(c, res)
    PROVE  Filed(c, res)
  BY DEF Recorded, Filed

LEMMA HandlerFiles ==
    ASSUME IInv, LInv, NEW r \in Requests, Handler(r)
    PROVE  Filed(row', req'[r])
  <1> DEFINE c == req[r].list
             u == req[r].user
  <1>1. At(r, "loaded")
    BY DEF Handler, HandleCheckItem, HandleApprove, HandleReject, HandleAddItem,
           HandleRemoveItem, HandleReorder, HandleSetItemChecked
  <1>2. IsChecklist(c)
    BY DEF IInv, TypeOK, IsRequest
  <1>3. c = row
    BY <1>1 DEF LInv, Own, At
  <1>4. CASE HandleCheckItem(r)
    <2>1. PICK i \in Live(c) : CanCheckItem(c, u, i) /\ Save(r, CheckItem(c, u, i))
      BY <1>4 DEF HandleCheckItem
    <2>2. Filed(c, CheckItem(c, u, i))
      BY <1>2, <2>1, CheckItemRecorded, RecordedFiled
    <2> QED
      BY <1>1, <2>1, <2>2, SaveFiles
  <1>5. CASE HandleApprove(r)
    <2>1. Save(r, Approve(c, u))
      BY <1>5 DEF HandleApprove
    <2>2. Filed(c, Approve(c, u))
      BY <1>2, ApproveRecorded, RecordedFiled
    <2> QED
      BY <1>1, <2>1, <2>2, SaveFiles
  <1>6. CASE HandleReject(r)
    <2>1. PICK S \in SUBSET Live(c) : Save(r, Reject(c, u, S))
      BY <1>6 DEF HandleReject
    <2>2. Filed(c, Reject(c, u, S))
      BY <1>2, RejectRecorded, RecordedFiled
    <2> QED
      BY <1>1, <2>1, <2>2, SaveFiles
  <1>7. CASE HandleAddItem(r)
    <2>1. PICK new \in ItemIds \ used : Save(r, AddItem(c, u, new))
      BY <1>7 DEF HandleAddItem
    <2>2. new \in ItemIds \ Live(c)
      BY <1>3 DEF IInv, TypeOK, Live
    <2>3. Filed(c, AddItem(c, u, new))
      BY <1>2, <2>2, AddItemRecorded, RecordedFiled
    <2> QED
      BY <1>1, <2>1, <2>3, SaveFiles
  <1>8. CASE HandleRemoveItem(r)
    <2>1. u = Creator /\ \E i \in Live(c) : \E place \in RemovePlaces(c, i) :
              Save(r, RemoveItem(c, u, i, place))
      BY <1>8 DEF HandleRemoveItem, CanEdit
    <2>2. PICK i \in Live(c) : \E place \in RemovePlaces(c, i) :
              Save(r, RemoveItem(c, u, i, place))
      BY <2>1
    <2>3. PICK place \in RemovePlaces(c, i) : Save(r, RemoveItem(c, u, i, place))
      BY <2>2
    <2>4. Filed(c, RemoveItem(c, Creator, i, place))
      BY <1>2, RemoveItemRecorded, RecordedFiled
    <2> QED
      BY <1>1, <2>1, <2>3, <2>4, SaveFiles
  <1>9. CASE HandleReorder(r)
    <2>1. PICK order \in Orders(c) :
              /\ AnyReorder \/ Permutes(order)
              /\ \E place \in ReorderPlaces(c, order) : Save(r, ReorderItems(c, u, place))
      BY <1>9 DEF HandleReorder
    <2>2. PICK place \in ReorderPlaces(c, order) : Save(r, ReorderItems(c, u, place))
      BY <2>1
    <2> DEFINE res == ReorderItems(c, u, place)
    <2>3. SameRoles(c, res.list) /\ res.list.status = "open"
      <3> DEFINE l == [[c EXCEPT !.items = [i \in DOMAIN place |->
                                     [c.items[i] EXCEPT !.pos = place[i]]]]
                          EXCEPT !.status = "open"]
      <3>1. res.list = l
        BY DEF ReorderItems, Reopen
      <3>2. l.status = "open" /\ SameRoles(c, l)
        BY <1>2 DEF IsChecklist, SameRoles
      <3> HIDE DEF l, res
      <3> QED
        BY <3>1, <3>2
    <2>4. ASSUME ~AnyReorder PROVE Recorded(c, res)
      BY <1>2, <2>1, <2>4, ReorderItemsRecorded
    <2>5. res = ReorderItems(c, u, place)
      OBVIOUS
    <2> HIDE DEF res
    <2>6. Filed(c, res)
      BY <2>3, <2>4 DEF Filed, Announced
    <2> QED
      BY <1>1, <2>2, <2>5, <2>6, SaveFiles
  <1>10. CASE HandleSetItemChecked(r)
    <2>1. PICK i \in Live(c), b \in BOOLEAN : Save(r, SetItemChecked(c, u, i, b))
      BY <1>10 DEF HandleSetItemChecked
    <2>2. Filed(c, SetItemChecked(c, u, i, b))
      BY <1>2, SetItemCheckedRecorded, RecordedFiled
    <2> QED
      BY <1>1, <2>1, <2>2, SaveFiles
  <1> QED
    BY <1>4, <1>5, <1>6, <1>7, <1>8, <1>9, <1>10 DEF Handler

LEMMA SavedSteps ==
    ASSUME IInv, [Next]_vars, NEW s \in Requests, req'[s].pc = "saved"
    PROVE  req'[s] = req[s] \/ Handler(s)
  <1>0. /\ \A r \in Requests : IsRequest(req[r])
        /\ req = [r \in Requests |-> req[r]]
    BY DEF IInv, TypeOK
  <1>1. ASSUME NEW r \in Requests, NEW pc, NEW u, NEW seen, Begin(r, pc, u, seen),
               pc \in {"begun", "claiming", "opening", "suspending"}
        PROVE  req'[s] = req[s]
    BY <1>0, <1>1 DEF Begin, Idle
  <1>2. ASSUME NEW r \in Requests, Arrive(r) PROVE req'[s] = req[s]
    BY <1>1, <1>2 DEF Arrive, BeginMutation, BeginClaim, BeginClaimUI, BeginSuspension
  <1>3. ASSUME NEW r \in Requests, r # s, NEW res, Save(r, res) PROVE req'[s] = req[s]
    BY <1>0, <1>3 DEF Save
  <1>4. ASSUME NEW r \in Requests, Handler(r) PROVE req'[s] = req[s] \/ Handler(s)
    <2>1. CASE r = s
      BY <1>4, <2>1
    <2>2. CASE r # s
      BY <1>3, <1>4, <2>2 DEF Handler, HandleCheckItem, HandleApprove, HandleReject,
                              HandleAddItem, HandleRemoveItem, HandleReorder,
                              HandleSetItemChecked
    <2> QED
      BY <2>1, <2>2
  <1>5. ASSUME NEW r \in Requests, Finish(r) PROVE req'[s] = req[s]
    BY <1>0, <1>5 DEF Finish, Idle
  <1>6. ASSUME NEW r \in Requests,
               \/ Refuse(r) \/ Commit(r) \/ CommitClaim(r) \/ LogClaimUI(r)
               \/ NotifyLoser(r) \/ CommitSuspension(r) \/ TriggerRaises(r)
               \/ Rollback(r)
        PROVE  req'[s] = req[s]
    BY <1>5, <1>6 DEF Refuse, Commit, CommitClaim, LogClaimUI, NotifyLoser,
                      CommitSuspension, TriggerRaises, Rollback
  <1>7. ASSUME NEW r \in Requests,
               \/ Load(r) \/ WinClaim(r) \/ ViewClaimUI(r) \/ WinClaimUI(r)
               \/ LoseClaim(r) \/ Deactivate(r)
        PROVE  req'[s] = req[s]
    BY <1>0, <1>7 DEF Load, WinClaim, ViewClaimUI, WinClaimUI, LoseClaim, Deactivate,
                      Goto, IsRequest
  <1>8. ASSUME NEW r \in Requests, VacateApprover(r) \/ VacateAssignee(r)
        PROVE  req'[s] = req[s]
    BY <1>0, <1>8
       DEF VacateApprover, VacateAssignee, AfterVacating, UpdateRow, Goto, IsRequest
  <1>9. ASSUME NEW r \in Requests, Step(r) PROVE req'[s] = req[s] \/ Handler(s)
    BY <1>4, <1>6, <1>7, <1>8, <1>9 DEF Step, Handler
  <1>10. ASSUME NEW u \in Users, Reactivate(u) \/ AddMember(u) \/ RemoveMember(u)
         PROVE  req'[s] = req[s]
    BY <1>10 DEF Reactivate, AddMember, RemoveMember
  <1>11. CASE UNCHANGED vars
    BY <1>11 DEF vars
  <1> QED
    BY <1>2, <1>6, <1>9, <1>10, <1>11 DEF Next

\* Nobody else writes the row while a request has a list to commit.
LEMMA SavedHolds ==
    ASSUME IInv, LInv, [Next]_vars, NEW s \in Requests, req[s].pc = "saved", req'[s] = req[s]
    PROVE  UNCHANGED row
  <1>1. lock = s /\ s # None
    BY RequestsAssumption DEF LInv, Own, Holds, Vacating
  <1>2. ASSUME NEW r \in Requests, Commit(r) \/ CommitClaim(r) PROVE FALSE
    <2>1. lock = r
      BY <1>2 DEF Commit, CommitClaim, At, LInv, Own, Holds, Vacating
    <2>2. req'[r].pc = "idle"
      BY <1>2 DEF Commit, CommitClaim, Finish, Idle, IInv, TypeOK
    <2> QED
      BY <1>1, <2>1, <2>2
  <1>3. ASSUME NEW r \in Requests, WinClaimUI(r) PROVE FALSE
    BY <1>1, <1>3 DEF WinClaimUI
  <1>4. ASSUME NEW r \in Requests, CommitSuspension(r) PROVE UNCHANGED row
    <2>1. r # s /\ req[r].pc \in {"unassigned", "overtaken"}
      BY <1>4 DEF CommitSuspension
    <2>2. req[r].events = {}
      BY <1>1, <2>1 DEF LInv, Own, Holds, Vacating
    <2>3. ~Has(req[r].events, "approver_changed") /\ ~Has(req[r].events, "assignee_changed")
      BY <2>2 DEF Has, Logged
    <2> QED
      BY <1>4, <2>3 DEF CommitSuspension, IInv, TypeOK, IsChecklist
  <1> QED
    BY <1>2, <1>3, <1>4, RowWriters DEF RowWrite

LEMMA NextRecordsKept ==
    ASSUME IInv, LInv, RecordsKept, [Next]_vars
    PROVE  RecordsKept'
  <1> SUFFICES ASSUME NEW s \in Requests, req'[s].pc = "saved" PROVE Filed(row', req'[s])
    BY DEF RecordsKept
  <1>1. CASE Handler(s)
    BY <1>1, HandlerFiles
  <1>2. CASE req'[s] = req[s]
    <2>1. Filed(row, req[s])
      BY <1>2 DEF RecordsKept
    <2> QED
      BY <1>2, <2>1, SavedHolds
  <1> QED
    BY <1>1, <1>2, SavedSteps

LEMMA InitRecordsKept == Init => RecordsKept
  BY UnderWayType DEF Init, RecordsKept

\* What a commit finds in the list it writes.
LEMMA CommitFiles ==
    ASSUME IInv, RecordsKept, NEW r \in Requests, Commit(r)
    PROVE  /\ Filed(row, req[r])
           /\ row'.status = req[r].list.status
           /\ row'.items = req[r].list.items
           /\ UNCHANGED <<row.assignee, row.approver>>
  BY DEF RecordsKept, Commit, At, IInv, TypeOK, IsChecklist

-----------------------------------------------------------------------------
\* A decision is taken back or replaced only under the name of someone who may.

Signed(c, res) ==
    c.status # "open" =>
        \/ ListEvent("reopened", Creator) \in res.events
        \/ /\ c.status = "validating" /\ c.approver # None
           /\ \E a \in {"approved", "rejected"} : ListEvent(a, c.approver) \in res.events

SignedKept == \A r \in Requests : req[r].pc = "saved" => Signed(row, req[r])

LEMMA ReopenSigned ==
    ASSUME NEW c, NEW d, NEW e, NEW u, CanEdit(u)
    PROVE  Signed(c, Reopen(c, d, u, e))
  <1> DEFINE res == Reopen(c, d, u, e)
  <1>1. c.status # "open" => ListEvent("reopened", Creator) \in res.events
    BY DEF Reopen, CanEdit
  <1> QED
    BY <1>1 DEF Signed

LEMMA JudgementSigned ==
    ASSUME NEW c, NEW u \in Users, CanApprove(c, u), NEW res,
           \E a \in {"approved", "rejected"} : ListEvent(a, u) \in res.events
    PROVE  Signed(c, res)
  BY NoneAssumption DEF CanApprove, Signed

LEMMA SaveSigned ==
    ASSUME IInv, LInv, NEW r \in Requests, At(r, "loaded"),
           NEW res, Signed(req[r].list, res), Save(r, res)
    PROVE  Signed(row', req'[r])
  <1>1. UNCHANGED row /\ req'[r].events = res.events
    BY DEF Save, IInv, TypeOK, IsRequest
  <1>2. req[r].list = row
    BY DEF LInv, Own, At
  <1> QED
    BY <1>1, <1>2 DEF Signed

LEMMA HandlerSigned ==
    ASSUME IInv, LInv, NEW r \in Requests, Handler(r)
    PROVE  Signed(row', req'[r])
  <1> DEFINE c == req[r].list
             u == req[r].user
  <1>1. At(r, "loaded")
    BY DEF Handler, HandleCheckItem, HandleApprove, HandleReject, HandleAddItem,
           HandleRemoveItem, HandleReorder, HandleSetItemChecked
  <1>2. u \in Users
    BY <1>1 DEF IInv, TypeOK, IsRequest, At
  <1>3. CASE HandleCheckItem(r)
    <2>1. PICK i \in Live(c) : CanCheckItem(c, u, i) /\ Save(r, CheckItem(c, u, i))
      BY <1>3 DEF HandleCheckItem
    <2>2. Signed(c, CheckItem(c, u, i))
      BY <2>1 DEF CanCheckItem, Signed
    <2> QED
      BY <1>1, <2>1, <2>2, SaveSigned
  <1>4. CASE HandleApprove(r)
    <2>1. CanApprove(c, u) /\ Save(r, Approve(c, u))
      BY <1>4 DEF HandleApprove
    <2>2. ListEvent("approved", u) \in Approve(c, u).events
      BY DEF Approve
    <2>3. Signed(c, Approve(c, u))
      BY <1>2, <2>1, <2>2, JudgementSigned
    <2> QED
      BY <1>1, <2>1, <2>3, SaveSigned
  <1>5. CASE HandleReject(r)
    <2>1. PICK S \in SUBSET Live(c) : CanReject(c, u) /\ Save(r, Reject(c, u, S))
      BY <1>5 DEF HandleReject
    <2>2. ListEvent("rejected", u) \in Reject(c, u, S).events
      BY DEF Reject
    <2>3. Signed(c, Reject(c, u, S))
      BY <1>2, <2>1, <2>2, JudgementSigned DEF CanReject
    <2> QED
      BY <1>1, <2>1, <2>3, SaveSigned
  <1>6. CASE HandleAddItem(r)
    <2>1. PICK new \in ItemIds \ used : CanEdit(u) /\ Save(r, AddItem(c, u, new))
      BY <1>6 DEF HandleAddItem
    <2>2. Signed(c, AddItem(c, u, new))
      BY <2>1, ReopenSigned DEF AddItem
    <2> QED
      BY <1>1, <2>1, <2>2, SaveSigned
  <1>7. CASE HandleRemoveItem(r)
    <2>1. CanEdit(u) /\ \E i \in Live(c) : \E place \in RemovePlaces(c, i) :
              Save(r, RemoveItem(c, u, i, place))
      BY <1>7 DEF HandleRemoveItem
    <2>2. PICK i \in Live(c) : \E place \in RemovePlaces(c, i) :
              Save(r, RemoveItem(c, u, i, place))
      BY <2>1
    <2>3. PICK place \in RemovePlaces(c, i) : Save(r, RemoveItem(c, u, i, place))
      BY <2>2
    <2>4. Signed(c, RemoveItem(c, u, i, place))
      BY <2>1, ReopenSigned DEF RemoveItem
    <2> QED
      BY <1>1, <2>3, <2>4, SaveSigned
  <1>8. CASE HandleReorder(r)
    <2>1. CanEdit(u) /\ \E order \in Orders(c) : \E place \in ReorderPlaces(c, order) :
              Save(r, ReorderItems(c, u, place))
      BY <1>8 DEF HandleReorder
    <2>2. PICK order \in Orders(c) : \E place \in ReorderPlaces(c, order) :
              Save(r, ReorderItems(c, u, place))
      BY <2>1
    <2>3. PICK place \in ReorderPlaces(c, order) : Save(r, ReorderItems(c, u, place))
      BY <2>2
    <2>4. Signed(c, ReorderItems(c, u, place))
      BY <2>1, ReopenSigned DEF ReorderItems
    <2> QED
      BY <1>1, <2>3, <2>4, SaveSigned
  <1>9. CASE HandleSetItemChecked(r)
    <2>1. PICK i \in Live(c), b \in BOOLEAN : CanEdit(u) /\ Save(r, SetItemChecked(c, u, i, b))
      BY <1>9 DEF HandleSetItemChecked
    <2>2. Signed(c, SetItemChecked(c, u, i, b))
      BY <2>1, ReopenSigned DEF SetItemChecked
    <2> QED
      BY <1>1, <2>1, <2>2, SaveSigned
  <1> QED
    BY <1>3, <1>4, <1>5, <1>6, <1>7, <1>8, <1>9 DEF Handler

LEMMA NextSignedKept ==
    ASSUME IInv, LInv, SignedKept, [Next]_vars
    PROVE  SignedKept'
  <1> SUFFICES ASSUME NEW s \in Requests, req'[s].pc = "saved" PROVE Signed(row', req'[s])
    BY DEF SignedKept
  <1>1. CASE Handler(s)
    BY <1>1, HandlerSigned
  <1>2. CASE req'[s] = req[s]
    <2>1. Signed(row, req[s])
      BY <1>2 DEF SignedKept
    <2> QED
      BY <1>2, <2>1, SavedHolds
  <1> QED
    BY <1>1, <1>2, SavedSteps

\* Only a commit changes status or items.
LEMMA OnlyCommitsDecide ==
    ASSUME IInv, LInv, [Next]_vars
    PROVE  (\E r \in Requests : Commit(r)) \/ UNCHANGED <<row.status, row.items>>
  <1>1. ASSUME NEW r \in Requests, CommitClaim(r) \/ WinClaimUI(r) \/ CommitSuspension(r)
        PROVE  UNCHANGED <<row.status, row.items>>
    BY <1>1, ClaimWrites, SuspensionWrites
  <1>2. (\E r \in Requests : RowWrite(r)) \/ UNCHANGED row
    BY RowWriters
  <1> QED
    BY <1>1, <1>2 DEF RowWrite

\* A list that has left open changes only by a commit that names its present
\* approver, or its creator, as the one who did it.
THEOREM DecisionsStaySigned == Spec => DecisionsAreSigned
  <1> DEFINE Decided == row.status # "open" /\ (row'.status # row.status \/ row'.items # row.items)
             Deed == \E r \in Requests :
                        \/ ListEvent("reopened", Creator) \in req[r].events
                        \/ /\ row.status = "validating" /\ row.approver # None
                           /\ \E a \in {"approved", "rejected"} :
                                 ListEvent(a, row.approver) \in req[r].events
             Inv == IInv /\ LInv /\ SignedKept
             Signs == Decided => Deed
  <1>1. Init => Inv
    BY InitIInv, InitLInv, UnderWayType DEF Init, SignedKept
  <1>2. Inv /\ [Next]_vars => Inv'
    BY NextIInv, NextLInv, NextSignedKept
  <1>3. Inv /\ [Next]_vars => [Signs]_vars
    <2> SUFFICES ASSUME Inv, [Next]_vars, Decided PROVE Deed
      OBVIOUS
    <2>1. PICK r \in Requests : Commit(r)
      BY OnlyCommitsDecide
    <2>2. Signed(row, req[r])
      BY <2>1 DEF SignedKept, Commit, At
    <2> QED
      BY <2>2 DEF Signed
  <1> HIDE DEF Inv, Signs
  <1>4. Spec => [][Signs]_vars
    BY <1>1, <1>2, <1>3, PTL DEF Spec
  <1> QED
    BY <1>4 DEF DecisionsAreSigned, Signs

-----------------------------------------------------------------------------
\* The approver of a submission is told of it.

\* Only a commit writes notifications.
LEMMA OnlyCommitsNotify ==
    ASSUME [Next]_vars
    PROVE  (\E r \in Requests : Commit(r)) \/ UNCHANGED notified
  <1>1. ASSUME NEW r \in Requests, Arrive(r) PROVE UNCHANGED notified
    BY <1>1 DEF Arrive, BeginMutation, BeginClaim, BeginClaimUI, BeginSuspension, Begin
  <1>2. ASSUME NEW r \in Requests, Handler(r) PROVE UNCHANGED notified
    <2>1. ASSUME NEW res, Save(r, res) PROVE UNCHANGED notified
      BY <2>1 DEF Save
    <2> QED
      BY <1>2, <2>1 DEF Handler, HandleCheckItem, HandleApprove, HandleReject, HandleAddItem,
                        HandleRemoveItem, HandleReorder, HandleSetItemChecked
  <1>3. ASSUME NEW r \in Requests,
               \/ Load(r) \/ Refuse(r) \/ WinClaim(r) \/ CommitClaim(r) \/ ViewClaimUI(r)
               \/ WinClaimUI(r) \/ LogClaimUI(r) \/ LoseClaim(r) \/ NotifyLoser(r)
               \/ Deactivate(r) \/ VacateApprover(r) \/ VacateAssignee(r)
               \/ CommitSuspension(r) \/ TriggerRaises(r) \/ Rollback(r)
        PROVE  UNCHANGED notified
    BY <1>3 DEF Load, Refuse, WinClaim, CommitClaim, ViewClaimUI, WinClaimUI, LogClaimUI,
                LoseClaim, NotifyLoser, Deactivate, VacateApprover, VacateAssignee,
                CommitSuspension, TriggerRaises, Rollback
  <1>4. ASSUME NEW u \in Users, Reactivate(u) \/ AddMember(u) \/ RemoveMember(u)
        PROVE  UNCHANGED notified
    BY <1>4 DEF Reactivate, AddMember, RemoveMember
  <1>5. ASSUME NEW r \in Requests, Step(r) PROVE Commit(r) \/ UNCHANGED notified
    BY <1>2, <1>3, <1>5 DEF Step, Handler
  <1>6. CASE UNCHANGED vars
    BY <1>6 DEF vars
  <1> QED
    BY <1>1, <1>3, <1>4, <1>5, <1>6 DEF Next

LEMMA NextTold ==
    ASSUME IInv, LInv, RecordsKept, ApproverTold, [Next]_vars
    PROVE  ApproverTold'
  <1>1. ASSUME NEW r \in Requests, Commit(r) PROVE ApproverTold'
    <2> DEFINE c == req[r].list
               E == req[r].events
    <2> SUFFICES ASSUME row'.status = "validating", row'.approver # None
                 PROVE  [type |-> "submitted_for_validation", to |-> row'.approver]
                            \in notified'
      BY DEF ApproverTold
    <2>1. /\ Filed(row, req[r])
          /\ row'.status = c.status
          /\ row'.approver = row.approver
      BY <1>1, CommitFiles
    <2>2. c.approver = row.approver /\ row.status = "open" /\ c.status = "validating"
      BY <2>1 DEF Filed, SameRoles, Announced
    <2>3. PICK e \in E : e.action = "submitted_for_validation"
      BY <2>1, <2>2 DEF Filed, Announced
    <2>4. notified' = NotificationsFor(c, E)
      BY <1>1, <2>2 DEF Commit
    <2>5. Recipient(c, e) = c.approver
      BY <2>3 DEF Recipient
    <2>6. c.approver # None
      BY <2>1, <2>2
    <2>7. [type |-> e.action, to |-> Recipient(c, e)] \in NotificationsFor(c, E)
      BY <2>5, <2>6 DEF NotificationsFor
    <2> QED
      BY <2>1, <2>2, <2>3, <2>4, <2>5, <2>7
  <1>2. ASSUME UNCHANGED notified, row'.status = row.status,
               row'.approver \in {row.approver, None}
        PROVE  ApproverTold'
    BY <1>2 DEF ApproverTold
  <1>3. ASSUME NEW r \in Requests, CommitClaim(r) \/ WinClaimUI(r) \/ CommitSuspension(r)
        PROVE  row'.status = row.status /\ row'.approver \in {row.approver, None}
    BY <1>3, ClaimWrites, SuspensionWrites
  <1>4. \/ \E r \in Requests : Commit(r)
        \/ row'.status = row.status /\ row'.approver \in {row.approver, None}
    BY <1>3, RowWriters DEF RowWrite
  <1> QED
    BY <1>1, <1>2, <1>4, OnlyCommitsNotify

\* Whatever rejections, reopenings and suspensions come in between, a list that
\* awaits validation has told its approver of this submission.
THEOREM ApproversAreTold == Spec => []ApproverTold
  <1> DEFINE Inv == IInv /\ LInv /\ RecordsKept /\ ApproverTold
  <1>1. Init => Inv
    <2>1. Init => row.status = "open"
      BY DEF Init
    <2> QED
      BY <2>1, InitIInv, InitLInv, InitRecordsKept DEF ApproverTold
  <1>2. Inv /\ [Next]_vars => Inv'
    BY NextIInv, NextLInv, NextRecordsKept, NextTold
  <1>3. Inv => ApproverTold
    OBVIOUS
  <1> HIDE DEF Inv
  <1> QED
    BY <1>1, <1>2, <1>3, PTL DEF Spec

-----------------------------------------------------------------------------
\* With proper reorders: the items and their places.

\* Only a commit touches the items.
LEMMA OnlyCommitsEdit ==
    ASSUME IInv, LInv, [Next]_vars
    PROVE  (\E r \in Requests : Commit(r)) \/ row'.items = row.items
  <1>1. ASSUME NEW r \in Requests, CommitClaim(r) \/ WinClaimUI(r) \/ CommitSuspension(r)
        PROVE  row'.items = row.items
    BY <1>1, ClaimWrites, SuspensionWrites
  <1> QED
    BY <1>1, RowWriters DEF RowWrite

LEMMA InitDense == Init => PositionsDense
  <1> SUFFICES ASSUME Init PROVE PositionsDense
    OBVIOUS
  <1>1. PICK S \in SUBSET ItemIds : \E f \in Places(S) :
           row.items = [i \in S |-> [checked |-> FALSE, by |-> None,
                                     override |-> None, pos |-> f[i]]]
    BY DEF Init
  <1>2. PICK f \in Places(S) :
           row.items = [i \in S |-> [checked |-> FALSE, by |-> None,
                                     override |-> None, pos |-> f[i]]]
    BY <1>1
  <1>3. IsFiniteSet(S)
    BY ItemIdsAssumption, FS_Subset
  <1>4. {f[i] : i \in S} = 0 .. Cardinality(S) - 1
    BY <1>3, PlacesFill
  <1>5. DOMAIN row.items = S /\ \A i \in S : row.items[i].pos = f[i]
    BY <1>2
  <1>6. {row.items[i].pos : i \in DOMAIN row.items} = {f[i] : i \in S}
    BY <1>5
  <1> QED
    BY <1>4, <1>5, <1>6 DEF PositionsDense

LEMMA NextDense ==
    ASSUME IInv, LInv, RecordsKept, PositionsDense, ~AnyReorder, [Next]_vars
    PROVE  PositionsDense'
  <1>1. ASSUME NEW r \in Requests, Commit(r) PROVE PositionsDense'
    <2>1. Filed(row, req[r]) /\ row'.items = req[r].list.items
      BY <1>1, CommitFiles
    <2>2. KeepsDense(row, req[r].list)
      BY <2>1 DEF Filed, Recorded
    <2>3. Dense(row)
      BY DEF PositionsDense, Dense, Live
    <2>4. Dense(req[r].list)
      BY <2>2, <2>3 DEF KeepsDense
    <2> QED
      BY <2>1, <2>4 DEF PositionsDense, Dense, Live
  <1>2. CASE row'.items = row.items
    BY <1>2 DEF PositionsDense
  <1> QED
    BY <1>1, <1>2, OnlyCommitsEdit

\* As long as no client sends a reorder that names an item twice, positions
\* are 0 .. n-1 after any additions, removals and reorders, in any order.
THEOREM PlacesStayDense ==
    ASSUME ~AnyReorder
    PROVE  Spec => []PositionsDense
  <1> DEFINE Inv == IInv /\ LInv /\ RecordsKept /\ PositionsDense
  <1>1. Init => Inv
    BY InitIInv, InitLInv, InitRecordsKept, InitDense
  <1>2. Inv /\ [Next]_vars => Inv'
    BY NextIInv, NextLInv, NextRecordsKept, NextDense
  <1>3. Inv => PositionsDense
    OBVIOUS
  <1> HIDE DEF Inv
  <1> QED
    BY <1>1, <1>2, <1>3, PTL DEF Spec

\* As long as no client sends such a reorder, the commit in which an item
\* leaves the list logs its removal by the creator.
THEOREM ItemsAreRemoved ==
    ASSUME ~AnyReorder
    PROVE  Spec => ItemsLeaveByRemoval
  <1> DEFINE Inv == IInv /\ LInv /\ RecordsKept
             Logs == \A i \in DOMAIN row.items \ DOMAIN row'.items :
                        \E r \in Requests :
                            Event("item_removed", Creator, i) \in req[r].events
  <1>1. ASSUME Inv, [Next]_vars PROVE Logs
    <2>1. ASSUME NEW r \in Requests, Commit(r) PROVE Logs
      <3>1. Filed(row, req[r]) /\ row'.items = req[r].list.items
        BY <1>1, <2>1, CommitFiles
      <3>2. Removed(row, req[r])
        BY <3>1 DEF Filed, Recorded
      <3> QED
        BY <3>1, <3>2 DEF Removed, Live
    <2> QED
      BY <1>1, <2>1, OnlyCommitsEdit
  <1>2. Inv /\ [Next]_vars => [Logs]_vars
    BY <1>1
  <1>3. Init => Inv
    BY InitIInv, InitLInv, InitRecordsKept
  <1>4. Inv /\ [Next]_vars => Inv'
    BY NextIInv, NextLInv, NextRecordsKept
  <1> HIDE DEF Inv, Logs
  <1>5. Spec => [][Logs]_vars
    BY <1>2, <1>3, <1>4, PTL DEF Spec
  <1> QED
    BY <1>5 DEF ItemsLeaveByRemoval, Logs

-----------------------------------------------------------------------------
\* With proper reorders, the audit log replays to the list; and to the whole
\* row without the claim of the web page, which logs itself outside a
\* transaction.

LEMMA TracesRow == TrailMatchesRow <=> Traces(trail, row)
  BY DEF TrailMatchesRow, TrailMatchesList, Traces, Done, Live

\* An event of a claim, or those of a suspension, say what the row becomes.
LEMMA ClaimReplay ==
    ASSUME NEW t, t.size \in Nat, NEW u, NEW E, E = {ListEvent("claimed", u)}
    PROVE  /\ Replay(t, E).status = t.status
           /\ Replay(t, E).assignee = u
           /\ Replay(t, E).approver = t.approver
           /\ Replay(t, E).checked = t.checked
           /\ Replay(t, E).size = t.size
  <1> DEFINE e == ListEvent("claimed", u)
             R == Replay(t, E)
             others == {"item_checked", "item_unchecked", "submitted_for_validation",
                        "completed", "rejected", "reopened", "item_added", "item_removed",
                        "assignee_changed", "approver_changed"}
  <1>1. e.action = "claimed" /\ e.actor = u
    BY DEF ListEvent, Event
  <1>2. E = {e}
    OBVIOUS
  <1> HIDE DEF e
  <1>3. Logged(E, "claimed") = {e} /\ \A a \in others : Logged(E, a) = {}
    BY <1>1, <1>2 DEF Logged
  <1>4. Has(E, "claimed") /\ ActorOf(E, "claimed") = u
    BY <1>1, <1>3 DEF Has, ActorOf
  <1>5. \A a \in others : ~Has(E, a) /\ ItemsOf(E, a) = {}
    BY <1>3 DEF Has, ItemsOf
  <1>6. R.assignee = u
    BY <1>4 DEF Replay
  <1>7. R.status = t.status /\ R.approver = t.approver
    BY <1>5 DEF Replay
  <1>8. R.checked = (t.checked \cup ItemsOf(E, "item_checked"))
                    \ (ItemsOf(E, "item_unchecked") \cup ItemsOf(E, "item_removed"))
    BY DEF Replay
  <1>9. R.size = t.size + (IF Has(E, "item_added") THEN 1 ELSE 0)
                        - (IF Has(E, "item_removed") THEN 1 ELSE 0)
    BY DEF Replay
  <1>10. /\ ~Has(E, "item_added") /\ ~Has(E, "item_removed")
         /\ ItemsOf(E, "item_checked") = {}
         /\ ItemsOf(E, "item_unchecked") = {} /\ ItemsOf(E, "item_removed") = {}
    BY <1>5
  <1> HIDE DEF R
  <1>11. R.checked = t.checked
    BY <1>8, <1>10
  <1>12. R.size = t.size
    BY <1>9, <1>10
  <1> QED
    BY <1>6, <1>7, <1>11, <1>12 DEF R

LEMMA SuspensionReplay ==
    ASSUME NEW t, t.size \in Nat, NEW E,
           \A e \in E : e.action \in {"approver_changed", "assignee_changed"},
           NEW R, R = Replay(t, E)
    PROVE  /\ R.status = t.status
           /\ R.assignee = IF Has(E, "assignee_changed") THEN None ELSE t.assignee
           /\ R.approver = IF Has(E, "approver_changed") THEN None ELSE t.approver
           /\ R.checked = t.checked /\ R.size = t.size
  <1>1. \A a \in Actions \ {"approver_changed", "assignee_changed"} :
            ~Has(E, a) /\ ItemsOf(E, a) = {}
    BY DEF Has, Logged, ItemsOf
  <1> QED
    BY <1>1 DEF Replay, Actions

\* Nothing but the assignee is replayed from the assignee.
LEMMA ReplayApart ==
    ASSUME NEW t, NEW u, NEW E,
           u.status = t.status, u.approver = t.approver,
           u.checked = t.checked, u.size = t.size
    PROVE  /\ Replay(u, E).status = Replay(t, E).status
           /\ Replay(u, E).approver = Replay(t, E).approver
           /\ Replay(u, E).checked = Replay(t, E).checked
           /\ Replay(u, E).size = Replay(t, E).size
  BY DEF Replay

\* A commit's events account for what it writes, even if the log is at odds
\* with the row about the assignee.
LEMMA CommitLogs ==
    ASSUME IInv, LInv, RecordsKept, TrailMatchesList, ~AnyReorder,
           NEW r \in Requests, Commit(r)
    PROVE  TrailMatchesList'
  <1> DEFINE t == [trail EXCEPT !.assignee = row.assignee]
             E == req[r].events
  <1>1. /\ t.status = trail.status /\ t.approver = trail.approver
        /\ t.checked = trail.checked /\ t.size = trail.size
        /\ t.assignee = row.assignee
    BY DEF IInv, TypeOK, Trails
  <1> HIDE DEF t
  <1>2. Traces(t, row)
    BY <1>1 DEF TrailMatchesList, Traces, Done, Live
  <1>3. /\ Filed(row, req[r])
        /\ row'.status = req[r].list.status
        /\ row'.items = req[r].list.items
        /\ UNCHANGED <<row.assignee, row.approver>>
    BY CommitFiles
  <1>4. Traces(Replay(t, E), req[r].list) /\ SameRoles(row, req[r].list)
    BY <1>2, <1>3 DEF Filed, Recorded, Replays
  <1>5. trail' = Replay(trail, E)
    BY DEF Commit
  <1> DEFINE R == Replay(t, E)
  <1>6. /\ trail'.status = R.status /\ trail'.approver = R.approver
        /\ trail'.checked = R.checked /\ trail'.size = R.size
    BY <1>1, <1>5, ReplayApart
  <1> HIDE DEF R, E
  <1> QED
    BY <1>3, <1>4, <1>6 DEF R, Traces, SameRoles, TrailMatchesList, Done, Live

LEMMA NextListTrail ==
    ASSUME IInv, LInv, RecordsKept, TrailMatchesList, ~AnyReorder, [Next]_vars
    PROVE  TrailMatchesList'
  <1>1. trail.size \in Nat
    BY LiveFinite, FS_CardinalityType DEF TrailMatchesList, IInv, TypeOK, Live
  <1>2. ASSUME NEW r \in Requests, CommitClaim(r) \/ LogClaimUI(r) PROVE TrailMatchesList'
    <2> DEFINE E == {ListEvent("claimed", req[r].user)}
    <2>1. UNCHANGED <<row.status, row.items, row.approver>> /\ trail' = Replay(trail, E)
      BY <1>2, ClaimWrites DEF CommitClaim, LogClaimUI
    <2>2. /\ Replay(trail, E).status = trail.status
          /\ Replay(trail, E).approver = trail.approver
          /\ Replay(trail, E).checked = trail.checked
          /\ Replay(trail, E).size = trail.size
      BY <1>1, ClaimReplay
    <2> QED
      BY <2>1, <2>2 DEF TrailMatchesList
  <1>3. ASSUME NEW r \in Requests, WinClaimUI(r) PROVE TrailMatchesList'
    BY <1>3, ClaimWrites DEF WinClaimUI, TrailMatchesList
  <1>4. ASSUME NEW r \in Requests, CommitSuspension(r) PROVE TrailMatchesList'
    <2> DEFINE E == req[r].events
    <2>1. /\ row'.status = row.status /\ row'.items = row.items
          /\ row'.approver = IF Has(E, "approver_changed") THEN None ELSE row.approver
          /\ trail' = Replay(trail, E)
      BY <1>4 DEF CommitSuspension, IInv, TypeOK, IsChecklist
    <2>2. \A e \in E : e.action \in {"approver_changed", "assignee_changed"}
      BY <1>4 DEF CommitSuspension, LInv, Own, Vacating
    <2>3. /\ trail'.status = trail.status
          /\ trail'.approver = IF Has(E, "approver_changed") THEN None ELSE trail.approver
          /\ trail'.checked = trail.checked /\ trail'.size = trail.size
      BY <1>1, <2>1, <2>2, SuspensionReplay
    <2> QED
      BY <2>1, <2>3 DEF TrailMatchesList
  <1>5. CASE UNCHANGED <<row, trail>>
    BY <1>5 DEF TrailMatchesList
  <1> QED
    BY <1>2, <1>3, <1>4, <1>5, CommitLogs, LogWriters DEF RowWrite

\* The rest of the row: the API's claim and the suspension log the assignee
\* in the transaction that writes it.
LEMMA NextAssigneeTrail ==
    ASSUME IInv, LInv, RecordsKept, ClaimsArrive, "uiclaim" \notin Kinds,
           TrailMatchesRow, ~AnyReorder, [Next]_vars
    PROVE  trail'.assignee = row'.assignee
  <1>1. Traces(trail, row) /\ trail.size \in Nat
    BY TracesRow, TraceSize DEF IInv, TypeOK
  <1>2. ASSUME NEW r \in Requests, Commit(r) PROVE trail'.assignee = row'.assignee
    <2>1. Filed(row, req[r]) /\ UNCHANGED row.assignee
      BY <1>2, CommitFiles
    <2>2. trail' = Replay(trail, req[r].events)
      BY <1>2 DEF Commit
    <2>3. Traces(trail', req[r].list) /\ SameRoles(row, req[r].list)
      BY <1>1, <2>1, <2>2 DEF Filed, Recorded, Replays
    <2> QED
      BY <2>1, <2>3 DEF Traces, SameRoles
  <1>3. ASSUME NEW r \in Requests, CommitClaim(r) PROVE trail'.assignee = row'.assignee
    <2>1. /\ row'.assignee = req[r].user
          /\ trail' = Replay(trail, {ListEvent("claimed", req[r].user)})
      BY <1>3, ClaimWrites DEF CommitClaim
    <2> QED
      BY <1>1, <2>1, ClaimReplay
  <1>4. ASSUME NEW r \in Requests, CommitSuspension(r) PROVE trail'.assignee = row'.assignee
    <2> DEFINE E == req[r].events
    <2>1. /\ row'.assignee = IF Has(E, "assignee_changed") THEN None ELSE row.assignee
          /\ trail' = Replay(trail, E)
      BY <1>4 DEF CommitSuspension, IInv, TypeOK, IsChecklist
    <2>2. \A e \in E : e.action \in {"approver_changed", "assignee_changed"}
      BY <1>4 DEF CommitSuspension, LInv, Own, Vacating
    <2>3. trail'.assignee = IF Has(E, "assignee_changed") THEN None ELSE trail.assignee
      BY <1>1, <2>1, <2>2, SuspensionReplay
    <2> QED
      BY <2>1, <2>3 DEF TrailMatchesRow
  <1>5. ASSUME NEW r \in Requests, WinClaimUI(r) \/ LogClaimUI(r) PROVE FALSE
    BY <1>5 DEF WinClaimUI, LogClaimUI, At, ClaimsArrive
  <1>6. CASE UNCHANGED <<row, trail>>
    BY <1>6 DEF TrailMatchesRow
  <1> QED
    BY <1>2, <1>3, <1>4, <1>5, <1>6, LogWriters DEF RowWrite

LEMMA InitTrail == Init => TrailMatchesRow
  <1> SUFFICES ASSUME Init PROVE TrailMatchesRow
    OBVIOUS
  <1>1. \A i \in DOMAIN row.items : row.items[i].checked = FALSE
    <2>1. PICK S \in SUBSET ItemIds : \E f \in Places(S) :
             row.items = [i \in S |-> [checked |-> FALSE, by |-> None,
                                       override |-> None, pos |-> f[i]]]
      BY DEF Init
    <2> QED
      BY <2>1
  <1>2. row.status = "open"
    BY DEF Init
  <1>3. trail = [status |-> "open", assignee |-> row.assignee,
                 approver |-> row.approver, checked |-> {},
                 size |-> Cardinality(DOMAIN row.items), approvedBy |-> None]
    BY DEF Init
  <1> QED
    BY <1>1, <1>2, <1>3 DEF TrailMatchesRow, TrailMatchesList

\* Unless a client sends such a reorder, the audit log accounts for the list
\* after every commit and every rollback, claims on the web page included: they
\* leave the log wrong about nothing but the assignee.
THEOREM LogReplaysToList ==
    ASSUME ~AnyReorder
    PROVE  Spec => []TrailMatchesList
  <1> DEFINE Inv == IInv /\ LInv /\ RecordsKept /\ TrailMatchesList
  <1>1. Init => Inv
    BY InitIInv, InitLInv, InitRecordsKept, InitTrail DEF TrailMatchesRow
  <1>2. Inv /\ [Next]_vars => Inv'
    BY NextIInv, NextLInv, NextRecordsKept, NextListTrail
  <1>3. Inv => TrailMatchesList
    OBVIOUS
  <1> HIDE DEF Inv
  <1> QED
    BY <1>1, <1>2, <1>3, PTL DEF Spec

\* Without claims on the web page it replays to the whole row.
THEOREM LogReplaysToRow ==
    ASSUME ~AnyReorder, "uiclaim" \notin Kinds
    PROVE  Spec => []TrailMatchesRow
  <1> DEFINE Inv == IInv /\ LInv /\ RecordsKept /\ ClaimsArrive /\ TrailMatchesRow
  <1>1. Init => Inv
    BY InitIInv, InitLInv, InitRecordsKept, InitClaimsArrive, InitTrail
  <1>2. Inv /\ [Next]_vars => Inv'
    BY NextIInv, NextLInv, NextRecordsKept, NextClaimsArrive, NextListTrail,
       NextAssigneeTrail DEF TrailMatchesRow
  <1>3. Inv => TrailMatchesRow
    OBVIOUS
  <1> HIDE DEF Inv
  <1> QED
    BY <1>1, <1>2, <1>3, PTL DEF Spec
=============================================================================
