-------------------------- MODULE ChecklistDomain --------------------------
(***************************************************************************)
(* The checklist state machine of internal/domain/checklist.go: what each  *)
(* method does to a loaded checklist, when it refuses, which audit events  *)
(* it returns and whom the store layer notifies of them.                   *)
(*                                                                         *)
(* A Go method that returns ([]Event, error) is a guard CanX (the early    *)
(* returns) and an operator X giving the pair [list, events] it produces.  *)
(* The events of one call are a set: no two of them touch the same column, *)
(* except "approved"/"completed", which say the same of the status.        *)
(***************************************************************************)
EXTENDS Integers, FiniteSets

CONSTANTS
    Users,      \* the users of the tenant
    Creator,    \* Checklist.CreatorID, fixed at creation
    ItemIds,    \* the row ids checklist_items may draw from its sequence
    None        \* SQL NULL

ASSUME CreatorAssumption == Creator \in Users
ASSUME NoneAssumption == None \notin Users \cup ItemIds
ASSUME ItemIdsAssumption == IsFiniteSet(ItemIds)

-----------------------------------------------------------------------------
\* Types (internal/domain/types.go).  A checklist's items are a function from
\* the ids of the rows with deleted_at IS NULL to their columns; the slice the
\* Go code works on is that function in the order of "pos".

Status == {"open", "validating", "complete"}

MaybeUser == Users \cup {None}

Item == [checked: BOOLEAN, by: MaybeUser, override: MaybeUser, pos: Nat]

IsItemList(f) == DOMAIN f \subseteq ItemIds /\ f \in [DOMAIN f -> Item]

IsChecklist(c) ==
    /\ c \in [status: Status, assignee: MaybeUser, approver: MaybeUser,
              items: {c.items}]
    /\ IsItemList(c.items)

Actions == {"item_checked", "item_unchecked", "submitted_for_validation",
            "completed", "approved", "rejected", "reopened", "item_added",
            "item_removed", "items_reordered", "claimed", "assignee_changed",
            "approver_changed"}

Events == [action: Actions, actor: Users, item: ItemIds \cup {None}]

Event(action, actor, item) == [action |-> action, actor |-> actor, item |-> item]

\* The event of a call that concerns the checklist and no single item.
ListEvent(action, actor) == Event(action, actor, None)

Live(c) == DOMAIN c.items

-----------------------------------------------------------------------------
\* Helpers of the methods.

\* ResponsibleUserFor: the override of a kicked-back item, else the assignee.
Responsible(c, i) ==
    IF c.items[i].override # None THEN c.items[i].override ELSE c.assignee

AllItemsChecked(c) ==
    /\ Live(c) # {}
    /\ \A i \in Live(c) : c.items[i].checked

Ticked(item, u) == [item EXCEPT !.checked = TRUE, !.by = u]

Unticked(item) == [item EXCEPT !.checked = FALSE, !.by = None]

\* A creator edit that turned c into d: the result always goes back to open,
\* with a "reopened" event if c had left open.
Reopen(c, d, u, e) ==
    [list   |-> [d EXCEPT !.status = "open"],
     events |-> IF c.status = "open" THEN {e} ELSE {e, ListEvent("reopened", u)}]

\* Places a list of n distinct items can take: one each of 0 .. n-1.
Places(S) ==
    {f \in [S -> 0 .. Cardinality(S) - 1] :
        \A i, j \in S : f[i] = f[j] => i = j}

-----------------------------------------------------------------------------
\* The assignee's and the approver's methods.

CanCheckItem(c, u, i) ==
    /\ c.status = "open"
    /\ i \in Live(c)
    /\ Responsible(c, i) = u

\* Marks the item; the last one ticked sends the list to its approver or, if
\* it has none, completes it.  An item already checked may be checked again.
CheckItem(c, u, i) ==
    LET d    == [c EXCEPT !.items[i] = Ticked(@, u)]
        next == IF ~AllItemsChecked(d) THEN "open"
                ELSE IF c.approver # None THEN "validating" ELSE "complete"
        told == CASE next = "open"       -> {}
                  [] next = "validating" -> {ListEvent("submitted_for_validation", u)}
                  [] next = "complete"   -> {ListEvent("completed", u)}
    IN  [list   |-> [d EXCEPT !.status = next],
         events |-> {Event("item_checked", u, i)} \cup told]

\* Faulty: whoever is logged in may approve.
CanApproveAnyone(c, u) == c.status = "validating"

CanApprove(c, u) == c.status = "validating" /\ c.approver = u

Approve(c, u) ==
    [list   |-> [c EXCEPT !.status = "complete"],
     events |-> {ListEvent("approved", u), ListEvent("completed", u)}]

CanReject(c, u) == CanApprove(c, u)

\* Faulty: the items are sent back but the status is not.
RejectStaysValidating(c, u, S) ==
    [list   |-> [c EXCEPT !.items = [i \in Live(c) |->
                    IF i \in S THEN Unticked(c.items[i]) ELSE c.items[i]]],
     events |-> {Event("item_unchecked", u, i) : i \in S}
                \cup {ListEvent("rejected", u)}]

\* S may be empty: the handlers pass on whatever ids the request listed.
Reject(c, u, S) ==
    LET SentBack(item) ==
            [Unticked(item) EXCEPT
                !.override = IF item.by # None THEN item.by ELSE item.override]
    IN  [list   |-> [c EXCEPT !.status = "open",
                              !.items = [i \in Live(c) |->
                                  IF i \in S THEN SentBack(c.items[i]) ELSE c.items[i]]],
         events |-> {Event("item_unchecked", u, i) : i \in S}
                    \cup {ListEvent("rejected", u)}]

-----------------------------------------------------------------------------
\* The creator's overrides: legal at any status, always back to open.

CanEdit(u) == u = Creator

\* Faulty: a new item does not reopen the list.
AddItemKeepsStatus(c, u, new) ==
    [list   |-> [c EXCEPT !.items = [i \in Live(c) \cup {new} |->
                    IF i = new
                    THEN [checked |-> FALSE, by |-> None, override |-> None,
                          pos |-> Cardinality(Live(c))]
                    ELSE c.items[i]]],
     events |-> {ListEvent("item_added", u)}]

\* The event carries no item id: the row has none before Save inserts it.
AddItem(c, u, new) ==
    LET row == [checked |-> FALSE, by |-> None, override |-> None,
                pos |-> Cardinality(Live(c))]
        d   == [c EXCEPT !.items = [i \in Live(c) \cup {new} |->
                                        IF i = new THEN row ELSE c.items[i]]]
    IN  Reopen(c, d, u, ListEvent("item_added", u))

\* The places RemoveItem can give the items that stay: their order by "pos",
\* which Get leaves to the database where two rows share a position.
RemovePlaces(c, gone) ==
    {f \in Places(Live(c) \ {gone}) :
        \A i, j \in Live(c) \ {gone} :
            c.items[i].pos < c.items[j].pos => f[i] < f[j]}

\* Faulty: every remaining item moves up by one.
RemoveItemShiftsAll(c, u, gone, place) ==
    LET d == [c EXCEPT !.items = [i \in Live(c) \ {gone} |->
                                    [c.items[i] EXCEPT !.pos = @ - 1]]]
    IN  Reopen(c, d, u, Event("item_removed", u, gone))

\* Faulty: the items behind the removed one are not renumbered.
RemoveItemLeavesGap(c, u, gone, place) ==
    LET d == [c EXCEPT !.items = [i \in Live(c) \ {gone} |-> c.items[i]]]
    IN  Reopen(c, d, u, Event("item_removed", u, gone))

RemoveItem(c, u, gone, place) ==
    LET d == [c EXCEPT !.items = [i \in Live(c) \ {gone} |->
                                    [c.items[i] EXCEPT !.pos = place[i]]]]
    IN  Reopen(c, d, u, Event("item_removed", u, gone))

\* What a client may send as the new order: the method checks that it has one
\* entry per item and that each entry names an item, not that they differ.
Orders(c) == [0 .. Cardinality(Live(c)) - 1 -> Live(c)]

Permutes(order) == \A p, q \in DOMAIN order : order[p] = order[q] => p = q

\* The position each named item ends up with: its last one in the order (Save
\* writes the rows of the reordered slice one after another).
ReorderPlaces(c, order) ==
    {f \in [{order[p] : p \in DOMAIN order} -> DOMAIN order] :
        \A p \in DOMAIN order :
            order[f[order[p]]] = order[p] /\ p <= f[order[p]]}

\* Faulty: the item in the last place is dropped.
ReorderItemsLosesLast(c, u, place) ==
    LET n == Cardinality(Live(c))
        d == [c EXCEPT !.items = [i \in {j \in DOMAIN place : place[j] < n - 1} |->
                                    [c.items[i] EXCEPT !.pos = place[i]]]]
    IN  Reopen(c, d, u, ListEvent("items_reordered", u))

\* An item the order leaves out is not kept by Save: its row is soft-deleted.
ReorderItems(c, u, place) ==
    LET d == [c EXCEPT !.items = [i \in DOMAIN place |->
                                    [c.items[i] EXCEPT !.pos = place[i]]]]
    IN  Reopen(c, d, u, ListEvent("items_reordered", u))

\* Faulty: unticking is logged as ticking.
SetItemCheckedMislogs(c, u, i, checked) ==
    LET d == [c EXCEPT !.items[i] = IF checked THEN Ticked(@, u) ELSE Unticked(@)]
    IN  Reopen(c, d, u, Event("item_checked", u, i))

\* Unlike CheckItem it never moves the list on, even when every item is ticked.
SetItemChecked(c, u, i, checked) ==
    LET d == [c EXCEPT !.items[i] = IF checked THEN Ticked(@, u) ELSE Unticked(@)]
    IN  Reopen(c, d, u,
               Event(IF checked THEN "item_checked" ELSE "item_unchecked", u, i))

-----------------------------------------------------------------------------
\* notificationForEvent (internal/store/postgres/checklists.go): the rows Save
\* writes into the notifications table for the events it appends.

NotificationTypes == {"submitted_for_validation", "rejected", "reopened"}

Notifications == [type: NotificationTypes, to: Users]

\* Faulty: the assignee is told of the submission, the approver is not.
RecipientToldAssignee(c, e) ==
    IF e.action \in {"submitted_for_validation", "rejected", "reopened"}
    THEN c.assignee ELSE None

Recipient(c, e) ==
    CASE e.action = "submitted_for_validation"             -> c.approver
      [] e.action = "rejected"                             -> c.assignee
      [] e.action = "reopened" /\ c.assignee # e.actor     -> c.assignee
      [] OTHER                                             -> None

NotificationsFor(c, E) ==
    {[type |-> e.action, to |-> Recipient(c, e)] :
        e \in {x \in E : Recipient(c, x) # None}}
=============================================================================
