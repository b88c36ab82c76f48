--------------------------- MODULE ChecklistStore ---------------------------
(***************************************************************************)
(* One checklist under concurrent requests: the handlers of internal/api   *)
(* and internal/web, the transactions of internal/store/postgres and the   *)
(* row lock they take, over the domain methods of ChecklistDomain.         *)
(*                                                                         *)
(* A request is a process.  Between two of its statements any other        *)
(* request may run; what it wrote inside a transaction is invisible until  *)
(* it commits.  PostgreSQL runs at its default READ COMMITTED level, so a  *)
(* statement sees what is committed when it starts, and a statement that   *)
(* waited for a row lock re-reads the row it waited for.                   *)
(***************************************************************************)
EXTENDS ChecklistDomain

CONSTANTS
    Requests,       \* requests in flight at the same time
    Kinds,          \* the kinds of request that arrive ("early": are there already)
    Grouped,        \* assigned_group_id is set
    AnyReorder      \* clients may send a reorder that repeats an item

ASSUME RequestsAssumption == None \notin Requests
ASSUME KindsAssumption ==
    Kinds \subseteq {"mutate", "claim", "uiclaim", "suspend", "early", "members"}
ASSUME GroupedAssumption == Grouped \in BOOLEAN
ASSUME AnyReorderAssumption == AnyReorder \in BOOLEAN

VARIABLES
    row,            \* the committed checklist with its live items
    used,           \* item ids ever committed (live and soft-deleted)
    active,         \* users with is_active
    members,        \* user_groups rows of the checklist's group
    lock,           \* the request that holds the checklist row, or None
    req,            \* the requests
    trail,          \* what the committed audit log says (Replay)
    notified        \* what Save wrote into notifications when the status last changed

vars == <<row, used, active, members, lock, req, trail, notified>>

-----------------------------------------------------------------------------
\* Requests.  "list" is the Checklist value a mutation loads and edits in
\* place, "events" what the transaction will append when it commits.

\* begun - loaded - saved        Get, mutate and Save in one transaction
\* claiming - claimed            Claim in a transaction (internal/api)
\* opening - viewed - unlogged   Get, then Claim, each statement on its own (web)
\* losing                        either Claim, once its UPDATE matched no row
\* suspending - deactivated - unapproved - unassigned
\*                               SetActive and ClearUserAssignments
\* halfway - overtaken           the same, with the first UPDATE, or both, of
\*                               ClearUserAssignments older than the list
PCs == {"idle", "begun", "loaded", "saved", "claiming", "claimed", "opening",
        "viewed", "unlogged", "losing", "suspending", "deactivated",
        "unapproved", "unassigned", "halfway", "overtaken"}

IsRequest(q) ==
    /\ q \in [pc: PCs, user: MaybeUser, expect: MaybeUser, list: {q.list},
              events: SUBSET Events]
    /\ IsChecklist(q.list)
    /\ q.pc # "idle" => q.user \in Users

NoList == [status |-> "open", assignee |-> None, approver |-> None,
           items |-> [i \in {} |-> None]]

Idle == [pc |-> "idle", user |-> None, expect |-> None, list |-> NoList,
         events |-> {}]

At(r, pc) == req[r].pc = pc

Goto(r, pc) == req' = [req EXCEPT ![r].pc = pc]

Finish(r) == req' = [req EXCEPT ![r] = Idle]

-----------------------------------------------------------------------------
\* The row lock.  An UPDATE of the checklist row and SELECT ... FOR UPDATE
\* exclude each other until the end of the transaction.

LockFree(r) == lock \in {r, None}

Unlock(r) == lock' = IF lock = r THEN None ELSE lock

\* An INSERT of an event or a notification takes a key-share lock on the row
\* its checklist_id references: it waits for FOR UPDATE, not for an UPDATE.
KeyShareFree ==
    \A r \in Requests : lock = r => req[r].pc \notin {"loaded", "saved"}

\* trg_check_assignee_group_membership, fired by every UPDATE of the row.
TriggerAccepts(assignee) == Grouped /\ assignee # None => assignee \in members

-----------------------------------------------------------------------------
\* The audit log, as the state someone who replays it arrives at.  E is what
\* one transaction appends: it adds, removes, claims or approves at most once.

Trails == [status: Status, assignee: MaybeUser, approver: MaybeUser,
           checked: SUBSET (ItemIds \cup {None}), size: Int, approvedBy: MaybeUser]

Logged(E, action) == {e \in E : e.action = action}

ItemsOf(E, action) == {e.item : e \in Logged(E, action)}

ActorOf(E, action) == (CHOOSE e \in Logged(E, action) : TRUE).actor

Has(E, action) == Logged(E, action) # {}

Replay(t, E) ==
    [status     |-> IF Has(E, "completed") THEN "complete"
                    ELSE IF Has(E, "submitted_for_validation") THEN "validating"
                    ELSE IF Has(E, "rejected") \/ Has(E, "reopened") THEN "open"
                    ELSE t.status,
     assignee   |-> IF Has(E, "claimed") THEN ActorOf(E, "claimed")
                    ELSE IF Has(E, "assignee_changed") THEN None ELSE t.assignee,
     approver   |-> IF Has(E, "approver_changed") THEN None ELSE t.approver,
     checked    |-> (t.checked \cup ItemsOf(E, "item_checked"))
                    \ (ItemsOf(E, "item_unchecked") \cup ItemsOf(E, "item_removed")),
     size       |-> t.size + (IF Has(E, "item_added") THEN 1 ELSE 0)
                           - (IF Has(E, "item_removed") THEN 1 ELSE 0),
     approvedBy |-> IF Has(E, "approved") THEN ActorOf(E, "approved")
                    ELSE IF Has(E, "rejected") \/ Has(E, "reopened") THEN None
                    ELSE t.approvedBy]

-----------------------------------------------------------------------------
\* The users row of u is locked by a suspension that updated it.
UserRowHeld(u) ==
    \E s \in Requests :
        /\ req[s].user = u
        /\ req[s].pc \in {"deactivated", "unapproved", "unassigned",
                         "halfway", "overtaken"}

\* Create's foreign keys share the users rows with a suspension, so neither
\* waits for the other: one may be under way when the list appears, past
\* UPDATEs that could not see it.
UnderWay ==
    {q \in [pc: {"idle", "halfway", "overtaken"}, user: MaybeUser,
            expect: {None}, list: {NoList}, events: {{}}] :
        /\ q.pc = "idle" <=> q.user = None
        /\ q.pc # "idle" => "early" \in Kinds}

\* A checklist just created (Create): open, nothing checked, its assignee,
\* if any, in the group, and assigned to a user or to a group.  Nobody has
\* looked whether its approver and its assignee are active.
Init ==
    /\ row \in [status: {"open"}, assignee: MaybeUser, approver: MaybeUser,
                items: UNION {{[i \in S |-> [checked |-> FALSE, by |-> None,
                                             override |-> None, pos |-> f[i]]]
                               : f \in Places(S)} : S \in SUBSET ItemIds}]
    /\ used = DOMAIN row.items
    /\ active \in SUBSET Users
    /\ members \in IF Grouped THEN SUBSET Users ELSE {{}}
    /\ TriggerAccepts(row.assignee)
    /\ Grouped \/ row.assignee # None
    /\ lock = None
    /\ req \in [Requests -> UnderWay]
    /\ \A r, s \in Requests : r # s /\ ~At(r, "idle") => req[r].user # req[s].user
    /\ trail = [status |-> "open", assignee |-> row.assignee,
                approver |-> row.approver, checked |-> {},
                size |-> Cardinality(DOMAIN row.items), approvedBy |-> None]
    /\ notified = {}

-----------------------------------------------------------------------------
\* Arrival.  withSession resolves the user and checks is_active, once, before
\* the handler runs.  A suspension comes from an admin, who is nobody in Users
\* (an admin cannot suspend their own account); its "user" is the suspended one.

Begin(r, pc, u, expect) ==
    /\ At(r, "idle")
    /\ req' = [req EXCEPT ![r] = [Idle EXCEPT !.pc = pc, !.user = u, !.expect = expect]]
    /\ UNCHANGED <<row, used, active, members, lock, trail, notified>>

BeginMutation(r) ==
    /\ "mutate" \in Kinds
    /\ \E u \in active : Begin(r, "begun", u, None)

\* The API's claimant sends the assignee it last saw.
BeginClaim(r) ==
    /\ "claim" \in Kinds
    /\ \E u \in active, seen \in MaybeUser : Begin(r, "claiming", u, seen)

BeginClaimUI(r) ==
    /\ "uiclaim" \in Kinds
    /\ \E u \in active : Begin(r, "opening", u, None)

BeginSuspension(r) ==
    /\ "suspend" \in Kinds
    /\ \E u \in Users : Begin(r, "suspending", u, None)

-----------------------------------------------------------------------------
\* A mutation: Get, a domain method, Save, COMMIT (withChecklistMutation).

\* Faulty: the row is read without FOR UPDATE.
LoadUnlocked(r) ==
    /\ At(r, "begun")
    /\ req' = [req EXCEPT ![r].pc = "loaded", ![r].list = row]
    /\ UNCHANGED <<row, used, active, members, lock, trail, notified>>

Load(r) ==
    /\ At(r, "begun")
    /\ lock = None
    /\ lock' = r
    /\ req' = [req EXCEPT ![r].pc = "loaded", ![r].list = row]
    /\ UNCHANGED <<row, used, active, members, trail, notified>>

\* Save of what a domain method returned.  Its UPDATE of the row, which only
\* sets the status, fires the trigger on the assignee the row has.
Save(r, result) ==
    /\ TriggerAccepts(row.assignee)
    /\ req' = [req EXCEPT ![r].pc = "saved", ![r].list = result.list,
                          ![r].events = result.events]
    /\ UNCHANGED <<row, used, active, members, lock, trail, notified>>

HandleCheckItem(r) ==
    LET c == req[r].list  u == req[r].user IN
    /\ At(r, "loaded")
    /\ \E i \in Live(c) : CanCheckItem(c, u, i) /\ Save(r, CheckItem(c, u, i))

HandleApprove(r) ==
    LET c == req[r].list  u == req[r].user IN
    /\ At(r, "loaded")
    /\ CanApprove(c, u)
    /\ Save(r, Approve(c, u))

HandleReject(r) ==
    LET c == req[r].list  u == req[r].user IN
    /\ At(r, "loaded")
    /\ CanReject(c, u)
    /\ \E S \in SUBSET Live(c) : Save(r, Reject(c, u, S))

HandleAddItem(r) ==
    LET c == req[r].list  u == req[r].user IN
    /\ At(r, "loaded")
    /\ CanEdit(u)
    /\ \E new \in ItemIds \ used : Save(r, AddItem(c, u, new))

HandleRemoveItem(r) ==
    LET c == req[r].list  u == req[r].user IN
    /\ At(r, "loaded")
    /\ CanEdit(u)
    /\ \E i \in Live(c) : \E place \in RemovePlaces(c, i) :
          Save(r, RemoveItem(c, u, i, place))

HandleReorder(r) ==
    LET c == req[r].list  u == req[r].user IN
    /\ At(r, "loaded")
    /\ CanEdit(u)
    /\ \E order \in Orders(c) :
          /\ AnyReorder \/ Permutes(order)
          /\ \E place \in ReorderPlaces(c, order) : Save(r, ReorderItems(c, u, place))

HandleSetItemChecked(r) ==
    LET c == req[r].list  u == req[r].user IN
    /\ At(r, "loaded")
    /\ CanEdit(u)
    /\ \E i \in Live(c), checked \in BOOLEAN :
          Save(r, SetItemChecked(c, u, i, checked))

\* The method, the lookup of the item or the trigger returned an error.
Refuse(r) ==
    /\ At(r, "loaded")
    /\ Unlock(r)
    /\ Finish(r)
    /\ UNCHANGED <<row, used, active, members, trail, notified>>

Commit(r) ==
    LET c == req[r].list IN
    /\ At(r, "saved")
    /\ row' = [row EXCEPT !.status = c.status, !.items = c.items]
    /\ used' = used \cup Live(c)
    /\ trail' = Replay(trail, req[r].events)
    /\ notified' = IF c.status = row.status THEN notified
                   ELSE NotificationsFor(c, req[r].events)
    /\ Unlock(r)
    /\ Finish(r)
    /\ UNCHANGED <<active, members>>

-----------------------------------------------------------------------------
\* Claim: a compare-and-swap on assigned_user_id.

\* Faulty: the UPDATE has no "assigned_user_id IS NOT DISTINCT FROM expected".
WinClaimUnchecked(r) ==
    /\ At(r, "claiming")
    /\ lock = None
    /\ TriggerAccepts(req[r].user)
    /\ lock' = r
    /\ Goto(r, "claimed")
    /\ UNCHANGED <<row, used, active, members, trail, notified>>

\* In a transaction (internal/api): the UPDATE matched, the row is locked.
WinClaim(r) ==
    /\ At(r, "claiming")
    /\ row.assignee = req[r].expect
    /\ lock = None
    /\ TriggerAccepts(req[r].user)
    /\ lock' = r
    /\ Goto(r, "claimed")
    /\ UNCHANGED <<row, used, active, members, trail, notified>>

\* Faulty: the claim is not logged.
CommitClaimUnlogged(r) ==
    /\ At(r, "claimed")
    /\ row' = [row EXCEPT !.assignee = req[r].user]
    /\ Unlock(r)
    /\ Finish(r)
    /\ UNCHANGED <<used, active, members, trail, notified>>

CommitClaim(r) ==
    /\ At(r, "claimed")
    /\ row' = [row EXCEPT !.assignee = req[r].user]
    /\ trail' = Replay(trail, {ListEvent("claimed", req[r].user)})
    /\ Unlock(r)
    /\ Finish(r)
    /\ UNCHANGED <<used, active, members, notified>>

\* On its own (internal/web): the page's handler reads the assignee ...
ViewClaimUI(r) ==
    /\ At(r, "opening")
    /\ lock = None
    /\ req' = [req EXCEPT ![r].pc = "viewed", ![r].expect = row.assignee]
    /\ UNCHANGED <<row, used, active, members, lock, trail, notified>>

\* ... the UPDATE that matched is committed at once ...
WinClaimUI(r) ==
    /\ At(r, "viewed")
    /\ row.assignee = req[r].expect
    /\ lock = None
    /\ TriggerAccepts(req[r].user)
    /\ row' = [row EXCEPT !.assignee = req[r].user]
    /\ Goto(r, "unlogged")
    /\ UNCHANGED <<used, active, members, lock, trail, notified>>

\* ... and the event after it.
LogClaimUI(r) ==
    /\ At(r, "unlogged")
    /\ KeyShareFree
    /\ trail' = Replay(trail, {ListEvent("claimed", req[r].user)})
    /\ Finish(r)
    /\ UNCHANGED <<row, used, active, members, lock, notified>>

\* No row matched: decided on what is committed, without waiting.
LoseClaim(r) ==
    /\ req[r].pc \in {"claiming", "viewed"}
    /\ row.assignee # req[r].expect
    /\ Goto(r, "losing")
    /\ UNCHANGED <<row, used, active, members, lock, trail, notified>>

\* The claim_lost notification is for the claimant alone and is not recorded.
NotifyLoser(r) ==
    /\ At(r, "losing")
    /\ KeyShareFree
    /\ Finish(r)
    /\ UNCHANGED <<row, used, active, members, lock, trail, notified>>

-----------------------------------------------------------------------------
\* Suspension: SetActive and ClearUserAssignments in one transaction.

Deactivate(r) ==
    /\ At(r, "suspending")
    /\ ~UserRowHeld(req[r].user)
    /\ Goto(r, "deactivated")
    /\ UNCHANGED <<row, used, active, members, lock, trail, notified>>

\* An UPDATE of the row by r, logged as "event".
UpdateRow(r, pc, event) ==
    /\ LockFree(r)
    /\ lock' = r
    /\ req' = [req EXCEPT ![r].pc = pc, ![r].events = @ \cup {event}]

\* Faulty: only the assignments are cleared.
VacateNoApprover(r) ==
    /\ At(r, "deactivated")
    /\ Goto(r, "unapproved")
    /\ UNCHANGED <<row, used, active, members, lock, trail, notified>>

\* UPDATE ... SET approver_id = NULL WHERE approver_id = u
VacateApprover(r) ==
    LET u == req[r].user IN
    /\ At(r, "deactivated")
    /\ \/ /\ row.approver = u
          /\ TriggerAccepts(row.assignee)
          /\ UpdateRow(r, "unapproved", ListEvent("approver_changed", u))
       \/ /\ row.approver # u
          /\ Goto(r, "unapproved")
          /\ UNCHANGED lock
    /\ UNCHANGED <<row, used, active, members, trail, notified>>

AfterVacating(r) == IF At(r, "halfway") THEN "overtaken" ELSE "unassigned"

\* Faulty: only the approver is cleared.
VacateNoAssignee(r) ==
    /\ req[r].pc \in {"unapproved", "halfway"}
    /\ Goto(r, AfterVacating(r))
    /\ UNCHANGED <<row, used, active, members, lock, trail, notified>>

\* UPDATE ... SET assigned_user_id = NULL WHERE assigned_user_id = u
VacateAssignee(r) ==
    LET u == req[r].user IN
    /\ req[r].pc \in {"unapproved", "halfway"}
    /\ \/ /\ row.assignee = u
          /\ UpdateRow(r, AfterVacating(r), ListEvent("assignee_changed", u))
       \/ /\ row.assignee # u
          /\ Goto(r, AfterVacating(r))
          /\ UNCHANGED lock
    /\ UNCHANGED <<row, used, active, members, trail, notified>>

CommitSuspension(r) ==
    LET E == req[r].events IN
    /\ req[r].pc \in {"unassigned", "overtaken"}
    /\ active' = active \ {req[r].user}
    /\ row' = [row EXCEPT
                !.approver = IF Has(E, "approver_changed") THEN None ELSE @,
                !.assignee = IF Has(E, "assignee_changed") THEN None ELSE @]
    /\ trail' = Replay(trail, E)
    /\ Unlock(r)
    /\ Finish(r)
    /\ UNCHANGED <<used, members, notified>>

Reactivate(u) ==
    /\ ~UserRowHeld(u)
    /\ active' = active \cup {u}
    /\ UNCHANGED <<row, used, members, lock, req, trail, notified>>

-----------------------------------------------------------------------------
\* Errors, and the rest of the system.

\* The trigger refuses the row a claim or a suspension would write.
TriggerRaises(r) ==
    /\ \/ /\ req[r].pc \in {"claiming", "viewed"}
          /\ row.assignee = req[r].expect
          /\ ~TriggerAccepts(req[r].user)
       \/ /\ At(r, "deactivated")
          /\ row.approver = req[r].user
          /\ ~TriggerAccepts(row.assignee)
    /\ LockFree(r)
    /\ Finish(r)
    /\ Unlock(r)
    /\ UNCHANGED <<row, used, active, members, trail, notified>>

\* Faulty: the transaction is left open.
RollbackForgotten(r) ==
    /\ ~At(r, "idle")
    /\ Finish(r)
    /\ UNCHANGED <<row, used, active, members, lock, trail, notified>>

\* The client goes away, the database fails or the server stops: WithTx rolls
\* back what is not committed.
Rollback(r) ==
    /\ ~At(r, "idle")
    /\ Finish(r)
    /\ Unlock(r)
    /\ UNCHANGED <<row, used, active, members, trail, notified>>

AddMember(u) ==
    /\ "members" \in Kinds
    /\ members' = members \cup {u}
    /\ UNCHANGED <<row, used, active, lock, req, trail, notified>>

\* Removing a member does not look at the checklists it is assigned.
RemoveMember(u) ==
    /\ "members" \in Kinds
    /\ members' = members \ {u}
    /\ UNCHANGED <<row, used, active, lock, req, trail, notified>>

Arrive(r) ==
    BeginMutation(r) \/ BeginClaim(r) \/ BeginClaimUI(r) \/ BeginSuspension(r)

\* The next statement of a request that is being served.
Step(r) ==
    \/ Load(r)
    \/ HandleCheckItem(r)
    \/ HandleApprove(r)
    \/ HandleReject(r)
    \/ HandleAddItem(r)
    \/ HandleRemoveItem(r)
    \/ HandleReorder(r)
    \/ HandleSetItemChecked(r)
    \/ Refuse(r)
    \/ Commit(r)
    \/ WinClaim(r)
    \/ CommitClaim(r)
    \/ ViewClaimUI(r)
    \/ WinClaimUI(r)
    \/ LogClaimUI(r)
    \/ LoseClaim(r)
    \/ NotifyLoser(r)
    \/ Deactivate(r)
    \/ VacateApprover(r)
    \/ VacateAssignee(r)
    \/ CommitSuspension(r)
    \/ TriggerRaises(r)

Next ==
    \/ \E r \in Requests : Arrive(r) \/ Step(r) \/ Rollback(r)
    \/ \E u \in Users : Reactivate(u) \/ AddMember(u) \/ RemoveMember(u)

Spec == Init /\ [][Next]_vars

\* A goroutine that can run is run, and PostgreSQL grants a row lock in the
\* order of the queue: a request whose next statement is possible again and
\* again executes it.  Nothing is assumed of arrivals and of failures.
Fairness == \A r \in Requests : SF_vars(Step(r))

FairSpec == Spec /\ Fairness

-----------------------------------------------------------------------------
\* Correctness.

\* The state space, with the columns' types and foreign keys.
TypeOK ==
    /\ IsChecklist(row)
    /\ used \in SUBSET ItemIds
    /\ DOMAIN row.items \subseteq used
    /\ active \in SUBSET Users
    /\ members \in SUBSET Users
    /\ lock \in Requests \cup {None}
    /\ req = [r \in Requests |-> req[r]]
    /\ \A r \in Requests : IsRequest(req[r])
    /\ trail \in Trails
    /\ notified \in SUBSET Notifications

\* A list that awaits validation or is complete has items and all of them are
\* checked, whatever its creator, assignee and approver did at the same time:
\* no edit leaves a list "done" that is not (CheckItem, forceReopen, the lock).
Settled(c) == c.status # "open" => AllItemsChecked(c)

DoneMeansAllChecked == Settled(row)

\* A complete list that has an approver was approved by that approver, after
\* its last submission: a completion without approval is one nobody had to
\* sign (Approve, CheckItem, ClearUserAssignments).
ApprovalOnRecord ==
    row.status = "complete" /\ row.approver # None => trail.approvedBy = row.approver

\* The audit log replays to the list: status, checked items, number of items
\* and approver all follow from the committed events, whoever claims it how.
TrailMatchesList ==
    /\ trail.status = row.status
    /\ trail.approver = row.approver
    /\ trail.checked = {i \in DOMAIN row.items : row.items[i].checked}
    /\ trail.size = Cardinality(DOMAIN row.items)

\* The audit log replays to the whole row, the assignee included.
TrailMatchesRow == TrailMatchesList /\ trail.assignee = row.assignee

\* The same, asked only while no request is being served.
TrailMatchesRowAtRest == (\A r \in Requests : At(r, "idle")) => TrailMatchesRow

ApproverIsActive == row.approver # None => row.approver \in active

AssigneeIsActive == row.assignee # None => row.assignee \in active

\* A suspension of u is older than the list, in part at least.
Overtaken(u) == \E r \in Requests : At(r, "overtaken") /\ req[r].user = u

\* A list that has a suspended approver was created so, or while they were
\* being suspended: any later suspension takes effect together with the loss
\* of the role, whatever approvals are in flight, and the role is not regained.
ApproverStaysActive ==
    [][ApproverIsActive => ApproverIsActive' \/ Overtaken(row.approver)]_vars

\* The same of the assignee: deactivated users get no new assignments.
AssigneeStaysActive ==
    [][AssigneeIsActive => AssigneeIsActive' \/ Overtaken(row.assignee)]_vars

\* While a list awaits validation, the person who must act has been told of
\* this submission.
ApproverTold ==
    row.status = "validating" /\ row.approver # None
    => [type |-> "submitted_for_validation", to |-> row.approver] \in notified

\* The positions of n live items are 0 .. n-1, so ORDER BY position is the
\* order the creator chose.
PositionsDense ==
    LET n == Cardinality(DOMAIN row.items) IN
    {row.items[i].pos : i \in DOMAIN row.items} = 0 .. n - 1

\* Nobody takes a list over from an assignee they did not know of: a new
\* assignee has claimed it from the one the row had (the compare-and-swap).
ClaimsFromExpected ==
    [][row'.assignee \notin {row.assignee, None}
       => \E r \in Requests : /\ req[r].user = row'.assignee
                              /\ req[r].expect = row.assignee]_vars

\* Why DoneMeansAllChecked holds: a list is settled when it is loaded, every
\* domain method leaves it settled, and Save writes its status together with
\* all its items.
ListsSettled ==
    \A r \in Requests : req[r].pc \in {"loaded", "saved"} => Settled(req[r].list)

\* Why ApproverStaysActive holds: nothing makes anybody the approver of a list
\* that exists, so a suspension that has gone past its first UPDATE has
\* recorded the approver's removal or has nothing to remove.
SuspensionClears ==
    \A r \in Requests :
        /\ req[r].pc \in {"unapproved", "unassigned"}
        /\ row.approver = req[r].user
        => Has(req[r].events, "approver_changed")

\* An item leaves the list only because its creator removed it: the commit in
\* which it goes logs its removal, in a reorder or a race as in any other case.
ItemsLeaveByRemoval ==
    [][\A i \in DOMAIN row.items \ DOMAIN row'.items :
          \E r \in Requests : Event("item_removed", Creator, i) \in req[r].events]_vars

\* A list that awaits validation or is complete changes by its approver's
\* decision or its creator's edit, logged in the same commit: an approval in
\* flight does not survive the approver's suspension, and a list whose approver
\* is gone waits for its creator (CanApprove under the row lock, forceReopen).
DecisionsAreSigned ==
    [][row.status # "open" /\ (row'.status # row.status \/ row'.items # row.items)
       => \E r \in Requests :
             \/ ListEvent("reopened", Creator) \in req[r].events
             \/ /\ row.status = "validating" /\ row.approver # None
                /\ \E a \in {"approved", "rejected"} :
                      ListEvent(a, row.approver) \in req[r].events]_vars

\* The next statement of r waits for s: for the row, for the key-share lock of
\* an event's or a notification's foreign key, or for the users row of the
\* user both suspend.
WaitsFor(r, s) ==
    \/ /\ lock = s
       /\ \/ req[r].pc \in {"begun", "opening"}
          \/ req[r].pc \in {"claiming", "viewed"} /\ row.assignee = req[r].expect
          \/ At(r, "deactivated") /\ row.approver = req[r].user /\ s # r
          \/ /\ req[r].pc \in {"unapproved", "halfway"}
             /\ row.assignee = req[r].user /\ s # r
          \/ req[r].pc \in {"unlogged", "losing"} /\ req[s].pc \in {"loaded", "saved"}
    \/ /\ At(r, "suspending")
       /\ req[s].user = req[r].user
       /\ req[s].pc \in {"deactivated", "unapproved", "unassigned",
                        "halfway", "overtaken"}

\* No deadlock: a request that waits does so for one that is still being
\* served, and that one waits for nobody or for one that waits for nobody.
\* Nobody is left holding a lock, and no waits form a circle (WithTx, and the
\* order users row before checklist row).
WaitsAreShort ==
    \A r, s \in Requests : WaitsFor(r, s) =>
        /\ ~At(s, "idle")
        /\ \A t, u \in Requests : WaitsFor(s, t) => ~At(t, "idle") /\ ~WaitsFor(t, u)

\* Every request ends: locks are released on every path, and no two requests
\* wait for each other.
RequestsEnd == \A r \in Requests : ~At(r, "idle") ~> At(r, "idle")

\* The store implements the workflow: whatever happens between its statements,
\* each commit is one thing a person may do to a checklist.
Workflow == INSTANCE ChecklistWorkflow WITH
    status   <- row.status,
    live     <- DOMAIN row.items,
    done     <- {i \in DOMAIN row.items : row.items[i].checked},
    assignee <- row.assignee,
    approver <- row.approver

ImplementsWorkflow == Workflow!Spec
=============================================================================
