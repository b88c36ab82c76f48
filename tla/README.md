# go-checklists in TLA+

Specifications of the checklist server in `src/`: what a checklist goes through
when several people, administrators and failing connections work on it at once,
and what stands around it: who may act, who is told and mailed, where lists and
templates come from. TLC checks the specifications on small instances, TLAPS
proves the central properties for any number of users, items and requests.

## The system

The server (`cmd/checklists-server`) is one process with a JSON API
(`internal/api`) and an htmx site (`internal/web`) on two ports, over one
PostgreSQL database (`internal/store/postgres`). All shared state but the login
limiter and the notification hub is in the database; requests are goroutines
that meet there, in transactions at READ COMMITTED.

| Component | State it keeps | Operations | What makes it correct |
|---|---|---|---|
| Checklist domain (`internal/domain/checklist.go`) | the `Checklist` a request loaded | CheckItem, Approve, Reject, AddItem, RemoveItem, ReorderItems, SetItemChecked | a list that is validating or complete has every item checked; only the approver signs it; an item leaves only when removed; positions stay 0..n-1 |
| Checklist store (`store/postgres/checklists.go`, `db.go`, `events.go`) | `checklists`, `checklist_items`, `checklist_events`, `notifications` | Create, Get, Save, Claim, ClearUserAssignments, WithTx | no lost update; the audit log replays to the row; the people who must act are told |
| Handlers (`api/checklists.go`, `web/checklist_detail.go`) | none | one per domain method, claim | every request ends and releases its locks |
| User administration (`api/users.go`, `web/admin_users.go`) | `users` | create, import, suspend, reactivate | a suspension ends the roles of its user, and no request of theirs is served |
| Groups (`store/postgres/groups.go`) | `user_groups` | AddMember, RemoveMember | the assignee of a group's list belongs to the group |
| Creation and policy | `tenants` policy columns | CanCreateChecklist, ValidateAssignment, Create | who may create, and what a new list looks like |
| Templates | `templates`, `template_items` | CreateVersion, GetLatestByName | versions of a name are 1, 2, 3, ... and never change |
| Sessions, login limiter (`internal/auth`, `api/middleware.go`) | `sessions`; in-memory maps | Login, Register, CurrentUser, Logout, Allow, RecordFailure | a session that ended never serves a request; attempts are bounded |
| Password reset | `password_reset_tokens` | request, confirm | a token is used once, and old sessions end |
| Notifications and hub (`internal/notify`, `web/notifications.go`) | rows; subscriber channels | Create/Publish, Subscribe, MarkRead | a reader is never left with an old count for good |
| Email delivery (`email_delivery.go`) | `email_status`, `email_attempts` | sweep, send, mark | each notification is settled; the attempts are bounded |
| Start and shutdown (`main.go`) | background goroutines | cleanup sweeps, drain, bounded wait | the process ends |

Components meet in three ways: they call the store within one transaction (a
handler and the domain; suspension and `ClearUserAssignments`), they share rows
(a claim and a suspension both write `assigned_user_id`), and the store calls
the hub back when it inserts a notification. What is hard here is between the
statements: a row read before a lock is granted and used after it, a user
checked on arrival and suspended before the commit, a transaction that fails
halfway, a request that names the items of a list somebody has just changed.
`PROJECT.json` lists these hazards at their lines.

## Modules

Five groups of modules, each closed in itself. They meet in rows the groups
share, and each group lets the others change those rows in any way the code can:
`Sessions` has accounts suspended at any moment, `EmailOutbox` has notifications
inserted at any moment, `ChecklistCreation` has members come and go.

| Modules | About |
|---|---|
| `ChecklistDomain` | the methods of `Checklist`: a guard `CanX` and an operator `X` that returns the changed list and its events; items are a function from row ids to columns, the slice order being `pos`; `notificationForEvent` (`Recipient`) |
| `ChecklistWorkflow` | abstract: what a checklist promises, one atomic step per thing a person can do; no requests, no locks |
| `ChecklistStore` | one checklist and its requests; EXTENDS `ChecklistDomain`, refines `ChecklistWorkflow` (`ImplementsWorkflow`) |
| `LoginLimiter` | the fixed window that throttles logins and requests for a reset |
| `Sessions` | accounts, sessions, reset tokens and the requests that use them; EXTENDS `LoginLimiter` |
| `MailDelivery` | abstract: what is promised for each notification's mail, one attempt at a time |
| `EmailOutbox` | the outbox columns of `notifications`, the worker that sweeps them, start and shutdown of its process; refines `MailDelivery` (`ImplementsDelivery`) |
| `NotifyHub` | one reader's live badge: transactions that notify, the hub, the streams, the page |
| `TemplateCatalogue` | abstract: versions are appended and never change, a checklist copies one |
| `ChecklistCreation` | creation of checklists and of template versions against administration; refines `TemplateCatalogue` (`ImplementsCatalogue`) |
| `MC...` | the instances TLC checks, with the symmetries used |
| `ChecklistStoreProofs`, `ChecklistRefinementProofs`, `AuditProofs`, `SessionsProofs`, `LimiterProofs`, `EmailOutboxProofs`, `NotifyHubProofs`, `ChecklistCreationProofs` | theorems |

### How ChecklistStore corresponds to the code

| Variable | In the code |
|---|---|
| `row` | the committed row of `checklists` with its items where `deleted_at IS NULL` |
| `used` | the item ids the sequence has given out, deleted ones included |
| `active`, `members` | `users.is_active`; `user_groups` for the list's group |
| `lock` | the transaction that holds the row's lock (`SELECT ... FOR UPDATE` in `Get`, or an UPDATE) |
| `req` | the requests being served: program counter, user, the `*Checklist` loaded, the events to append |
| `trail` | what someone reading `checklist_events` from the start arrives at |
| `notified` | the notifications written with the last change of status |

A step is one SQL statement, or several that no other request can observe
apart: statements that follow a row lock in the same transaction touch only what
the lock protects. A mutation is `Load` (Get), one of the seven `Handle...`
steps (the domain method and the UPDATE that starts `Save`), and `Commit` (the
rest of `Save` and COMMIT, which makes it visible). An API claim is `WinClaim`
and `CommitClaim`; the htmx claim has no transaction, so it is `ViewClaimUI`,
`WinClaimUI` and `LogClaimUI`, each visible at once. A suspension is
`Deactivate`, `VacateApprover`, `VacateAssignee`, `CommitSuspension`. `Rollback`
may strike at any point, for a closed connection, a database error or a stopped
server; `Refuse` and `TriggerRaises` are the errors the code itself returns.
The membership trigger of the migration is a guard of every UPDATE of the row.
Locking follows PostgreSQL's documented rules: UPDATE and FOR UPDATE exclude
each other, an UPDATE that waited re-evaluates its WHERE, and the foreign key of
an event takes a key-share lock, which waits for FOR UPDATE only.

The initial states are those `Create` leaves: open, nothing checked, items in
template order, an assignee who belongs to the group if there is one. `Create` looks
at nobody's `is_active`, so the approver and the assignee may be suspended from
the start. Nor does it wait for a suspension under way: its foreign keys share the
users rows. Such a suspension may be there when the list appears, with the first UPDATE of
`ClearUserAssignments` behind it (`halfway`) or both (`overtaken`), and these did not
see the list; the kind `early` lets requests start there. Other requests cannot name a list before
it exists, so they start idle.

Abstracted: names, messages and timestamps; the tenant (all keys carry it);
`hidden` (only reads depend on it); the claim_lost notification (it concerns
nobody but the loser). The events of one call are a set. Item lookups that fail
and methods that refuse all end in `Refuse`, since each leaves nothing behind.

### Sessions and LoginLimiter

| Variable | In the code |
|---|---|
| `accounts` | rows of `users`: `is_active` and the password the hash is of |
| `sessions`, `resets` | rows of `sessions` and `password_reset_tokens`, by token |
| `issued` | tokens ever drawn (a fresh random token is one never drawn before) |
| `logins`, `asks` | the limiters of `/login` and of `/password-reset/request` |
| `req` | the requests: where they are, what they were sent, what they read |

Nothing here runs in a transaction, so every statement is a step and any other
request may run between two of them. The comment above `PCs` lists the chains:
withSession (`ReadSession`, `Refresh`, `Resolve`) followed by a handler, login,
registration, and both halves of the password reset, whose confirmation ends in
a login of its own (`Verify`, `OpenSession`). `Abandon` ends a request anywhere:
a failed statement, a missing CSRF token, a client that left. `Restart` loses the
requests and the limiters. `CreateUser` is an administrator's new user or one row
of an import. Deadlines are kept as the time left, which needs no clock that grows;
`Tick` lets one unit pass for all of them. The limiter's window is a count and
an age. Each mux makes its own limiters (`api/handlers.go:71`), so `Clients` are
addresses as one server tells them apart. Two history fields of a request are no
part of the code: `bar`, what should keep it from being served, and `before`, the
sessions a reset is to end.

### EmailOutbox

`rows` are the outbox columns, `worker` is `runEmailDelivery` with its batch and
the recipient it read, `server` is where `main` is, `smtp` whether the tenant
has a mail host, `active` the users with `is_active`. `deliverOne` is taken statement by
statement: `ReadRecipient`, `ReadTenant`, then `MarkSkipped`, or `Send` and `MarkSent` or
`MarkFailed`. `StatementFails` may strike at each. `delivered` is what the mail server
took (external), `lost` the deliveries the outbox missed: `Send` may deliver and
still report an error, and a stop or a failed statement may come between it and
`MarkSent`. `main` goes up, draining, waiting, down, or from a listener's failure to
failing and down; after SIGTERM the worker's statements fail, but `mail.Send`,
which takes no context, does not. `created_at` is the order of ids, and rows become
visible in any order.

`MailDelivery` is what all this comes to for each mail: it is pending until it is sent, skipped or
given up; one mail is attempted at a time; an attempt is recorded as what it was, or
forgotten; and a mail the mail server took is attempted again only if that was `missed`.
The refinement mapping reads `fate` and `failures` off the rows, and `attempt` off
the worker between `Send` and its mark. A forgotten failure is not counted, so `MaxEmailAttempts`
bounds the failures on record and not the calls of `mail.Send`.

### NotifyHub

`notes` is how far each notification's transaction has come; `Publish` comes between the
insert and the commit, as `NotificationRepo.Create` does it. `subs` and `full` are the
hub's map and the channels with a wake in their buffer of one; `handler` is the
goroutine of each stream; `stream` is the connection the page believes it has, which may be
cut without the server's knowing. `badge` is the page's (external, but its triggers are in
`notification_badge.html` and `layout.html`): the count shown, the request in flight,
the refresh htmx queues. `due`, a history variable, are the publications a channel
has not passed on.

### ChecklistCreation

`policy` and `members` are what administrators change; `templates` are the committed rows of
one name in the order they became visible, each with its version; `lists` records for each
committed list its template and the template its items were copied from. A creation (`req`)
is `ReadPolicy`, `CheckCreator`, `CheckAssignment`, each reading what is committed then, and
in its transaction `LoadTemplate`, `InsertList`, `CommitList`; the API's and the htmx handler
make the same calls in the same order. A new version (`edit`) is `ReadLatest`,
`LockLatest`, `InsertVersion`, `CommitVersion`. The SELECT ... FOR UPDATE is two steps: the row is
chosen before its lock is waited for, and since nobody changes it PostgreSQL does not
look for a later one. Hence `VersionTaken`: the unique index makes the second of two
writers fail, and the handler answers with an internal error. `Locked` and `Referenced` are the
conflict of FOR UPDATE with the key-share lock of a foreign key. `seen` is history.

## Runs

Deadlock is checked in every run.

| Run | Instance | Shows |
|---|---|---|
| `core` | users cara (creator) and alan, active or not, 2 items, 2 requests; mutations and suspensions, early ones included; no group | `DoneMeansAllChecked`, `ApprovalOnRecord`, `TrailMatchesRow`, `ApproverStaysActive`, `ApproverTold`, `PositionsDense`, `AssigneeStaysActive`, `ItemsLeaveByRemoval`, `DecisionsAreSigned`, and that the store implements the workflow |
| `claims` | the same users, 1 item, 2 requests, a group with any members; mutations, API claims, suspensions | `ClaimsFromExpected`, and that claims leave the audit log (`TrailMatchesRow`), the approver (`ApproverStaysActive`) and the workflow intact |
| `progress` | cara, 1 item, 2 requests of every kind, with fairness | `WaitsAreShort`, `TrailMatchesList`, `RequestsEnd` |
| `sessions` | 1 user, 1 password, 1 client, 2 session tokens, 1 reset token, 2 requests; lifetimes of 2 and 0 ticks, 1 attempt in a window of 0 ticks | `NoServiceAfterEnd`, `ResetRevokes`, `FailuresBounded`, `EndedStaysEnded` |
| `email` | 3 notifications, 1 recipient, batches of 2, 2 attempts; failures, settings, restarts | `StatusTrue`, `MailedTwiceOnlyIfLost`, `SettledForGood`, `ImplementsDelivery`, `EverySettled`, `ShutdownEnds` |
| `badge` | 2 notifications, 2 streams | `NoWakeLost`, `TransactionsEnd`, `BadgeFresh` |
| `creation` | 1 user, 1 group, 1 creation, 2 requests for a version, at most 3 versions and 1 list; policy and members change | `VersionsInOrder`, `CreatorWasAllowed`, `WaitersBlockNobody`, `ImplementsCatalogue`, `RequestsEnd` |
| `ui_claim_audit` | htmx claims only | violated: `TrailMatchesRowAtRest` |
| `repeated_reorder` | one request, reorders may repeat an id | violated: `ItemsLeaveByRemoval` |
| `suspended_assignee` | claims and suspensions | violated: `AssigneeStaysActive` |
| `reset_token_reuse` | the instance of `sessions` | violated: `TokenUsedOnce` |
| `badge_poll` | 2 notifications, 1 stream, the timer not fair | violated: `RestsBetweenPolls` |

The bounds of the store. Two users suffice for every pair of roles to be held by the same or
by different people, the creator being one of them. The row has one lock, and
every race the code is exposed to is between two transactions, hence two
requests. Each request becomes idle again and may be followed by others, so the
runs cover any number of successive requests. Two items give partly checked
lists, renumbering and reordering; the ids bound how many items are ever added
(`used` only grows), so a list also runs out of new ids, after which its edits
go on. Nothing else is bounded. `AnyReorder = FALSE` restricts clients of the
passing runs to reorders that name each item once: the run `repeated_reorder` shows
what the code does with others. `core` and `claims` leave out the htmx claim
(`uiclaim`), which `ui_claim_audit` is about; `progress` has all. With its one item,
an order that names each item is the only one of the right length, so `progress` can
allow any reorder. Two requests are enough for two that wait for each other, and for a lock left behind;
three in a row take three requests, and are left to the proof of `NoDeadlock`.

The bounds of the others. `sessions`: two requests are a race, and a request that
ends may be followed by others; two session tokens are one that ends and one that is opened
meanwhile. A lifetime of two ticks has the three cases the code distinguishes, fresh, due
for renewal, expired; a reset token that expires after its first tick has both. One
attempt and a window of no length are the smallest limits, and every boundary is met.
One password is enough: a
login can fail for a missing or a suspended account, which takes the same path as a wrong
password, and no property of the run speaks of passwords. Tokens and requests are symmetric.
`email`: two attempts are enough for a retry; three rows and batches of two give a batch
that is full and leaves a row out, and one in which a row that can never be read stands before
one that can. `badge`: two notifications give a wake that finds
the channel full, two streams one that is cut while the next is open. `creation`: two
writers after an existing version are the race for a number; `MaxVersions` and `MaxLists` bound
what is begun, not what happens to it.

Each property is shown to have teeth by a mutant: operators marked "Faulty" in
the modules stand for a plausible mistake (`LoadUnlocked` drops FOR UPDATE,
`AddItemKeepsStatus` forgets to reopen), and with the mistake TLC finds the
property violated. They are used by nothing else.

### Fairness

The Go scheduler runs every goroutine that can run; a statement that waits for a row
lock is enabled whenever the lock is free, which happens again and again, and
PostgreSQL serves the queue of a row in order, so it is not overtaken for ever:
that is strong and not weak fairness. So `ChecklistStore` and `ChecklistCreation` have
strong fairness of each request's next statement. Arrivals, administration
and failures are not fair: nothing depends on their happening.

`EmailOutbox` assumes that a statement of the worker comes back, with a result or an
error (`StatementReturns`), and that `main`'s own steps follow. It assumes neither that
any statement ever works, nor that the process is started again, nor that `Send` returns: `smtp.SendMail`
has no deadline and `mail.Send` takes no context, and `main.go:151-153` reckons with a call
that hangs. `ShutdownEnds` holds all the same. `EverySettled` states what it needs as premises: the
process stays up in the end, the batch can be listed at some tick (`WF_vars(Sweep)`), the worker is
out of `Send` again and again, and statements fail for good only at certain rows, `Unreadable`,
fewer than a batch has room for. Then nothing but those stays pending. Each premise is needed.
A mail server that accepts the connection and stays silent blocks the only worker, for all
tenants, until a restart; and a whole batch of rows that cannot be read, being the oldest
at every tick, keeps back all others.

`NotifyHub` assumes that a transaction runs to its end, that the badge's requests are
answered in the end though some fail, and that the timer fires; nothing about the
streams, which may hang or be cut for good. `badge_poll` leaves out the
timer, which only makes the property it refutes easier.

### What the violations show

* **The htmx claim can outrun the audit log.** `handleClaimChecklistUI` calls
  `Claim` outside `WithTx`. A failure between the two statements leaves an
  assignee without a `claimed` event. DESIGN.md:345-347 promises the opposite.
* **A reorder can delete an item.** `ReorderItems` accepts an order of the right
  length that repeats an id; `Save` then soft-deletes the item left out.
* **A claim admitted before a suspension assigns the list to the suspended
  user.** `is_active` is checked once, on arrival; the claim's UPDATE may run
  after `ClearUserAssignments`, and nothing clears it again. Claims alone are to blame:
  without them `AssigneeStaysActive` holds (checked by `core`, proved as
  `OnlyClaimsAssignSuspended`).

* **A reset token can be used twice.** `ConfirmPasswordReset` reads the token, changes
  the password and deletes the token in three statements; of two confirmations in
  flight together both change the password.
* **The badge polls back to back.** The fragment that replaces the badge has a `load` trigger
  of its own, so every answer asks the next question.

Seen while modelling, and stated by no run:

* Two new versions of one template at the same time: one fails with an internal
  error. The comment on `CreateVersion` (`templates.go:24-26`) has lookup and insert
  serialized by the transaction; it is the unique index that saves the order.
* `ports.go:87` and DESIGN.md:59-60 say sessions have no sliding renewal;
  `CurrentUser` renews them.
* The users' CSV export is said to have the import's column order
  (`api/users.go:246-248`); the columns differ.
* A list may be created for a suspended assignee or approver, whom neither handler nor `Create`
  looks at (`api/checklists.go:88-101`, `web/checklists.go:270-283`,
  `store/postgres/checklists.go:26-55`); DESIGN.md:41-44 says that deactivated users can't receive new
  assignments. Such lists are initial states here. Hence "the assignee is active" and "the approver is
  active" are no invariants, and `AssigneeStaysActive` and `ApproverStaysActive` say
  that no step takes a list from an active (or no) one to a suspended one.
* A list created while one of its people is being suspended keeps them: the suspension does not see
  it. The two properties make an exception while such a suspension is under way (`Overtaken`), and no other.
* The policy's verdict and the creator's membership are read apart, so with two groups in
  turn required a creation may pass that no single moment allowed. `CreatorWasAllowed`
  is what holds.

## Proofs

The theorems hold for every `Users`, `Creator`, `ItemIds`,
`Requests`, `Kinds`, `Grouped` and `AnyReorder` that satisfy the named assumptions (a
finite set of item ids; `None` is neither user, item nor request; the creator is
a user). In `ChecklistStoreProofs`:

* `TypeCorrect` — `Spec => []TypeOK`. The lemmas before it say of each domain
  operator that it maps well-typed lists to well-typed lists; the work is in
  positions, which stay natural numbers because `Places` and `ReorderPlaces`
  range over 0..n-1.
* `DoneIsDone` — `Spec => []DoneMeansAllChecked`. The property is not inductive:
  a commit writes what a request computed earlier. `IInv` adds `ListsSettled`,
  that the list a request loaded or is about to save is itself settled. It holds
  because `CheckItem` leaves open only when the last item is ticked, because
  approval does not touch items, and because every creator edit reopens. It needs
  no fact about locks: `Save` writes the status together with all the items.
* `SuspensionEndsApproval` — `Spec => ApproverStaysActive`, an action property that needs an
  invariant: `CommitSuspension` deactivates a user on the strength of an UPDATE that ran
  earlier. `SInv` adds `SuspensionClears`: a suspension beyond that UPDATE has
  recorded the removal or its user is not the approver. It is preserved because
  no step makes anybody the approver of an existing list. This is the fact the
  assignee does not enjoy, which is why `suspended_assignee` fails. Suspensions whose UPDATEs
  are older than the list are the ones the property excepts.
* `OnlyClaimsAssignSuspended` — `Spec => AssigneeStaysActive`, if `Kinds` has no claims. `ClaimsArrive` says that a
  request is in the middle of a claim only if claims are among the kinds; the rest is the
  approver's argument with the other UPDATE of the suspension (`AssigneeCleared`) and the lemmas that
  no domain method names an assignee (`AssigneeNeverSet`).

In `ChecklistRefinementProofs`:

* `StoreImplementsWorkflow` — `Spec => ImplementsWorkflow`. A commit writes a list
  that was edited some steps earlier, so it is a step of the workflow only if the
  row is still the one that was edited. `LInv` says so: `Own(r, q, l, c)` is what
  request `r` has to do with the lock `l` and the row `c` — with a list in
  memory or an UPDATE pending it holds the lock, a loaded list is the row, a saved
  one follows the row by one step of the workflow (`Follows`), a claim that won
  expected the row's assignee. `OthersKeep` is the heart: a step of one request
  that changes the row or the lock leaves the others owning nothing. The domain
  lemmas (`CheckItemChecks`, `ApproveJudges`, ..., `SetItemCheckedEdits`) say which step of
  the workflow each method is.
* `ApprovalsRecorded` — `Spec => []ApprovalOnRecord`, by `RInv`: `Own` also says
  that a saved list is complete only if it has no approver or its events say
  that the row's approver approved it (`Warranted`).
* `NobodyOvertaken` — `Spec => ClaimsFromExpected`, the action property, from
  `LInv`: between the API claim's compare and its commit the row is locked; the htmx
  claim compares and writes in one statement.

* `NoDeadlock` — `Spec => []WaitsAreShort`. `LInv` says which requests must hold the row's lock;
  `Released` says the converse, that whoever the lock names is at a point where it will be
  released, so that no path leaves it behind. The statements that wait with the row
  locked are those of a suspension and of an event's foreign key, and `HolderWaitsForNobody` shows that the lock's
  owner waits for nobody. A suspension may wait for another of the same user, which waits
  for the row at most: hence chains of two.

In `AuditProofs`, the rest of the store's safety properties, from `RecordsKept`: a request about
to commit carries a list and events that are `Filed` with respect to the row. The lemmas
`CheckItemRecorded` to `SetItemCheckedRecorded` show `Recorded` of each domain method: it keeps
the roles, a list enters validating from open and with its event, a log that replays to the
loaded list replays to the new one, dense positions stay dense, and an item that is gone
has its event. `SavedHolds`, from the lock invariant, keeps the row as it was until the commit.

* `ApproversAreTold` (`ApproverTold`), without conditions.
* `PlacesStayDense` (`PositionsDense`) and `ItemsAreRemoved` (`ItemsLeaveByRemoval`), if clients send proper
  reorders (`AnyReorder = FALSE`): an order without repetitions is an injection between two
  finite sets of the same size, so it reaches every item. `repeated_reorder` shows that the
  condition is needed.
* `LogReplaysToList` (`TrailMatchesList`) under the same condition, claims of both kinds included: a claim writes
  nothing but the assignee, and the event of a claim replays to nothing but the assignee (`ReplayApart`).
* `LogReplaysToRow` (`TrailMatchesRow`), if in addition there is no claim on the web page (`ClaimsArrive`), which
  logs itself after its UPDATE is committed; `ui_claim_audit` shows what happens otherwise.
* `DecisionsStaySigned` (`DecisionsAreSigned`), without conditions. `SignedKept`: what a request is about to save over
  a list that is not open carries the decision of the *row's* approver or the creator's reopening.
  The handlers make it true of the list they loaded, the lock keeps that the row, and the
  suspension that removes an approver must have the same lock.

In `SessionsProofs`, for any users, clients, tokens, requests, lifetimes and limits:

* `SessionsTypeCorrect`, `EndedSessionsServeNobody` (`NoServiceAfterEnd`), `ResetsRevoke`
  (`ResetRevokes`), all from one invariant `SInv`. The properties speak of the end of a
  request and of what it met when it arrived, so `SInv` says what holds on the way.
  `Formed`: the rows a request works with exist, and the sessions a reset found belong to its
  user until they are gone. `Barred`: a bar still holds, a request with an ended token has
  that token in `Dead`, a request of a suspended user names that user's session. `Mild`
  is what any step does to the tables: no ended session comes back, none changes hands, no
  reset token becomes valid again. `Undisturbed` derives from it that a step leaves every
  request of others as it should be, and the actions fall into three kinds, `LocalStep`,
  `TableStep` and `GlobalStep`.
* `EndedIsEnded` (`EndedStaysEnded`) needs no invariant: each step that adds a row
  takes a token not yet drawn (`OnlyNewKeys`).

In `LimiterProofs`, which extends it: `LimitersHold` (`FailuresBounded`) from `BInv`. A request let
through found the count below the limit, which leaves room for it and for every other
request (`WithinAllowed`); `RecordFailure` turns an attempt in flight into a counted one,
so their sum does not grow (`WithinCounted`). `Anonymous` adds that the confirmation of a
reset, which shares its last statements with a login, counts for no client.

In `EmailOutboxProofs`, for any batch size, limit and finite set of ids:

* `OutboxTypeCorrect`, `OutboxTellsTheTruth` (`StatusTrue`), `NoNeedlessSecondMail`
  (`MailedTwiceOnlyIfLost`), from `OInv`: rows in the batch are pending (`BatchPending`, the worker
  is the only one who marks rows), a mail reported as accepted was taken (`AcceptedTrue`), and a
  pending row that was delivered is known to be lost or is the one just accepted
  (`DeliveryKnown`). That the loop's current row exists is `LeastExists`, a finite nonempty set
  of numbers having a least element.
* `SettledIsSettled` (`SettledForGood`), from the same invariant: only rows of the batch are marked.
* `OutboxImplementsDelivery` (`ImplementsDelivery`), one lemma for each step that `MailDelivery` sees (`NotifyAsks`,
  `SendAttempts`, `MarkSentRecords`, `MarkFailedRecords`, `MarkSkippedSkips`) and `OutcomeLost` for
  statements that fail and processes that end. That a second attempt finds the mail among
  the missed ones is `DeliveryKnown`.

In `NotifyHubProofs`, for any notifications and streams: `HubTypeCorrect`, which holds the
hub's map to the running handlers, and `WakesSurvive` (`NoWakeLost`), from `WInv`, which
adds that nothing is due to a channel outside the map (`QuietOutside`): a new
subscriber starts with nothing missed.

In `ChecklistCreationProofs`, for any users, groups, requests and bounds:

* `CreatorsWereAllowed` from `PInv`: `seen` covers the present policy and membership, and a group
  a request was sent to look up was granted since it arrived (`Watching`).
* `CreationTypeCorrect` and `VersionsAreInOrder` from `VInv`: the template with id t has version t
  (`Numbered`), a version being inserted is the next one and only one request inserts it
  (`NextInserted`), requests in flight stay below the bounds (`Bounded`), and items come
  from the template they were loaded for (`ItemsLoaded`).
* `VersionsNeverDeadlock` (`WaitersBlockNobody`): FOR UPDATE gives a row to one request (`RowHeldOnce`), so an editor
  that waits at the unique index, behind another that inserted the same version, holds no
  row: it is the first version, where there was none to lock. An editor that waits for the row holds
  nothing yet.
* `CreationImplementsCatalogue` from the same: `CommitVersionMaps` and `CommitListMaps` are the
  two steps that the catalogue sees, every other step leaves its view alone.

TLC checked the invariants on the runs' instances before they were proved (`RecordsKept`, which
speaks of every log a replay may start from, is only proved). The proofs
have a step or a lemma for each action, which cites the domain lemmas it uses.

Only model-checked are the liveness properties: both `RequestsEnd`, `EverySettled`,
`ShutdownEnds`, `TransactionsEnd` and `BadgeFresh`, because liveness under fairness is out
of the proof system's reach.

## Plan

Left to do, in this order:

1. **Several checklists** (`SuspensionLocks`): suspensions that update the
   rows of several lists, their lock order, deadlock detection and rollback.
2. **The page behind the claim** (`ClaimsUI`): what the claimant saw against
   what the handler re-reads; with it, membership removal and the trigger.
3. **User administration**: what an import reports, administrators who suspend each
   other, and, as a run of its own, lists that name suspended people.
4. **Sessions that rest on an old password**: a login that verified the old password opens
   its session after the reset's revocation.

## Not modelled

Configuration (read once), page rendering (keeps no state), the React and Qwik
frontends (clients of the API; the models let clients send anything in any
order), and the tools under `cmd/` other than the server. The tenant is a column of
every key, and the models work inside one. Listing and visibility only read. What the
models take from outside `src/` is PostgreSQL's documented locking, the browser's EventSource
and htmx's triggers, and a mail server that takes a mail or does not.
