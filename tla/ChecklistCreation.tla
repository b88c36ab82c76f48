------------------------- MODULE ChecklistCreation -------------------------
(***************************************************************************)
(* New checklists and new template versions, while administrators change   *)
(* who may create and who belongs to which group.                          *)
(*                                                                         *)
(* The checks of a creation run before its transaction, each reads what is *)
(* committed at that moment, and only the membership of the assignee is    *)
(* looked at once more, by a trigger.  A version number is looked up in    *)
(* one statement and used in another; the lock taken in between is on a    *)
(* row that nobody changes.                                                *)
(***************************************************************************)
EXTENDS Naturals, Sequences, FiniteSets, FiniteSetsExt

CONSTANTS
    Users, Admins,
    Groups,
    Creators,       \* requests that create checklists
    Editors,        \* requests that create template versions
    MaxVersions, MaxLists,      \* bounds
    None

ASSUME AdminsAssumption == Admins \subseteq Users
ASSUME BoundsAssumption == MaxVersions \in Nat /\ MaxLists \in Nat
ASSUME RequestsAssumption == IsFiniteSet(Creators) /\ IsFiniteSet(Editors)
ASSUME NoneAssumption == None \notin Users \cup Groups

VARIABLES
    policy,     \* the tenant's columns: restrict, and the creator group
    members,    \* user_groups
    templates,  \* the committed templates of one name: the version, by id
    lists,      \* committed checklists: template, and whose items were copied
    edit,       \* requests of Editors
    req,        \* requests of Creators
    seen        \* per creation, since it arrived: who the policy let create,
                \* the groups the creator was in (history)

vars == <<policy, members, templates, lists, edit, req, seen>>

\* checklist_creator_group_id may be set while restrict is off, but not be
\* missing while it is on: both handlers insist.
Policies == {p \in [restrict : BOOLEAN, group : Groups \cup {None}] :
                p.restrict => p.group # None}

\* Ids are numbered as rows become visible; nothing depends on their order.
Ids(max) == 1 .. max

Edit == [pc: {"idle", "look", "lock", "insert", "commit"}, latest: 0 .. MaxVersions]
Request == [pc: {"idle", "policy", "membership", "assignment", "load", "insert", "commit"},
            actor: Users \cup {None}, template: 0 .. MaxVersions, group: Groups \cup {None},
            assignee: Users \cup {None}, needs: Groups \cup {None}, items: 0 .. MaxVersions]

NoEdit == [pc |-> "idle", latest |-> 0]
NoRequest == [pc |-> "idle", actor |-> None, template |-> 0, group |-> None,
              assignee |-> None, needs |-> None, items |-> 0]
NothingSeen == [granted |-> {}, joined |-> {}]

GroupsOf(u) == {g \in Groups : <<u, g>> \in members}

\* Whom a policy lets create: everybody, or a group.
Grants(p) == IF p.restrict THEN {p.group} ELSE {None}

Init ==
    /\ policy = [restrict |-> FALSE, group |-> None]
    /\ members \in SUBSET (Users \X Groups)
    /\ templates = <<>>
    /\ lists = <<>>
    /\ edit = [e \in Editors |-> NoEdit]
    /\ req = [c \in Creators |-> NoRequest]
    /\ seen = [c \in Creators |-> NothingSeen]

-----------------------------------------------------------------------------
\* Administration: one statement each.

UpdatePolicy(p) ==
    /\ p \in Policies
    /\ policy' = p
    /\ seen' = [c \in Creators |->
                   IF req[c].pc = "idle" THEN seen[c]
                   ELSE [seen[c] EXCEPT !.granted = @ \cup Grants(p)]]
    /\ UNCHANGED <<members, templates, lists, edit, req>>

AddMember(u, g) ==
    /\ members' = members \cup {<<u, g>>}
    /\ seen' = [c \in Creators |->
                   IF req[c].actor = u THEN [seen[c] EXCEPT !.joined = @ \cup {g}] ELSE seen[c]]
    /\ UNCHANGED <<policy, templates, lists, edit, req>>

RemoveMember(u, g) ==
    /\ members' = members \ {<<u, g>>}
    /\ UNCHANGED <<policy, templates, lists, edit, req, seen>>

-----------------------------------------------------------------------------
\* A new version: the transaction of CreateVersion.

Versions == {templates[t] : t \in DOMAIN templates}

Latest == IF Versions = {} THEN 0 ELSE Max(Versions)

\* FOR UPDATE holds the row of the latest version; the foreign key of a
\* checklist that is being inserted holds the row of its template as well.
HoldsRow(e, v) == v > 0 /\ edit[e].pc \in {"insert", "commit"} /\ edit[e].latest = v

Locked(v) == \E e \in Editors : HoldsRow(e, v)

Referenced(v) ==
    \E c \in Creators : req[c].pc = "commit" /\ templates[req[c].template] = v

InFlight(f) == Cardinality({r \in DOMAIN f : f[r].pc # "idle"})

BeginVersion(e) ==
    /\ edit[e].pc = "idle"
    /\ Len(templates) + InFlight(edit) < MaxVersions
    /\ edit' = [edit EXCEPT ![e] = [NoEdit EXCEPT !.pc = "look"]]
    /\ UNCHANGED <<policy, members, templates, lists, req, seen>>

\* The SELECT picks the row it is going to lock.
ReadLatest(e) ==
    /\ edit[e].pc = "look"
    /\ edit' = [edit EXCEPT ![e].latest = Latest,
                            ![e].pc = IF Latest = 0 THEN "insert" ELSE "lock"]
    /\ UNCHANGED <<policy, members, templates, lists, req, seen>>

\* Faulty: a lock that others may share, FOR SHARE.
LockLatestShared(e) ==
    /\ edit[e].pc = "lock"
    /\ edit' = [edit EXCEPT ![e].pc = "insert"]
    /\ UNCHANGED <<policy, members, templates, lists, req, seen>>

\* The row is unchanged when the lock is granted, so it is returned as it is:
\* the statement does not look again for a later version.
LockLatest(e) ==
    /\ edit[e].pc = "lock"
    /\ ~Locked(edit[e].latest) /\ ~Referenced(edit[e].latest)
    /\ edit' = [edit EXCEPT ![e].pc = "insert"]
    /\ UNCHANGED <<policy, members, templates, lists, req, seen>>

\* Faulty: no unique index stands behind the lookup.
InsertAnyVersion(e) ==
    /\ edit[e].pc = "insert"
    /\ edit' = [edit EXCEPT ![e].pc = "commit"]
    /\ UNCHANGED <<policy, members, templates, lists, req, seen>>

\* UNIQUE (tenant_id, name, version): an insert waits for an open transaction
\* that inserted the same version, and fails if there is a committed one.
InsertVersion(e) ==
    /\ edit[e].pc = "insert"
    /\ edit[e].latest + 1 \notin Versions
    /\ \A o \in Editors \ {e} : edit[o].pc = "commit" => edit[o].latest # edit[e].latest
    /\ edit' = [edit EXCEPT ![e].pc = "commit"]
    /\ UNCHANGED <<policy, members, templates, lists, req, seen>>

EndEdit(e) == edit' = [edit EXCEPT ![e] = NoEdit]

\* Faulty: the failed transaction is left open.
VersionTakenStaysOpen(e) ==
    /\ edit[e].pc = "insert"
    /\ edit[e].latest + 1 \in Versions
    /\ UNCHANGED vars

\* The statement fails, the handler answers with an internal error.
VersionTaken(e) ==
    /\ edit[e].pc = "insert"
    /\ edit[e].latest + 1 \in Versions
    /\ EndEdit(e)
    /\ UNCHANGED <<policy, members, templates, lists, req, seen>>

\* The items, and COMMIT.
CommitVersion(e) ==
    /\ edit[e].pc = "commit"
    /\ templates' = Append(templates, edit[e].latest + 1)
    /\ EndEdit(e)
    /\ UNCHANGED <<policy, members, lists, req, seen>>

-----------------------------------------------------------------------------
\* A new checklist.

Goto(c, pc) == req' = [req EXCEPT ![c].pc = pc]

EndRequest(c) ==
    /\ req' = [req EXCEPT ![c] = NoRequest]
    /\ seen' = [seen EXCEPT ![c] = NothingSeen]

BeginCreate(c, u, t, g, a) ==
    /\ req[c].pc = "idle"
    /\ Len(lists) + InFlight(req) < MaxLists
    /\ req' = [req EXCEPT ![c] =
                  [NoRequest EXCEPT !.pc = "policy", !.actor = u, !.template = t,
                                    !.group = g, !.assignee = a]]
    /\ seen' = [seen EXCEPT ![c] = [granted |-> Grants(policy), joined |-> GroupsOf(u)]]
    /\ UNCHANGED <<policy, members, templates, lists, edit>>

\* Faulty: one of the two handlers does not ask.
AlwaysGranted(c) == TRUE

\* CanCreateChecklist, without the membership it may depend on.
Granted(c) == ~policy.restrict \/ req[c].actor \in Admins

\* tenants.GetByID: what the policy asks of the creator.
ReadPolicy(c) ==
    /\ req[c].pc = "policy"
    /\ req' = IF Granted(c) THEN [req EXCEPT ![c].pc = "assignment"]
              ELSE [req EXCEPT ![c].pc = "membership", ![c].needs = policy.group]
    /\ UNCHANGED <<policy, members, templates, lists, edit, seen>>

\* IsMember of the creator group, read on its own, and the verdict.
CheckCreator(c) ==
    /\ req[c].pc = "membership"
    /\ \/ <<req[c].actor, req[c].needs>> \in members /\ Goto(c, "assignment") /\ UNCHANGED seen
       \/ <<req[c].actor, req[c].needs>> \notin members /\ EndRequest(c)
    /\ UNCHANGED <<policy, members, templates, lists, edit>>

\* ValidateAssignment: somebody is to do it, and a user of a group's list
\* belongs to the group.
Assignable(g, a) ==
    /\ g # None \/ a # None
    /\ g # None /\ a # None => <<a, g>> \in members

CheckAssignment(c) ==
    /\ req[c].pc = "assignment"
    /\ \/ Assignable(req[c].group, req[c].assignee) /\ Goto(c, "load") /\ UNCHANGED seen
       \/ ~Assignable(req[c].group, req[c].assignee) /\ EndRequest(c)
    /\ UNCHANGED <<policy, members, templates, lists, edit>>

\* Faulty: takes the items of the version that is the latest by now.
LoadNewest(c) ==
    /\ req[c].pc = "load"
    /\ req[c].template \in DOMAIN templates
    /\ req' = [req EXCEPT ![c].pc = "insert",
                          ![c].items = Max(DOMAIN templates)]
    /\ UNCHANGED <<policy, members, templates, lists, edit, seen>>

\* Faulty: does not notice that there is no such template.
LoadUnchecked(c) ==
    /\ req[c].pc = "load"
    /\ req' = [req EXCEPT ![c].pc = "insert", ![c].items = req[c].template]
    /\ UNCHANGED <<policy, members, templates, lists, edit, seen>>

\* templates.Get, now in the transaction.  A version appears with all its
\* items and keeps them.
LoadTemplate(c) ==
    /\ req[c].pc = "load"
    /\ req[c].template \in DOMAIN templates
    /\ req' = [req EXCEPT ![c].pc = "insert", ![c].items = req[c].template]
    /\ UNCHANGED <<policy, members, templates, lists, edit, seen>>

NoTemplate(c) ==
    /\ req[c].pc = "load"
    /\ req[c].template \notin DOMAIN templates
    /\ EndRequest(c)
    /\ UNCHANGED <<policy, members, templates, lists, edit>>

\* The trigger lets through a list without a group, too.
TriggerAccepts(c) == req[c].group # None /\ req[c].assignee # None => Assignable(req[c].group, req[c].assignee)

\* The trigger, then the foreign keys: the template's row must be free.
InsertList(c) ==
    /\ req[c].pc = "insert"
    /\ TriggerAccepts(c)
    /\ ~Locked(templates[req[c].template])
    /\ Goto(c, "commit")
    /\ UNCHANGED <<policy, members, templates, lists, edit, seen>>

TriggerRaises(c) ==
    /\ req[c].pc = "insert"
    /\ ~TriggerAccepts(c)
    /\ EndRequest(c)
    /\ UNCHANGED <<policy, members, templates, lists, edit>>

\* Items, the created event, and COMMIT.
CommitList(c) ==
    /\ req[c].pc = "commit"
    /\ lists' = Append(lists, [template |-> req[c].template, items |-> req[c].items])
    /\ EndRequest(c)
    /\ UNCHANGED <<policy, members, templates, edit>>

\* The connection is lost, or a statement fails: WithTx rolls back.
Fail ==
    \/ \E e \in Editors : edit[e].pc # "idle" /\ EndEdit(e) /\ UNCHANGED <<req, seen>>
    \/ \E c \in Creators : req[c].pc # "idle" /\ EndRequest(c) /\ UNCHANGED edit

Administer ==
    \/ \E p \in Policies : UpdatePolicy(p)
    \/ \E u \in Users, g \in Groups : AddMember(u, g) \/ RemoveMember(u, g)

EditStep(e) ==
    \/ ReadLatest(e)
    \/ LockLatest(e)
    \/ InsertVersion(e)
    \/ VersionTaken(e)
    \/ CommitVersion(e)

CreateStep(c) ==
    \/ ReadPolicy(c)
    \/ CheckCreator(c)
    \/ CheckAssignment(c)
    \/ LoadTemplate(c)
    \/ NoTemplate(c)
    \/ InsertList(c)
    \/ TriggerRaises(c)
    \/ CommitList(c)

Next ==
    \/ Administer
    \/ \E e \in Editors : BeginVersion(e) \/ EditStep(e)
    \/ \E c \in Creators :
        \/ CreateStep(c)
        \/ \E u \in Users, t \in Ids(MaxVersions), g \in Groups \cup {None}, a \in Users \cup {None} :
            BeginCreate(c, u, t, g, a)
    \/ Fail /\ UNCHANGED <<policy, members, templates, lists>>

Spec == Init /\ [][Next]_vars

\* A goroutine that can run runs, and a row lock is handed to those who wait.
FairSpec ==
    /\ Spec
    /\ \A e \in Editors : SF_vars(EditStep(e))
    /\ \A c \in Creators : SF_vars(CreateStep(c))

-----------------------------------------------------------------------------
\* Correctness.

\* The state; what a request works with exists.
TypeOK ==
    /\ policy \in Policies
    /\ members \subseteq Users \X Groups
    /\ templates \in Seq(Ids(MaxVersions)) /\ Len(templates) <= MaxVersions
    /\ lists \in Seq([template: DOMAIN templates, items: Ids(MaxVersions)])
    /\ Len(lists) <= MaxLists
    /\ edit \in [Editors -> Edit]
    /\ req \in [Creators -> Request]
    /\ \A c \in Creators : req[c].pc \in {"insert", "commit"} => req[c].template \in DOMAIN templates
    /\ seen \in [Creators -> [granted: SUBSET (Groups \cup {None}), joined: SUBSET Groups]]

\* The versions of a name are 1 .. n, each once, whoever creates them at the
\* same time (CreateVersion's lookup, backed by the unique index).
VersionsInOrder ==
    Versions = 1 .. Len(templates)

\* A list is created only by someone the policy let, as it stood at some time
\* since the request arrived: nothing older decides (canCreateChecklist).
CreatorWasAllowed ==
    \A c \in Creators :
        req[c].pc \in {"assignment", "load", "insert", "commit"} =>
            \/ req[c].actor \in Admins
            \/ None \in seen[c].granted
            \/ seen[c].granted \cap seen[c].joined # {}

\* The templates are an ever-growing list of versions that do not change, and
\* every checklist is a whole copy of one of them.
Catalogue == INSTANCE TemplateCatalogue
    WITH ListIds <- Ids(MaxLists),
         Contents <- Ids(MaxVersions),
         versions <- [v \in Versions |-> CHOOSE t \in DOMAIN templates : templates[t] = v],
         copies <- [l \in DOMAIN lists |->
                       [version |-> templates[lists[l].template], items |-> lists[l].items]]

ImplementsCatalogue == Catalogue!Spec

\* e waits for o: for the latest row, or for the fate of the same version.
EditorWaitsFor(e, o) ==
    \/ edit[e].pc = "lock" /\ HoldsRow(o, edit[e].latest)
    \/ edit[e].pc = "insert" /\ edit[o].pc = "commit" /\ edit[o].latest = edit[e].latest

\* c waits for o: for the template's row.
CreatorWaitsFor(c, o) ==
    req[c].pc = "insert" /\ HoldsRow(o, templates[req[c].template])

\* No deadlock: an editor that waits keeps nobody waiting.  One that holds the
\* latest row and goes on to the unique index could, were the row's lock not
\* what keeps others from that index entry (CreateVersion).  Creations wait
\* before they hold anything.
WaitersBlockNobody ==
    \A o, p \in Editors : EditorWaitsFor(o, p) =>
        /\ \A e \in Editors : ~EditorWaitsFor(e, o)
        /\ \A c \in Creators : ~CreatorWaitsFor(c, o)

\* Nobody waits for ever: not for the latest row, not for a version being
\* inserted, not for a template's row.
RequestsEnd ==
    /\ \A e \in Editors : edit[e].pc # "idle" ~> edit[e].pc = "idle"
    /\ \A c \in Creators : req[c].pc # "idle" ~> req[c].pc = "idle"
=============================================================================
