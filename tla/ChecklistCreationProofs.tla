---------------------- MODULE ChecklistCreationProofs ----------------------
(***************************************************************************)
(* Theorems about ChecklistCreation for any users, groups and requests and *)
(* any number of versions.                                                 *)
(***************************************************************************)
EXTENDS ChecklistCreation, FiniteSetTheorems, TLAPS

-----------------------------------------------------------------------------
\* Who may create.

ActiveRequests == {c \in Creators : req[c].pc # "idle"}

\* What a creation has seen includes what holds now; what it remembers of the
\* policy is among what it has seen.
Watching ==
    \A c \in ActiveRequests :
        /\ Grants(policy) \subseteq seen[c].granted
        /\ GroupsOf(req[c].actor) \subseteq seen[c].joined
        /\ req[c].pc = "membership" => req[c].needs \in seen[c].granted \cap Groups

\* The state as far as the policy is concerned.
Histories == [Creators -> [granted: SUBSET (Groups \cup {None}), joined: SUBSET Groups]]

PInv ==
    /\ policy \in Policies
    /\ req \in [Creators -> Request]
    /\ seen \in Histories
    /\ Watching
    /\ CreatorWasAllowed

LEMMA PolicyInit == Init => PInv
  <1> SUFFICES ASSUME Init PROVE PInv
    OBVIOUS
  <1>1. NoRequest \in Request
    BY BoundsAssumption DEF NoRequest, Request
  <1> QED
    BY <1>1 DEF Init, PInv, Policies, Histories, Watching, CreatorWasAllowed, ActiveRequests,
                NoRequest, NothingSeen

\* A policy grants to everybody or to an existing group.
LEMMA GrantsType ==
    ASSUME NEW p \in Policies
    PROVE  Grants(p) \subseteq Groups \cup {None} /\ (p.restrict => p.group \in Groups)
  BY DEF Grants, Policies

LEMMA UpdatePolicyKeeps ==
    ASSUME PInv, NEW p, UpdatePolicy(p)
    PROVE  PInv'
  <1> USE DEF PInv
  <1>1. p \in Policies /\ policy' = p /\ UNCHANGED <<members, req>>
    BY DEF UpdatePolicy
  <1>2. ASSUME NEW c \in Creators, req[c].pc # "idle"
        PROVE  /\ seen'[c].granted = seen[c].granted \cup Grants(p)
               /\ seen'[c].joined = seen[c].joined
    BY <1>2 DEF UpdatePolicy, Histories
  <1>3. seen' \in Histories
    BY <1>1, GrantsType DEF UpdatePolicy, Histories
  <1>4. Watching'
    BY <1>1, <1>2 DEF Watching, ActiveRequests, GroupsOf
  <1>5. CreatorWasAllowed'
    BY <1>1, <1>2 DEF CreatorWasAllowed
  <1> QED
    BY <1>1, <1>3, <1>4, <1>5

LEMMA AddMemberKeeps ==
    ASSUME PInv, NEW u \in Users, NEW g \in Groups, AddMember(u, g)
    PROVE  PInv'
  <1> USE DEF PInv
  <1>1. members' = members \cup {<<u, g>>} /\ UNCHANGED <<policy, req>>
    BY DEF AddMember
  <1>2. ASSUME NEW c \in Creators
        PROVE  /\ seen'[c].granted = seen[c].granted
               /\ seen'[c].joined = IF req[c].actor = u THEN seen[c].joined \cup {g}
                                    ELSE seen[c].joined
    BY DEF AddMember, Histories
  <1>3. seen' \in Histories
    BY DEF AddMember, Histories
  <1>4. \A v : GroupsOf(v)' = IF v = u THEN GroupsOf(v) \cup {g} ELSE GroupsOf(v)
    BY <1>1 DEF GroupsOf
  <1>5. Watching'
    BY <1>1, <1>2, <1>4 DEF Watching, ActiveRequests
  <1>6. CreatorWasAllowed'
    BY <1>1, <1>2 DEF CreatorWasAllowed
  <1> QED
    BY <1>1, <1>3, <1>5, <1>6

LEMMA RemoveMemberKeeps ==
    ASSUME PInv, NEW u, NEW g, RemoveMember(u, g)
    PROVE  PInv'
  <1>1. \A v : GroupsOf(v)' \subseteq GroupsOf(v)
    BY DEF RemoveMember, GroupsOf
  <1> QED
    BY <1>1 DEF RemoveMember, PInv, Watching, ActiveRequests, CreatorWasAllowed

\* A request that ends, by itself or because it failed.
LEMMA EndRequestKeeps ==
    ASSUME PInv, NEW c \in Creators, EndRequest(c), UNCHANGED <<policy, members>>
    PROVE  PInv'
  <1> USE DEF PInv
  <1>1. NoRequest \in Request /\ NoRequest.pc = "idle"
    BY BoundsAssumption DEF NoRequest, Request
  <1>2. /\ req' \in [Creators -> Request] /\ req'[c].pc = "idle"
        /\ \A d \in Creators \ {c} : req'[d] = req[d] /\ seen'[d] = seen[d]
        /\ seen' \in Histories
    BY <1>1 DEF EndRequest, NothingSeen, Histories
  <1>3. Watching'
    BY <1>2 DEF Watching, ActiveRequests, GroupsOf
  <1>4. CreatorWasAllowed'
    BY <1>2 DEF CreatorWasAllowed
  <1> QED
    BY <1>2, <1>3, <1>4

\* A request that goes on, with the actor it has; c may be where it has to be
\* allowed only if it is.
LEMMA OnwardKeeps ==
    ASSUME PInv, NEW c \in Creators, NEW q \in Request, req[c].pc # "idle",
           req' = [req EXCEPT ![c] = q], q.actor = req[c].actor,
           UNCHANGED <<policy, members, seen>>,
           q.pc = "membership" => q.needs \in seen[c].granted \cap Groups,
           q.pc \in {"assignment", "load", "insert", "commit"} =>
               \/ q.actor \in Admins
               \/ None \in seen[c].granted
               \/ seen[c].granted \cap seen[c].joined # {}
    PROVE  PInv'
  <1> USE DEF PInv
  <1>1. /\ req' \in [Creators -> Request] /\ req'[c] = q
        /\ \A d \in Creators \ {c} : req'[d] = req[d]
    OBVIOUS
  <1>2. Watching'
    BY <1>1 DEF Watching, ActiveRequests, GroupsOf
  <1>3. CreatorWasAllowed'
    BY <1>1 DEF CreatorWasAllowed
  <1> QED
    BY <1>1, <1>2, <1>3

LEMMA BeginCreateKeeps ==
    ASSUME PInv, NEW c \in Creators, NEW u \in Users, NEW t \in Ids(MaxVersions),
           NEW g \in Groups \cup {None}, NEW a \in Users \cup {None}, BeginCreate(c, u, t, g, a)
    PROVE  PInv'
  <1> USE DEF PInv
  <1> DEFINE q == [NoRequest EXCEPT !.pc = "policy", !.actor = u, !.template = t,
                                    !.group = g, !.assignee = a]
  <1>1. q \in Request /\ q.pc = "policy" /\ q.actor = u
    <2>1. t \in 0 .. MaxVersions
      BY BoundsAssumption DEF Ids
    <2>2. NoRequest \in Request
      BY BoundsAssumption DEF NoRequest, Request
    <2> QED
      BY <2>1, <2>2 DEF Request
  <1>2. /\ req' = [req EXCEPT ![c] = q] /\ UNCHANGED <<policy, members>>
        /\ seen' = [seen EXCEPT ![c] = [granted |-> Grants(policy), joined |-> GroupsOf(u)]]
    BY DEF BeginCreate
  <1> HIDE DEF q
  <1>3. /\ req' \in [Creators -> Request] /\ req'[c] = q
        /\ \A d \in Creators \ {c} : req'[d] = req[d] /\ seen'[d] = seen[d]
        /\ seen'[c] = [granted |-> Grants(policy), joined |-> GroupsOf(u)]
        /\ seen' \in Histories
    BY <1>1, <1>2, GrantsType DEF Histories, GroupsOf
  <1>4. Watching'
    BY <1>1, <1>2, <1>3 DEF Watching, ActiveRequests, GroupsOf
  <1>5. CreatorWasAllowed'
    BY <1>1, <1>3 DEF CreatorWasAllowed
  <1> QED
    BY <1>2, <1>3, <1>4, <1>5

LEMMA ReadPolicyKeeps ==
    ASSUME PInv, NEW c \in Creators, ReadPolicy(c)
    PROVE  PInv'
  <1> USE DEF PInv
  <1>1. Grants(policy) \subseteq seen[c].granted
    BY DEF ReadPolicy, Watching, ActiveRequests
  <1>2. CASE Granted(c)
    <2>1. req' = [req EXCEPT ![c] = [req[c] EXCEPT !.pc = "assignment"]]
      BY <1>2 DEF ReadPolicy
    <2>2. [req[c] EXCEPT !.pc = "assignment"] \in Request
      BY DEF Request
    <2>3. req[c].actor \in Admins \/ None \in seen[c].granted
      BY <1>1, <1>2 DEF Granted, Grants
    <2> QED
      BY <2>1, <2>2, <2>3, OnwardKeeps DEF ReadPolicy, Request
  <1>3. CASE ~Granted(c)
    <2>1. policy.restrict /\ policy.group \in Groups
      BY <1>3, GrantsType DEF Granted
    <2>2. policy.group \in seen[c].granted
      BY <1>1, <2>1 DEF Grants
    <2>3. req' = [req EXCEPT ![c] = [req[c] EXCEPT !.pc = "membership", !.needs = policy.group]]
      BY <1>3 DEF ReadPolicy
    <2> DEFINE q == [req[c] EXCEPT !.pc = "membership", !.needs = policy.group]
    <2>4. /\ q \in Request /\ q.pc = "membership" /\ q.needs = policy.group
          /\ q.actor = req[c].actor
      BY <2>1 DEF Request
    <2>5. req' = [req EXCEPT ![c] = q]
      BY <2>3
    <2> HIDE DEF q
    <2> QED
      BY <2>1, <2>2, <2>4, <2>5, OnwardKeeps DEF ReadPolicy
  <1> QED
    BY <1>2, <1>3

\* Going on to the next statement.
LEMMA GotoKeeps ==
    ASSUME PInv, NEW c \in Creators, NEW pc \in {"assignment", "load", "insert", "commit"},
           Goto(c, pc), req[c].pc # "idle", UNCHANGED <<policy, members, seen>>,
           \/ req[c].actor \in Admins
           \/ None \in seen[c].granted
           \/ seen[c].granted \cap seen[c].joined # {}
    PROVE  PInv'
  <1>1. req' = [req EXCEPT ![c] = [req[c] EXCEPT !.pc = pc]]
    BY DEF Goto
  <1>2. /\ [req[c] EXCEPT !.pc = pc] \in Request
        /\ [req[c] EXCEPT !.pc = pc].pc = pc
        /\ [req[c] EXCEPT !.pc = pc].actor = req[c].actor
    BY DEF PInv, Request
  <1> QED
    BY <1>1, <1>2, OnwardKeeps

LEMMA CheckCreatorKeeps ==
    ASSUME PInv, NEW c \in Creators, CheckCreator(c)
    PROVE  PInv'
  <1>1. CASE EndRequest(c)
    BY <1>1, EndRequestKeeps DEF CheckCreator
  <1>2. CASE <<req[c].actor, req[c].needs>> \in members /\ Goto(c, "assignment") /\ UNCHANGED seen
    <2>1. /\ req[c].needs \in seen[c].granted \cap Groups
          /\ GroupsOf(req[c].actor) \subseteq seen[c].joined
      BY DEF CheckCreator, PInv, Watching, ActiveRequests
    <2>2. req[c].needs \in seen[c].granted \cap seen[c].joined
      BY <1>2, <2>1 DEF GroupsOf
    <2> QED
      BY <1>2, <2>2, GotoKeeps DEF CheckCreator
  <1> QED
    BY <1>1, <1>2 DEF CheckCreator

LEMMA LoadTemplateKeeps ==
    ASSUME PInv, NEW c \in Creators, LoadTemplate(c)
    PROVE  PInv'
  <1> DEFINE q == [req[c] EXCEPT !.pc = "insert", !.items = req[c].template]
  <1>1. req' = [req EXCEPT ![c] = q]
    BY DEF LoadTemplate
  <1>2. q \in Request /\ q.pc = "insert" /\ q.actor = req[c].actor
    BY DEF PInv, Request
  <1> HIDE DEF q
  <1> QED
    BY <1>1, <1>2, OnwardKeeps DEF LoadTemplate, PInv, CreatorWasAllowed

LEMMA CreateStepKeeps ==
    ASSUME PInv, NEW c \in Creators, CreateStep(c)
    PROVE  PInv'
  <1>1. CASE ReadPolicy(c)
    BY <1>1, ReadPolicyKeeps
  <1>2. CASE CheckCreator(c)
    BY <1>2, CheckCreatorKeeps
  <1>3. CASE CheckAssignment(c)
    BY <1>3, EndRequestKeeps, GotoKeeps DEF CheckAssignment, PInv, CreatorWasAllowed
  <1>4. CASE LoadTemplate(c)
    BY <1>4, LoadTemplateKeeps
  <1>5. CASE NoTemplate(c) \/ TriggerRaises(c) \/ CommitList(c)
    BY <1>5, EndRequestKeeps DEF NoTemplate, TriggerRaises, CommitList
  <1>6. CASE InsertList(c)
    BY <1>6, GotoKeeps DEF InsertList, PInv, CreatorWasAllowed
  <1> QED
    BY <1>1, <1>2, <1>3, <1>4, <1>5, <1>6 DEF CreateStep

LEMMA PolicyStep == PInv /\ [Next]_vars => PInv'
  <1> SUFFICES ASSUME PInv, [Next]_vars PROVE PInv'
    OBVIOUS
  <1>1. CASE Administer
    BY <1>1, UpdatePolicyKeeps, AddMemberKeeps, RemoveMemberKeeps DEF Administer
  <1>2. ASSUME NEW c \in Creators, NEW u \in Users, NEW t \in Ids(MaxVersions),
               NEW g \in Groups \cup {None}, NEW a \in Users \cup {None}, BeginCreate(c, u, t, g, a)
        PROVE  PInv'
    BY <1>2, BeginCreateKeeps
  <1>3. ASSUME NEW c \in Creators, CreateStep(c) PROVE PInv'
    BY <1>3, CreateStepKeeps
  <1>4. CASE Fail /\ UNCHANGED <<policy, members, templates, lists>>
    <2>1. CASE UNCHANGED <<req, seen>>
      BY <1>4, <2>1 DEF PInv, Watching, ActiveRequests, GroupsOf, CreatorWasAllowed
    <2>2. ASSUME NEW c \in Creators, EndRequest(c) PROVE PInv'
      BY <1>4, <2>2, EndRequestKeeps
    <2> QED
      BY <1>4, <2>1, <2>2 DEF Fail
  <1>5. ASSUME NEW e \in Editors, BeginVersion(e) \/ EditStep(e) PROVE PInv'
    <2>1. UNCHANGED <<policy, members, req, seen>>
      BY <1>5 DEF BeginVersion, EditStep, ReadLatest, LockLatest, InsertVersion, VersionTaken,
                  CommitVersion
    <2> QED
      BY <2>1 DEF PInv, Watching, ActiveRequests, GroupsOf, CreatorWasAllowed
  <1>6. CASE UNCHANGED vars
    BY <1>6 DEF vars, PInv, Watching, ActiveRequests, GroupsOf, CreatorWasAllowed
  <1> QED
    BY <1>1, <1>2, <1>3, <1>4, <1>5, <1>6 DEF Next

\* Whatever administrators do while a creation runs, its creator was an
\* administrator, or the policy was open at some time since the request
\* arrived, or required a group the creator was in at some such time.
THEOREM CreatorsWereAllowed == Spec => []CreatorWasAllowed
  <1>1. PInv => CreatorWasAllowed
    BY DEF PInv
  <1> QED
    BY PolicyInit, PolicyStep, <1>1, PTL DEF Spec

-----------------------------------------------------------------------------
\* How many requests are in flight.

\* What a change of request x does to their number.
Counted(f, h, x) ==
    /\ InFlight(f) \in Nat /\ InFlight(h) \in Nat
    /\ f[x].pc # "idle" => InFlight(f) > 0
    /\ (f[x].pc = "idle" <=> h[x].pc = "idle") => InFlight(h) = InFlight(f)
    /\ f[x].pc = "idle" /\ h[x].pc # "idle" => InFlight(h) = InFlight(f) + 1
    /\ f[x].pc # "idle" /\ h[x].pc = "idle" => InFlight(h) = InFlight(f) - 1

LEMMA InFlightChanges ==
    ASSUME NEW R, IsFiniteSet(R), NEW f, DOMAIN f = R, NEW h, DOMAIN h = R,
           NEW x \in R, \A y \in R \ {x} : h[y] = f[y]
    PROVE  Counted(f, h, x)
  <1> DEFINE F == {r \in R : f[r].pc # "idle"}
             H == {r \in R : h[r].pc # "idle"}
  <1>1. IsFiniteSet(F) /\ IsFiniteSet(H)
    BY FS_Subset
  <1>2. InFlight(f) = Cardinality(F) /\ InFlight(h) = Cardinality(H)
    BY DEF InFlight
  <1>3. Cardinality(F) \in Nat /\ Cardinality(H) \in Nat
    BY <1>1, FS_CardinalityType
  <1>4. (f[x].pc = "idle" <=> h[x].pc = "idle") => H = F
    OBVIOUS
  <1>5. f[x].pc = "idle" /\ h[x].pc # "idle" => H = F \cup {x} /\ x \notin F
    OBVIOUS
  <1>6. f[x].pc # "idle" /\ h[x].pc = "idle" => H = F \ {x} /\ x \in F
    OBVIOUS
  <1>7. f[x].pc # "idle" => F # {}
    OBVIOUS
  <1>8. F # {} => Cardinality(F) > 0
    BY <1>1, <1>3, FS_EmptySet
  <1>9. /\ x \notin F => Cardinality(F \cup {x}) = Cardinality(F) + 1
        /\ x \in F => Cardinality(F \ {x}) = Cardinality(F) - 1
    BY <1>1, FS_AddElement, FS_RemoveElement
  <1> HIDE DEF F, H
  <1> QED
    BY <1>2, <1>3, <1>4, <1>5, <1>6, <1>7, <1>8, <1>9 DEF Counted

-----------------------------------------------------------------------------
\* Versions.

\* Requests in flight and rows together stay within the bounds.
Bounded ==
    /\ Len(templates) + InFlight(edit) <= MaxVersions
    /\ Len(lists) + InFlight(req) <= MaxLists

\* The n-th committed template has version n.
Numbered == \A t \in DOMAIN templates : templates[t] = t

\* An uncommitted version is the next one, and there is only one.
NextInserted ==
    \A e \in Editors :
        /\ edit[e].latest <= Len(templates)
        /\ edit[e].pc = "commit" =>
              /\ edit[e].latest = Len(templates)
              /\ \A o \in Editors \ {e} : edit[o].pc # "commit"

\* A creation that runs names a template; the items it loaded are that one's.
ItemsLoaded ==
    \A c \in ActiveRequests :
        /\ req[c].template \in Ids(MaxVersions)
        /\ req[c].pc \in {"insert", "commit"} => req[c].items = req[c].template

VInv == TypeOK /\ Bounded /\ Numbered /\ NextInserted /\ ItemsLoaded

LEMMA VersionsNumbered ==
    ASSUME TypeOK, Numbered
    PROVE  /\ Versions = 1 .. Len(templates)
           /\ Latest = Len(templates)
           /\ DOMAIN templates = 1 .. Len(templates)
           /\ Len(templates) \in Nat
  <1>1. DOMAIN templates = 1 .. Len(templates) /\ Len(templates) \in Nat
    BY DEF TypeOK
  <1>2. Versions = 1 .. Len(templates)
    BY <1>1 DEF Versions, Numbered
  <1>3. Latest = Len(templates)
    <2>1. CASE Len(templates) = 0
      BY <1>2, <2>1 DEF Latest
    <2>2. CASE Len(templates) > 0
      <3> DEFINE n == Len(templates)
      <3>1. n \in 1 .. n /\ \A y \in 1 .. n : n >= y
        BY <1>1, <2>2
      <3>2. ASSUME NEW x \in 1 .. n, \A y \in 1 .. n : x >= y PROVE x = n
        <4>1. x >= n /\ x <= n /\ x \in Nat /\ n \in Nat
          BY <1>1, <3>1, <3>2
        <4> HIDE DEF n
        <4> QED
          BY <4>1
      <3>3. Max(1 .. n) = n
        BY <3>1, <3>2 DEF Max
      <3>4. 1 .. n # {}
        BY <3>1
      <3> QED
        BY <1>2, <3>3, <3>4 DEF Latest
    <2> QED
      BY <1>1, <2>1, <2>2
  <1> QED
    BY <1>1, <1>2, <1>3

LEMMA VersionsInit == Init => VInv
  <1> SUFFICES ASSUME Init PROVE VInv
    OBVIOUS
  <1>1. PInv
    BY PolicyInit
  <1>2. InFlight(edit) = 0 /\ InFlight(req) = 0
    <2>1. {e \in Editors : edit[e].pc # "idle"} = {} /\ {c \in Creators : req[c].pc # "idle"} = {}
      BY DEF Init, NoEdit, NoRequest
    <2>2. DOMAIN edit = Editors /\ DOMAIN req = Creators
      BY DEF Init
    <2> QED
      BY <2>1, <2>2, FS_EmptySet DEF InFlight
  <1>3. edit \in [Editors -> Edit]
    BY BoundsAssumption DEF Init, NoEdit, Edit
  <1>4. TypeOK
    BY <1>1, <1>3, BoundsAssumption DEF Init, TypeOK, PInv, Histories, NoRequest
  <1>5. Bounded
    BY <1>2, BoundsAssumption DEF Init, Bounded
  <1> QED
    BY <1>4, <1>5 DEF Init, VInv, Numbered, NextInserted, ItemsLoaded, ActiveRequests, NoEdit,
                      NoRequest

\* An editor's statement that commits nothing.
LEMMA EditorKeeps ==
    ASSUME VInv, NEW e \in Editors, NEW d \in Edit, edit' = [edit EXCEPT ![e] = d],
           UNCHANGED <<policy, members, templates, lists, req, seen>>,
           d.latest <= Len(templates),
           d.pc # "idle" /\ edit[e].pc = "idle" => Len(templates) + InFlight(edit) < MaxVersions,
           d.pc = "commit" =>
               d.latest = Len(templates) /\ \A o \in Editors \ {e} : edit[o].pc # "commit"
    PROVE  VInv'
  <1> USE DEF VInv
  <1>1. /\ edit' \in [Editors -> Edit] /\ edit'[e] = d
        /\ \A o \in Editors \ {e} : edit'[o] = edit[o]
        /\ DOMAIN edit = Editors /\ DOMAIN edit' = Editors
    BY DEF TypeOK
  <1>2. TypeOK'
    BY <1>1 DEF TypeOK
  <1>3. Bounded'
    <2>1. Counted(edit, edit', e)
      BY <1>1, InFlightChanges, RequestsAssumption
    <2>2. Len(templates) \in Nat /\ MaxVersions \in Nat
      BY BoundsAssumption DEF TypeOK
    <2> QED
      BY <1>1, <2>1, <2>2 DEF Bounded, Counted
  <1>4. NextInserted'
    BY <1>1 DEF NextInserted
  <1>5. (Numbered /\ ItemsLoaded)'
    BY DEF Numbered, ItemsLoaded, ActiveRequests
  <1> QED
    BY <1>2, <1>3, <1>4, <1>5

LEMMA EditStepKeeps ==
    ASSUME VInv, NEW e \in Editors, BeginVersion(e) \/ EditStep(e) \/ EndEdit(e),
           ~CommitVersion(e), UNCHANGED <<policy, members, templates, lists, req, seen>>
    PROVE  VInv'
  <1>1. /\ edit[e] \in Edit /\ edit[e].latest <= Len(templates)
        /\ Versions = 1 .. Len(templates) /\ Latest = Len(templates) /\ Len(templates) \in Nat
        /\ Len(templates) <= MaxVersions /\ MaxVersions \in Nat
    BY VersionsNumbered, BoundsAssumption DEF VInv, TypeOK, NextInserted
  <1>2. NoEdit \in Edit /\ NoEdit.latest = 0 /\ NoEdit.pc = "idle"
    BY BoundsAssumption DEF NoEdit, Edit
  <1>3. CASE BeginVersion(e)
    <2> DEFINE d == [NoEdit EXCEPT !.pc = "look"]
    <2>1. d \in Edit /\ d.latest = 0 /\ d.pc = "look"
      BY <1>2 DEF Edit
    <2>2. edit' = [edit EXCEPT ![e] = d] /\ Len(templates) + InFlight(edit) < MaxVersions
      BY <1>3 DEF BeginVersion
    <2> HIDE DEF d
    <2>3. d.latest <= Len(templates)
      BY <1>1, <2>1
    <2> QED
      BY <2>1, <2>2, <2>3, EditorKeeps
  <1>4. CASE ReadLatest(e)
    <2> DEFINE pc == IF Latest = 0 THEN "insert" ELSE "lock"
               d == [edit[e] EXCEPT !.latest = Latest, !.pc = pc]
    <2>1. pc \in {"insert", "lock"}
      OBVIOUS
    <2>2. edit' = [edit EXCEPT ![e] = d] /\ edit[e].pc = "look"
      BY <1>4 DEF ReadLatest
    <2>3. Latest \in 0 .. MaxVersions /\ Latest <= Len(templates)
      BY <1>1
    <2> HIDE DEF pc
    <2>4. d \in Edit /\ d.latest <= Len(templates) /\ d.pc \in {"insert", "lock"}
      BY <1>1, <2>1, <2>3 DEF Edit
    <2> HIDE DEF d
    <2> QED
      BY <2>2, <2>4, EditorKeeps
  <1>5. CASE LockLatest(e)
    <2> DEFINE d == [edit[e] EXCEPT !.pc = "insert"]
    <2>1. edit' = [edit EXCEPT ![e] = d]
      BY <1>5 DEF LockLatest
    <2>2. d \in Edit /\ d.latest = edit[e].latest /\ d.pc = "insert"
      BY <1>1 DEF Edit
    <2> HIDE DEF d
    <2> QED
      BY <1>1, <1>5, <2>1, <2>2, EditorKeeps DEF LockLatest
  <1>6. CASE InsertVersion(e)
    <2> DEFINE d == [edit[e] EXCEPT !.pc = "commit"]
    <2>1. edit' = [edit EXCEPT ![e] = d]
      BY <1>6 DEF InsertVersion
    <2>2. d \in Edit /\ d.latest = edit[e].latest /\ d.pc = "commit"
      BY <1>1 DEF Edit
    <2>3. edit[e].latest = Len(templates)
      BY <1>1, <1>6 DEF InsertVersion, Edit
    <2>4. \A o \in Editors \ {e} : edit[o].pc # "commit"
      BY <1>6, <2>3 DEF InsertVersion, VInv, NextInserted
    <2> HIDE DEF d
    <2> QED
      BY <1>1, <1>6, <2>1, <2>2, <2>3, <2>4, EditorKeeps DEF InsertVersion
  <1>7. CASE EndEdit(e)
    <2>1. NoEdit.latest <= Len(templates)
      BY <1>1, <1>2
    <2> QED
      BY <1>2, <1>7, <2>1, EditorKeeps DEF EndEdit
  <1>8. CASE VersionTaken(e)
    BY <1>7, <1>8 DEF VersionTaken
  <1> QED
    BY <1>3, <1>4, <1>5, <1>6, <1>7, <1>8 DEF EditStep

\* What CommitVersion commits.
LEMMA CommitVersionEffect ==
    ASSUME VInv, NEW e \in Editors, CommitVersion(e)
    PROVE  /\ templates' = Append(templates, Len(templates) + 1)
           /\ Len(templates') = Len(templates) + 1
           /\ DOMAIN templates' = 1 .. Len(templates) + 1
           /\ \A t \in DOMAIN templates : t \in DOMAIN templates' /\ templates'[t] = templates[t]
           /\ templates'[Len(templates) + 1] = Len(templates) + 1
           /\ Len(templates) \in Nat /\ DOMAIN templates = 1 .. Len(templates)
           /\ Len(templates) + 1 \in Ids(MaxVersions)
           /\ edit' \in [Editors -> Edit] /\ edit'[e] = NoEdit
           /\ \A o \in Editors \ {e} : edit'[o] = edit[o]
           /\ Len(templates') + InFlight(edit') <= MaxVersions
           /\ templates' \in Seq(Ids(MaxVersions)) /\ Len(templates') <= MaxVersions
  <1> USE DEF VInv
  <1>1. templates' = Append(templates, Len(templates) + 1)
    BY DEF CommitVersion, NextInserted
  <1>2. /\ templates \in Seq(Ids(MaxVersions)) /\ Len(templates) \in Nat
        /\ DOMAIN templates = 1 .. Len(templates)
    BY DEF TypeOK
  <1>3. /\ Len(templates') = Len(templates) + 1
        /\ DOMAIN templates' = 1 .. Len(templates) + 1
        /\ \A t \in DOMAIN templates : t \in DOMAIN templates' /\ templates'[t] = templates[t]
        /\ templates'[Len(templates) + 1] = Len(templates) + 1
    BY <1>1, <1>2
  <1>4. NoEdit \in Edit /\ NoEdit.pc = "idle"
    BY BoundsAssumption DEF NoEdit, Edit
  <1>5. /\ edit' \in [Editors -> Edit] /\ edit'[e] = NoEdit
        /\ \A o \in Editors \ {e} : edit'[o] = edit[o]
        /\ DOMAIN edit = Editors /\ DOMAIN edit' = Editors
        /\ edit[e].pc = "commit"
    BY <1>4 DEF CommitVersion, EndEdit, TypeOK
  <1>6. Counted(edit, edit', e)
    BY <1>5, InFlightChanges, RequestsAssumption
  <1>7. InFlight(edit) > 0 /\ InFlight(edit') = InFlight(edit) - 1 /\ InFlight(edit) \in Nat
    BY <1>4, <1>5, <1>6 DEF Counted
  <1>8. Len(templates) + InFlight(edit) <= MaxVersions
    BY DEF Bounded
  <1>9. Len(templates) + 1 \in Ids(MaxVersions)
    BY <1>2, <1>7, <1>8, BoundsAssumption DEF Ids
  <1>10. Len(templates') + InFlight(edit') <= MaxVersions
    BY <1>2, <1>3, <1>7, <1>8, BoundsAssumption
  <1>11. templates' \in Seq(Ids(MaxVersions)) /\ Len(templates') <= MaxVersions
    BY <1>1, <1>2, <1>3, <1>9, BoundsAssumption DEF Ids
  <1> QED
    BY <1>1, <1>2, <1>3, <1>5, <1>9, <1>10, <1>11

LEMMA SequencesWiden ==
    ASSUME NEW S, NEW T, S \subseteq T, NEW s \in Seq(S)
    PROVE  s \in Seq(T)
  <1>1. \A i \in 1 .. Len(s) : s[i] \in T
    OBVIOUS
  <1> QED
    BY <1>1

LEMMA CommitVersionKeeps ==
    ASSUME VInv, NEW e \in Editors, CommitVersion(e)
    PROVE  VInv'
  <1> USE DEF VInv
  <1>1. UNCHANGED <<policy, members, lists, req, seen>>
    BY DEF CommitVersion
  <1>2. edit[e].pc = "commit" /\ \A o \in Editors \ {e} : edit[o].pc # "commit"
    BY DEF CommitVersion, NextInserted
  <1>3. TypeOK'
    <2>1. templates' \in Seq(Ids(MaxVersions)) /\ Len(templates') <= MaxVersions
      BY CommitVersionEffect
    <2>2. lists \in Seq([template: DOMAIN templates', items: Ids(MaxVersions)])
      <3>1. DOMAIN templates \subseteq DOMAIN templates'
        BY CommitVersionEffect
      <3>2. [template: DOMAIN templates, items: Ids(MaxVersions)] \subseteq
                [template: DOMAIN templates', items: Ids(MaxVersions)]
        BY <3>1
      <3>3. lists \in Seq([template: DOMAIN templates, items: Ids(MaxVersions)])
        BY DEF TypeOK
      <3> QED
        BY <3>2, <3>3, SequencesWiden
    <2>3. \A c \in Creators : req[c].pc \in {"insert", "commit"} => req[c].template \in DOMAIN templates'
      BY CommitVersionEffect DEF TypeOK
    <2>4. edit' \in [Editors -> Edit]
      BY CommitVersionEffect
    <2> QED
      BY <1>1, <2>1, <2>2, <2>3, <2>4 DEF TypeOK
  <1>4. Bounded'
    BY <1>1, CommitVersionEffect DEF Bounded
  <1>5. Numbered'
    BY CommitVersionEffect DEF Numbered
  <1>6. NextInserted'
    <2>1. \A o \in Editors : edit[o].latest <= Len(templates) /\ edit[o].latest \in Nat
      BY BoundsAssumption DEF NextInserted, TypeOK, Edit
    <2>2. NoEdit.latest = 0 /\ NoEdit.pc = "idle"
      BY DEF NoEdit
    <2> QED
      BY <1>2, <2>1, <2>2, CommitVersionEffect DEF NextInserted
  <1>7. ItemsLoaded'
    BY <1>1 DEF ItemsLoaded, ActiveRequests
  <1> QED
    BY <1>3, <1>4, <1>5, <1>6, <1>7

\* A creation's statement: what it leaves in req, and in lists if it commits.
LEMMA CreatorKeeps ==
    ASSUME VInv, NEW c \in Creators, NEW q \in Request, req' = [req EXCEPT ![c] = q],
           UNCHANGED <<policy, members, templates, edit>>, seen' \in Histories,
           q.pc # "idle" => q.template \in Ids(MaxVersions),
           q.pc \in {"insert", "commit"} =>
               q.template \in DOMAIN templates /\ q.items = q.template,
           \/ /\ lists' = lists
              /\ q.pc # "idle" /\ req[c].pc = "idle" => Len(lists) + InFlight(req) < MaxLists
           \/ /\ req[c].pc = "commit" /\ q.pc = "idle"
              /\ lists' = Append(lists, [template |-> req[c].template, items |-> req[c].items])
    PROVE  VInv'
  <1> USE DEF VInv
  <1>1. /\ req' \in [Creators -> Request] /\ req'[c] = q
        /\ \A d \in Creators \ {c} : req'[d] = req[d]
        /\ DOMAIN req = Creators /\ DOMAIN req' = Creators
    BY DEF TypeOK
  <1>2. Counted(req, req', c)
    BY <1>1, InFlightChanges, RequestsAssumption
  <1>3. ItemsLoaded'
    BY <1>1 DEF ItemsLoaded, ActiveRequests
  <1>4. Len(lists) \in Nat /\ MaxLists \in Nat /\ Len(lists) + InFlight(req) <= MaxLists
    BY BoundsAssumption DEF TypeOK, Bounded
  <1>5. CASE lists' = lists /\ (q.pc # "idle" /\ req[c].pc = "idle" => Len(lists) + InFlight(req) < MaxLists)
    <2>1. TypeOK'
      BY <1>1, <1>5 DEF TypeOK, Histories
    <2>2. Bounded'
      BY <1>1, <1>2, <1>4, <1>5 DEF Bounded, Counted
    <2> QED
      BY <1>3, <2>1, <2>2 DEF Numbered, NextInserted
  <1>6. CASE /\ req[c].pc = "commit" /\ q.pc = "idle"
             /\ lists' = Append(lists, [template |-> req[c].template, items |-> req[c].items])
    <2> DEFINE l == [template |-> req[c].template, items |-> req[c].items]
    <2>1. l \in [template: DOMAIN templates, items: Ids(MaxVersions)]
      BY <1>6 DEF TypeOK, ItemsLoaded, ActiveRequests
    <2>2. InFlight(req) > 0 /\ InFlight(req') = InFlight(req) - 1 /\ InFlight(req) \in Nat
      BY <1>1, <1>2, <1>6 DEF Counted
    <2> HIDE DEF l
    <2>3. /\ lists' \in Seq([template: DOMAIN templates, items: Ids(MaxVersions)])
          /\ Len(lists') = Len(lists) + 1
      BY <1>6, <2>1 DEF TypeOK, l
    <2>4. Bounded' /\ Len(lists') <= MaxLists
      BY <1>4, <2>2, <2>3 DEF Bounded
    <2>5. TypeOK'
      BY <1>1, <2>3, <2>4 DEF TypeOK, Histories
    <2> QED
      BY <1>3, <2>4, <2>5 DEF Numbered, NextInserted
  <1> QED
    BY <1>5, <1>6

LEMMA CreateStepVersions ==
    ASSUME VInv, PInv', NEW c \in Creators, CreateStep(c)
    PROVE  VInv'
  <1>1. /\ req[c] \in Request /\ req \in [Creators -> Request]
        /\ req[c].pc # "idle" => req[c].template \in Ids(MaxVersions)
        /\ req[c].pc \in {"insert", "commit"} =>
               req[c].template \in DOMAIN templates /\ req[c].items = req[c].template
        /\ seen' \in Histories
    BY DEF VInv, TypeOK, ItemsLoaded, ActiveRequests, PInv
  <1>2. NoRequest \in Request /\ NoRequest.pc = "idle"
    BY BoundsAssumption DEF NoRequest, Request
  <1>3. ASSUME NEW pc \in {"assignment", "load", "commit"}, Goto(c, pc), req[c].pc # "idle",
               pc = "commit" => req[c].pc = "insert",
               UNCHANGED <<policy, members, templates, lists, edit>>
        PROVE  VInv'
    <2> DEFINE q == [req[c] EXCEPT !.pc = pc]
    <2>1. req' = [req EXCEPT ![c] = q]
      BY <1>3 DEF Goto
    <2>2. q \in Request /\ q.pc = pc /\ q.template = req[c].template /\ q.items = req[c].items
      BY <1>1 DEF Request
    <2> HIDE DEF q
    <2> QED
      BY <1>1, <1>3, <2>1, <2>2, CreatorKeeps
  <1>4. ASSUME EndRequest(c), UNCHANGED <<policy, members, templates, lists, edit>>
        PROVE  VInv'
    BY <1>1, <1>2, <1>4, CreatorKeeps DEF EndRequest
  <1>5. CASE ReadPolicy(c) /\ Granted(c)
    BY <1>3, <1>5 DEF ReadPolicy, Goto
  <1>6. CASE ReadPolicy(c) /\ ~Granted(c)
    <2> DEFINE q == [req[c] EXCEPT !.pc = "membership", !.needs = policy.group]
    <2>1. req' = [req EXCEPT ![c] = q] /\ req[c].pc # "idle"
          /\ UNCHANGED <<policy, members, templates, lists, edit>>
      BY <1>6 DEF ReadPolicy
    <2>2. policy.group \in Groups \cup {None}
      BY DEF VInv, TypeOK, Policies
    <2>3. q \in Request /\ q.pc = "membership" /\ q.template = req[c].template
      BY <1>1, <2>2 DEF Request
    <2> HIDE DEF q
    <2> QED
      BY <1>1, <2>1, <2>3, CreatorKeeps
  <1>7. CASE CheckCreator(c) \/ CheckAssignment(c)
    BY <1>3, <1>4, <1>7 DEF CheckCreator, CheckAssignment
  <1>8. CASE LoadTemplate(c)
    <2> DEFINE q == [req[c] EXCEPT !.pc = "insert", !.items = req[c].template]
    <2>1. /\ req' = [req EXCEPT ![c] = q] /\ req[c].pc # "idle"
          /\ req[c].template \in DOMAIN templates
          /\ UNCHANGED <<policy, members, templates, lists, edit>>
      BY <1>8 DEF LoadTemplate
    <2>2. /\ q \in Request /\ q.pc = "insert"
          /\ q.template = req[c].template /\ q.items = req[c].template
      BY <1>1 DEF Request
    <2> HIDE DEF q
    <2> QED
      BY <1>1, <2>1, <2>2, CreatorKeeps
  <1>9. CASE NoTemplate(c) \/ TriggerRaises(c)
    BY <1>4, <1>9 DEF NoTemplate, TriggerRaises
  <1>10. CASE InsertList(c)
    BY <1>3, <1>10 DEF InsertList
  <1>11. CASE CommitList(c)
    BY <1>1, <1>2, <1>11, CreatorKeeps DEF CommitList, EndRequest
  <1> QED
    BY <1>5, <1>6, <1>7, <1>8, <1>9, <1>10, <1>11 DEF CreateStep

CInv == PInv /\ VInv

LEMMA CreationInit == Init => CInv
  BY PolicyInit, VersionsInit DEF CInv

LEMMA CreationStep == CInv /\ [Next]_vars => CInv'
  <1> SUFFICES ASSUME CInv, [Next]_vars PROVE VInv'
    BY PolicyStep DEF CInv
  <1>1. VInv /\ PInv /\ PInv' /\ seen' \in Histories
    BY PolicyStep DEF CInv, PInv
  <1>2. CASE Administer
    <2>1. UNCHANGED <<templates, lists, edit, req>>
      BY <1>2 DEF Administer, UpdatePolicy, AddMember, RemoveMember
    <2>2. members' \subseteq Users \X Groups
      BY <1>1, <1>2 DEF Administer, UpdatePolicy, AddMember, RemoveMember, VInv, TypeOK
    <2>3. TypeOK'
      BY <1>1, <2>1, <2>2 DEF VInv, TypeOK, PInv, Histories
    <2> QED
      BY <1>1, <2>1, <2>3 DEF VInv, Bounded, Numbered, NextInserted, ItemsLoaded, ActiveRequests
  <1>3. ASSUME NEW e \in Editors, BeginVersion(e) \/ EditStep(e) PROVE VInv'
    <2>1. CASE CommitVersion(e)
      BY <1>1, <2>1, CommitVersionKeeps
    <2>2. CASE ~CommitVersion(e)
      <3>1. UNCHANGED <<policy, members, templates, lists, req, seen>>
        BY <1>3, <2>2 DEF BeginVersion, EditStep, ReadLatest, LockLatest, InsertVersion,
                          VersionTaken
      <3> QED
        BY <1>1, <1>3, <2>2, <3>1, EditStepKeeps
    <2> QED
      BY <2>1, <2>2
  <1>4. ASSUME NEW c \in Creators, CreateStep(c) PROVE VInv'
    BY <1>1, <1>4, CreateStepVersions
  <1>5. ASSUME NEW c \in Creators, NEW u \in Users, NEW t \in Ids(MaxVersions),
               NEW g \in Groups \cup {None}, NEW a \in Users \cup {None}, BeginCreate(c, u, t, g, a)
        PROVE  VInv'
    <2> DEFINE q == [NoRequest EXCEPT !.pc = "policy", !.actor = u, !.template = t,
                                      !.group = g, !.assignee = a]
    <2>1. /\ req' = [req EXCEPT ![c] = q] /\ Len(lists) + InFlight(req) < MaxLists
          /\ UNCHANGED <<policy, members, templates, lists, edit>>
      BY <1>5 DEF BeginCreate
    <2>2. t \in 0 .. MaxVersions
      BY BoundsAssumption DEF Ids
    <2>3. NoRequest \in Request
      BY BoundsAssumption DEF NoRequest, Request
    <2>4. q \in Request /\ q.pc = "policy" /\ q.template = t
      BY <2>2, <2>3 DEF Request
    <2> HIDE DEF q
    <2> QED
      BY <1>1, <2>1, <2>4, CreatorKeeps
  <1>6. CASE Fail /\ UNCHANGED <<policy, members, templates, lists>>
    <2>1. ASSUME NEW e \in Editors, EndEdit(e), UNCHANGED <<req, seen>> PROVE VInv'
      <3>1. CASE CommitVersion(e)
        BY <1>1, <3>1, CommitVersionKeeps
      <3> QED
        BY <1>1, <1>6, <2>1, <3>1, EditStepKeeps
    <2>2. ASSUME NEW c \in Creators, EndRequest(c), UNCHANGED edit PROVE VInv'
      <3>1. NoRequest \in Request /\ NoRequest.pc = "idle"
        BY BoundsAssumption DEF NoRequest, Request
      <3> QED
        BY <1>1, <1>6, <2>2, <3>1, CreatorKeeps DEF EndRequest
    <2> QED
      BY <1>6, <2>1, <2>2 DEF Fail
  <1>7. CASE UNCHANGED vars
    BY <1>1, <1>7 DEF vars, VInv, TypeOK, Bounded, Numbered, NextInserted, ItemsLoaded,
                      ActiveRequests
  <1> QED
    BY <1>2, <1>3, <1>4, <1>5, <1>6, <1>7 DEF Next

LEMMA CreationInvariant == Spec => []CInv
  BY CreationInit, CreationStep, PTL DEF Spec

\* The state has its type; a creation that inserts does so from a template
\* that exists.
THEOREM CreationTypeCorrect == Spec => []TypeOK
  <1>1. CInv => TypeOK
    BY DEF CInv, VInv
  <1> QED
    BY <1>1, CreationInvariant, PTL

\* The versions of a name are 1 .. n however many requests add one at a time:
\* whoever waited for the latest row and then works with a number that has
\* been given out fails on the unique index.
THEOREM VersionsAreInOrder == Spec => []VersionsInOrder
  <1>1. CInv => VersionsInOrder
    BY VersionsNumbered DEF CInv, VInv, VersionsInOrder
  <1> QED
    BY <1>1, CreationInvariant, PTL

-----------------------------------------------------------------------------
\* Deadlock.

\* FOR UPDATE: no two requests hold the row of one version.
RowHeldOnce ==
    \A e, o \in Editors : \A v \in Nat : HoldsRow(e, v) /\ HoldsRow(o, v) => e = o

\* A statement of one editor, which takes no row that another holds.
LEMMA EditorHolds ==
    ASSUME edit \in [Editors -> Edit], RowHeldOnce, NEW e \in Editors, NEW d \in Edit,
           edit' = [edit EXCEPT ![e] = d],
           \/ d.pc \notin {"insert", "commit"}
           \/ d.latest = edit[e].latest /\ edit[e].pc \in {"insert", "commit"}
           \/ ~Locked(d.latest)
    PROVE  RowHeldOnce'
  <1>1. edit'[e] = d /\ \A o \in Editors \ {e} : edit'[o] = edit[o]
    OBVIOUS
  <1>2. ASSUME NEW v \in Nat, NEW o \in Editors, o # e, HoldsRow(e, v)', HoldsRow(o, v)'
        PROVE  FALSE
    <2>1. HoldsRow(o, v) /\ d.pc \in {"insert", "commit"} /\ d.latest = v /\ v > 0
      BY <1>1, <1>2 DEF HoldsRow
    <2>2. HoldsRow(e, v)
      BY <2>1 DEF HoldsRow, Locked
    <2> QED
      BY <1>2, <2>1, <2>2 DEF RowHeldOnce
  <1>3. ASSUME NEW v \in Nat, NEW p \in Editors, NEW o \in Editors, p # e, o # e, p # o,
               HoldsRow(p, v)', HoldsRow(o, v)'
        PROVE  FALSE
    <2>1. HoldsRow(p, v) /\ HoldsRow(o, v)
      BY <1>1, <1>3 DEF HoldsRow
    <2> QED
      BY <1>3, <2>1 DEF RowHeldOnce
  <1> QED
    BY <1>2, <1>3 DEF RowHeldOnce

LEMMA RowHeldOnceStep ==
    ASSUME CInv, RowHeldOnce, [Next]_vars
    PROVE  RowHeldOnce'
  <1>1. edit \in [Editors -> Edit] /\ NoEdit \in Edit /\ Latest = Len(templates)
        /\ Latest \in 0 .. MaxVersions
    BY VersionsNumbered, BoundsAssumption DEF CInv, VInv, TypeOK, NoEdit, Edit
  <1>2. ASSUME UNCHANGED edit PROVE RowHeldOnce'
    BY <1>2 DEF RowHeldOnce, HoldsRow
  <1>3. ASSUME NEW e \in Editors, EndEdit(e) PROVE RowHeldOnce'
    <2>1. NoEdit.pc = "idle" /\ edit' = [edit EXCEPT ![e] = NoEdit]
      BY <1>3 DEF NoEdit, EndEdit
    <2> QED
      BY <1>1, <2>1, EditorHolds
  <1>4. ASSUME NEW e \in Editors, BeginVersion(e) PROVE RowHeldOnce'
    <2> DEFINE d == [NoEdit EXCEPT !.pc = "look"]
    <2>1. d \in Edit /\ d.pc = "look" /\ edit' = [edit EXCEPT ![e] = d]
      BY <1>1, <1>4 DEF BeginVersion, NoEdit, Edit
    <2> HIDE DEF d
    <2> QED
      BY <1>1, <2>1, EditorHolds
  <1>5. ASSUME NEW e \in Editors, ReadLatest(e) PROVE RowHeldOnce'
    <2> DEFINE d == [edit[e] EXCEPT !.latest = Latest, !.pc = IF Latest = 0 THEN "insert" ELSE "lock"]
    <2>1. edit' = [edit EXCEPT ![e] = d]
      BY <1>5 DEF ReadLatest
    <2>2. d \in Edit /\ (d.pc = "lock" \/ d.latest = 0)
      BY <1>1 DEF Edit
    <2>3. ~Locked(0)
      BY DEF Locked, HoldsRow
    <2> HIDE DEF d
    <2> QED
      BY <1>1, <2>1, <2>2, <2>3, EditorHolds
  <1>6. ASSUME NEW e \in Editors, LockLatest(e) PROVE RowHeldOnce'
    <2> DEFINE d == [edit[e] EXCEPT !.pc = "insert"]
    <2>1. edit' = [edit EXCEPT ![e] = d] /\ ~Locked(edit[e].latest)
      BY <1>6 DEF LockLatest
    <2>2. d \in Edit /\ d.latest = edit[e].latest
      BY <1>1 DEF Edit
    <2> HIDE DEF d
    <2> QED
      BY <1>1, <2>1, <2>2, EditorHolds
  <1>7. ASSUME NEW e \in Editors, InsertVersion(e) PROVE RowHeldOnce'
    <2> DEFINE d == [edit[e] EXCEPT !.pc = "commit"]
    <2>1. edit' = [edit EXCEPT ![e] = d] /\ edit[e].pc = "insert"
      BY <1>7 DEF InsertVersion
    <2>2. d \in Edit /\ d.latest = edit[e].latest
      BY <1>1 DEF Edit
    <2> HIDE DEF d
    <2> QED
      BY <1>1, <2>1, <2>2, EditorHolds
  <1>8. ASSUME NEW e \in Editors, EditStep(e) PROVE RowHeldOnce'
    BY <1>3, <1>5, <1>6, <1>7, <1>8 DEF EditStep, VersionTaken, CommitVersion
  <1>9. ASSUME NEW c \in Creators, CreateStep(c) PROVE UNCHANGED edit
    BY <1>9 DEF CreateStep, ReadPolicy, CheckCreator, CheckAssignment, LoadTemplate, NoTemplate,
                InsertList, TriggerRaises, CommitList
  <1> QED
    BY <1>2, <1>3, <1>4, <1>8, <1>9 DEF Next, Administer, UpdatePolicy, AddMember, RemoveMember,
       BeginCreate, Fail, vars

LEMMA RowsHeldOnce == Spec => []RowHeldOnce
  <1>1. Init => RowHeldOnce
    BY DEF Init, RowHeldOnce, HoldsRow, NoEdit
  <1> QED
    BY <1>1, RowHeldOnceStep, CreationInvariant, PTL DEF Spec

\* No circle of waits: an editor that waits either waits for the row, and holds
\* nothing, or it inserts the first version, where there is no row to hold.
THEOREM VersionsNeverDeadlock == Spec => []WaitersBlockNobody
  <1>1. CInv /\ RowHeldOnce => WaitersBlockNobody
    <2> SUFFICES ASSUME CInv, RowHeldOnce, NEW o \in Editors, NEW p \in Editors,
                        EditorWaitsFor(o, p)
                 PROVE  /\ \A e \in Editors : ~EditorWaitsFor(e, o)
                        /\ \A c \in Creators : ~CreatorWaitsFor(c, o)
      BY DEF WaitersBlockNobody
    <2>1. edit[o].latest \in Nat
      BY BoundsAssumption DEF CInv, VInv, TypeOK, Edit
    <2>2. ASSUME NEW v, HoldsRow(o, v) PROVE FALSE
      <3>1. edit[o].pc = "insert" /\ edit[p].pc = "commit" /\ edit[p].latest = v /\ v \in Nat
        BY <2>1, <2>2 DEF EditorWaitsFor, HoldsRow
      <3>2. HoldsRow(p, v)
        BY <2>2, <3>1 DEF HoldsRow
      <3> QED
        BY <2>2, <3>1, <3>2 DEF RowHeldOnce
    <2>3. edit[o].pc # "commit"
      BY DEF EditorWaitsFor
    <2> QED
      BY <2>2, <2>3 DEF EditorWaitsFor, CreatorWaitsFor
  <1> QED
    BY <1>1, RowsHeldOnce, CreationInvariant, PTL

-----------------------------------------------------------------------------
\* The refinement.

\* The catalogue's versions and copies, in terms of the tables.
AbstractVersions == [v \in Versions |-> CHOOSE t \in DOMAIN templates : templates[t] = v]

AbstractCopies ==
    [l \in DOMAIN lists |-> [version |-> templates[lists[l].template], items |-> lists[l].items]]

LEMMA MappedVersions ==
    ASSUME TypeOK, Numbered
    PROVE  AbstractVersions = [v \in 1 .. Len(templates) |-> v]
  <1>1. Versions = 1 .. Len(templates) /\ DOMAIN templates = 1 .. Len(templates)
    BY VersionsNumbered
  <1>2. ASSUME NEW v \in 1 .. Len(templates)
        PROVE  (CHOOSE t \in DOMAIN templates : templates[t] = v) = v
    BY <1>1, <1>2 DEF Numbered
  <1> QED
    BY <1>1, <1>2 DEF AbstractVersions

LEMMA MappedCopies ==
    ASSUME TypeOK, Numbered
    PROVE  AbstractCopies = [l \in 1 .. Len(lists) |->
                                [version |-> lists[l].template, items |-> lists[l].items]]
  <1>1. DOMAIN lists = 1 .. Len(lists)
    BY DEF TypeOK
  <1>2. ASSUME NEW l \in 1 .. Len(lists) PROVE templates[lists[l].template] = lists[l].template
    <2> DEFINE S == [template: DOMAIN templates, items: Ids(MaxVersions)]
    <2>1. lists \in Seq(S)
      BY DEF TypeOK
    <2> HIDE DEF S
    <2>2. lists[l] \in S
      BY <2>1
    <2>3. lists[l] \in [template: DOMAIN templates, items: Ids(MaxVersions)]
      BY <2>2 DEF S
    <2>4. lists[l].template \in DOMAIN templates
      BY <2>3
    <2> QED
      BY <2>4 DEF Numbered
  <1> QED
    BY <1>1, <1>2 DEF AbstractCopies

\* Both, and how many there are, now and after a step.
Mapped ==
    /\ Len(templates) \in Nat /\ Len(lists) \in Nat
    /\ AbstractVersions = [v \in 1 .. Len(templates) |-> v]
    /\ AbstractCopies = [l \in 1 .. Len(lists) |->
                             [version |-> lists[l].template, items |-> lists[l].items]]

LEMMA CreationMapped == CInv => Mapped
  BY MappedVersions, MappedCopies DEF CInv, VInv, Mapped, TypeOK

\* A committed version is appended to the catalogue and no copy changes.
LEMMA CommitVersionMaps ==
    ASSUME CInv, Mapped, Mapped', NEW e \in Editors, CommitVersion(e)
    PROVE  /\ AbstractVersions' = Append(AbstractVersions, Len(templates) + 1)
           /\ AbstractCopies' = AbstractCopies
           /\ Len(templates) + 1 \in Ids(MaxVersions)
  <1>1. /\ Len(templates') = Len(templates) + 1 /\ Len(templates) \in Nat
        /\ Len(templates) + 1 \in Ids(MaxVersions)
    BY CommitVersionEffect DEF CInv
  <1>2. ASSUME NEW n \in Nat
        PROVE  [v \in 1 .. n + 1 |-> v] = Append([v \in 1 .. n |-> v], n + 1)
    OBVIOUS
  <1>3. AbstractVersions' = Append(AbstractVersions, Len(templates) + 1)
    BY <1>1, <1>2 DEF Mapped
  <1>4. lists' = lists
    BY DEF CommitVersion
  <1> QED
    BY <1>1, <1>3, <1>4 DEF Mapped

\* A committed checklist is a copy of the version it names.
LEMMA CommitListMaps ==
    ASSUME CInv, Mapped, Mapped', NEW c \in Creators, CommitList(c)
    PROVE  Catalogue!Copy
  <1> DEFINE l == Len(lists) + 1
             t == req[c].template
  <1>1. /\ req[c].pc = "commit" /\ templates' = templates
        /\ lists' = Append(lists, [template |-> t, items |-> req[c].items])
    BY DEF CommitList
  <1>2. t \in 1 .. Len(templates) /\ req[c].items = t
    BY <1>1, VersionsNumbered DEF CInv, VInv, TypeOK, ItemsLoaded, ActiveRequests
  <1>3. Len(lists) \in Nat /\ Len(lists') = l
    BY <1>1 DEF Mapped
  <1>4. l \in Ids(MaxLists) \ DOMAIN AbstractCopies /\ DOMAIN AbstractCopies = 1 .. Len(lists)
    <2>1. Counted(req, [req EXCEPT ![c] = NoRequest], c)
      BY InFlightChanges, RequestsAssumption DEF CInv, PInv
    <2>2. InFlight(req) > 0 /\ InFlight(req) \in Nat /\ Len(lists) + InFlight(req) <= MaxLists
      BY <1>1, <2>1 DEF Counted, CInv, VInv, Bounded
    <2> QED
      BY <1>3, <2>2, BoundsAssumption DEF Ids, Mapped
  <1>5. AbstractVersions[t] = t /\ t \in DOMAIN AbstractVersions /\ AbstractVersions' = AbstractVersions
    BY <1>1, <1>2 DEF Mapped
  <1>6. \A i \in 1 .. Len(lists) : lists'[i] = lists[i]
    BY <1>1, <1>3 DEF CInv, VInv, TypeOK
  <1>7. lists'[l] = [template |-> t, items |-> t]
    BY <1>1, <1>2, <1>3 DEF CInv, VInv, TypeOK
  <1>8. 1 .. l = DOMAIN AbstractCopies \cup {l}
    BY <1>3, <1>4
  <1>9. AbstractCopies' = [x \in DOMAIN AbstractCopies \cup {l} |->
                              IF x = l THEN [version |-> t, items |-> AbstractVersions[t]]
                              ELSE AbstractCopies[x]]
    <2>1. AbstractCopies' = [x \in 1 .. l |-> [version |-> lists'[x].template, items |-> lists'[x].items]]
      BY <1>3 DEF Mapped
    <2>2. ASSUME NEW x \in 1 .. l
          PROVE  [version |-> lists'[x].template, items |-> lists'[x].items] =
                     IF x = l THEN [version |-> t, items |-> AbstractVersions[t]]
                     ELSE AbstractCopies[x]
      <3>1. CASE x = l
        BY <1>5, <1>7, <3>1
      <3>2. CASE x # l
        <4>1. x \in 1 .. Len(lists)
          BY <1>3, <2>2, <3>2
        <4> QED
          BY <1>6, <3>2, <4>1 DEF Mapped
      <3> QED
        BY <3>1, <3>2
    <2> HIDE DEF l, t
    <2> QED
      BY <1>8, <2>1, <2>2
  <1> HIDE DEF l, t
  <1> QED
    BY <1>4, <1>5, <1>9 DEF Catalogue!Copy, AbstractCopies, AbstractVersions

LEMMA CatalogueInit == Init => Catalogue!Init
  <1> SUFFICES ASSUME Init PROVE Catalogue!Init
    OBVIOUS
  <1>1. templates = <<>> /\ lists = <<>>
    BY DEF Init
  <1>2. Mapped
    BY CreationInit, CreationMapped
  <1>3. AbstractVersions = <<>> /\ AbstractCopies = <<>>
    BY <1>1, <1>2 DEF Mapped
  <1> QED
    BY <1>3 DEF Catalogue!Init, AbstractVersions, AbstractCopies

LEMMA CatalogueStep ==
    ASSUME CInv, Mapped, Mapped', [Next]_vars
    PROVE  [Catalogue!Next]_<<AbstractVersions, AbstractCopies>>
  <1>1. ASSUME NEW e \in Editors, CommitVersion(e) PROVE Catalogue!Next
    <2>1. Catalogue!AddVersion
      BY <1>1, CommitVersionMaps DEF Catalogue!AddVersion, AbstractVersions, AbstractCopies
    <2> QED
      BY <2>1 DEF Catalogue!Next
  <1>2. ASSUME NEW c \in Creators, CommitList(c) PROVE Catalogue!Next
    BY <1>2, CommitListMaps DEF Catalogue!Next
  <1>3. CASE UNCHANGED <<templates, lists>>
    BY <1>3 DEF Mapped
  <1>4. \/ \E e \in Editors : CommitVersion(e)
        \/ \E c \in Creators : CommitList(c)
        \/ UNCHANGED <<templates, lists>>
    <2>1. CASE Administer
      BY <2>1 DEF Administer, UpdatePolicy, AddMember, RemoveMember
    <2>2. ASSUME NEW e \in Editors, BeginVersion(e) \/ EditStep(e), ~CommitVersion(e)
          PROVE  UNCHANGED <<templates, lists>>
      BY <2>2 DEF BeginVersion, EditStep, ReadLatest, LockLatest, InsertVersion, VersionTaken
    <2>3. ASSUME NEW c \in Creators, CreateStep(c), ~CommitList(c)
          PROVE  UNCHANGED <<templates, lists>>
      BY <2>3 DEF CreateStep, ReadPolicy, CheckCreator, CheckAssignment, LoadTemplate, NoTemplate,
                  InsertList, TriggerRaises
    <2>4. ASSUME NEW c \in Creators, NEW u, NEW t, NEW g, NEW a, BeginCreate(c, u, t, g, a)
          PROVE  UNCHANGED <<templates, lists>>
      BY <2>4 DEF BeginCreate
    <2>5. CASE UNCHANGED vars
      BY <2>5 DEF vars
    <2> QED
      BY <2>1, <2>2, <2>3, <2>4, <2>5 DEF Next
  <1> QED
    BY <1>1, <1>2, <1>3, <1>4

\* Lookups, row locks, a unique index and failures come to this: versions are
\* appended one at a time and never change, and each checklist copies one
\* version whole.
THEOREM CreationImplementsCatalogue == Spec => ImplementsCatalogue
  <1>1. Init => CInv /\ Catalogue!Init
    BY CreationInit, CatalogueInit
  <1>2. CInv /\ [Next]_vars => CInv'
    BY CreationStep
  <1>3. CInv => Mapped
    BY CreationMapped
  <1>4. CInv /\ Mapped /\ Mapped' /\ [Next]_vars => [Catalogue!Next]_<<AbstractVersions, AbstractCopies>>
    BY CatalogueStep
  <1> QED
    BY <1>1, <1>2, <1>3, <1>4, PTL DEF Spec, ImplementsCatalogue, Catalogue!Spec, AbstractVersions,
       AbstractCopies
=============================================================================
