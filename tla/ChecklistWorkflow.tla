------------------------- MODULE ChecklistWorkflow -------------------------
(***************************************************************************)
(* What a checklist promises the people who work on it, one atomic step    *)
(* per thing they can do: the lifecycle of DESIGN.md ("Lifecycle / state   *)
(* machine" and "Creator overrides") as the methods of                     *)
(* internal/domain/checklist.go realise it, without requests, locks,       *)
(* transactions, positions or overrides.  ChecklistStore, where those are, *)
(* is checked to implement this specification.                             *)
(***************************************************************************)
EXTENDS FiniteSets

CONSTANTS
    Users,
    ItemIds,
    None

VARIABLES
    status,     \* open, validating or complete
    live,       \* the items of the list
    done,       \* those of them that are checked
    assignee,   \* who works on the list
    approver    \* who signs it off

vars == <<status, live, done, assignee, approver>>

Init ==
    /\ status = "open"
    /\ live \in SUBSET ItemIds
    /\ done = {}
    /\ assignee \in Users \cup {None}
    /\ approver \in Users \cup {None}

-----------------------------------------------------------------------------
\* The last item ticked sends the list to its approver, or finishes it.
Check ==
    /\ status = "open"
    /\ \E i \in live : done' = done \cup {i}
    /\ status' = IF done' # live THEN "open"
                 ELSE IF approver = None THEN "complete" ELSE "validating"
    /\ UNCHANGED <<live, assignee, approver>>

Approve ==
    /\ status = "validating"
    /\ approver # None
    /\ status' = "complete"
    /\ UNCHANGED <<live, done, assignee, approver>>

Reject ==
    /\ status = "validating"
    /\ approver # None
    /\ status' = "open"
    /\ \E S \in SUBSET live : done' = done \ S
    /\ UNCHANGED <<live, assignee, approver>>

\* The creator may change anything about the items; the list is open again.
CreatorEdit ==
    /\ status' = "open"
    /\ \/ \E i \in ItemIds \ live : live' = live \cup {i} /\ UNCHANGED done
       \/ \E S \in SUBSET live : live' = live \ S /\ done' = done \ S
       \/ \E i \in live : done' \in {done \cup {i}, done \ {i}} /\ UNCHANGED live
    /\ UNCHANGED <<assignee, approver>>

Claim ==
    /\ \E u \in Users : assignee' = u
    /\ UNCHANGED <<status, live, done, approver>>

\* A suspended user loses the roles they hold; the list stays where it is.
Vacate ==
    /\ assignee' \in {assignee, None}
    /\ approver' \in {approver, None}
    /\ UNCHANGED <<status, live, done>>

Next == Check \/ Approve \/ Reject \/ CreatorEdit \/ Claim \/ Vacate

Spec == Init /\ [][Next]_vars
=============================================================================
