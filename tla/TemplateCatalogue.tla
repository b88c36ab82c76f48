------------------------- MODULE TemplateCatalogue -------------------------
(***************************************************************************)
(* What the templates of one name promise: versions 1, 2, 3, ... that are  *)
(* added one at a time and never change, and checklists that each copy one *)
(* version whole.                                                          *)
(***************************************************************************)
EXTENDS Naturals, Sequences

CONSTANTS Contents, ListIds

VARIABLES
    versions,   \* the items of each version, as a whole
    copies      \* per checklist: the version it was made from, and its items

Init == versions = <<>> /\ copies = <<>>

AddVersion ==
    /\ \E items \in Contents : versions' = Append(versions, items)
    /\ UNCHANGED copies

Copy ==
    /\ \E l \in ListIds \ DOMAIN copies, v \in DOMAIN versions :
        copies' = [x \in DOMAIN copies \cup {l} |->
                      IF x = l THEN [version |-> v, items |-> versions[v]] ELSE copies[x]]
    /\ UNCHANGED versions

Next == AddVersion \/ Copy

Spec == Init /\ [][Next]_<<versions, copies>>
=============================================================================
