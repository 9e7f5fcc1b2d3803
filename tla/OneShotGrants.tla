--------------------------- MODULE OneShotGrants ---------------------------
(***************************************************************************)
(* What TuxBridge's approval gate promises, without saying how: a guarded  *)
(* operation runs once for each time an operator approved that operation,  *)
(* and never otherwise.  A grant is asked for, then granted or refused     *)
(* once, then used at most once, by the operation it was asked for.        *)
(* RequestGate implements this module (see GrantsRefinement there).        *)
(***************************************************************************)
EXTENDS Naturals

CONSTANTS Paths,    \* the operations an operator may be asked about
          Ids       \* the names grants can have

VARIABLES
    grants,         \* grants[id]: the grants that have been asked for
    approved,       \* approved[p]: how often an operator approved p
    ran             \* ran[p]: how often guarded operation p started

vars == <<grants, approved, ran>>

Grant == [path : Paths, status : {"Pending", "Approved", "Denied", "Consumed"}]

Init ==
    /\ grants = << >>
    /\ approved = [p \in Paths |-> 0]
    /\ ran = [p \in Paths |-> 0]

Ask(id, p) ==
    /\ id \notin DOMAIN grants
    /\ grants' = [i \in DOMAIN grants \cup {id} |->
                    IF i = id THEN [path |-> p, status |-> "Pending"]
                              ELSE grants[i]]
    /\ UNCHANGED <<approved, ran>>

Allow(id) ==
    /\ grants[id].status = "Pending"
    /\ grants' = [grants EXCEPT ![id].status = "Approved"]
    /\ approved' = [approved EXCEPT ![grants[id].path] = @ + 1]
    /\ UNCHANGED ran

Refuse(id) ==
    /\ grants[id].status = "Pending"
    /\ grants' = [grants EXCEPT ![id].status = "Denied"]
    /\ UNCHANGED <<approved, ran>>

Use(id) ==
    /\ grants[id].status = "Approved"
    /\ grants' = [grants EXCEPT ![id].status = "Consumed"]
    /\ ran' = [ran EXCEPT ![grants[id].path] = @ + 1]
    /\ UNCHANGED approved

Forget ==
    /\ grants' = << >>
    /\ UNCHANGED <<approved, ran>>

Next ==
    \/ \E id \in Ids, p \in Paths : Ask(id, p)
    \/ \E id \in DOMAIN grants : Allow(id) \/ Refuse(id) \/ Use(id)
    \/ Forget

Spec == Init /\ [][Next]_vars

-----------------------------------------------------------------------------
(* A guarded operation never starts more often than it was approved.       *)
OneShot == \A p \in Paths : ran[p] <= approved[p]
=============================================================================
