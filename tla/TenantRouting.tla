---------------------------- MODULE TenantRouting ----------------------------
(***************************************************************************)
(* What the reload of a configuration promises of the tenants in service   *)
(* (the comment of Manager.Apply, internal/tenant/tenant.go): every        *)
(* lookup sees the tenants of before or of after, a tenant that cannot be  *)
(* built is the only one affected and stays as it was, the others show the *)
(* new configuration, and tenants that are gone from it are gone.          *)
(***************************************************************************)
CONSTANTS
    Ids,      \* tenant identifiers
    Targets,  \* what a tenant can be built from
    Plans,    \* configurations, as partial functions from Ids to Targets
    Off       \* a tenant that is not in service

VARIABLE served  \* tenant -> the target it was built from, or Off

TypeOK == served \in [Ids -> Targets \cup {Off}]

AllOff == [id \in Ids |-> Off]

Init == served = AllOff

\* While NewManager runs, tenants come into service one by one.
Start(id, target) ==
    /\ served[id] = Off
    /\ served' = [served EXCEPT ![id] = target]

\* Apply: the tenants in failed could not be built.
Reload(plan, failed) ==
    served' = [id \in Ids |->
                 IF id \notin DOMAIN plan THEN Off
                 ELSE IF id \in failed THEN served[id]
                 ELSE plan[id]]

Close == served' = AllOff

Next ==
    \/ \E plan \in Plans, id \in Ids : id \in DOMAIN plan /\ Start(id, plan[id])
    \/ \E plan \in Plans, failed \in SUBSET Ids : Reload(plan, failed)
    \/ Close

Spec == Init /\ [][Next]_served
=============================================================================
