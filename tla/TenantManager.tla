---------------------------- MODULE TenantManager ----------------------------
(***************************************************************************)
(* The manager of internal/tenant/tenant.go: NewManager builds an instance *)
(* per configured tenant, Apply replaces instances while the process runs, *)
(* Close ends them all.  Apply reads the table under the mutex, builds     *)
(* without it, commits under it and releases without it, so the lookups    *)
(* (Service, Runtime, Config, List, all reads of tenants, order and        *)
(* defaultID) and Close come in between.  One Apply runs at a time: only   *)
(* the polling goroutine of the ConfigWatcher calls it.                    *)
(*                                                                         *)
(* A store of the file driver locks its directory (lock.Acquire) from Open *)
(* to Close; stores of other drivers can be open twice.                    *)
(***************************************************************************)
EXTENDS Naturals, Sequences, FiniteSets, Sublists

CONSTANTS
    Ids,        \* tenant identifiers
    DefaultID,  \* "default", the tenant of a configuration without tenants
    Dirs,       \* storage DSNs
    DataDir,    \* ./data
    OwnDir,     \* tenant -> its directory under ./data
    Exclusive,  \* the DSNs whose driver locks the directory
    Keys,       \* the other fields tenantDirty compares: name, root, limits...
    Bases,      \* configurations the process starts with or reloads
    MayFail,    \* opening a store or building its runtime can fail
    NoDir,      \* a DSN left empty
    NoTenant,   \* an identifier without an instance
    MaxBuilt    \* bound: no Apply starts that could build more instances

VARIABLES
    tenants,    \* tenant -> instance or NoTenant
    order,      \* identifiers as registered
    defaultID,  \* the tenant of a request that names none
    open,       \* instances whose store is open
    built,      \* number of instances built
    life,       \* where the manager is between NewManager and Close
    todo,       \* targets NewManager still has to build
    apply       \* the Apply that runs

table == <<tenants, order, defaultID>>
managerVars == <<table, open, built, life, todo, apply>>

Target == [id : Ids, dsn : Dirs, key : Keys]
Instance == [num : Nat \ {0}, target : Target]
Table == [Ids -> Instance \cup {NoTenant}]

ASSUME ManagerAssumption ==
    /\ DefaultID \in Ids
    /\ DataDir \in Dirs
    /\ OwnDir \in [Ids -> Dirs]
    /\ Exclusive \subseteq Dirs
    /\ Bases \subseteq [tenants : Seq([id : Ids, dsn : Dirs \cup {NoDir}, key : Keys]),
                        dsn : Dirs \cup {NoDir}, key : Keys]
    /\ MayFail \in BOOLEAN
    /\ NoDir \notin Dirs
    /\ NoTenant \notin Instance
    /\ MaxBuilt \in Nat

\* config.Validate asks for distinct identifiers; no command calls it.
ASSUME IdsDistinct ==
    \A base \in Bases : \A i, j \in DOMAIN base.tenants :
        base.tenants[i].id = base.tenants[j].id => i = j

NoTenants == [id \in Ids |-> NoTenant]
In(t) == {i \in {t[id] : id \in Ids} : i # NoTenant}

\* stage: idle; build, while targets from next on are still to be looked at;
\* release, while the instances of cur listed in release are still to be closed.
NoApply == [stage |-> "idle", targets |-> <<>>, next |-> 1,
            cur |-> NoTenants, upsert |-> NoTenants, release |-> {}]

Types ==
    /\ tenants \in Table
    /\ open \subseteq Instance
    /\ built \in Nat
    /\ life \in {"starting", "failed", "serving", "closed"}
    /\ todo \in Seq(Target)
    /\ apply \in [stage : {"idle", "build", "release"}, targets : Seq(Target), next : Nat \ {0},
                  cur : Table, upsert : Table, release : SUBSET Ids]

ManagerTypeOK == Types /\ order \in Seq(Ids) /\ defaultID \in Ids

-----------------------------------------------------------------------------
(* Configurations *)

\* The tenant's own DSN, else that of the base (ToConfig), else ./data/<id>.
DirOf(t, base) ==
    CASE t.dsn # NoDir -> t.dsn
      [] t.dsn = NoDir /\ base.dsn # NoDir -> base.dsn
      [] t.dsn = NoDir /\ base.dsn = NoDir -> OwnDir[t.id]

\* Target of a configuration without tenants; Open takes ./data for an empty DSN.
Single(base) ==
    [id |-> DefaultID, dsn |-> IF base.dsn = NoDir THEN DataDir ELSE base.dsn, key |-> base.key]

resolveTargets(base) ==
    IF base.tenants = <<>> THEN <<Single(base)>>
    ELSE [i \in DOMAIN base.tenants |->
            [id |-> base.tenants[i].id, dsn |-> DirOf(base.tenants[i], base),
             key |-> base.tenants[i].key]]

Wanted(targets) == {targets[i].id : i \in DOMAIN targets}

tenantDirty(old, tgt) == old.target.dsn # tgt.dsn \/ old.target.key # tgt.key

-----------------------------------------------------------------------------
(* Building an instance *)

CanOpen(tgt) == tgt.dsn \in Exclusive => \A i \in open : i.target.dsn # tgt.dsn

\* The instance a build makes.
NewInstance(tgt) == [num |-> built + 1, target |-> tgt]

\* buildTenant succeeds; a failed scan or watch does not stop it.
Build(tgt) ==
    /\ CanOpen(tgt)
    /\ open' = open \cup {NewInstance(tgt)}
    /\ built' = built + 1

\* buildTenant fails: openStore fails, or BuildRuntime does and the store that
\* was opened is closed again.
BuildFails(tgt) ==
    /\ MayFail \/ ~CanOpen(tgt)
    /\ UNCHANGED <<open, built>>

ManagerInit ==
    /\ tenants = NoTenants /\ order = <<>> /\ defaultID = DefaultID
    /\ open = {} /\ built = 0
    /\ life = "starting"
    /\ \E base \in Bases : todo = resolveTargets(base)
    /\ apply = NoApply

-----------------------------------------------------------------------------
(* NewManager *)

StartTenant ==
    /\ life = "starting" /\ todo # <<>>
    /\ Build(Head(todo))
    /\ tenants' = [tenants EXCEPT ![Head(todo).id] = NewInstance(Head(todo))]
    /\ order' = Append(order, Head(todo).id)
    /\ todo' = Tail(todo)
    /\ UNCHANGED <<defaultID, life, apply>>

\* The stores already open stay open: the process is about to exit.
StartFails ==
    /\ life = "starting" /\ todo # <<>>
    /\ BuildFails(Head(todo))
    /\ life' = "failed"
    /\ UNCHANGED <<table, todo, apply>>

Started ==
    /\ life = "starting" /\ todo = <<>>
    /\ defaultID' = IF order = <<>> THEN defaultID ELSE Head(order)
    /\ life' = "serving"
    /\ UNCHANGED <<tenants, order, open, built, todo, apply>>

-----------------------------------------------------------------------------
(* Apply *)

\* cur is a copy of the table, read under the mutex.
ApplyBegin(base) ==
    /\ life \in {"serving", "closed"} /\ apply.stage = "idle"
    /\ built + Len(resolveTargets(base)) <= MaxBuilt
    /\ apply' = [NoApply EXCEPT !.stage = "build", !.targets = resolveTargets(base), !.cur = tenants]
    /\ UNCHANGED <<table, open, built, life, todo>>

Building == apply.stage = "build" /\ apply.next <= Len(apply.targets)
Current == apply.targets[apply.next]
Served(id) == apply.cur[id] # NoTenant

ApplyKeep ==
    /\ Building /\ Served(Current.id) /\ ~tenantDirty(apply.cur[Current.id], Current)
    /\ apply' = [apply EXCEPT !.next = @ + 1]
    /\ UNCHANGED <<table, open, built, life, todo>>

ToBuild == Building /\ (Served(Current.id) => tenantDirty(apply.cur[Current.id], Current))

\* Mutants: the old instance is not released; the new one enters the table
\* before the commit.
ApplyBuildKeeping ==
    /\ ToBuild /\ Build(Current)
    /\ apply' = [apply EXCEPT !.next = @ + 1, !.upsert[Current.id] = NewInstance(Current)]
    /\ UNCHANGED <<table, life, todo>>
ApplyBuildAtOnce ==
    /\ ToBuild /\ Build(Current)
    /\ apply' = [apply EXCEPT
                   !.next = @ + 1,
                   !.upsert[Current.id] = NewInstance(Current),
                   !.release = IF Served(Current.id) THEN @ \cup {Current.id} ELSE @]
    /\ tenants' = [tenants EXCEPT ![Current.id] = NewInstance(Current)]
    /\ UNCHANGED <<order, defaultID, life, todo>>

ApplyBuild ==
    /\ ToBuild
    /\ Build(Current)
    /\ apply' = [apply EXCEPT
                   !.next = @ + 1,
                   !.upsert[Current.id] = NewInstance(Current),
                   !.release = IF Served(Current.id) THEN @ \cup {Current.id} ELSE @]
    /\ UNCHANGED <<table, life, todo>>

ApplyBuildFails ==
    /\ ToBuild
    /\ BuildFails(Current)
    /\ apply' = [apply EXCEPT !.next = @ + 1]
    /\ UNCHANGED <<table, life, todo>>

Removed == {id \in Ids : Served(id) /\ id \notin Wanted(apply.targets)}

\* The identifiers the commit registers, in the order of the targets.
Registered ==
    LET ids == [i \in DOMAIN apply.targets |-> apply.targets[i].id]
        Known == {order[i] : i \in DOMAIN order}
    IN  Kept(ids, {id \in Ids : apply.upsert[id] # NoTenant} \ Known)

\* Mutant: a removed tenant stays in the order.
OrderAfterKept == order \o Registered

\* The order of the table after the commit: new identifiers at the end, removed
\* ones out.
OrderAfter == Kept(order \o Registered, Ids \ Removed)

\* The commit, one critical section of m.mu.
ApplyCommit ==
    /\ apply.stage = "build" /\ apply.next > Len(apply.targets)
    /\ tenants' = [id \in Ids |->
                     IF apply.upsert[id] # NoTenant THEN apply.upsert[id]
                     ELSE IF id \in Removed THEN NoTenant
                     ELSE tenants[id]]
    /\ order' = OrderAfter
    /\ defaultID' = IF OrderAfter = <<>> THEN defaultID ELSE Head(OrderAfter)
    /\ apply' = [apply EXCEPT !.stage = "release", !.release = @ \cup Removed]
    /\ UNCHANGED <<open, built, life, todo>>

\* Old instances are closed one by one, without the mutex.
ApplyRelease ==
    /\ apply.stage = "release"
    /\ \E id \in apply.release :
         /\ open' = open \ {apply.cur[id]}
         /\ apply' = [apply EXCEPT !.release = @ \ {id}]
    /\ UNCHANGED <<table, built, life, todo>>

\* Mutant: Apply returns without a look at what it has to release.
ApplyReturnEarly ==
    /\ apply.stage = "release"
    /\ apply' = NoApply
    /\ UNCHANGED <<table, open, built, life, todo>>

ApplyReturn ==
    /\ apply.stage = "release" /\ apply.release = {}
    /\ apply' = NoApply
    /\ UNCHANGED <<table, open, built, life, todo>>

\* Close, under the mutex; order and defaultID stay.
Close ==
    /\ life = "serving"
    /\ open' = open \ In(tenants)
    /\ tenants' = NoTenants
    /\ life' = "closed"
    /\ UNCHANGED <<order, defaultID, built, todo, apply>>

Apply == ApplyKeep \/ ApplyBuild \/ ApplyBuildFails \/ ApplyCommit \/ ApplyRelease \/ ApplyReturn

NewManager == StartTenant \/ StartFails \/ Started

ManagerNext ==
    \/ NewManager
    \/ \E base \in Bases : ApplyBegin(base)
    \/ Apply
    \/ Close

\* The polling goroutine goes on with an Apply it has begun.
ManagerSpec == ManagerInit /\ [][ManagerNext]_managerVars /\ WF_managerVars(life = "serving" /\ Apply)

-----------------------------------------------------------------------------
(* Properties *)

RoutedOpen == \A id \in Ids : tenants[id] # NoTenant => tenants[id] \in open

NoInstanceLost ==
    life = "serving" =>
        open = In(tenants) \cup In(apply.upsert) \cup {apply.cur[id] : id \in apply.release}

\* A tenant that a lookup finds has its store open: an instance is closed only
\* after the table has lost it (Apply commits, then releases).  And no open store
\* is forgotten while the manager serves: each is in the table, built for the
\* commit to come or waiting to be released.
InstancesOwned == RoutedOpen /\ NoInstanceLost

OrderMatches ==
    life = "serving" =>
        /\ \A i, j \in DOMAIN order : order[i] = order[j] => i = j
        /\ {order[i] : i \in DOMAIN order} = {id \in Ids : tenants[id] # NoTenant}
        /\ order # <<>> => defaultID = Head(order)

\* Types, and List shows every tenant once, the default one first (order and
\* tenants are changed apart, at five places).
TableSound == ManagerTypeOK /\ OrderMatches

KeptUnlessChanged ==
    [][\A id \in Ids :
         tenants[id] # NoTenant /\ tenants'[id] \notin {tenants[id], NoTenant}
            => tenantDirty(tenants[id], tenants'[id].target)]_managerVars

Plan(base) ==
    LET targets == resolveTargets(base)
    IN  [id \in Wanted(targets) |-> targets[CHOOSE i \in DOMAIN targets : targets[i].id = id]]

Off == NoTenant
Routing == INSTANCE TenantRouting WITH
    Targets <- Target,
    Plans <- {Plan(base) : base \in Bases},
    served <- [id \in Ids |-> IF tenants[id] = NoTenant THEN Off ELSE tenants[id].target]

\* Lookups see the tenants of before a reload or those of after it, never a
\* mixture, and a tenant that cannot be built is the only one affected.
ImplementsTenantRouting == Routing!Spec

ReplacedClosed == apply.stage = "release" ~> life = "closed" \/ (apply = NoApply /\ open = In(tenants))

\* A tenant passes from one instance to another only when one of the fields
\* tenantDirty compares differs: requests of the others are not disturbed.  And
\* Apply comes to its end with every instance closed that was replaced or removed,
\* unless Close comes first.
InstancesReplaced == KeptUnlessChanged /\ ReplacedClosed

\* The comment of Apply: a tenant whose DSN, root, name, autoScan or watch
\* changed is rebuilt.  Checked where only the lock of a store stops a build.
ChangedRebuilt ==
    apply.stage = "release" /\ life = "serving" =>
        \A i \in DOMAIN apply.targets :
            LET tgt == apply.targets[i]
            IN  tenants[tgt.id] # NoTenant /\ ~tenantDirty(tenants[tgt.id], tgt)
=============================================================================
