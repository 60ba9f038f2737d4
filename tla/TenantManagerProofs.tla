------------------------- MODULE TenantManagerProofs -------------------------
(***************************************************************************)
(* RoutedOpen and NoInstanceLost hold of TenantManager for any             *)
(* configurations, drivers and failing builds.  What makes them inductive: *)
(* every instance is filed under its own identifier and numbered anew, so  *)
(* what an Apply builds is never what it releases; while it builds, the    *)
(* table is the one it copied or the one Close has emptied; and what it    *)
(* has to release is exactly what it replaces, then what is removed.       *)
(* On it rest the order of the table (Ordered), that an Apply goes through *)
(* one configuration and replaces only what differs from it (Planned), and *)
(* with that the promises of TenantRouting, step by step.  At its end the  *)
(* PostgreSQL store that a tenant may have.                                *)
(***************************************************************************)
EXTENDS TenantManager, PgStore, SublistProofs, TLAPS

Filed(t) == \A id \in Ids : t[id] # NoTenant => t[id].target.id = id

DistinctIds(targets) == \A i, j \in DOMAIN targets : targets[i].id = targets[j].id => i = j

Numbered ==
    /\ \A i \in open : i.num <= built
    /\ \A id \in Ids : apply.cur[id] # NoTenant => apply.cur[id].num <= built

Starting ==
    life \in {"starting", "failed"} =>
        /\ apply = NoApply
        /\ open = In(tenants)
        /\ DistinctIds(todo)
        /\ \A i \in DOMAIN todo : tenants[todo[i].id] = NoTenant

Idle == apply.stage = "idle" => apply = NoApply

Applying ==
    apply.stage # "idle" =>
        /\ Filed(apply.cur) /\ Filed(apply.upsert)
        /\ DistinctIds(apply.targets)
        /\ In(apply.cur) \cap In(apply.upsert) = {}
        /\ \A id \in apply.release : apply.cur[id] # NoTenant

InBuild ==
    apply.stage = "build" =>
        /\ tenants = NoTenants \/ tenants = apply.cur
        /\ life = "serving" => tenants = apply.cur
        /\ In(apply.upsert) \subseteq open
        /\ In(apply.upsert) \cap In(tenants) = {}
        /\ \A id \in Ids : apply.upsert[id] # NoTenant =>
              \E j \in DOMAIN apply.targets : j < apply.next /\ apply.targets[j].id = id
        /\ apply.release = {id \in Ids : apply.upsert[id] # NoTenant /\ apply.cur[id] # NoTenant}

InRelease ==
    apply.stage = "release" =>
        /\ \A id \in apply.release : apply.cur[id] \notin In(tenants)
        /\ life = "serving" => In(apply.upsert) \subseteq In(tenants)

Inv ==
    /\ Types /\ RoutedOpen /\ NoInstanceLost
    /\ Filed(tenants) /\ Numbered /\ Starting /\ Idle /\ Applying /\ InBuild /\ InRelease

-----------------------------------------------------------------------------
(* Configurations and tables *)

LEMMA SeqOfFunction == \A S : \A n \in Nat : \A f \in [1 .. n -> S] : f \in Seq(S)
  OBVIOUS

LEMMA TargetIds == \A s \in Seq(Target) : \A k \in DOMAIN s : s[k] \in Target /\ s[k].id \in Ids
  <1>1. \A x \in Target : x.id \in Ids
    BY DEF Target
  <1>2. \A S : \A s \in Seq(S) : \A k \in DOMAIN s : s[k] \in S
    OBVIOUS
  <1> QED BY <1>1, <1>2

LEMMA TargetsTyped ==
  ASSUME NEW base \in Bases
  PROVE  resolveTargets(base) \in Seq(Target) /\ DistinctIds(resolveTargets(base))
  <1>1. /\ base.tenants \in Seq([id : Ids, dsn : Dirs \cup {NoDir}, key : Keys])
        /\ base.dsn \in Dirs \cup {NoDir} /\ base.key \in Keys
    BY ManagerAssumption
  <1>2. CASE base.tenants = <<>>
    <2>1. Single(base) \in Target
      BY <1>1, ManagerAssumption DEF Single, Target
    <2> QED BY <1>2, <2>1 DEF resolveTargets, DistinctIds
  <1>3. CASE base.tenants # <<>>
    <2> DEFINE R == [id : Ids, dsn : Dirs \cup {NoDir}, key : Keys]
               n == Len(base.tenants)
    <2>0. n \in Nat /\ DOMAIN base.tenants = 1 .. n /\ \A i \in 1 .. n : base.tenants[i] \in R
      <3>1. base.tenants \in Seq(R)
        BY <1>1
      <3> HIDE DEF R
      <3> QED BY <3>1
    <2>1. \A i \in DOMAIN base.tenants :
             base.tenants[i].id \in Ids /\ base.tenants[i].dsn \in Dirs \cup {NoDir} /\ base.tenants[i].key \in Keys
      <3>1. \A x \in R : x.id \in Ids /\ x.dsn \in Dirs \cup {NoDir} /\ x.key \in Keys
        OBVIOUS
      <3> HIDE DEF R
      <3> QED BY <2>0, <3>1
    <2>2. \A i \in DOMAIN base.tenants : DirOf(base.tenants[i], base) \in Dirs
      BY <1>1, <2>1, ManagerAssumption DEF DirOf
    <2>3. resolveTargets(base) = [i \in DOMAIN base.tenants |->
              [id |-> base.tenants[i].id, dsn |-> DirOf(base.tenants[i], base), key |-> base.tenants[i].key]]
      BY <1>3 DEF resolveTargets
    <2>4. \A i \in DOMAIN base.tenants : resolveTargets(base)[i] \in Target
      BY <2>1, <2>2, <2>3 DEF Target
    <2>5. resolveTargets(base) \in Seq(Target)
      <3>1. resolveTargets(base) \in [1 .. n -> Target]
        BY <2>0, <2>3, <2>4
      <3> QED BY <2>0, <3>1, SeqOfFunction
    <2>6. DistinctIds(resolveTargets(base))
      BY <2>3, IdsDistinct DEF DistinctIds
    <2> QED BY <2>5, <2>6
  <1> QED BY <1>2, <1>3

LEMMA Members ==
  ASSUME NEW t \in Table
  PROVE  \A i : i \in In(t) <=> \E id \in Ids : t[id] = i /\ i # NoTenant
  BY DEF In

LEMMA NobodyTyped == NoTenants \in Table /\ In(NoTenants) = {} /\ Filed(NoTenants)
  BY DEF NoTenants, Table, In, Filed

LEMMA NoApplyTyped ==
  /\ NoApply \in [stage : {"idle", "build", "release"}, targets : Seq(Target), next : Nat \ {0},
                  cur : Table, upsert : Table, release : SUBSET Ids]
  /\ NoApply.stage = "idle" /\ NoApply.cur = NoTenants /\ NoApply.upsert = NoTenants /\ NoApply.release = {}
  BY NobodyTyped DEF NoApply

\* A new instance goes under its identifier.
LEMMA Placed ==
  ASSUME NEW t \in Table, NEW id \in Ids, NEW i \in Instance, t[id] = NoTenant,
         i.target.id = id, Filed(t)
  PROVE  LET u == [t EXCEPT ![id] = i] IN u \in Table /\ Filed(u) /\ In(u) = In(t) \cup {i}
  <1> DEFINE u == [t EXCEPT ![id] = i]
  <1>1. u \in Table /\ \A x \in Ids : u[x] = IF x = id THEN i ELSE t[x]
    BY DEF Table
  <1>2. i # NoTenant
    BY ManagerAssumption
  <1> HIDE DEF u
  <1>3. Filed(u)
    BY <1>1 DEF Filed
  <1>4. In(u) = In(t) \cup {i}
    BY <1>1, <1>2, Members
  <1> QED BY <1>1, <1>3, <1>4 DEF u

LEMMA FreshTyped ==
  ASSUME built \in Nat, NEW tgt \in Target
  PROVE  NewInstance(tgt) \in Instance /\ NewInstance(tgt).num = built + 1 /\ NewInstance(tgt).target.id = tgt.id
         /\ tgt.id \in Ids
  BY DEF NewInstance, Instance, Target

LEMMA InitInv == ManagerInit => Inv
  <1> SUFFICES ASSUME ManagerInit PROVE Inv
    OBVIOUS
  <1>1. PICK base \in Bases : todo = resolveTargets(base)
    BY DEF ManagerInit
  <1>2. todo \in Seq(Target) /\ DistinctIds(todo)
    BY <1>1, TargetsTyped
  <1>3. Types
    BY <1>2, NobodyTyped, NoApplyTyped DEF ManagerInit, Types
  <1>4. RoutedOpen /\ Filed(tenants) /\ \A id \in Ids : tenants[id] = NoTenant
    BY NobodyTyped DEF ManagerInit, RoutedOpen, NoTenants
  <1>5. Starting
    <2>1. \A i \in DOMAIN todo : todo[i].id \in Ids
      BY <1>2, TargetIds
    <2> QED BY <1>2, <1>4, <2>1, NobodyTyped DEF ManagerInit, Starting
  <1>6. Numbered /\ NoInstanceLost /\ Idle
    BY NoApplyTyped DEF ManagerInit, Numbered, NoInstanceLost, Idle, NoTenants
  <1>7. Applying /\ InBuild /\ InRelease
    BY NoApplyTyped DEF ManagerInit, Applying, InBuild, InRelease
  <1> QED BY <1>3, <1>4, <1>5, <1>6, <1>7 DEF Inv

-----------------------------------------------------------------------------
(* NewManager *)

LEMMA StartTenantKeeps == Inv /\ StartTenant => Inv'
  <1> SUFFICES ASSUME Inv, StartTenant PROVE Inv'
    OBVIOUS
  <1> DEFINE tgt == Head(todo)  i == NewInstance(tgt)
  <1>1. /\ Types /\ life = "starting" /\ apply = NoApply /\ open = In(tenants) /\ DistinctIds(todo)
        /\ \A k \in DOMAIN todo : tenants[todo[k].id] = NoTenant
    BY DEF Inv, StartTenant, Starting
  <1>2. todo \in Seq(Target) /\ todo # <<>> /\ built \in Nat /\ tenants \in Table /\ open \subseteq Instance
    BY <1>1 DEF Types, StartTenant
  <1>3. /\ tgt = todo[1] /\ 1 \in DOMAIN todo /\ tgt \in Target /\ Tail(todo) \in Seq(Target)
        /\ \A k \in DOMAIN Tail(todo) : k + 1 \in DOMAIN todo /\ k + 1 # 1 /\ Tail(todo)[k] = todo[k + 1]
    BY <1>2
  <1>4. i \in Instance /\ i.num = built + 1 /\ i.target.id = tgt.id /\ tgt.id \in Ids
    BY <1>2, <1>3, FreshTyped
  <1>5. /\ open' = open \cup {i} /\ built' = built + 1 /\ tenants' = [tenants EXCEPT ![tgt.id] = i]
        /\ todo' = Tail(todo) /\ life' = "starting" /\ apply' = NoApply
    BY <1>1 DEF StartTenant, Build
  <1>6. tenants[tgt.id] = NoTenant /\ Filed(tenants)
    BY <1>1, <1>3 DEF Inv
  <1> HIDE DEF tgt, i
  <1>7. tenants' \in Table /\ Filed(tenants') /\ In(tenants') = In(tenants) \cup {i}
    BY <1>2, <1>4, <1>5, <1>6, Placed
  <1>8. Types'
    <2>1. open' \subseteq Instance /\ built' \in Nat
      BY <1>2, <1>4, <1>5
    <2> QED BY <2>1, <1>3, <1>5, <1>7, NoApplyTyped DEF Types
  <1>9. open' = In(tenants') /\ RoutedOpen'
    <2>1. open' = In(tenants')
      BY <1>1, <1>5, <1>7
    <2> QED BY <2>1 DEF RoutedOpen, In
  <1>10. Starting'
    <2>1. \A k, l \in DOMAIN Tail(todo) : Tail(todo)[k].id = Tail(todo)[l].id => k = l
      <3>1. \A k \in DOMAIN Tail(todo) : k \in Nat
        BY <1>3
      <3> QED BY <1>1, <1>3, <3>1 DEF DistinctIds
    <2>2. \A k \in DOMAIN Tail(todo) : Tail(todo)[k].id # tgt.id /\ Tail(todo)[k].id \in Ids
      <3>1. \A k \in DOMAIN Tail(todo) : Tail(todo)[k].id \in Ids
        BY <1>3, TargetIds
      <3>2. \A k \in DOMAIN Tail(todo) : Tail(todo)[k].id # tgt.id
        BY <1>1, <1>3 DEF DistinctIds
      <3> QED BY <3>1, <3>2
    <2>3. \A k \in DOMAIN Tail(todo) : tenants'[Tail(todo)[k].id] = NoTenant
      BY <1>1, <1>2, <1>3, <1>5, <2>2 DEF Table
    <2> QED BY <1>5, <1>9, <2>1, <2>3 DEF Starting, DistinctIds
  <1>11. Numbered'
    <2>1. \A x \in open : x.num \in Nat /\ x.num <= built
      BY <1>2 DEF Inv, Numbered, Instance
    <2>2. \A x \in open' : x.num <= built'
      BY <1>2, <1>4, <1>5, <2>1
    <2>3. \A id \in Ids : apply'.cur[id] = NoTenant
      BY <1>5, NoApplyTyped DEF NoTenants
    <2> QED BY <2>2, <2>3 DEF Numbered
  <1>12. NoInstanceLost' /\ Idle' /\ Applying' /\ InBuild' /\ InRelease'
    BY <1>5, NoApplyTyped DEF NoInstanceLost, Idle, Applying, InBuild, InRelease
  <1> QED BY <1>7, <1>8, <1>9, <1>10, <1>11, <1>12 DEF Inv

LEMMA StartFailsKeeps == Inv /\ StartFails => Inv'
  <1> SUFFICES ASSUME Inv, StartFails PROVE Inv'
    OBVIOUS
  <1>1. /\ life = "starting" /\ life' = "failed"
        /\ UNCHANGED <<tenants, open, built, todo, apply>>
    BY DEF StartFails, BuildFails, table
  <1>2. Types' /\ RoutedOpen' /\ Filed(tenants')
    BY <1>1 DEF Inv, Types, RoutedOpen
  <1>3. Numbered' /\ Starting' /\ Idle'
    BY <1>1 DEF Inv, Numbered, Starting, Idle
  <1>4. NoInstanceLost' /\ Applying'
    BY <1>1 DEF Inv, NoInstanceLost, Applying
  <1>5. InBuild' /\ InRelease'
    BY <1>1 DEF Inv, InBuild, InRelease
  <1> QED BY <1>2, <1>3, <1>4, <1>5 DEF Inv

LEMMA StartedKeeps == Inv /\ Started => Inv'
  <1> SUFFICES ASSUME Inv, Started PROVE Inv'
    OBVIOUS
  <1>1. /\ life = "starting" /\ life' = "serving"
        /\ UNCHANGED <<tenants, open, built, todo, apply>>
    BY DEF Started
  <1>2. apply = NoApply /\ open = In(tenants)
    BY <1>1 DEF Inv, Starting
  <1>3. Types' /\ RoutedOpen' /\ Filed(tenants')
    BY <1>1 DEF Inv, Types, RoutedOpen
  <1>4. Numbered' /\ Starting' /\ Idle'
    BY <1>1 DEF Inv, Numbered, Starting, Idle
  <1>5. NoInstanceLost'
    BY <1>1, <1>2, NoApplyTyped, NobodyTyped DEF NoInstanceLost
  <1>6. Applying' /\ InBuild' /\ InRelease'
    BY <1>1, <1>2, NoApplyTyped DEF Applying, InBuild, InRelease
  <1> QED BY <1>3, <1>4, <1>5, <1>6 DEF Inv

-----------------------------------------------------------------------------
(* Apply *)

LEMMA ApplyBeginKeeps == \A base \in Bases : Inv /\ ApplyBegin(base) => Inv'
  <1> SUFFICES ASSUME NEW base \in Bases, Inv, ApplyBegin(base) PROVE Inv'
    OBVIOUS
  <1>1. /\ life \in {"serving", "closed"} /\ apply = NoApply
        /\ UNCHANGED <<tenants, open, built, life, todo>>
    BY DEF ApplyBegin, Inv, Idle, table
  <1>2. resolveTargets(base) \in Seq(Target) /\ DistinctIds(resolveTargets(base)) /\ tenants \in Table
    BY TargetsTyped DEF Inv, Types
  <1>3. apply' = [stage |-> "build", targets |-> resolveTargets(base), next |-> 1,
                  cur |-> tenants, upsert |-> NoTenants, release |-> {}]
    BY DEF ApplyBegin, NoApply
  <1>4. Types'
    BY <1>1, <1>2, <1>3, NobodyTyped DEF Inv, Types
  <1>5. RoutedOpen' /\ Filed(tenants') /\ Starting' /\ Idle' /\ InRelease'
    BY <1>1, <1>3 DEF Inv, RoutedOpen, Starting, Idle, InRelease
  <1>6. NoInstanceLost'
    BY <1>1, <1>3, NoApplyTyped, NobodyTyped DEF Inv, NoInstanceLost
  <1>7. Numbered'
    BY <1>1, <1>3 DEF Inv, Numbered, RoutedOpen
  <1>8. Applying'
    BY <1>2, <1>3, NobodyTyped DEF Inv, Applying
  <1>9. InBuild'
    BY <1>1, <1>3, NobodyTyped DEF InBuild, NoTenants
  <1> QED BY <1>4, <1>5, <1>6, <1>7, <1>8, <1>9 DEF Inv

\* An Apply that leaves a target alone only moves on.
LEMMA MovingOn ==
  Inv /\ Building /\ apply' = [apply EXCEPT !.next = @ + 1]
      /\ UNCHANGED <<tenants, open, built, life, todo>> => Inv'
  <1> SUFFICES ASSUME Inv, Building, apply' = [apply EXCEPT !.next = @ + 1],
                      UNCHANGED <<tenants, open, built, life, todo>>
               PROVE  Inv'
    OBVIOUS
  <1>1. /\ apply.stage = "build" /\ apply.next \in Nat /\ apply.next + 1 \in Nat \ {0}
        /\ apply.targets \in Seq(Target)
    BY DEF Building, Inv, Types
  <1>2. /\ apply'.stage = "build" /\ apply'.targets = apply.targets /\ apply'.next = apply.next + 1
        /\ apply'.cur = apply.cur /\ apply'.upsert = apply.upsert /\ apply'.release = apply.release
    BY <1>1 DEF Inv, Types
  <1>3. Types'
    BY <1>1 DEF Inv, Types
  <1>4. RoutedOpen' /\ Filed(tenants') /\ NoInstanceLost' /\ Numbered'
    BY <1>2 DEF Inv, RoutedOpen, NoInstanceLost, Numbered
  <1>5. Starting' /\ Idle' /\ InRelease'
    <2>1. life \notin {"starting", "failed"}
      BY <1>1, NoApplyTyped DEF Inv, Starting
    <2> QED BY <1>2, <2>1 DEF Starting, Idle, InRelease
  <1>6. Applying'
    BY <1>1, <1>2 DEF Inv, Applying
  <1>7. InBuild'
    <2>1. \A j \in DOMAIN apply.targets : j < apply.next => j < apply'.next
      BY <1>1, <1>2
    <2>2. \A id \in Ids : apply'.upsert[id] # NoTenant =>
            \E j \in DOMAIN apply'.targets : j < apply'.next /\ apply'.targets[j].id = id
      BY <1>1, <1>2, <2>1 DEF Inv, InBuild
    <2> QED BY <1>1, <1>2, <2>2 DEF Inv, InBuild
  <1> QED BY <1>3, <1>4, <1>5, <1>6, <1>7 DEF Inv

LEMMA ApplyKeepKeeps == Inv /\ ApplyKeep => Inv'
  BY MovingOn DEF ApplyKeep, table

LEMMA ApplyBuildFailsKeeps == Inv /\ ApplyBuildFails => Inv'
  BY MovingOn DEF ApplyBuildFails, BuildFails, ToBuild, table

LEMMA ApplyBuildKeeps == Inv /\ ApplyBuild => Inv'
  <1> SUFFICES ASSUME Inv, ApplyBuild PROVE Inv'
    OBVIOUS
  <1> DEFINE id == Current.id  i == NewInstance(Current)
  <1>1. /\ apply.stage = "build" /\ apply.next \in DOMAIN apply.targets
        /\ apply.next \in Nat /\ apply.next + 1 \in Nat \ {0}
        /\ apply.targets \in Seq(Target) /\ built \in Nat /\ open \subseteq Instance
        /\ tenants \in Table /\ apply.cur \in Table /\ apply.upsert \in Table
        /\ apply.release \in SUBSET Ids
    BY DEF ApplyBuild, ToBuild, Building, Inv, Types
  <1>2. Current \in Target
    BY <1>1, TargetIds DEF Current
  <1>3. i \in Instance /\ i.num = built + 1 /\ i.target.id = id /\ id \in Ids
    BY <1>1, <1>2, FreshTyped
  <1>4. apply.targets[apply.next].id = id
    BY DEF Current
  <1>5. /\ open' = open \cup {i} /\ built' = built + 1
        /\ UNCHANGED <<tenants, life, todo>>
    BY DEF ApplyBuild, Build, table
  <1>6. apply' = [apply EXCEPT !.next = @ + 1, !.upsert[id] = i,
                    !.release = IF Served(id) THEN @ \cup {id} ELSE @]
    BY DEF ApplyBuild
  <1> HIDE DEF id, i
  <1>7. /\ apply'.stage = "build" /\ apply'.targets = apply.targets /\ apply'.next = apply.next + 1
        /\ apply'.cur = apply.cur /\ apply'.upsert = [apply.upsert EXCEPT ![id] = i]
        /\ apply'.release = IF apply.cur[id] # NoTenant THEN apply.release \cup {id} ELSE apply.release
    BY <1>1, <1>6 DEF Inv, Types, Served
  <1>8. /\ Filed(apply.cur) /\ Filed(apply.upsert) /\ DistinctIds(apply.targets)
        /\ In(apply.cur) \cap In(apply.upsert) = {}
        /\ \A x \in apply.release : apply.cur[x] # NoTenant
    BY <1>1 DEF Inv, Applying
  <1>9. apply.upsert[id] = NoTenant
    <2>1. \A j \in DOMAIN apply.targets : j < apply.next => apply.targets[j].id # id
      <3>1. ~(apply.next < apply.next)
        BY <1>1
      <3> QED BY <1>1, <1>4, <1>8, <3>1 DEF DistinctIds
    <2> QED BY <1>1, <1>3, <2>1 DEF Inv, InBuild
  <1>10. /\ apply'.upsert \in Table /\ Filed(apply'.upsert)
         /\ In(apply'.upsert) = In(apply.upsert) \cup {i}
    BY <1>1, <1>3, <1>7, <1>8, <1>9, Placed
  <1>11. i # NoTenant /\ i \notin open /\ i \notin In(apply.cur) /\ i \notin In(tenants)
    <2>1. i # NoTenant
      BY <1>3, ManagerAssumption
    <2>2. \A x : x.num <= built => x # i
      BY <1>1, <1>3
    <2>3. i \notin open
      BY <2>2 DEF Inv, Numbered
    <2>4. i \notin In(apply.cur)
      BY <1>1, <2>2, Members DEF Inv, Numbered
    <2>5. i \notin In(tenants)
      BY <1>1, <2>3, Members DEF Inv, RoutedOpen
    <2> QED BY <2>1, <2>3, <2>4, <2>5
  <1>12. Types'
    <2>1. open' \subseteq Instance /\ built' \in Nat /\ apply'.release \in SUBSET Ids
      BY <1>1, <1>3, <1>5, <1>7
    <2>2. apply' = [stage |-> "build", targets |-> apply.targets, next |-> apply.next + 1,
                    cur |-> apply.cur, upsert |-> apply'.upsert, release |-> apply'.release]
      BY <1>1, <1>6, <1>7 DEF Inv, Types
    <2>3. apply' \in [stage : {"idle", "build", "release"}, targets : Seq(Target), next : Nat \ {0},
                      cur : Table, upsert : Table, release : SUBSET Ids]
      BY <1>1, <1>10, <2>1, <2>2
    <2> QED BY <1>5, <2>1, <2>3 DEF Inv, Types
  <1>13. RoutedOpen' /\ Filed(tenants')
    BY <1>5 DEF Inv, RoutedOpen
  <1>14. life \notin {"starting", "failed"}
    BY <1>1, NoApplyTyped DEF Inv, Starting
  <1>15. Starting' /\ Idle' /\ InRelease'
    BY <1>5, <1>7, <1>14 DEF Starting, Idle, InRelease
  <1>16. Numbered'
    <2>1. \A x \in open : x.num \in Nat /\ x.num <= built
      BY <1>1 DEF Inv, Numbered, Instance
    <2>2. \A x \in open' : x.num <= built'
      BY <1>1, <1>3, <1>5, <2>1
    <2>3. \A x \in Ids : apply.cur[x] # NoTenant => apply.cur[x].num \in Nat /\ apply.cur[x].num <= built
      BY <1>1 DEF Inv, Numbered, Instance, Table
    <2>4. \A x \in Ids : apply'.cur[x] # NoTenant => apply'.cur[x].num <= built'
      BY <1>1, <1>5, <1>7, <2>3
    <2> QED BY <2>2, <2>4 DEF Numbered
  <1>17. Applying'
    <2>1. In(apply'.cur) \cap In(apply'.upsert) = {}
      BY <1>7, <1>8, <1>10, <1>11
    <2>2. \A x \in apply'.release : apply'.cur[x] # NoTenant
      BY <1>7, <1>8
    <2> QED BY <1>7, <1>8, <1>10, <2>1, <2>2 DEF Applying
  <1>18. NoInstanceLost'
    <2>1. SUFFICES ASSUME life = "serving"
                   PROVE  open' = In(tenants) \cup In(apply'.upsert) \cup {apply.cur[x] : x \in apply'.release}
      BY <1>5, <1>7 DEF NoInstanceLost
    <2>2. open = In(tenants) \cup In(apply.upsert) \cup {apply.cur[x] : x \in apply.release}
      BY <2>1 DEF Inv, NoInstanceLost
    <2>3. tenants = apply.cur
      BY <1>1, <2>1 DEF Inv, InBuild
    <2>4. apply.cur[id] # NoTenant => apply.cur[id] \in In(tenants)
      BY <1>1, <1>3, <2>3, Members
    <2>5. {apply.cur[x] : x \in apply'.release} \subseteq {apply.cur[x] : x \in apply.release} \cup In(tenants)
      BY <1>7, <2>4
    <2>6. {apply.cur[x] : x \in apply.release} \subseteq {apply.cur[x] : x \in apply'.release}
      BY <1>7
    <2> QED BY <1>5, <1>10, <2>2, <2>5, <2>6
  <1>19. InBuild'
    <2>1. /\ tenants' = NoTenants \/ tenants' = apply'.cur
          /\ life' = "serving" => tenants' = apply'.cur
      BY <1>1, <1>5, <1>7 DEF Inv, InBuild
    <2>2. In(apply'.upsert) \subseteq open' /\ In(apply'.upsert) \cap In(tenants') = {}
      BY <1>1, <1>5, <1>10, <1>11 DEF Inv, InBuild
    <2>3. \A x \in Ids : apply'.upsert[x] = IF x = id THEN i ELSE apply.upsert[x]
      BY <1>1, <1>3, <1>7 DEF Table
    <2>4. \A x \in Ids : apply'.upsert[x] # NoTenant =>
            \E j \in DOMAIN apply'.targets : j < apply'.next /\ apply'.targets[j].id = x
      <3>1. \A j \in DOMAIN apply.targets : j < apply.next => j < apply'.next
        BY <1>1, <1>7
      <3>2. apply.next < apply'.next
        BY <1>1, <1>7
      <3> QED BY <1>1, <1>4, <1>7, <2>3, <3>1, <3>2 DEF Inv, InBuild
    <2>5. apply'.release = {x \in Ids : apply'.upsert[x] # NoTenant /\ apply'.cur[x] # NoTenant}
      <3>1. apply.release = {x \in Ids : apply.upsert[x] # NoTenant /\ apply.cur[x] # NoTenant}
        BY <1>1 DEF Inv, InBuild
      <3> QED BY <1>3, <1>7, <1>9, <1>11, <2>3, <3>1
    <2> QED BY <2>1, <2>2, <2>4, <2>5 DEF InBuild
  <1> QED BY <1>12, <1>13, <1>15, <1>16, <1>17, <1>18, <1>19 DEF Inv

LEMMA ApplyCommitKeeps == Inv /\ ApplyCommit => Inv'
  <1> SUFFICES ASSUME Inv, ApplyCommit PROVE Inv'
    OBVIOUS
  <1> DEFINE new == [id \in Ids |-> IF apply.upsert[id] # NoTenant THEN apply.upsert[id]
                                    ELSE IF id \in Removed THEN NoTenant ELSE tenants[id]]
  <1>1. /\ apply.stage = "build" /\ tenants \in Table /\ apply.cur \in Table /\ apply.upsert \in Table
        /\ apply.release \in SUBSET Ids /\ apply.targets \in Seq(Target)
    BY DEF ApplyCommit, Inv, Types
  <1>2. /\ tenants' = new /\ UNCHANGED <<open, built, life, todo>>
        /\ apply' = [apply EXCEPT !.stage = "release", !.release = @ \cup Removed]
    BY DEF ApplyCommit
  <1>3. /\ apply'.stage = "release" /\ apply'.targets = apply.targets /\ apply'.next = apply.next
        /\ apply'.cur = apply.cur /\ apply'.upsert = apply.upsert
        /\ apply'.release = apply.release \cup Removed
    BY <1>1, <1>2 DEF Inv, Types
  <1>4. new \in Table /\ \A id \in Ids : new[id] =
          IF apply.upsert[id] # NoTenant THEN apply.upsert[id]
          ELSE IF id \in Removed THEN NoTenant ELSE tenants[id]
    BY <1>1 DEF Table
  <1> HIDE DEF new
  <1>5. Removed \subseteq Ids /\ \A id \in Removed : apply.cur[id] # NoTenant
    BY DEF Removed, Served
  <1>6. \A id \in Removed : apply.upsert[id] = NoTenant
    <2>1. \A id \in Ids : apply.upsert[id] # NoTenant => id \in Wanted(apply.targets)
      BY <1>1 DEF Inv, InBuild, Wanted
    <2> QED BY <2>1 DEF Removed
  <1>7. /\ Filed(tenants) /\ Filed(apply.cur) /\ Filed(apply.upsert)
        /\ In(apply.cur) \cap In(apply.upsert) = {}
        /\ In(apply.upsert) \subseteq open
        /\ apply.release = {id \in Ids : apply.upsert[id] # NoTenant /\ apply.cur[id] # NoTenant}
        /\ tenants = NoTenants \/ tenants = apply.cur
        /\ life = "serving" => tenants = apply.cur
    BY <1>1 DEF Inv, Applying, InBuild
  <1>8. Types'
    <2>1. apply'.release \in SUBSET Ids
      BY <1>1, <1>3, <1>5
    <2>2. apply' = [stage |-> "release", targets |-> apply.targets, next |-> apply.next,
                    cur |-> apply.cur, upsert |-> apply.upsert, release |-> apply'.release]
      BY <1>1, <1>2, <1>3 DEF Inv, Types
    <2>3. apply.next \in Nat \ {0}
      BY DEF Inv, Types
    <2>4. apply' \in [stage : {"idle", "build", "release"}, targets : Seq(Target), next : Nat \ {0},
                      cur : Table, upsert : Table, release : SUBSET Ids]
      BY <1>1, <2>1, <2>2, <2>3
    <2> QED BY <1>2, <1>4, <2>4 DEF Inv, Types
  <1>9. RoutedOpen'
    <2>1. \A id \in Ids : apply.upsert[id] # NoTenant => apply.upsert[id] \in open
      BY <1>1, <1>7, Members
    <2> QED BY <1>2, <1>4, <2>1 DEF Inv, RoutedOpen
  <1>10. Filed(tenants')
    BY <1>2, <1>4, <1>7 DEF Filed
  <1>11. life \notin {"starting", "failed"}
    BY <1>1, NoApplyTyped DEF Inv, Starting
  <1>12. Starting' /\ Idle' /\ InBuild'
    BY <1>2, <1>3, <1>11 DEF Starting, Idle, InBuild
  <1>13. Numbered'
    BY <1>2, <1>3 DEF Inv, Numbered
  <1>14. Applying'
    <2>1. \A id \in apply'.release : apply'.cur[id] # NoTenant
      BY <1>3, <1>5, <1>7
    <2> QED BY <1>1, <1>3, <1>7, <2>1 DEF Inv, Applying
  <1>15. \A id \in Ids : tenants[id] # NoTenant => tenants[id] = apply.cur[id]
    BY <1>7 DEF NoTenants
  <1>16. \A id \in apply'.release : apply.cur[id] \notin In(new)
    <2> SUFFICES ASSUME NEW id \in apply'.release, NEW x \in Ids, new[x] = apply.cur[id], new[x] # NoTenant
                 PROVE  FALSE
      BY <1>4, Members
    <2>1. id \in Ids /\ apply.cur[id] # NoTenant
      BY <1>1, <1>3, <1>5, <1>7
    <2>2. apply.upsert[x] = NoTenant
      <3>1. apply.cur[id] \in In(apply.cur)
        BY <1>1, <2>1, Members
      <3>2. apply.upsert[x] # NoTenant => apply.upsert[x] \in In(apply.upsert)
        BY <1>1, Members
      <3> QED BY <1>4, <1>7, <3>1, <3>2
    <2>3. new[x] = tenants[x] /\ x \notin Removed
      BY <1>4, <2>2
    <2>4. x = id
      <3>1. tenants[x] # NoTenant /\ apply.cur[x] = apply.cur[id]
        BY <1>15, <2>3
      <3>2. apply.cur[x].target.id = x /\ apply.cur[id].target.id = id
        BY <1>7, <2>1, <3>1 DEF Filed
      <3> QED BY <3>1, <3>2
    <2> QED BY <1>3, <1>7, <2>2, <2>3, <2>4
  <1>17. In(apply.upsert) \subseteq In(new)
    BY <1>1, <1>4, Members
  <1>18. InRelease'
    BY <1>2, <1>3, <1>16, <1>17 DEF InRelease
  <1>19. NoInstanceLost'
    <2>1. SUFFICES ASSUME life = "serving"
                   PROVE  open = In(new) \cup In(apply.upsert) \cup {apply.cur[x] : x \in apply'.release}
      BY <1>2, <1>3 DEF NoInstanceLost
    <2>2. open = In(tenants) \cup In(apply.upsert) \cup {apply.cur[x] : x \in apply.release}
      BY <2>1 DEF Inv, NoInstanceLost
    <2>3. tenants = apply.cur
      BY <1>7, <2>1
    <2>4. \A x \in Ids : apply.cur[x] # NoTenant => apply.cur[x] \in In(tenants)
      BY <1>1, <2>3, Members
    <2>5. {apply.cur[x] : x \in apply'.release} \subseteq In(tenants)
      BY <1>1, <1>3, <1>5, <1>7, <2>4
    <2>6. In(new) \subseteq In(tenants) \cup In(apply.upsert)
      BY <1>1, <1>4, Members
    <2>7. In(tenants) \subseteq In(new) \cup {apply.cur[x] : x \in apply'.release}
      <3> SUFFICES ASSUME NEW x \in Ids, tenants[x] # NoTenant, tenants[x] \notin In(new)
                   PROVE  x \in apply'.release
        BY <1>1, <2>3, Members
      <3>1. apply.upsert[x] # NoTenant \/ x \in Removed
        BY <1>4, Members
      <3> QED BY <1>3, <1>7, <2>3, <3>1
    <2>8. {apply.cur[x] : x \in apply.release} \subseteq {apply.cur[x] : x \in apply'.release}
      BY <1>3
    <2> QED BY <1>17, <2>2, <2>5, <2>6, <2>7, <2>8
  <1> QED BY <1>8, <1>9, <1>10, <1>12, <1>13, <1>14, <1>18, <1>19 DEF Inv

LEMMA ApplyReleaseKeeps == Inv /\ ApplyRelease => Inv'
  <1> SUFFICES ASSUME Inv, ApplyRelease PROVE Inv'
    OBVIOUS
  <1>1. PICK id \in apply.release :
          /\ open' = open \ {apply.cur[id]}
          /\ apply' = [apply EXCEPT !.release = @ \ {id}]
    BY DEF ApplyRelease
  <1>2. /\ apply.stage = "release" /\ apply.cur \in Table /\ apply.upsert \in Table /\ tenants \in Table
        /\ apply.release \in SUBSET Ids /\ UNCHANGED <<tenants, built, life, todo>>
    BY DEF ApplyRelease, Inv, Types, table
  <1>3. /\ apply'.stage = "release" /\ apply'.targets = apply.targets /\ apply'.next = apply.next
        /\ apply'.cur = apply.cur /\ apply'.upsert = apply.upsert
        /\ apply'.release = apply.release \ {id}
    BY <1>1, <1>2 DEF Inv, Types
  <1>4. apply.cur[id] \notin In(tenants) /\ apply.cur[id] # NoTenant
    BY <1>2 DEF Inv, InRelease, Applying
  <1>5. Types'
    BY <1>1, <1>2 DEF Inv, Types
  <1>6. RoutedOpen'
    <2>1. \A x \in Ids : tenants[x] # NoTenant => tenants[x] # apply.cur[id]
      BY <1>2, <1>4, Members
    <2> QED BY <1>1, <1>2, <2>1 DEF Inv, RoutedOpen
  <1>7. Filed(tenants') /\ Numbered'
    BY <1>1, <1>2, <1>3 DEF Inv, Numbered
  <1>8. life \notin {"starting", "failed"}
    BY <1>2, NoApplyTyped DEF Inv, Starting
  <1>9. Starting' /\ Idle' /\ InBuild'
    BY <1>2, <1>3, <1>8 DEF Starting, Idle, InBuild
  <1>10. Applying' /\ InRelease'
    BY <1>2, <1>3 DEF Inv, Applying, InRelease
  <1>11. NoInstanceLost'
    <2>1. SUFFICES ASSUME life = "serving"
                   PROVE  open' = In(tenants) \cup In(apply.upsert) \cup {apply.cur[x] : x \in apply'.release}
      BY <1>2, <1>3 DEF NoInstanceLost
    <2>2. open = In(tenants) \cup In(apply.upsert) \cup {apply.cur[x] : x \in apply.release}
      BY <2>1 DEF Inv, NoInstanceLost
    <2>3. In(apply.upsert) \subseteq In(tenants)
      BY <1>2, <2>1 DEF Inv, InRelease
    <2>4. \A x \in apply.release : apply.cur[x] = apply.cur[id] => x = id
      BY <1>2, <1>4 DEF Inv, Applying, Filed
    <2>5. {apply.cur[x] : x \in apply'.release} = {apply.cur[x] : x \in apply.release} \ {apply.cur[id]}
      BY <1>3, <2>4
    <2> QED BY <1>1, <1>4, <2>2, <2>3, <2>5
  <1> QED BY <1>5, <1>6, <1>7, <1>9, <1>10, <1>11 DEF Inv

LEMMA ApplyReturnKeeps == Inv /\ ApplyReturn => Inv'
  <1> SUFFICES ASSUME Inv, ApplyReturn PROVE Inv'
    OBVIOUS
  <1>1. /\ apply.stage = "release" /\ apply.release = {} /\ apply' = NoApply
        /\ UNCHANGED <<tenants, open, built, life, todo>>
    BY DEF ApplyReturn, table
  <1>2. life \notin {"starting", "failed"}
    BY <1>1, NoApplyTyped DEF Inv, Starting
  <1>3. Types'
    BY <1>1, NoApplyTyped DEF Inv, Types
  <1>4. RoutedOpen' /\ Filed(tenants') /\ Starting' /\ Idle'
    BY <1>1, <1>2 DEF Inv, RoutedOpen, Starting, Idle
  <1>5. Numbered'
    BY <1>1, NoApplyTyped DEF Inv, Numbered, NoTenants
  <1>6. Applying' /\ InBuild' /\ InRelease'
    BY <1>1, NoApplyTyped DEF Applying, InBuild, InRelease
  <1>7. NoInstanceLost'
    <2>1. life = "serving" => open = In(tenants) \cup In(apply.upsert) /\ In(apply.upsert) \subseteq In(tenants)
      BY <1>1 DEF Inv, NoInstanceLost, InRelease
    <2>2. life = "serving" => open = In(tenants)
      BY <2>1
    <2> QED BY <1>1, <2>2, NoApplyTyped, NobodyTyped DEF NoInstanceLost
  <1> QED BY <1>3, <1>4, <1>5, <1>6, <1>7 DEF Inv

-----------------------------------------------------------------------------
(* Close *)

LEMMA CloseKeeps == Inv /\ Close => Inv'
  <1> SUFFICES ASSUME Inv, Close PROVE Inv'
    OBVIOUS
  <1>1. /\ life = "serving" /\ life' = "closed" /\ tenants' = NoTenants /\ open' = open \ In(tenants)
        /\ UNCHANGED <<built, todo, apply>>
    BY DEF Close
  <1>2. Types' /\ RoutedOpen' /\ Filed(tenants')
    BY <1>1, NobodyTyped DEF Inv, Types, RoutedOpen, NoTenants
  <1>3. Numbered' /\ NoInstanceLost' /\ Starting' /\ Idle'
    BY <1>1 DEF Inv, Numbered, NoInstanceLost, Starting, Idle
  <1>4. Applying'
    BY <1>1 DEF Inv, Applying
  <1>5. InBuild'
    BY <1>1, NobodyTyped DEF Inv, InBuild
  <1>6. InRelease'
    BY <1>1, NobodyTyped DEF Inv, InRelease
  <1> QED BY <1>2, <1>3, <1>4, <1>5, <1>6 DEF Inv

-----------------------------------------------------------------------------
(* The theorems *)

LEMMA StutterKeeps == Inv /\ UNCHANGED managerVars => Inv'
  <1> SUFFICES ASSUME Inv, UNCHANGED managerVars PROVE Inv'
    OBVIOUS
  <1>1. UNCHANGED <<tenants, open, built, life, todo, apply>>
    BY DEF managerVars, table
  <1>2. Types' /\ RoutedOpen' /\ NoInstanceLost' /\ Filed(tenants')
    BY <1>1 DEF Inv, Types, RoutedOpen, NoInstanceLost
  <1>3. Numbered' /\ Starting' /\ Idle' /\ Applying'
    BY <1>1 DEF Inv, Numbered, Starting, Idle, Applying
  <1>4. InBuild' /\ InRelease'
    BY <1>1 DEF Inv, InBuild, InRelease
  <1> QED BY <1>2, <1>3, <1>4 DEF Inv

\* Inv is kept by every step of the manager, the configuration, the drivers and
\* the outcome of every build being what they may.
THEOREM Inductive == ManagerSpec => []Inv
  <1>1. Inv /\ [ManagerNext]_managerVars => Inv'
    <2> SUFFICES ASSUME Inv, [ManagerNext]_managerVars PROVE Inv'
      OBVIOUS
    <2>1. CASE NewManager
      BY <2>1, StartTenantKeeps, StartFailsKeeps, StartedKeeps DEF NewManager
    <2>2. CASE \E base \in Bases : ApplyBegin(base)
      BY <2>2, ApplyBeginKeeps
    <2>3. CASE Apply
      BY <2>3, ApplyKeepKeeps, ApplyBuildKeeps, ApplyBuildFailsKeeps, ApplyCommitKeeps,
         ApplyReleaseKeeps, ApplyReturnKeeps DEF Apply
    <2>4. CASE Close
      BY <2>4, CloseKeeps
    <2>5. CASE UNCHANGED managerVars
      BY <2>5, StutterKeeps
    <2> QED BY <2>1, <2>2, <2>3, <2>4, <2>5 DEF ManagerNext
  <1> QED BY InitInv, <1>1, PTL DEF ManagerSpec

\* At every moment of a reload and of the shutdown a tenant that a lookup finds
\* has its store open, and while the manager serves, every open store has an
\* owner that will close it.
THEOREM InstancesStayOwned == ManagerSpec => []InstancesOwned
  <1>1. Inv => InstancesOwned
    BY DEF Inv, InstancesOwned
  <1> QED BY <1>1, Inductive, PTL

-----------------------------------------------------------------------------
(* The order *)

\* What TableSound is of a state before the default tenant is known as well;
\* after Close an Apply may leave an order without tenants, which no lookup
\* reads.
Ordered ==
    /\ order \in Seq(Ids) /\ defaultID \in Ids
    /\ life \in {"starting", "serving"} =>
          Distinct(order) /\ \A id \in Ids : Contains(order, id) <=> tenants[id] # NoTenant
    /\ life = "serving" /\ order # <<>> => defaultID = Head(order)

LEMMA OrderedAtStart == ManagerInit => Ordered
  <1> SUFFICES ASSUME ManagerInit PROVE Ordered
    OBVIOUS
  <1>1. order = <<>> /\ tenants = NoTenants /\ defaultID = DefaultID /\ life = "starting"
    BY DEF ManagerInit
  <1>2. order \in Seq(Ids) /\ DOMAIN order = {} /\ Len(order) = 0
    BY <1>1
  <1>3. Distinct(order) /\ \A id : ~Contains(order, id)
    BY <1>2 DEF Distinct, Contains
  <1> QED BY <1>1, <1>2, <1>3, ManagerAssumption DEF Ordered, NoTenants

LEMMA StartTenantOrdered == Inv /\ Ordered /\ StartTenant => Ordered'
  <1> SUFFICES ASSUME Inv, Ordered, StartTenant PROVE Ordered'
    OBVIOUS
  <1> DEFINE tgt == Head(todo)  i == NewInstance(tgt)
  <1>1. /\ life = "starting" /\ todo \in Seq(Target) /\ todo # <<>> /\ built \in Nat /\ tenants \in Table
        /\ \A k \in DOMAIN todo : tenants[todo[k].id] = NoTenant
    BY DEF StartTenant, Inv, Types, Starting
  <1>2. tgt = todo[1] /\ 1 \in DOMAIN todo /\ tgt \in Target
    BY <1>1
  <1>3. i \in Instance /\ tgt.id \in Ids /\ i # NoTenant
    BY <1>1, <1>2, FreshTyped, ManagerAssumption
  <1>4. tenants' = [tenants EXCEPT ![tgt.id] = i] /\ order' = Append(order, tgt.id)
        /\ UNCHANGED <<defaultID, life>>
    BY DEF StartTenant
  <1>5. tenants[tgt.id] = NoTenant
    BY <1>1, <1>2
  <1> HIDE DEF tgt, i
  <1>6. order \in Seq(Ids) /\ Distinct(order) /\ \A id \in Ids : Contains(order, id) <=> tenants[id] # NoTenant
    BY <1>1 DEF Ordered
  <1>7. /\ order' \in Seq(Ids) /\ Distinct(order')
        /\ \A id : Contains(order', id) <=> Contains(order, id) \/ id = tgt.id
    BY <1>3, <1>4, <1>5, <1>6, AppendFacts
  <1>8. \A id \in Ids : tenants'[id] = IF id = tgt.id THEN i ELSE tenants[id]
    BY <1>1, <1>4 DEF Table
  <1> QED BY <1>1, <1>3, <1>4, <1>6, <1>7, <1>8 DEF Ordered

LEMMA StartedOrdered == Inv /\ Ordered /\ Started => Ordered'
  <1> SUFFICES ASSUME Inv, Ordered, Started PROVE Ordered'
    OBVIOUS
  <1>1. order # <<>> => Head(order) \in Ids
    BY TailFacts DEF Ordered
  <1> QED BY <1>1 DEF Ordered, Started

\* What the commit makes of the order: every tenant that was built is in it,
\* once, and no removed one.
LEMMA OrderAfterFacts ==
  ASSUME Inv, Ordered, apply.stage = "build"
  PROVE  /\ OrderAfter \in Seq(Ids)
         /\ \A id \in Ids : Contains(OrderAfter, id) <=>
              id \notin Removed /\ (Contains(order, id) \/ apply.upsert[id] # NoTenant)
         /\ Distinct(order) => Distinct(OrderAfter)
  <1> DEFINE ids == [i \in DOMAIN apply.targets |-> apply.targets[i].id]
             new == {id \in Ids : apply.upsert[id] # NoTenant} \ {order[i] : i \in DOMAIN order}
  <1>1. /\ order \in Seq(Ids) /\ apply.targets \in Seq(Target) /\ DistinctIds(apply.targets)
        /\ \A id \in Ids : apply.upsert[id] # NoTenant => \E j \in DOMAIN apply.targets : apply.targets[j].id = id
    BY DEF Inv, Types, Ordered, Applying, InBuild
  <1>2. ids \in Seq(Ids) /\ DOMAIN ids = DOMAIN apply.targets
    <2>1. Len(apply.targets) \in Nat /\ DOMAIN apply.targets = 1 .. Len(apply.targets)
      BY <1>1
    <2>2. \A i \in DOMAIN apply.targets : apply.targets[i].id \in Ids
      BY <1>1, TargetIds
    <2>3. ids \in [1 .. Len(apply.targets) -> Ids]
      BY <2>1, <2>2
    <2> QED BY <2>1, <2>3, SeqOfFunction
  <1>3. Distinct(ids) /\ \A id : Contains(ids, id) <=> \E j \in DOMAIN apply.targets : apply.targets[j].id = id
    <2>1. Distinct(ids)
      BY <1>1, <1>2 DEF Distinct, DistinctIds
    <2>2. \A id : Contains(ids, id) <=> \E j \in DOMAIN ids : ids[j] = id
      <3>1. DOMAIN ids = 1 .. Len(ids)
        BY <1>2
      <3> QED BY <3>1 DEF Contains
    <2> QED BY <1>2, <2>1, <2>2
  <1>4. \A id : Contains(order, id) <=> id \in {order[i] : i \in DOMAIN order}
    <2>1. DOMAIN order = 1 .. Len(order)
      BY <1>1
    <2> QED BY <2>1 DEF Contains
  <1>5. \A id \in Ids : id \in new <=> apply.upsert[id] # NoTenant /\ ~Contains(order, id)
    BY <1>4
  <1>6. new \subseteq Ids
    OBVIOUS
  <1>7. Registered = Kept(ids, new)
    BY DEF Registered
  <1> HIDE DEF ids, new
  <1>8. /\ Registered \in Seq(Ids) /\ Distinct(Registered)
        /\ \A id : Contains(Registered, id) <=> Contains(ids, id) /\ id \in new
    BY <1>2, <1>3, <1>7, KeptFacts
  <1> DEFINE all == order \o Registered
  <1>9. /\ all \in Seq(Ids)
        /\ \A id : Contains(all, id) <=> Contains(order, id) \/ Contains(Registered, id)
        /\ Distinct(order) => Distinct(all)
    <2>1. \A id : ~(Contains(order, id) /\ Contains(Registered, id))
      BY <1>5, <1>6, <1>8
    <2> QED BY <1>1, <1>8, <2>1, ConcatFacts
  <1>10. OrderAfter = Kept(all, Ids \ Removed)
    BY DEF OrderAfter
  <1> HIDE DEF all
  <1>11. /\ OrderAfter \in Seq(Ids)
         /\ \A id : Contains(OrderAfter, id) <=> Contains(all, id) /\ id \in Ids \ Removed
         /\ Distinct(all) => Distinct(OrderAfter)
    BY <1>9, <1>10, KeptFacts
  <1>12. ASSUME NEW id \in Ids
         PROVE  Contains(OrderAfter, id) <=>
                  id \notin Removed /\ (Contains(order, id) \/ apply.upsert[id] # NoTenant)
    <2>1. apply.upsert[id] # NoTenant => Contains(ids, id)
      BY <1>1, <1>3
    <2> QED BY <1>5, <1>8, <1>9, <1>11, <2>1
  <1> QED BY <1>9, <1>11, <1>12

LEMMA ApplyCommitOrdered == Inv /\ Ordered /\ ApplyCommit => Ordered'
  <1> SUFFICES ASSUME Inv, Ordered, ApplyCommit PROVE Ordered'
    OBVIOUS
  <1>1. /\ apply.stage = "build" /\ order' = OrderAfter /\ life' = life
        /\ defaultID' = IF OrderAfter = <<>> THEN defaultID ELSE Head(OrderAfter)
        /\ \A id \in Ids : tenants'[id] =
             IF apply.upsert[id] # NoTenant THEN apply.upsert[id]
             ELSE IF id \in Removed THEN NoTenant
             ELSE tenants[id]
    BY DEF ApplyCommit
  <1>2. /\ OrderAfter \in Seq(Ids)
        /\ \A id \in Ids : Contains(OrderAfter, id) <=>
             id \notin Removed /\ (Contains(order, id) \/ apply.upsert[id] # NoTenant)
        /\ Distinct(order) => Distinct(OrderAfter)
    BY <1>1, OrderAfterFacts
  <1> DEFINE after == OrderAfter
  <1>3. after # <<>> => Head(after) \in Ids
    BY <1>2, TailFacts
  <1>4. \A id \in Removed : apply.upsert[id] = NoTenant
    <2>1. \A id \in Ids : apply.upsert[id] # NoTenant => id \in Wanted(apply.targets)
      BY <1>1 DEF Inv, InBuild, Wanted
    <2> QED BY <2>1 DEF Removed
  <1>5. life \notin {"starting", "failed"}
    BY <1>1, NoApplyTyped DEF Inv, Starting
  <1>6. life = "serving" => Distinct(order) /\ \A id \in Ids : Contains(order, id) <=> tenants[id] # NoTenant
    BY DEF Ordered
  <1>7. life = "serving" => \A id \in Ids : Contains(after, id) <=> tenants'[id] # NoTenant
    BY <1>1, <1>2, <1>4, <1>6
  <1>8. order' = after /\ after \in Seq(Ids) /\ (Distinct(order) => Distinct(after))
        /\ defaultID' = IF after = <<>> THEN defaultID ELSE Head(after)
    BY <1>1, <1>2
  <1> HIDE DEF after
  <1> QED BY <1>1, <1>3, <1>5, <1>6, <1>7, <1>8 DEF Ordered

\* The other steps leave the order alone; of them only Close touches the tenants.
LEMMA OthersOrdered ==
  ASSUME Ordered, UNCHANGED <<order, defaultID>>, UNCHANGED tenants, life' \in {life, "failed"}
  PROVE  Ordered'
  BY DEF Ordered

LEMMA OrderedInductive == Inv /\ Ordered /\ [ManagerNext]_managerVars => Ordered'
  <1> SUFFICES ASSUME Inv, Ordered, [ManagerNext]_managerVars PROVE Ordered'
    OBVIOUS
  <1>1. CASE NewManager
    <2>1. CASE StartFails
      BY <2>1, OthersOrdered DEF StartFails, table
    <2> QED BY <1>1, <2>1, StartTenantOrdered, StartedOrdered DEF NewManager
  <1>2. CASE \E base \in Bases : ApplyBegin(base)
    BY <1>2, OthersOrdered DEF ApplyBegin, table
  <1>3. CASE ApplyCommit
    BY <1>3, ApplyCommitOrdered
  <1>4. CASE Apply /\ ~ApplyCommit
    <2>1. UNCHANGED <<table, life>>
      BY <1>4 DEF Apply, ApplyKeep, ApplyBuild, ApplyBuildFails, ApplyRelease, ApplyReturn
    <2> QED BY <2>1, OthersOrdered DEF table
  <1>5. CASE Close
    BY <1>5 DEF Close, Ordered
  <1>6. CASE UNCHANGED managerVars
    BY <1>6, OthersOrdered DEF managerVars, table
  <1> QED BY <1>1, <1>2, <1>3, <1>4, <1>5, <1>6 DEF ManagerNext

\* NewManager, the two loops of the commit and Close keep tenants, order and
\* defaultID together: while the manager serves, the order has every tenant
\* once, and the default one is its first.
THEOREM TableStaysSound == ManagerSpec => []TableSound
  <1>1. Inv /\ Ordered => TableSound
    <2> SUFFICES ASSUME Inv, Ordered PROVE TableSound
      OBVIOUS
    <2>1. Types /\ order \in Seq(Ids) /\ defaultID \in Ids
      BY DEF Inv, Ordered
    <2>2. /\ \A i \in DOMAIN order : order[i] \in Ids
          /\ \A id : Contains(order, id) <=> \E i \in DOMAIN order : order[i] = id
      <3>1. DOMAIN order = 1 .. Len(order) /\ \A i \in DOMAIN order : order[i] \in Ids
        BY <2>1
      <3> QED BY <3>1 DEF Contains
    <2>3. ASSUME life = "serving"
          PROVE  /\ \A i, j \in DOMAIN order : order[i] = order[j] => i = j
                 /\ {order[i] : i \in DOMAIN order} = {id \in Ids : tenants[id] # NoTenant}
                 /\ order # <<>> => defaultID = Head(order)
      <3>1. Distinct(order) /\ (\A id \in Ids : Contains(order, id) <=> tenants[id] # NoTenant)
            /\ (order # <<>> => defaultID = Head(order))
        BY <2>3 DEF Ordered
      <3> QED BY <2>2, <3>1 DEF Distinct
    <2> QED BY <2>1, <2>3 DEF TableSound, ManagerTypeOK, OrderMatches
  <1> QED BY <1>1, OrderedAtStart, OrderedInductive, Inductive, PTL DEF ManagerSpec

-----------------------------------------------------------------------------
(* The configuration *)

\* What is still to be built at the start are tenants of one configuration.
StartPlanned ==
    life = "starting" =>
        \E base \in Bases : \A i \in DOMAIN todo :
            \E j \in DOMAIN resolveTargets(base) : resolveTargets(base)[j] = todo[i]

\* An Apply goes through one configuration, builds what it says and replaces
\* only what differs.
ApplyPlanned ==
    apply.stage = "build" =>
        /\ \E base \in Bases : apply.targets = resolveTargets(base)
        /\ \A id \in Ids : apply.upsert[id] # NoTenant =>
              /\ \E j \in DOMAIN apply.targets : apply.targets[j] = apply.upsert[id].target
              /\ apply.cur[id] # NoTenant => tenantDirty(apply.cur[id], apply.upsert[id].target)

Planned == StartPlanned /\ ApplyPlanned

LEMMA PlannedAtStart == ManagerInit => Planned
  <1> SUFFICES ASSUME ManagerInit PROVE Planned
    OBVIOUS
  <1>1. ApplyPlanned
    BY NoApplyTyped DEF ManagerInit, ApplyPlanned
  <1> QED BY <1>1 DEF ManagerInit, Planned, StartPlanned

LEMMA StartTenantPlanned == Inv /\ Planned /\ StartTenant => Planned'
  <1> SUFFICES ASSUME Inv, Planned, StartTenant PROVE Planned'
    OBVIOUS
  <1>1. life = "starting" /\ todo \in Seq(Target) /\ todo # <<>> /\ todo' = Tail(todo) /\ apply' = apply
    BY DEF StartTenant, Inv, Types
  <1>2. \A k \in DOMAIN Tail(todo) : k + 1 \in DOMAIN todo /\ Tail(todo)[k] = todo[k + 1]
    BY <1>1
  <1>3. StartPlanned'
    <2>1. PICK base \in Bases : \A i \in DOMAIN todo :
            \E j \in DOMAIN resolveTargets(base) : resolveTargets(base)[j] = todo[i]
      BY <1>1 DEF Planned, StartPlanned
    <2> QED BY <1>1, <1>2, <2>1 DEF StartPlanned
  <1> QED BY <1>1, <1>3 DEF Planned, ApplyPlanned, Inv, Types, StartTenant

LEMMA ApplyBeginPlanned == \A base \in Bases : Inv /\ Planned /\ ApplyBegin(base) => Planned'
  <1> SUFFICES ASSUME NEW base \in Bases, Inv, Planned, ApplyBegin(base) PROVE Planned'
    OBVIOUS
  <1>1. /\ apply' = [stage |-> "build", targets |-> resolveTargets(base), next |-> 1,
                     cur |-> tenants, upsert |-> NoTenants, release |-> {}]
        /\ life' = life /\ todo' = todo
    BY DEF ApplyBegin, NoApply
  <1>2. StartPlanned'
    BY <1>1 DEF Planned, StartPlanned
  <1>3. ApplyPlanned'
    BY <1>1 DEF ApplyPlanned, NoTenants
  <1> QED BY <1>2, <1>3 DEF Planned

LEMMA MovingOnPlanned ==
  ASSUME Inv, Planned, Building, apply' = [apply EXCEPT !.next = @ + 1], UNCHANGED <<life, todo>>
  PROVE  Planned'
  <1>1. /\ apply'.stage = apply.stage /\ apply'.targets = apply.targets
        /\ apply'.cur = apply.cur /\ apply'.upsert = apply.upsert
    BY DEF Inv, Types
  <1> QED BY <1>1 DEF Planned, StartPlanned, ApplyPlanned

LEMMA ApplyBuildPlanned == Inv /\ Planned /\ ApplyBuild => Planned'
  <1> SUFFICES ASSUME Inv, Planned, ApplyBuild PROVE Planned'
    OBVIOUS
  <1> DEFINE id == Current.id  i == NewInstance(Current)
  <1>1. /\ apply.stage = "build" /\ apply.next \in DOMAIN apply.targets
        /\ apply.targets \in Seq(Target) /\ built \in Nat
        /\ apply.cur \in Table /\ apply.upsert \in Table
    BY DEF ApplyBuild, ToBuild, Building, Inv, Types
  <1>2. Current \in Target /\ Current = apply.targets[apply.next]
    BY <1>1, TargetIds DEF Current
  <1>3. i \in Instance /\ i.target = Current /\ id \in Ids
    BY <1>1, <1>2, FreshTyped DEF NewInstance
  <1>4. apply.cur[id] # NoTenant => tenantDirty(apply.cur[id], Current)
    BY DEF ApplyBuild, ToBuild, Served
  <1>5. /\ apply'.stage = "build" /\ apply'.targets = apply.targets
        /\ apply'.cur = apply.cur /\ apply'.upsert = [apply.upsert EXCEPT ![id] = i]
    BY <1>1 DEF ApplyBuild, Inv, Types
  <1> HIDE DEF id, i
  <1>6. \A x \in Ids : apply'.upsert[x] = IF x = id THEN i ELSE apply.upsert[x]
    BY <1>1, <1>3, <1>5 DEF Table
  <1>7. StartPlanned'
    BY DEF ApplyBuild, Planned, StartPlanned
  <1>8. ApplyPlanned'
    <2>1. \E base \in Bases : apply.targets = resolveTargets(base)
      BY <1>1 DEF Planned, ApplyPlanned
    <2>2. ASSUME NEW x \in Ids, apply'.upsert[x] # NoTenant
          PROVE  /\ \E j \in DOMAIN apply.targets : apply.targets[j] = apply'.upsert[x].target
                 /\ apply.cur[x] # NoTenant => tenantDirty(apply.cur[x], apply'.upsert[x].target)
      <3>1. CASE x = id
        BY <1>1, <1>2, <1>3, <1>4, <1>6, <3>1
      <3>2. CASE x # id
        BY <1>1, <1>6, <2>2, <3>2 DEF Planned, ApplyPlanned
      <3> QED BY <3>1, <3>2
    <2> QED BY <1>5, <2>1, <2>2 DEF ApplyPlanned, tenantDirty
  <1> QED BY <1>7, <1>8 DEF Planned

\* Planned is kept by every step: after the commit it says nothing more.
LEMMA PlannedInductive == Inv /\ Planned /\ [ManagerNext]_managerVars => Planned'
  <1> SUFFICES ASSUME Inv, Planned, [ManagerNext]_managerVars PROVE Planned'
    OBVIOUS
  <1>1. CASE NewManager
    <2>1. CASE StartFails
      BY <2>1 DEF StartFails, Planned, StartPlanned, ApplyPlanned
    <2>2. CASE Started
      BY <2>2 DEF Started, Planned, StartPlanned, ApplyPlanned
    <2> QED BY <1>1, <2>1, <2>2, StartTenantPlanned DEF NewManager
  <1>2. CASE \E base \in Bases : ApplyBegin(base)
    BY <1>2, ApplyBeginPlanned
  <1>3. CASE ApplyKeep
    BY <1>3, MovingOnPlanned DEF ApplyKeep
  <1>4. CASE ApplyBuildFails
    BY <1>4, MovingOnPlanned DEF ApplyBuildFails, ToBuild
  <1>5. CASE ApplyBuild
    BY <1>5, ApplyBuildPlanned
  <1>6. CASE ApplyCommit \/ ApplyRelease \/ ApplyReturn
    <2>1. apply'.stage # "build"
      BY <1>6, NoApplyTyped DEF ApplyCommit, ApplyRelease, ApplyReturn, Inv, Types
    <2>2. UNCHANGED <<life, todo>>
      BY <1>6 DEF ApplyCommit, ApplyRelease, ApplyReturn
    <2> QED BY <2>1, <2>2 DEF Planned, StartPlanned, ApplyPlanned
  <1>7. CASE Close
    BY <1>7 DEF Close, Planned, StartPlanned, ApplyPlanned
  <1>8. CASE UNCHANGED managerVars
    BY <1>8 DEF managerVars, table, Planned, StartPlanned, ApplyPlanned
  <1> QED BY <1>1, <1>2, <1>3, <1>4, <1>5, <1>6, <1>7, <1>8 DEF ManagerNext, Apply

\* Only three steps touch the tenants.
LEMMA TenantsTouched == [ManagerNext]_managerVars => UNCHANGED tenants \/ StartTenant \/ ApplyCommit \/ Close
  BY DEF ManagerNext, NewManager, StartFails, Started, ApplyBegin, Apply, ApplyKeep, ApplyBuild, ApplyBuildFails,
         ApplyRelease, ApplyReturn, managerVars, table

\* What the three steps make of them.
LEMMA StartTenantRoutes ==
  ASSUME Inv, StartTenant
  PROVE  /\ Head(todo) \in Target /\ Head(todo) = todo[1] /\ 1 \in DOMAIN todo /\ life = "starting"
         /\ tenants[Head(todo).id] = NoTenant /\ Head(todo).id \in Ids
         /\ NewInstance(Head(todo)) # NoTenant /\ NewInstance(Head(todo)).target = Head(todo)
         /\ \A id \in Ids : tenants'[id] = IF id = Head(todo).id THEN NewInstance(Head(todo)) ELSE tenants[id]
  <1> DEFINE tgt == Head(todo)  i == NewInstance(tgt)
  <1>1. /\ life = "starting" /\ todo \in Seq(Target) /\ todo # <<>> /\ built \in Nat /\ tenants \in Table
        /\ \A k \in DOMAIN todo : tenants[todo[k].id] = NoTenant
    BY DEF StartTenant, Inv, Types, Starting
  <1>2. tgt = todo[1] /\ 1 \in DOMAIN todo /\ tgt \in Target
    BY <1>1
  <1>3. i \in Instance /\ tgt.id \in Ids /\ i # NoTenant /\ i.target = tgt
    BY <1>1, <1>2, FreshTyped, ManagerAssumption DEF NewInstance
  <1>4. tenants' = [tenants EXCEPT ![tgt.id] = i]
    BY DEF StartTenant
  <1>5. tenants[tgt.id] = NoTenant
    BY <1>1, <1>2
  <1> HIDE DEF tgt, i
  <1>6. \A id \in Ids : tenants'[id] = IF id = tgt.id THEN i ELSE tenants[id]
    BY <1>1, <1>4 DEF Table
  <1> QED BY <1>1, <1>2, <1>3, <1>5, <1>6 DEF tgt, i

LEMMA CommitRoutes ==
  ASSUME Inv, ApplyCommit
  PROVE  /\ apply.stage = "build"
         /\ \A id \in Ids : apply.upsert[id] # NoTenant =>
              id \in Wanted(apply.targets) /\ tenants'[id] = apply.upsert[id]
         /\ \A id \in Wanted(apply.targets) \cap Ids : apply.upsert[id] = NoTenant => tenants'[id] = tenants[id]
         /\ \A id \in Ids \ Wanted(apply.targets) : tenants'[id] = NoTenant
         /\ \A id \in Ids : tenants[id] # NoTenant => tenants[id] = apply.cur[id]
  <1>1. /\ apply.stage = "build"
        /\ \A id \in Ids : tenants'[id] =
             IF apply.upsert[id] # NoTenant THEN apply.upsert[id]
             ELSE IF id \in Removed THEN NoTenant
             ELSE tenants[id]
    BY DEF ApplyCommit
  <1>2. \A id \in Ids : apply.upsert[id] # NoTenant => id \in Wanted(apply.targets)
    BY <1>1 DEF Inv, InBuild, Wanted
  <1>3. \A id \in Ids : tenants[id] # NoTenant => tenants[id] = apply.cur[id]
    BY <1>1 DEF Inv, InBuild, NoTenants
  <1>4. \A id \in Ids : id \in Removed <=> apply.cur[id] # NoTenant /\ id \notin Wanted(apply.targets)
    BY DEF Removed, Served
  <1> QED BY <1>1, <1>2, <1>3, <1>4

\* Whatever happens, a tenant passes from one instance to another only when a
\* field that tenantDirty compares differs: the requests of the others keep
\* their instance through every reload.
THEOREM UnchangedTenantsStay == ManagerSpec => KeptUnlessChanged
  <1> DEFINE Kind(id) == tenants[id] # NoTenant /\ tenants'[id] \notin {tenants[id], NoTenant}
                            => tenantDirty(tenants[id], tenants'[id].target)
  <1>1. Inv /\ Planned /\ [ManagerNext]_managerVars => [\A id \in Ids : Kind(id)]_managerVars
    <2> SUFFICES ASSUME Inv, Planned, [ManagerNext]_managerVars, NEW id \in Ids, tenants[id] # NoTenant,
                        tenants'[id] # tenants[id], tenants'[id] # NoTenant
                 PROVE  tenantDirty(tenants[id], tenants'[id].target)
      OBVIOUS
    <2>1. CASE StartTenant
      BY <2>1, StartTenantRoutes
    <2>2. CASE ApplyCommit
      <3>1. apply.stage = "build" /\ apply.upsert[id] # NoTenant /\ tenants'[id] = apply.upsert[id]
            /\ tenants[id] = apply.cur[id]
        BY <2>2, CommitRoutes
      <3> QED BY <3>1 DEF Planned, ApplyPlanned
    <2>3. CASE Close
      BY <2>3 DEF Close, NoTenants
    <2> QED BY <2>1, <2>2, <2>3, TenantsTouched
  <1>2. Inv /\ Planned /\ [ManagerNext]_managerVars
          => [\A id \in Ids :
                tenants[id] # NoTenant /\ tenants'[id] \notin {tenants[id], NoTenant}
                  => tenantDirty(tenants[id], tenants'[id].target)]_managerVars
    BY <1>1
  <1> QED BY <1>2, PlannedAtStart, PlannedInductive, Inductive, PTL DEF ManagerSpec, KeptUnlessChanged

-----------------------------------------------------------------------------
(* What a reload promises *)

\* The refinement mapping: what each tenant was built from.
Shown(t) == [id \in Ids |-> IF t[id] = NoTenant THEN Off ELSE t[id].target]

\* A plan says of each tenant of a configuration what it is built from.
LEMMA PlanFacts ==
  ASSUME NEW base \in Bases
  PROVE  /\ DOMAIN Plan(base) = Wanted(resolveTargets(base))
         /\ \A j \in DOMAIN resolveTargets(base) :
              /\ resolveTargets(base)[j].id \in DOMAIN Plan(base)
              /\ Plan(base)[resolveTargets(base)[j].id] = resolveTargets(base)[j]
  <1> DEFINE targets == resolveTargets(base)
             At(id) == CHOOSE i \in DOMAIN targets : targets[i].id = id
  <1>1. DistinctIds(targets)
    BY TargetsTyped
  <1>2. Plan(base) = [id \in Wanted(targets) |-> targets[At(id)]]
    BY DEF Plan
  <1>3. ASSUME NEW j \in DOMAIN targets
        PROVE  targets[j].id \in Wanted(targets) /\ At(targets[j].id) = j
    <2>1. At(targets[j].id) \in DOMAIN targets /\ targets[At(targets[j].id)].id = targets[j].id
      OBVIOUS
    <2> HIDE DEF At, targets
    <2>2. At(targets[j].id) = j
      BY <1>1, <2>1 DEF DistinctIds
    <2> QED BY <2>2 DEF Wanted
  <1> HIDE DEF At, targets
  <1> QED BY <1>2, <1>3 DEF targets

LEMMA RoutingStart == ManagerInit => Routing!Init
  BY DEF ManagerInit, NoTenants, Routing!Init, Routing!AllOff

LEMMA StartTenantRouted ==
  ASSUME Inv, Planned, StartTenant
  PROVE  \E plan \in {Plan(base) : base \in Bases}, id \in Ids :
            /\ id \in DOMAIN plan
            /\ Shown(tenants)[id] = Off
            /\ Shown(tenants') = [Shown(tenants) EXCEPT ![id] = plan[id]]
  <1> DEFINE tgt == Head(todo)
  <1>1. /\ tgt = todo[1] /\ 1 \in DOMAIN todo /\ life = "starting"
        /\ tenants[tgt.id] = NoTenant /\ tgt.id \in Ids
        /\ NewInstance(tgt) # NoTenant /\ NewInstance(tgt).target = tgt
        /\ \A id \in Ids : tenants'[id] = IF id = tgt.id THEN NewInstance(tgt) ELSE tenants[id]
    BY StartTenantRoutes
  <1>2. PICK base \in Bases : \E j \in DOMAIN resolveTargets(base) : resolveTargets(base)[j] = tgt
    BY <1>1 DEF Planned, StartPlanned
  <1>3. tgt.id \in DOMAIN Plan(base) /\ Plan(base)[tgt.id] = tgt
    BY <1>2, PlanFacts
  <1> HIDE DEF tgt
  <1>4. Shown(tenants)[tgt.id] = Off
    BY <1>1 DEF Shown
  <1>5. Shown(tenants') = [Shown(tenants) EXCEPT ![tgt.id] = Plan(base)[tgt.id]]
    BY <1>1, <1>3 DEF Shown
  <1> QED BY <1>1, <1>3, <1>4, <1>5

LEMMA CommitRouted ==
  ASSUME Inv, Planned, ApplyCommit
  PROVE  \E plan \in {Plan(base) : base \in Bases}, failed \in SUBSET Ids :
            Shown(tenants') = [id \in Ids |->
                                 IF id \notin DOMAIN plan THEN Off
                                 ELSE IF id \in failed THEN Shown(tenants)[id]
                                 ELSE plan[id]]
  <1> DEFINE failed == {id \in Ids : apply.upsert[id] = NoTenant}
  <1>1. /\ apply.stage = "build"
        /\ \A id \in Ids : apply.upsert[id] # NoTenant =>
              id \in Wanted(apply.targets) /\ tenants'[id] = apply.upsert[id]
        /\ \A id \in Wanted(apply.targets) \cap Ids : apply.upsert[id] = NoTenant => tenants'[id] = tenants[id]
        /\ \A id \in Ids \ Wanted(apply.targets) : tenants'[id] = NoTenant
    BY CommitRoutes
  <1>2. PICK base \in Bases : apply.targets = resolveTargets(base)
    BY <1>1 DEF Planned, ApplyPlanned
  <1>3. DOMAIN Plan(base) = Wanted(apply.targets)
    BY <1>2, PlanFacts
  <1>4. ASSUME NEW id \in Ids, apply.upsert[id] # NoTenant
        PROVE  Plan(base)[id] = apply.upsert[id].target
    <2>1. PICK j \in DOMAIN apply.targets : apply.targets[j] = apply.upsert[id].target
      BY <1>1, <1>4 DEF Planned, ApplyPlanned
    <2>2. apply.upsert[id].target.id = id
      BY <1>1, <1>4 DEF Inv, Applying, Filed
    <2> QED BY <1>2, <2>1, <2>2, PlanFacts
  <1>5. ASSUME NEW id \in Ids
        PROVE  Shown(tenants')[id] = IF id \notin DOMAIN Plan(base) THEN Off
                                     ELSE IF id \in failed THEN Shown(tenants)[id]
                                     ELSE Plan(base)[id]
    <2>1. Shown(tenants')[id] = (IF tenants'[id] = NoTenant THEN Off ELSE tenants'[id].target)
      BY DEF Shown
    <2>2. Shown(tenants)[id] = (IF tenants[id] = NoTenant THEN Off ELSE tenants[id].target)
      BY DEF Shown
    <2> QED BY <1>1, <1>3, <1>4, <2>1, <2>2
  <1>6. Shown(tenants') = [id \in Ids |-> IF id \notin DOMAIN Plan(base) THEN Off
                                          ELSE IF id \in failed THEN Shown(tenants)[id]
                                          ELSE Plan(base)[id]]
    <2>1. Shown(tenants') = [id \in Ids |-> Shown(tenants')[id]]
      BY DEF Shown
    <2> HIDE DEF failed
    <2> QED BY <1>5, <2>1
  <1>7. Plan(base) \in {Plan(b) : b \in Bases} /\ failed \in SUBSET Ids
    OBVIOUS
  <1> HIDE DEF failed
  <1> QED BY <1>6, <1>7

\* A lookup during a reload sees the tenants of before or of after, never a
\* mixture; a tenant that cannot be built is the only one affected and stays
\* as it was.
THEOREM ReloadsKeepPromises == ManagerSpec => ImplementsTenantRouting
  <1>1. Inv /\ Planned /\ [ManagerNext]_managerVars
          => [Routing!Next]_([id \in Ids |-> IF tenants[id] = NoTenant THEN Off ELSE tenants[id].target])
    <2> SUFFICES ASSUME Inv, Planned, [ManagerNext]_managerVars
                 PROVE  Routing!Next \/ Shown(tenants') = Shown(tenants)
      BY DEF Shown
    <2>1. CASE UNCHANGED tenants
      BY <2>1 DEF Shown
    <2>2. CASE StartTenant
      BY <2>2, StartTenantRouted DEF Routing!Next, Routing!Start, Shown
    <2>3. CASE ApplyCommit
      BY <2>3, CommitRouted DEF Routing!Next, Routing!Reload, Shown
    <2>4. CASE Close
      <3>1. tenants' = NoTenants
        BY <2>4 DEF Close
      <3>2. Routing!Close
        BY <3>1 DEF Routing!Close, Routing!AllOff, NoTenants
      <3> QED BY <3>2 DEF Routing!Next
    <2> QED BY <2>1, <2>2, <2>3, <2>4, TenantsTouched
  <1> QED BY <1>1, RoutingStart, PlannedAtStart, PlannedInductive, Inductive, PTL
          DEF ManagerSpec, ImplementsTenantRouting, Routing!Spec

-----------------------------------------------------------------------------
(* The database behind a tenant, PostgreSQL (PgStore).  A transaction sees   *)
(* the rows of its own file and what it has put itself; the row lock keeps   *)
(* other transactions away, so statement after statement its layers become   *)
(* those of its document (Stage), and Commit finds nothing without an owner. *)
(* Only tags may be written beside it, and never on a class it has deleted.  *)

\* Methods and tags hang on classes, members on the file, a class or a method.
Shaped(rows) ==
    \A r \in rows :
        /\ r[1] \in {"method", "tag"} => r[2][1] = "class"
        /\ r[1] = "member" => r[2] = File \/ r[2][1] \in {"class", "method"}

Hung(rows) ==
    \A r \in rows :
        /\ r[1] \in {"method", "tag"} => r[2] \in rows
        /\ r[1] = "member" => r[2] = File \/ r[2] \in rows

OneLayer(rows) == \A kind \in {"class", "call"} : \A r, s \in Of(rows, kind) : r[3] = s[3]

Sound(rows) == Shaped(rows) /\ Hung(rows) /\ OneLayer(rows)

\* What the statements of an UpsertIR have put, each for its layer
HasClasses(rows, d, n) == d.classes # {} => Of(rows, "class") = {<<"class", c, n>> : c \in d.classes}
NoMethods(rows, d) == d.classes # {} => Of(rows, "method") = {}
HasMethods(rows, d) ==
    d.classes # {} => \A r : r \in Of(rows, "method") <=>
        \E c \in Of(rows, "class") : \E m \in d.methods : m.class = c[2] /\ r = <<"method", c, m.name>>
HasMembers(rows, d) == \A m \in d.members : \A o \in Owner(rows, m.of) : <<"member", o, m.name>> \in rows
HasCalls(rows, d, n) == d.calls # {} => Of(rows, "call") = {<<"call", c, n>> : c \in d.calls}

Content(rows, d) ==
    /\ d.classes # {} => NamesOf(rows) = {<<c, {m.name : m \in {x \in d.methods : x.class = c}}>> : c \in d.classes}
    /\ d.calls # {} => {r[2] : r \in Of(rows, "call")} = d.calls
    /\ \A m \in d.members : \A o \in Owner(rows, m.of) : <<"member", o, m.name>> \in rows

LEMMA CascadeKeeps ==
    ASSUME NEW rows, Shaped(rows)
    PROVE  /\ Cascade(rows) \subseteq rows /\ Shaped(Cascade(rows)) /\ Hung(Cascade(rows))
           /\ \A r \in rows : r[1] \in {"class", "call"} => r \in Cascade(rows)
           /\ Hung(rows) => Cascade(rows) = rows
           /\ Of(rows, "class") = {} => \A r \in Cascade(rows) : r[1] \notin {"method", "tag"}
<1> DEFINE living == rows \ {r \in Of(rows, "method") \cup Of(rows, "tag") : r[2] \notin rows}
<1>1. Cascade(rows) = living \ {r \in Of(living, "member") : r[2] # File /\ r[2] \notin living}
    BY DEF Cascade
<1>2. \A r : r \in living <=> r \in rows /\ (r[1] \in {"method", "tag"} => r[2] \in rows)
    BY DEF Of
<1> HIDE DEF living
<1>3. \A r : r \in Cascade(rows) <=> r \in living /\ (r[1] = "member" => r[2] = File \/ r[2] \in living)
    BY <1>1 DEF Of
<1>4. Cascade(rows) \subseteq rows /\ Shaped(Cascade(rows))
    BY <1>2, <1>3 DEF Shaped
<1>5. \A r \in rows : r[1] \in {"class", "call"} => r \in Cascade(rows)
    BY <1>2, <1>3
<1>6. Hung(Cascade(rows))
    BY <1>2, <1>3, <1>4, <1>5 DEF Hung, Shaped
<1>7. Hung(rows) => Cascade(rows) = rows
    BY <1>2, <1>3 DEF Hung
<1>8. Of(rows, "class") = {} => \A r \in Cascade(rows) : r[1] \notin {"method", "tag"}
    BY <1>2, <1>3 DEF Of, Shaped
<1> QED
    BY <1>4, <1>5, <1>6, <1>7, <1>8

LEMMA PutClassesGives ==
    ASSUME NEW rows, NEW d, NEW n, Sound(rows)
    PROVE  LET new == PutClasses(rows, d, n) IN Sound(new) /\ HasClasses(new, d, n) /\ NoMethods(new, d)
<1> DEFINE new == PutClasses(rows, d, n)
           bare == rows \ Of(rows, "class")
           put == {<<"class", c, n>> : c \in d.classes}
<1>1. CASE d.classes = {}
    BY <1>1 DEF PutClasses, HasClasses, NoMethods
<1>2. CASE d.classes # {}
    <2>1. new = Cascade(bare) \cup put
        BY <1>2 DEF PutClasses
    <2>2. Shaped(bare) /\ Of(bare, "class") = {}
        BY DEF Sound, Shaped, Of
    <2>3. \A r \in put : r[1] = "class" /\ r[3] = n
        OBVIOUS
    <2> HIDE DEF new, bare, put
    <2>4. /\ Cascade(bare) \subseteq bare /\ Shaped(Cascade(bare)) /\ Hung(Cascade(bare))
          /\ \A r \in Cascade(bare) : r[1] \notin {"method", "tag", "class"}
        BY <2>2, CascadeKeeps DEF Of
    <2>5. Shaped(new)
        BY <2>1, <2>3, <2>4 DEF Shaped
    <2>6. Hung(new)
        BY <2>1, <2>3, <2>4 DEF Hung
    <2>7. Of(new, "class") = put
        BY <2>1, <2>3, <2>4 DEF Of
    <2>8. Of(new, "call") \subseteq Of(rows, "call")
        BY <2>1, <2>3, <2>4 DEF Of, bare
    <2>9. OneLayer(new)
        BY <2>3, <2>7, <2>8 DEF OneLayer, Sound
    <2>10. Of(new, "method") = {}
        BY <2>1, <2>3, <2>4 DEF Of
    <2> QED
        BY <2>5, <2>6, <2>7, <2>9, <2>10 DEF Sound, HasClasses, NoMethods, put, new
<1> QED
    BY <1>1, <1>2

LEMMA PutMethodsGives ==
    ASSUME NEW rows, NEW d, NEW n, Sound(rows), HasClasses(rows, d, n), NoMethods(rows, d)
    PROVE  LET new == PutMethods(rows, d, n) IN Sound(new) /\ HasClasses(new, d, n) /\ HasMethods(new, d)
<1> DEFINE new == PutMethods(rows, d, n)
           put == UNION {{<<"method", c, m.name>> : m \in {x \in d.methods : x.class = c[2]}} : c \in Of(rows, "class")}
<1>1. CASE d.classes = {}
    BY <1>1 DEF PutMethods, HasClasses, HasMethods
<1>2. CASE d.classes # {}
    <2>1. new = rows \cup put
        BY <1>2 DEF PutMethods
    <2>2. \A r : r \in put <=> \E c \in Of(rows, "class") : \E m \in d.methods : m.class = c[2] /\ r = <<"method", c, m.name>>
        OBVIOUS
    <2> HIDE DEF new, put
    <2>3. \A r \in put : r[1] = "method" /\ r[2] \in rows /\ r[2][1] = "class"
        BY <2>2 DEF Of
    <2>4. Of(new, "class") = Of(rows, "class") /\ Of(new, "call") = Of(rows, "call") /\ Of(new, "method") = put
        BY <1>2, <2>1, <2>3 DEF Of, NoMethods
    <2>5. Shaped(new)
        BY <2>1, <2>3 DEF Sound, Shaped
    <2>6. Hung(new)
        BY <2>1, <2>3 DEF Sound, Hung
    <2>7. OneLayer(new)
        BY <2>4 DEF Sound, OneLayer
    <2>8. HasMethods(new, d)
        BY <2>2, <2>4 DEF HasMethods
    <2> QED
        BY <2>4, <2>5, <2>6, <2>7, <2>8 DEF Sound, HasClasses, new
<1> QED
    BY <1>1, <1>2

\* Who owns a member depends on classes and methods only.
LEMMA OwnerSame ==
    ASSUME NEW rows, NEW new, NEW of,
           Of(new, "class") = Of(rows, "class"), Of(new, "method") = Of(rows, "method")
    PROVE  Owner(new, of) = Owner(rows, of)
BY DEF Owner

LEMMA OwnerType ==
    ASSUME NEW rows, NEW d \in Docs, NEW m \in d.members, NEW o \in Owner(rows, m.of)
    PROVE  o = File \/ (o \in rows /\ o[1] \in {"class", "method"})
BY PgAssumption DEF Owner, Of

LEMMA PutMembersGives ==
    ASSUME NEW rows, NEW d \in Docs, NEW n, Sound(rows), HasClasses(rows, d, n), HasMethods(rows, d)
    PROVE  LET new == PutMembers(rows, d)
           IN  Sound(new) /\ HasClasses(new, d, n) /\ HasMethods(new, d) /\ HasMembers(new, d)
<1> DEFINE new == PutMembers(rows, d)
           owned == UNION {{<<"member", o, m.name>> : o \in Owner(rows, m.of)} : m \in d.members}
           owners == {m[2] : m \in owned}
<1>1. new = {r \in rows : r[1] = "member" => r[2] \notin owners} \cup owned
    BY DEF PutMembers
<1>2. \A r : r \in owned <=> \E m \in d.members : \E o \in Owner(rows, m.of) : r = <<"member", o, m.name>>
    OBVIOUS
<1> HIDE DEF new, owned, owners
<1>3. \A r \in owned : r[1] = "member" /\ (r[2] = File \/ (r[2] \in rows /\ r[2][1] \in {"class", "method"}))
    BY <1>2, OwnerType
<1>4. \A r : r[1] # "member" => (r \in new <=> r \in rows)
    BY <1>1, <1>3
<1>5. Of(new, "class") = Of(rows, "class") /\ Of(new, "call") = Of(rows, "call") /\ Of(new, "method") = Of(rows, "method")
    BY <1>4 DEF Of
<1>6. Shaped(new)
    BY <1>1, <1>3 DEF Sound, Shaped
<1>7. Hung(new)
    <2>1. ASSUME NEW r \in new, r[1] \in {"method", "tag"} PROVE r[2] \in new
        BY <2>1, <1>4 DEF Sound, Hung, Shaped
    <2>2. ASSUME NEW r \in new, r[1] = "member", r[2] # File PROVE r[2] \in new
        <3>1. r[2] \in rows /\ r[2][1] \in {"class", "method"}
            BY <2>2, <1>1, <1>3 DEF Sound, Hung, Shaped
        <3> QED
            BY <3>1, <1>4
    <2> QED
        BY <2>1, <2>2 DEF Hung
<1>8. OneLayer(new)
    BY <1>5 DEF Sound, OneLayer
<1>9. HasMembers(new, d)
    <2>1. ASSUME NEW m \in d.members, NEW o \in Owner(new, m.of) PROVE <<"member", o, m.name>> \in new
        <3>1. o \in Owner(rows, m.of)
            BY <1>5, OwnerSame
        <3> QED
            BY <3>1, <1>1, <1>2
    <2> QED
        BY <2>1 DEF HasMembers
<1>10. HasClasses(new, d, n) /\ HasMethods(new, d)
    BY <1>5 DEF HasClasses, HasMethods
<1> QED
    BY <1>6, <1>7, <1>8, <1>9, <1>10 DEF Sound, new

LEMMA PutCallsGives ==
    ASSUME NEW rows, NEW d, NEW n, Sound(rows), HasClasses(rows, d, n), HasMethods(rows, d), HasMembers(rows, d)
    PROVE  LET new == PutCalls(rows, d, n)
           IN  Sound(new) /\ HasClasses(new, d, n) /\ HasMethods(new, d) /\ HasMembers(new, d) /\ HasCalls(new, d, n)
<1> DEFINE new == PutCalls(rows, d, n)
           put == {<<"call", c, n>> : c \in d.calls}
<1>1. CASE d.calls = {}
    BY <1>1 DEF PutCalls, HasCalls
<1>2. CASE d.calls # {}
    <2>1. new = (rows \ Of(rows, "call")) \cup put
        BY <1>2 DEF PutCalls
    <2>2. \A r \in put : r[1] = "call" /\ r[3] = n
        OBVIOUS
    <2> HIDE DEF new, put
    <2>3. \A r : r[1] # "call" => (r \in new <=> r \in rows)
        BY <2>1, <2>2 DEF Of
    <2>4. Of(new, "class") = Of(rows, "class") /\ Of(new, "method") = Of(rows, "method") /\ Of(new, "call") = put
        BY <2>1, <2>2, <2>3 DEF Of
    <2>5. Shaped(new)
        BY <2>1, <2>2, <2>3 DEF Sound, Shaped
    <2>6. Hung(new)
        <3>1. ASSUME NEW r \in new, r[1] \in {"method", "tag"} PROVE r[2] \in new
            BY <3>1, <2>3 DEF Sound, Hung, Shaped
        <3>2. ASSUME NEW r \in new, r[1] = "member", r[2] # File PROVE r[2] \in new
            BY <3>2, <2>3 DEF Sound, Hung, Shaped
        <3> QED
            BY <3>1, <3>2 DEF Hung
    <2>7. OneLayer(new)
        BY <2>2, <2>4 DEF Sound, OneLayer
    <2>8. HasMembers(new, d)
        <3>1. ASSUME NEW m \in d.members, NEW o \in Owner(new, m.of) PROVE <<"member", o, m.name>> \in new
            <4>1. o \in Owner(rows, m.of)
                BY <2>4, OwnerSame
            <4>2. <<"member", o, m.name>> \in rows /\ <<"member", o, m.name>>[1] = "member"
                BY <4>1 DEF HasMembers
            <4> QED
                BY <4>2, <2>3
        <3> QED
            BY <3>1 DEF HasMembers
    <2>9. HasClasses(new, d, n) /\ HasMethods(new, d) /\ HasCalls(new, d, n)
        BY <2>4 DEF HasClasses, HasMethods, HasCalls, put
    <2> QED
        BY <2>5, <2>6, <2>7, <2>8, <2>9 DEF Sound, new
<1> QED
    BY <1>1, <1>2

\* All layers of a document are its content, as the queries read it.
LEMMA LayersAreContent ==
    ASSUME NEW rows, NEW d, NEW n, HasClasses(rows, d, n), HasMethods(rows, d), HasMembers(rows, d), HasCalls(rows, d, n)
    PROVE  Content(rows, d)
<1>1. ASSUME d.calls # {} PROVE {r[2] : r \in Of(rows, "call")} = d.calls
    <2>1. Of(rows, "call") = {<<"call", c, n>> : c \in d.calls}
        BY <1>1 DEF HasCalls
    <2>2. \A c \in d.calls : <<"call", c, n>> \in Of(rows, "call") /\ <<"call", c, n>>[2] = c
        BY <2>1
    <2>3. \A r \in Of(rows, "call") : r[2] \in d.calls
        BY <2>1
    <2> QED
        BY <2>2, <2>3
<1>2. CASE d.classes # {}
    <2> DEFINE named(c) == {m.name : m \in {x \in d.methods : x.class = c}}
               told(c) == {m[3] : m \in {x \in Of(rows, "method") : x[2] = c}}
    <2>1. Of(rows, "class") = {<<"class", c, n>> : c \in d.classes}
        BY <1>2 DEF HasClasses
    <2>2. ASSUME NEW c \in d.classes PROVE told(<<"class", c, n>>) = named(c)
        <3> DEFINE row == <<"class", c, n>>
        <3>0. row \in Of(rows, "class") /\ row[2] = c
            BY <2>1
        <3> HIDE DEF row
        <3>1. ASSUME NEW x \in told(row) PROVE x \in named(c)
            <4>1. PICK r \in Of(rows, "method") : r[2] = row /\ x = r[3]
                OBVIOUS
            <4>2. PICK k \in Of(rows, "class"), m \in d.methods : m.class = k[2] /\ r = <<"method", k, m.name>>
                BY <1>2, <4>1 DEF HasMethods
            <4>3. k = row /\ x = m.name
                BY <4>1, <4>2
            <4> QED
                BY <4>2, <4>3, <3>0
        <3>2. ASSUME NEW x \in named(c) PROVE x \in told(row)
            <4>1. PICK m \in d.methods : m.class = c /\ x = m.name
                OBVIOUS
            <4>2. <<"method", row, m.name>> \in Of(rows, "method")
                BY <1>2, <3>0, <4>1 DEF HasMethods
            <4>3. <<"method", row, m.name>>[2] = row /\ <<"method", row, m.name>>[3] = x
                BY <4>1
            <4> QED
                BY <4>2, <4>3
        <3>3. told(row) = named(c)
            <4> HIDE DEF told, named
            <4> QED BY <3>1, <3>2
        <3> QED
            BY <3>3 DEF row
    <2>3. NamesOf(rows) = {<<c[2], told(c)>> : c \in Of(rows, "class")}
        BY DEF NamesOf
    <2> HIDE DEF told, named
    <2>4. \A c \in d.classes : <<"class", c, n>> \in Of(rows, "class") /\ <<"class", c, n>>[2] = c
        BY <2>1
    <2>5. \A r \in Of(rows, "class") : r[2] \in d.classes /\ r = <<"class", r[2], n>>
        BY <2>1
    <2>6. ASSUME NEW x PROVE x \in {<<c[2], told(c)>> : c \in Of(rows, "class")} <=> x \in {<<c, named(c)>> : c \in d.classes}
        <3>1. ASSUME NEW r \in Of(rows, "class"), x = <<r[2], told(r)>> PROVE \E c \in d.classes : x = <<c, named(c)>>
            BY <2>2, <2>5, <3>1
        <3>2. ASSUME NEW c \in d.classes, x = <<c, named(c)>> PROVE \E r \in Of(rows, "class") : x = <<r[2], told(r)>>
            BY <2>2, <2>4, <3>2
        <3> QED
            BY <3>1, <3>2
    <2>7. NamesOf(rows) = {<<c, named(c)>> : c \in d.classes}
        BY <2>3, <2>6
    <2> QED
        BY <2>7, <1>1 DEF Content, HasMembers, named
<1>3. CASE d.classes = {}
    BY <1>1, <1>3 DEF Content, HasMembers
<1> QED
    BY <1>2, <1>3

-----------------------------------------------------------------------------
(* Transactions of several workers *)

\* What a transaction under way sees: the layers it has put are its document's,
\* and its file's row is its own.
Stage(w) ==
    work[w].at # "idle" =>
        LET d == work[w].doc  n == work[w].n  rows == Seen(w)  at == work[w].at
        IN  /\ at \in {"classes", "methods", "members", "calls", "commit"}
            /\ d \in Docs /\ lock[d.path] = w
            /\ Sound(rows)
            /\ at = "methods" => HasClasses(rows, d, n) /\ NoMethods(rows, d)
            /\ at \in {"members", "calls", "commit"} => HasClasses(rows, d, n) /\ HasMethods(rows, d)
            /\ at \in {"calls", "commit"} => HasMembers(rows, d)
            /\ at = "commit" => HasCalls(rows, d, n)

Tables(files) ==
    /\ DOMAIN files = Paths
    /\ \A p \in Paths : DOMAIN files[p] = {"known", "hash", "rows"} /\ Sound(files[p].rows)
    /\ \A d \in Docs : files[d.path].known /\ files[d.path].hash = d.hash => Content(files[d.path].rows, d)

PgShape ==
    /\ DOMAIN lock = Paths /\ DOMAIN work = Workers
    /\ \A w \in Workers : DOMAIN work[w] = {"at", "doc", "n", "gone", "new"}

PgInv == PgShape /\ Tables(disk) /\ \A w \in Workers : Stage(w)

\* What a worker sees changes with its own steps and with its file's rows.
LEMMA StageKept ==
    ASSUME NEW w \in Workers, Stage(w), work'[w] = work[w],
           work[w].at # "idle" => disk'[Path(w)].rows = disk[Path(w)].rows /\ lock'[Path(w)] = lock[Path(w)]
    PROVE  Stage(w)'
<1>1. CASE work[w].at = "idle"
    BY <1>1 DEF Stage
<1>2. CASE work[w].at # "idle"
    <2>1. Seen(w)' = Seen(w) /\ lock'[work[w].doc.path] = lock[work[w].doc.path]
        BY <1>2 DEF Seen, Path
    <2> QED
        BY <2>1 DEF Stage
<1> QED
    BY <1>1, <1>2

\* A statement leaves the rows it is said to.
LEMMA LeavesRows ==
    ASSUME PgInv, NEW w \in Workers, NEW rows, NEW next, Leaves(w, rows, next)
    PROVE  /\ PgShape' /\ disk' = disk /\ lock' = lock
           /\ Seen(w)' = rows /\ work'[w].at = next
           /\ work'[w].doc = work[w].doc /\ work'[w].n = work[w].n
           /\ \A v \in Workers : v # w => work'[v] = work[v]
<1>1. disk' = disk /\ lock' = lock
    BY DEF Leaves
<1>2. /\ DOMAIN work' = Workers /\ \A v \in Workers : v # w => work'[v] = work[v]
      /\ DOMAIN work'[w] = {"at", "doc", "n", "gone", "new"}
      /\ work'[w].at = next /\ work'[w].doc = work[w].doc /\ work'[w].n = work[w].n
      /\ work'[w].gone = work[w].gone \cup (Seen(w) \ rows)
      /\ work'[w].new = (work[w].new \cup (rows \ Seen(w))) \cap rows
    BY DEF Leaves, PgInv, PgShape
<1>3. Seen(w)' = (disk[Path(w)].rows \ work'[w].gone) \cup work'[w].new
    BY <1>1, <1>2 DEF Seen, Path
<1>4. Seen(w)' = rows
    BY <1>2, <1>3 DEF Seen
<1>5. PgShape'
    BY <1>1, <1>2 DEF PgInv, PgShape
<1> QED
    BY <1>1, <1>2, <1>4, <1>5

LEMMA StatementKeeps ==
    ASSUME PgInv, NEW w \in Workers, Classes(w) \/ Methods(w) \/ MemberRows(w) \/ CallRows(w)
    PROVE  PgInv'
<1> DEFINE d == work[w].doc
           n == work[w].n
           rows == Seen(w)
<1>1. work[w].at # "idle" /\ Stage(w)
    BY DEF Classes, Methods, MemberRows, CallRows, PgInv
<1>2. d \in Docs /\ lock[d.path] = w /\ Sound(rows)
    BY <1>1 DEF Stage
<1>3. ASSUME NEW after, NEW next, Leaves(w, after, next), Stage(w)' PROVE PgInv'
    <2>1. PgShape' /\ disk' = disk /\ lock' = lock /\ \A v \in Workers : v # w => work'[v] = work[v]
        BY <1>3, LeavesRows
    <2>2. \A v \in Workers : Stage(v)'
        BY <2>1, <1>3, StageKept DEF PgInv
    <2> QED
        BY <2>1, <2>2 DEF PgInv
<1>4. CASE Classes(w)
    <2> DEFINE after == PutClasses(rows, d, n)
    <2>1. Leaves(w, after, "methods")
        BY <1>4 DEF Classes
    <2>2. Sound(after) /\ HasClasses(after, d, n) /\ NoMethods(after, d)
        BY <1>2, PutClassesGives
    <2> HIDE DEF after
    <2>3. Stage(w)'
        BY <1>2, <2>1, <2>2, LeavesRows DEF Stage
    <2> QED
        BY <1>3, <2>1, <2>3
<1>5. CASE Methods(w)
    <2> DEFINE after == PutMethods(rows, d, n)
    <2>1. Leaves(w, after, "members") /\ work[w].at = "methods"
        BY <1>5 DEF Methods
    <2>2. Sound(after) /\ HasClasses(after, d, n) /\ HasMethods(after, d)
        BY <1>1, <1>2, <2>1, PutMethodsGives DEF Stage
    <2> HIDE DEF after
    <2>3. Stage(w)'
        BY <1>2, <2>1, <2>2, LeavesRows DEF Stage
    <2> QED
        BY <1>3, <2>1, <2>3
<1>6. CASE MemberRows(w)
    <2> DEFINE after == PutMembers(rows, d)
    <2>1. Leaves(w, after, "calls") /\ work[w].at = "members"
        BY <1>6 DEF MemberRows
    <2>2. Sound(after) /\ HasClasses(after, d, n) /\ HasMethods(after, d) /\ HasMembers(after, d)
        BY <1>1, <1>2, <2>1, PutMembersGives DEF Stage
    <2> HIDE DEF after
    <2>3. Stage(w)'
        BY <1>2, <2>1, <2>2, LeavesRows DEF Stage
    <2> QED
        BY <1>3, <2>1, <2>3
<1>7. CASE CallRows(w)
    <2> DEFINE after == PutCalls(rows, d, n)
    <2>1. Leaves(w, after, "commit") /\ work[w].at = "calls"
        BY <1>7 DEF CallRows
    <2>2. Sound(after) /\ HasClasses(after, d, n) /\ HasMethods(after, d) /\ HasMembers(after, d) /\ HasCalls(after, d, n)
        BY <1>1, <1>2, <2>1, PutCallsGives DEF Stage
    <2> HIDE DEF after
    <2>3. Stage(w)'
        BY <1>2, <2>1, <2>2, LeavesRows DEF Stage
    <2> QED
        BY <1>3, <2>1, <2>3
<1> QED
    BY <1>4, <1>5, <1>6, <1>7

\* A transaction begins on a row that no other holds.
LEMMA BeginKeeps ==
    ASSUME PgInv, NEW w \in Workers, NEW d \in Docs, Begin(w, d)
    PROVE  PgInv'
<1>1. /\ work[w].at = "idle" /\ lock[d.path] = NoOne /\ d.path \in Paths /\ disk' = disk
    BY PgAssumption DEF Begin
<1>2. /\ lock'[d.path] = w /\ DOMAIN lock' = Paths
      /\ \A p \in Paths : p # d.path => lock'[p] = lock[p]
    BY <1>1 DEF Begin, PgInv, PgShape
<1>3. /\ work'[w] = [at |-> "classes", doc |-> d, n |-> txns + 1, gone |-> {}, new |-> {}]
      /\ DOMAIN work' = Workers /\ \A v \in Workers : v # w => work'[v] = work[v]
    BY DEF Begin, PgInv, PgShape
<1>4. PgShape'
    BY <1>2, <1>3 DEF PgInv, PgShape
<1>5. Seen(w)' = disk[d.path].rows
    BY <1>1, <1>3 DEF Seen, Path
<1>6. Stage(w)'
    BY <1>1, <1>2, <1>3, <1>5 DEF Stage, PgInv, Tables
<1>7. ASSUME NEW v \in Workers, v # w PROVE Stage(v)'
    <2>1. work[v].at # "idle" => Path(v) # d.path /\ Path(v) \in Paths
        BY <1>1, PgAssumption DEF PgInv, Stage, Path
    <2> QED
        BY <1>1, <1>2, <1>3, <1>7, <2>1, StageKept DEF PgInv
<1> QED
    BY <1>1, <1>4, <1>6, <1>7 DEF PgInv

\* A transaction that ends gives the row back, and other workers see no less.
LEMMA EndKeeps ==
    ASSUME PgInv, NEW w \in Workers, work[w].at # "idle",
           lock' = Released(w), work' = [work EXCEPT ![w] = Resting],
           Tables(disk'), \A p \in Paths : p # Path(w) => disk'[p] = disk[p]
    PROVE  PgInv'
<1>1. /\ DOMAIN lock' = Paths /\ \A p \in Paths : lock[p] # w => lock'[p] = lock[p]
    BY DEF Released
<1>2. /\ work'[w] = Resting /\ DOMAIN work' = Workers /\ \A v \in Workers : v # w => work'[v] = work[v]
    BY DEF PgInv, PgShape
<1>3. PgShape'
    BY <1>1, <1>2 DEF PgInv, PgShape, Resting
<1>4. Stage(w)'
    BY <1>2 DEF Stage, Resting
<1>5. ASSUME NEW v \in Workers, v # w PROVE Stage(v)'
    <2>1. work[v].at # "idle" => Path(v) \in Paths /\ lock[Path(v)] = v /\ lock[Path(w)] = w
        BY PgAssumption DEF PgInv, Stage, Path
    <2>2. work[v].at # "idle" => disk'[Path(v)] = disk[Path(v)] /\ lock'[Path(v)] = lock[Path(v)]
        BY <1>1, <1>5, <2>1
    <2> QED
        BY <1>2, <1>5, <2>2, StageKept DEF PgInv
<1> QED
    BY <1>3, <1>4, <1>5 DEF PgInv

LEMMA CommitKeeps ==
    ASSUME PgInv, NEW w \in Workers, Commit(w)
    PROVE  PgInv'
<1> DEFINE d == work[w].doc
           rows == Seen(w)
<1>1. /\ work[w].at = "commit" /\ d \in Docs /\ d.path \in Paths /\ Path(w) = d.path
      /\ Sound(rows) /\ HasClasses(rows, d, work[w].n) /\ HasMethods(rows, d) /\ HasMembers(rows, d)
      /\ HasCalls(rows, d, work[w].n)
    BY PgAssumption DEF Commit, PgInv, Stage, Path
<1> HIDE DEF rows
<1>2. Cascade(rows) = rows /\ Content(rows, d)
    BY <1>1, CascadeKeeps, LayersAreContent DEF Sound
<1>3. /\ DOMAIN disk' = Paths /\ disk'[d.path] = [known |-> TRUE, hash |-> d.hash, rows |-> rows]
      /\ \A p \in Paths : p # d.path => disk'[p] = disk[p]
    BY <1>1, <1>2 DEF Commit, PgInv, Tables, rows
<1>4. ASSUME NEW p \in Paths PROVE DOMAIN disk'[p] = {"known", "hash", "rows"} /\ Sound(disk'[p].rows)
    BY <1>1, <1>3 DEF PgInv, Tables
<1>5. ASSUME NEW e \in Docs, disk'[e.path].known, disk'[e.path].hash = e.hash PROVE Content(disk'[e.path].rows, e)
    <2>1. CASE e.path = d.path
        <3>1. e.hash = d.hash /\ disk'[e.path].rows = rows
            BY <1>3, <1>5, <2>1
        <3>2. e = d
            BY <1>1, <2>1, <3>1, PgAssumption
        <3> QED
            BY <1>2, <3>1, <3>2
    <2>2. CASE e.path # d.path
        BY <1>3, <1>5, <2>2, PgAssumption DEF PgInv, Tables
    <2> QED
        BY <2>1, <2>2
<1>6. Tables(disk')
    BY <1>3, <1>4, <1>5 DEF Tables
<1> QED
    BY <1>1, <1>3, <1>6, EndKeeps DEF Commit

LEMMA RollbackKeeps ==
    ASSUME PgInv, NEW w \in Workers, Rollback(w)
    PROVE  PgInv'
<1>1. Tables(disk') /\ \A p \in Paths : disk'[p] = disk[p]
    BY DEF Rollback, PgInv
<1> QED
    BY <1>1, EndKeeps DEF Rollback

\* UpsertFile and MarkParseSkipped write a hash that no document has.
LEMMA RecordFileKeeps ==
    ASSUME PgInv, NEW p \in Paths, RecordFile(p, NoHash)
    PROVE  PgInv'
<1>1. lock[p] = NoOne /\ lock' = lock /\ work' = work
    BY DEF RecordFile
<1>2. /\ DOMAIN disk' = Paths /\ \A q \in Paths : q # p => disk'[q] = disk[q]
      /\ disk'[p] = [disk[p] EXCEPT !.known = TRUE, !.hash = NoHash]
    BY DEF RecordFile, PgInv, Tables
<1>3. DOMAIN disk'[p] = {"known", "hash", "rows"} /\ disk'[p].rows = disk[p].rows /\ disk'[p].hash = NoHash
    BY <1>2 DEF PgInv, Tables
<1>4. Tables(disk')
    <2>1. \A q \in Paths : DOMAIN disk'[q] = {"known", "hash", "rows"} /\ Sound(disk'[q].rows)
        BY <1>2, <1>3 DEF PgInv, Tables
    <2>2. ASSUME NEW d \in Docs, disk'[d.path].known, disk'[d.path].hash = d.hash PROVE Content(disk'[d.path].rows, d)
        BY <1>2, <1>3, <2>2, PgAssumption DEF PgInv, Tables
    <2> QED
        BY <1>2, <2>1, <2>2 DEF Tables
<1>5. ASSUME NEW w \in Workers PROVE Stage(w)'
    <2>1. work[w].at # "idle" => Path(w) \in Paths
        BY PgAssumption DEF PgInv, Stage, Path
    <2>2. \A q \in Paths : disk'[q].rows = disk[q].rows
        BY <1>2, <1>3
    <2> QED
        BY <1>1, <2>1, <2>2, StageKept DEF PgInv
<1> QED
    BY <1>1, <1>4, <1>5 DEF PgInv, PgShape

\* DeleteFile: nothing is left of the path.
LEMMA DeleteFileKeeps ==
    ASSUME PgInv, NEW p \in Paths, DeleteFile(p)
    PROVE  PgInv'
<1>1. lock[p] = NoOne /\ lock' = lock /\ work' = work
    BY DEF DeleteFile
<1>2. /\ DOMAIN disk' = Paths /\ \A q \in Paths : q # p => disk'[q] = disk[q]
      /\ disk'[p] = NoFile
    BY DEF DeleteFile, PgInv, Tables
<1>3. DOMAIN NoFile = {"known", "hash", "rows"} /\ ~NoFile.known /\ NoFile.rows = {} /\ Sound({})
    BY DEF NoFile, Sound, Shaped, Hung, OneLayer, Of
<1>4. Tables(disk')
    <2>1. \A q \in Paths : DOMAIN disk'[q] = {"known", "hash", "rows"} /\ Sound(disk'[q].rows)
        BY <1>2, <1>3 DEF PgInv, Tables
    <2>2. ASSUME NEW d \in Docs, disk'[d.path].known, disk'[d.path].hash = d.hash PROVE Content(disk'[d.path].rows, d)
        BY <1>2, <1>3, <2>2, PgAssumption DEF PgInv, Tables
    <2> QED
        BY <1>2, <2>1, <2>2 DEF Tables
<1>5. ASSUME NEW w \in Workers PROVE Stage(w)'
    <2>1. work[w].at # "idle" => Path(w) \in Paths /\ lock[Path(w)] = w
        BY PgAssumption DEF PgInv, Stage, Path
    <2>2. work[w].at # "idle" => Path(w) # p
        BY <1>1, <2>1, PgAssumption
    <2> QED
        BY <1>1, <1>2, <2>1, <2>2, StageKept DEF PgInv
<1> QED
    BY <1>1, <1>4, <1>5 DEF PgInv, PgShape

\* Rows that differ in tags only, and none of these on a class that is gone
LEMMA TagsAside ==
    ASSUME NEW rows, NEW new, Sound(rows),
           \A r : r[1] # "tag" => (r \in new <=> r \in rows),
           \A r \in new : r[1] = "tag" => r \in rows \/ (r[2] \in rows /\ r[2][1] = "class")
    PROVE  /\ Sound(new)
           /\ \A d, n : /\ HasClasses(rows, d, n) => HasClasses(new, d, n)
                        /\ HasCalls(rows, d, n) => HasCalls(new, d, n)
           /\ \A d : /\ NoMethods(rows, d) => NoMethods(new, d)
                     /\ HasMethods(rows, d) => HasMethods(new, d)
                     /\ HasMembers(rows, d) => HasMembers(new, d)
                     /\ Content(rows, d) => Content(new, d)
<1>1. /\ Of(new, "class") = Of(rows, "class") /\ Of(new, "method") = Of(rows, "method")
      /\ Of(new, "call") = Of(rows, "call")
    BY DEF Of
<1>2. Shaped(new)
    BY DEF Sound, Shaped
<1>3. Hung(new)
    <2>1. ASSUME NEW r \in new, r[1] \in {"method", "tag"} PROVE r[2] \in new
        <3>1. r[2] \in rows /\ r[2][1] = "class"
            BY <2>1 DEF Sound, Shaped, Hung
        <3> QED
            BY <3>1
    <2>2. ASSUME NEW r \in new, r[1] = "member", r[2] # File PROVE r[2] \in new
        <3>1. r[2] \in rows /\ r[2][1] \in {"class", "method"}
            BY <2>2 DEF Sound, Shaped, Hung
        <3> QED
            BY <3>1
    <2> QED
        BY <2>1, <2>2 DEF Hung
<1>4. Sound(new)
    BY <1>1, <1>2, <1>3 DEF Sound, OneLayer
<1>5. \A of : Owner(new, of) = Owner(rows, of)
    BY <1>1, OwnerSame
<1>6. \A o, x : <<"member", o, x>> \in new <=> <<"member", o, x>> \in rows
    <2>1. ASSUME NEW o, NEW x PROVE <<"member", o, x>>[1] # "tag"
        OBVIOUS
    <2> QED
        BY <2>1
<1>7. \A d : /\ HasMembers(rows, d) => HasMembers(new, d)
             /\ Content(rows, d) => Content(new, d)
    BY <1>1, <1>5, <1>6 DEF HasMembers, Content, NamesOf
<1> QED
    BY <1>1, <1>4, <1>7 DEF HasClasses, HasCalls, NoMethods, HasMethods

\* UpsertTags waits for a transaction that has the class deleted.
LEMMA UpsertTagsKeeps ==
    ASSUME PgInv, NEW p \in Paths, NEW c \in Of(disk[p].rows, "class"), NEW tags, UpsertTags(p, c, tags)
    PROVE  PgInv'
<1> DEFINE rows == disk[p].rows
           new == {r \in rows : r[1] = "tag" => r[2] # c} \cup {<<"tag", c, t>> : t \in tags}
<1>1. lock' = lock /\ work' = work /\ c \in rows /\ c[1] = "class" /\ \A w \in Workers : c \notin work[w].gone
    BY DEF UpsertTags, Of
<1>2. /\ DOMAIN disk' = Paths /\ \A q \in Paths : q # p => disk'[q] = disk[q]
      /\ disk'[p] = [disk[p] EXCEPT !.rows = new]
    BY DEF UpsertTags, PgInv, Tables
<1>3. DOMAIN disk'[p] = {"known", "hash", "rows"} /\ disk'[p].rows = new
      /\ disk'[p].hash = disk[p].hash /\ disk'[p].known = disk[p].known
    <2> HIDE DEF new
    <2> QED
        BY <1>2 DEF PgInv, Tables
<1>4. /\ \A r : r[1] # "tag" => (r \in new <=> r \in rows)
      /\ \A r \in new : r[1] = "tag" => r \in rows \/ r[2] = c
    OBVIOUS
<1> HIDE DEF new
<1>5. Sound(rows) /\ Sound(new) /\ \A d : Content(rows, d) => Content(new, d)
    BY <1>1, <1>4, TagsAside DEF PgInv, Tables
<1>6. Tables(disk')
    <2>1. \A q \in Paths : DOMAIN disk'[q] = {"known", "hash", "rows"} /\ Sound(disk'[q].rows)
        BY <1>2, <1>3, <1>5 DEF PgInv, Tables
    <2>2. ASSUME NEW d \in Docs, disk'[d.path].known, disk'[d.path].hash = d.hash PROVE Content(disk'[d.path].rows, d)
        <3>1. CASE d.path = p
            BY <1>3, <1>5, <2>2, <3>1 DEF PgInv, Tables
        <3>2. CASE d.path # p
            BY <1>2, <2>2, <3>2, PgAssumption DEF PgInv, Tables
        <3> QED
            BY <3>1, <3>2
    <2> QED
        BY <1>2, <2>1, <2>2 DEF Tables
<1>7. ASSUME NEW w \in Workers PROVE Stage(w)'
    <2>0. Stage(w) /\ (work[w].at # "idle" => Path(w) \in Paths)
        BY PgAssumption DEF PgInv, Stage, Path
    <2>1. CASE work[w].at = "idle" \/ Path(w) # p
        BY <1>1, <1>2, <2>0, <2>1, StageKept
    <2>2. CASE work[w].at # "idle" /\ Path(w) = p
        <3> DEFINE seen == Seen(w)
                   then == (new \ work[w].gone) \cup work[w].new
        <3>1. seen = (rows \ work[w].gone) \cup work[w].new
            BY <2>2 DEF Seen
        <3>2. Seen(w)' = then
            BY <1>1, <1>3, <2>2 DEF Seen, Path
        <3>3. Sound(seen) /\ c \in seen
            BY <1>1, <2>0, <2>2, <3>1 DEF Stage
        <3>4. /\ \A r : r[1] # "tag" => (r \in then <=> r \in seen)
              /\ \A r \in then : r[1] = "tag" => r \in seen \/ (r[2] \in seen /\ r[2][1] = "class")
            BY <1>1, <1>4, <3>1, <3>3
        <3> HIDE DEF seen, then
        <3>5. /\ Sound(then)
              /\ \A d, n : /\ HasClasses(seen, d, n) => HasClasses(then, d, n)
                           /\ HasCalls(seen, d, n) => HasCalls(then, d, n)
              /\ \A d : /\ NoMethods(seen, d) => NoMethods(then, d)
                        /\ HasMethods(seen, d) => HasMethods(then, d)
                        /\ HasMembers(seen, d) => HasMembers(then, d)
            BY <3>3, <3>4, TagsAside
        <3> QED
            BY <1>1, <2>0, <2>2, <3>2, <3>5 DEF Stage, seen
    <2> QED
        BY <2>1, <2>2
<1> QED
    BY <1>1, <1>6, <1>7 DEF PgInv, PgShape

-----------------------------------------------------------------------------
LEMMA PgStart == PgInit => PgInv
<1> SUFFICES ASSUME PgInit PROVE PgInv
    OBVIOUS
<1>1. DOMAIN NoFile = {"known", "hash", "rows"} /\ ~NoFile.known /\ NoFile.rows = {} /\ Sound({})
    BY DEF NoFile, Sound, Shaped, Hung, OneLayer, Of
<1>2. DOMAIN disk = Paths /\ \A p \in Paths : disk[p] = NoFile
    BY DEF PgInit
<1>3. Tables(disk)
    BY <1>1, <1>2, PgAssumption DEF Tables
<1>4. PgShape
    BY DEF PgInit, PgShape, Resting
<1>5. \A w \in Workers : Stage(w)
    BY DEF PgInit, Resting, Stage
<1> QED
    BY <1>3, <1>4, <1>5 DEF PgInv

LEMMA PgStep == PgInv /\ [PgNext]_pg => PgInv'
<1> SUFFICES ASSUME PgInv, [PgNext]_pg PROVE PgInv'
    OBVIOUS
<1>1. ASSUME NEW w \in Workers, NEW d \in Docs, Begin(w, d) PROVE PgInv'
    BY <1>1, BeginKeeps
<1>2. ASSUME NEW w \in Workers, Classes(w) \/ Methods(w) \/ MemberRows(w) \/ CallRows(w) \/ Commit(w) \/ Rollback(w) PROVE PgInv'
    BY <1>2, StatementKeeps, CommitKeeps, RollbackKeeps
<1>4. ASSUME NEW p \in Paths, DeleteFile(p) \/ RecordFile(p, NoHash) PROVE PgInv'
    BY <1>4, DeleteFileKeeps, RecordFileKeeps
<1>5. ASSUME NEW p \in Paths, NEW c \in Of(disk[p].rows, "class"), NEW tags \in SUBSET Tags, UpsertTags(p, c, tags) PROVE PgInv'
    BY <1>5, UpsertTagsKeeps
<1>6. CASE UNCHANGED pg
    <2>1. \A w \in Workers : Stage(w)'
        BY <1>6, StageKept DEF pg, PgInv
    <2> QED
        BY <1>6, <2>1 DEF pg, PgInv, PgShape
<1> QED
    BY <1>1, <1>2, <1>4, <1>5, <1>6 DEF PgNext

\* Without batches no transaction runs beside one, so none of the paths is
\* excepted: beside transactions of other workers, of tags and of deletions,
\* every path shows layers of one document each, a stored hash tells which, and no
\* row is without the one it hangs from, for any documents and workers.
THEOREM PgRowsStayWhole == PgSpec => [](beside = {} /\ PgRowsWhole)
<1>1. PgInv => PgRowsWhole
    <2> SUFFICES ASSUME PgInv PROVE PgRowsWhole
        OBVIOUS
    <2>1. LayersOfOne
        BY DEF PgInv, Tables, Sound, OneLayer, LayersOfOne
    <2>2. HashTellsContent
        BY DEF PgInv, Tables, Content, HashTellsContent
    <2>3. NoOrphans
        BY DEF PgInv, Tables, Sound, Hung, NoOrphans
    <2> QED
        BY <2>1, <2>2, <2>3 DEF PgRowsWhole
<1> DEFINE Apart == beside = {}
<1>2. PgInit => Apart
    BY DEF PgInit
<1>3. Apart /\ [PgNext]_pg => Apart'
    BY DEF PgNext, pg, Classes, Methods, MemberRows, CallRows, Leaves, Commit, Rollback, RecordFile, DeleteFile, UpsertTags
<1>4. PgSpec => []PgRowsWhole
    BY <1>1, PgStart, PgStep, PTL DEF PgSpec
<1> QED
    BY <1>2, <1>3, <1>4, PTL DEF PgSpec
=============================================================================
