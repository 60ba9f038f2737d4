------------------------------ MODULE MCStores ------------------------------
(***************************************************************************)
(* The file store, and the tenants that open and close stores.  A          *)
(* behaviour is one of either, the other rests.  The configurations: two   *)
(* tenants on a locked and an unlocked store, changes of fields, of        *)
(* directory and of order, a tenant that leaves its DSN empty, and one     *)
(* without tenants.                                                        *)
(***************************************************************************)
EXTENDS FileStore, TenantManager

-----------------------------------------------------------------------------
(* The file store: two versions of one file and one version of another,    *)
(* with a class that comes and goes, a file-level function and documents   *)
(* without calls or imports.                                               *)

CONSTANTS p1, p2, h1, h2, A, B, foo, k1, i1, w1

Method(c, n) == [class |-> c, name |-> n]

V1 == [path |-> p1, hash |-> h1, classes |-> {A}, methods |-> {Method(A, foo), Method(B, foo)},
       calls |-> {k1}, imports |-> {i1}]
V2 == [path |-> p1, hash |-> h2, classes |-> {A, B}, methods |-> {Method(B, foo)},
       calls |-> {}, imports |-> {}]
Other == [path |-> p2, hash |-> h1, classes |-> {B}, methods |-> {Method(B, foo)},
          calls |-> {k1}, imports |-> {}]

MCDocs == {V1, V2, Other}
MCBatches == {<<V1, Other>>, <<V2>>}

\* Explored further: the states without a tag, and those with tags in which only
\* w1 indexes and few identifiers are used.
TagsOnFewRows ==
    \/ classTags = {} /\ methodTags = {} /\ \A t \in Taggers : held[t].classes = {} /\ held[t].methods = {}
    \/ nextID <= 6 /\ \A w \in Workers \ {w1} : up[w] = Idle

-----------------------------------------------------------------------------
(* The tenants *)

CONSTANTS a, b, default, d1, d2, db, c1, c2

Tenant(id, dsn, key) == [id |-> id, dsn |-> dsn, key |-> key]

OwnDirs == [id \in {a, b, default} |-> IF id = b THEN d2 ELSE d1]

Two     == [tenants |-> <<Tenant(a, d1, c1), Tenant(b, db, c1)>>, dsn |-> NoDir, key |-> c1]
Changed == [tenants |-> <<Tenant(b, db, c2), Tenant(a, d2, c1)>>, dsn |-> NoDir, key |-> c1]
OnlyB   == [tenants |-> <<Tenant(b, NoDir, c1)>>, dsn |-> NoDir, key |-> c1]
Shared  == [tenants |-> <<Tenant(a, NoDir, c2), Tenant(b, NoDir, c1)>>, dsn |-> db, key |-> c1]
Alone   == [tenants |-> <<>>, dsn |-> NoDir, key |-> c1]

Configurations == {Two, Changed, OnlyB, Shared, Alone}

\* One tenant whose scanner limits change, as in the test of Apply.
Before == [tenants |-> <<Tenant(a, d1, c1)>>, dsn |-> NoDir, key |-> c1]
After  == [tenants |-> <<Tenant(a, d1, c2)>>, dsn |-> NoDir, key |-> c1]
Limits == {Before, After}

-----------------------------------------------------------------------------
VARIABLE which

storesVars == <<which, vars, managerVars>>

StoresInit ==
    /\ which \in {"file", "tenants"}
    /\ Init /\ ManagerInit
    /\ which = "file" => todo = resolveTargets(Alone)

Storing(action) == which = "file" /\ action /\ UNCHANGED <<which, managerVars>>
Managing(action) == which = "tenants" /\ action /\ UNCHANGED <<which, vars>>

StoresNext == Storing(Next) \/ Managing(ManagerNext)

\* The fairness of ManagerSpec
StoresSpec ==
    /\ StoresInit /\ [][StoresNext]_storesVars
    /\ WF_storesVars(Managing(life = "serving" /\ Apply))
=============================================================================
