--------------------------- MODULE FileStoreProofs ---------------------------
(***************************************************************************)
(* The identifiers of FileStore, for every set of documents, workers and   *)
(* taggers: the counter stays ahead of everything it has handed out, no    *)
(* identifier is used twice, tags never pass to a new symbol, and every    *)
(* step is one that CodeStore allows, or one it does not see.  At its end  *)
(* the store's sessions, for any processes, files and changes.             *)
(***************************************************************************)
EXTENDS FileStore, StoreSessions, FiniteSetTheorems, TLAPS

\* The counter invariant and the uniqueness of identifiers depend on each
\* other: rows written by two steps differ because the later step starts at
\* the counter, and the counter is ahead because rows come from it.
IInv == TypeOK /\ CounterAhead /\ IDsDistinct

-----------------------------------------------------------------------------
(* Facts about documents and numberings *)

LEMMA DocType ==
    ASSUME NEW d \in Docs
    PROVE  /\ d.path \in Paths /\ d.hash \in Hashes
           /\ d.classes \subseteq ClassNames
           /\ d.methods \subseteq [class : ClassNames, name : MethodNames]
           /\ d.calls \subseteq Calls /\ d.imports \subseteq Imports
           /\ IsFiniteSet(d.classes) /\ IsFiniteSet(d.methods)
BY IRAssumption DEF IRDocument

LEMMA GroupFinite ==
    ASSUME NEW d \in Docs, NEW c
    PROVE  IsFiniteSet(GroupOf(d, c)) /\ \A m \in GroupOf(d, c) : m.name \in MethodNames
BY DocType, FS_Subset DEF GroupOf

LEMMA KeptFinite ==
    ASSUME NEW d \in Docs
    PROVE  /\ IsFiniteSet(ClassMethods(d))
           /\ \A m \in ClassMethods(d) : m.class \in d.classes /\ m.name \in MethodNames
<1>1. ClassMethods(d) \subseteq d.methods
    BY DEF ClassMethods
<1> QED
    BY <1>1, DocType, FS_Subset DEF ClassMethods

LEMMA NumberingType ==
    ASSUME NEW S, IsFiniteSet(S), NEW first \in ID, NEW num \in Numberings(S, first)
    PROVE  /\ Cardinality(S) \in Nat
           /\ DOMAIN num = S
           /\ \A x \in S : num[x] \in ID /\ first <= num[x] /\ num[x] < first + Cardinality(S)
           /\ \A x, y \in S : num[x] = num[y] => x = y
<1>1. Cardinality(S) \in Nat
    BY FS_CardinalityType
<1> QED
    BY <1>1 DEF Numberings, ID

\* The file record a write leaves, the identifier it has and the counter after it.
LEMMA RecordedType ==
    ASSUME TypeOK, CounterAhead, NEW p \in Paths, NEW h \in Hashes \cup {NoHash}
    PROVE  /\ Recorded(p, h) \in FileRecord
           /\ Recorded(p, h).id = FileID(p)
           /\ FileID(p) \in ID /\ AfterFile(p) \in ID
           /\ nextID <= AfterFile(p) /\ FileID(p) < AfterFile(p)
<1>1. CASE files[p] = NoFile
    BY <1>1 DEF TypeOK, Recorded, FileID, AfterFile, IsNew, FileRecord, ID
<1>2. CASE files[p] # NoFile
    <2>1. files[p] \in FileRecord /\ files[p].id < nextID
        BY <1>2 DEF TypeOK, CounterAhead, FileIDs
    <2> QED
        BY <1>2, <2>1 DEF TypeOK, Recorded, FileID, AfterFile, IsNew, FileRecord, ID
<1> QED
    BY <1>1, <1>2

-----------------------------------------------------------------------------
(* Every action preserves the inductive invariant *)

LEMMA InitIInv == Init => IInv
BY DEF Init, IInv, TypeOK, CounterAhead, IDsDistinct, FileIDs, ClassIDs, MethodIDs, ID,
       Idle, Upsert

LEMMA IDsTyped ==
    ASSUME TypeOK
    PROVE  FileIDs \subseteq ID /\ ClassIDs \subseteq ID /\ MethodIDs \subseteq ID
BY DEF TypeOK, FileIDs, ClassIDs, MethodIDs, FileRecord, ClassRecord, MethodRecord

\* CounterAhead without the identifiers of the rows themselves.
RefsAhead ==
    /\ \A c \in classes : c.file < nextID
    /\ \A m \in methods : m.class < nextID
    /\ \A k \in calls : k.file < nextID
    /\ \A g \in classTags : g.class < nextID
    /\ \A g \in methodTags : g.method < nextID
    /\ \A t \in Taggers : \A i \in held[t].classes \cup held[t].methods : i < nextID
    /\ \A w \in Workers : up[w].file < nextID /\ \A c \in up[w].groups : c.id < nextID

\* The identifiers a step hands out.
Fresh(i) == nextID <= i /\ i < nextID'

\* A step that keeps rows, drops rows or adds rows under fresh identifiers,
\* a different one for each, preserves the invariant.
LEMMA FreshRows ==
    ASSUME IInv, TypeOK', RefsAhead', nextID <= nextID',
           \A p \in Paths : files'[p] # NoFile =>
               (files[p] # NoFile /\ files'[p].id = files[p].id) \/ Fresh(files'[p].id),
           \A c \in classes' : c \in classes \/ Fresh(c.id),
           \A m \in methods' : m \in methods \/ Fresh(m.id),
           \A p, q \in Paths :
               files'[p] # NoFile /\ files'[q] # NoFile /\ Fresh(files'[p].id) /\ files'[p].id = files'[q].id => p = q,
           \A c, d \in classes' : Fresh(c.id) /\ c.id = d.id => c = d,
           \A m, n \in methods' : Fresh(m.id) /\ m.id = n.id => m = n,
           \A p \in Paths, c \in classes' : files'[p] # NoFile /\ Fresh(c.id) => files'[p].id # c.id,
           \A p \in Paths, m \in methods' : files'[p] # NoFile /\ Fresh(m.id) => files'[p].id # m.id,
           \A c \in classes', m \in methods' : Fresh(c.id) /\ Fresh(m.id) => c.id # m.id
    PROVE  IInv'
<1>1. nextID \in Nat /\ nextID' \in Nat
    BY DEF IInv, TypeOK, ID
<1>2. \A i \in FileIDs \cup ClassIDs \cup MethodIDs : i \in Nat /\ i < nextID
    BY IDsTyped DEF IInv, CounterAhead, ID
<1>3. /\ \A p \in Paths : files[p] # NoFile => files[p].id \in FileIDs
      /\ \A c \in classes : c.id \in ClassIDs
      /\ \A m \in methods : m.id \in MethodIDs
    BY DEF FileIDs, ClassIDs, MethodIDs
<1>4. /\ \A i \in FileIDs' : i \in FileIDs \/ Fresh(i)
      /\ \A i \in ClassIDs' : i \in ClassIDs \/ Fresh(i)
      /\ \A i \in MethodIDs' : i \in MethodIDs \/ Fresh(i)
    BY <1>3 DEF FileIDs, ClassIDs, MethodIDs
<1>5. \A i \in FileIDs \cup ClassIDs \cup MethodIDs : ~Fresh(i)
    BY <1>1, <1>2 DEF Fresh
<1>6. \A i \in FileIDs' \cup ClassIDs' \cup MethodIDs' : i < nextID'
    BY <1>1, <1>2, <1>4, nextID <= nextID' DEF Fresh
<1>7. CounterAhead'
    BY <1>6 DEF CounterAhead, RefsAhead
<1>8. \A p, q \in Paths :
          files'[p] # NoFile /\ files'[q] # NoFile /\ files'[p].id = files'[q].id => p = q
    BY <1>3, <1>5 DEF IInv, IDsDistinct
<1>9. (\A c, d \in classes' : c.id = d.id => c = d) /\ (\A m, n \in methods' : m.id = n.id => m = n)
    BY <1>3, <1>5 DEF IInv, IDsDistinct
<1>10. FileIDs' \cap ClassIDs' = {}
    <2> SUFFICES ASSUME NEW p \in Paths, files'[p] # NoFile, NEW c \in classes'
                 PROVE  files'[p].id # c.id
        BY DEF FileIDs, ClassIDs
    <2> QED
        BY <1>3, <1>5 DEF IInv, IDsDistinct
<1>11. FileIDs' \cap MethodIDs' = {}
    <2> SUFFICES ASSUME NEW p \in Paths, files'[p] # NoFile, NEW m \in methods'
                 PROVE  files'[p].id # m.id
        BY DEF FileIDs, MethodIDs
    <2> QED
        BY <1>3, <1>5 DEF IInv, IDsDistinct
<1>12. ClassIDs' \cap MethodIDs' = {}
    <2> SUFFICES ASSUME NEW c \in classes', NEW m \in methods'
                 PROVE  c.id # m.id
        BY DEF ClassIDs, MethodIDs
    <2> QED
        BY <1>3, <1>5 DEF IInv, IDsDistinct
<1> QED
    BY <1>7, <1>8, <1>9, <1>10, <1>11, <1>12 DEF IInv, IDsDistinct

\* What makes NewSymbolsUntagged hold: rows that appear have fresh identifiers.
RowsFresh ==
    /\ \A c \in classes' : c \in classes \/ Fresh(c.id)
    /\ \A m \in methods' : m \in methods \/ Fresh(m.id)

\* References only have to stay below a counter that does not fall.
LEMMA RefsKept ==
    ASSUME IInv, TypeOK', nextID <= nextID',
           \A c \in classes' : c \in classes \/ c.file < nextID',
           \A m \in methods' : m \in methods \/ m.class < nextID',
           \A k \in calls' : k \in calls \/ k.file < nextID',
           \A g \in classTags' : g \in classTags \/ g.class < nextID',
           \A g \in methodTags' : g \in methodTags \/ g.method < nextID',
           \A t \in Taggers : held'[t] = held[t] \/ \A i \in held'[t].classes \cup held'[t].methods : i < nextID',
           \A w \in Workers :
               \/ up'[w] = up[w]
               \/ up'[w].file < nextID' /\ \A c \in up'[w].groups : c.id < nextID'
    PROVE  RefsAhead'
<1>1. nextID \in Nat /\ nextID' \in Nat
    BY DEF IInv, TypeOK, ID
<1>2. \A i \in Nat : i < nextID => i < nextID'
    BY <1>1
<1>3. /\ \A c \in classes : c.file < nextID'
      /\ \A m \in methods : m.class < nextID'
      /\ \A k \in calls : k.file < nextID'
    BY <1>2 DEF IInv, CounterAhead, TypeOK, ClassRecord, MethodRecord, ID
<1>4. /\ \A g \in classTags : g.class < nextID'
      /\ \A g \in methodTags : g.method < nextID'
    BY <1>2 DEF IInv, CounterAhead, TypeOK, ID
<1>5. \A t \in Taggers : \A i \in held[t].classes \cup held[t].methods : i < nextID'
    BY <1>2 DEF IInv, CounterAhead, TypeOK, ID
<1>6. \A w \in Workers : up[w].file < nextID' /\ \A c \in up[w].groups : c.id < nextID'
    <2> SUFFICES ASSUME NEW w \in Workers
                 PROVE  up[w].file < nextID' /\ \A c \in up[w].groups : c.id < nextID'
        OBVIOUS
    <2>1. up[w].file \in Nat /\ \A c \in up[w].groups : c.id \in Nat
        BY DEF IInv, TypeOK, Upsert, Idle, ClassRecord, ID
    <2> QED
        BY <2>1, <1>2 DEF IInv, CounterAhead
<1> QED
    BY <1>3, <1>4, <1>5, <1>6 DEF RefsAhead

LEMMA OldNotFresh ==
    ASSUME IInv
    PROVE  /\ \A p \in Paths : files[p] # NoFile => ~Fresh(files[p].id)
           /\ \A c \in classes : ~Fresh(c.id)
           /\ \A m \in methods : ~Fresh(m.id)
<1>1. \A i \in FileIDs \cup ClassIDs \cup MethodIDs : i \in Nat /\ i < nextID
    BY IDsTyped DEF IInv, CounterAhead, ID
<1>2. \A i \in FileIDs \cup ClassIDs \cup MethodIDs : ~Fresh(i)
    BY <1>1 DEF IInv, TypeOK, ID, Fresh
<1> QED
    BY <1>2 DEF FileIDs, ClassIDs, MethodIDs

\* Only the record of p changes, and it keeps its identifier or takes nextID.
LEMMA RecordWritten ==
    ASSUME IInv, NEW p \in Paths, NEW r \in FileRecord, r.id = FileID(p),
           files' = [files EXCEPT ![p] = r], nextID < nextID' \/ ~IsNew(p)
    PROVE  /\ \A q \in Paths : files'[q] # NoFile =>
                 \/ files[q] # NoFile /\ files'[q].id = files[q].id
                 \/ q = p /\ IsNew(p) /\ files'[q].id = nextID /\ Fresh(nextID)
           /\ \A q, s \in Paths :
                 files'[q] # NoFile /\ files'[s] # NoFile /\ Fresh(files'[q].id) /\ files'[q].id = files'[s].id => q = s
<1>1. \A q \in Paths : files'[q] = IF q = p THEN r ELSE files[q]
    BY DEF IInv, TypeOK
<1>2. nextID \in Nat
    BY DEF IInv, TypeOK, ID
<1>3. \A q \in Paths : files'[q] # NoFile =>
          \/ files[q] # NoFile /\ files'[q].id = files[q].id
          \/ q = p /\ IsNew(p) /\ files'[q].id = nextID /\ Fresh(nextID)
    BY <1>1, <1>2 DEF FileID, IsNew, Fresh
<1> QED
    BY <1>3, OldNotFresh

LEMMA UpsertFileIInv ==
    ASSUME IInv, NEW w \in Workers, NEW d \in Docs, UpsertFile(w, d)
    PROVE  IInv'
<1>1. d.path \in Paths /\ d.hash \in Hashes \cup {NoHash}
    BY DocType
<1>2. /\ Recorded(d.path, d.hash) \in FileRecord
      /\ Recorded(d.path, d.hash).id = FileID(d.path)
      /\ FileID(d.path) \in ID /\ AfterFile(d.path) \in ID
      /\ nextID <= AfterFile(d.path) /\ FileID(d.path) < AfterFile(d.path)
    BY <1>1, RecordedType DEF IInv
<1>3. TypeOK'
    BY <1>1, <1>2 DEF UpsertFile, IInv, TypeOK, rows, tags, Upsert, ID
<1>4. nextID <= nextID' /\ FileID(d.path) < nextID'
    BY <1>2 DEF UpsertFile
<1>5. RefsAhead'
    <2>1. \A v \in Workers : up'[v] = up[v] \/ (up'[v].file < nextID' /\ up'[v].groups = {})
        BY <1>4 DEF UpsertFile, IInv, TypeOK
    <2> QED
        BY <1>3, <1>4, <2>1, RefsKept DEF UpsertFile, rows, tags
<1>6. nextID < nextID' \/ ~IsNew(d.path)
    BY <1>4 DEF FileID
<1>7. classes' = classes /\ methods' = methods
    BY DEF UpsertFile, rows
<1> QED
    BY <1>1, <1>2, <1>3, <1>4, <1>5, <1>6, <1>7, RecordWritten, OldNotFresh, FreshRows DEF UpsertFile

LEMMA RecordFileIInv ==
    ASSUME IInv, NEW p \in Paths, NEW h \in Hashes \cup {NoHash}, RecordFile(p, h)
    PROVE  IInv'
<1>1. /\ Recorded(p, h) \in FileRecord /\ Recorded(p, h).id = FileID(p)
      /\ FileID(p) \in ID /\ AfterFile(p) \in ID
      /\ nextID <= AfterFile(p) /\ FileID(p) < AfterFile(p)
    BY RecordedType DEF IInv
<1>2. TypeOK'
    BY <1>1 DEF RecordFile, IInv, TypeOK, rows, tags
<1>3. nextID <= nextID' /\ (nextID < nextID' \/ ~IsNew(p))
    BY <1>1 DEF RecordFile, FileID
<1>4. classes' = classes /\ methods' = methods
    BY DEF RecordFile, rows
<1>5. RefsAhead'
    BY <1>2, <1>3, RefsKept DEF RecordFile, rows, tags
<1> QED
    BY <1>1, <1>2, <1>3, <1>4, <1>5, RecordWritten, OldNotFresh, FreshRows DEF RecordFile

\* A worker past its first table has a document and the ID of a file.
LEMMA InHand ==
    ASSUME TypeOK, NEW w \in Workers, up[w].stage # "idle"
    PROVE  up[w] \in Upsert /\ up[w].doc \in Docs /\ up[w].file \in ID /\ up[w].groups \subseteq ClassRecord
BY DEF TypeOK, Idle, Upsert

LEMMA UpsertClassesIInv ==
    ASSUME IInv, NEW w \in Workers, UpsertClasses(w)
    PROVE  IInv' /\ RowsFresh
<1> DEFINE d == up[w].doc
           f == up[w].file
<1>1. up[w] \in Upsert /\ d \in Docs /\ f \in ID /\ IsFiniteSet(d.classes) /\ d.classes \subseteq ClassNames
    BY InHand, DocType DEF IInv, UpsertClasses
<1>2. PICK num \in Numberings(d.classes, nextID) :
          classes' = (classes \ ClassesOf(f)) \cup ClassRows(f, num)
    BY DEF UpsertClasses
<1>3. nextID \in ID /\ nextID' = nextID + Cardinality(d.classes)
    BY DEF IInv, TypeOK, UpsertClasses
<1>4. /\ Cardinality(d.classes) \in Nat /\ DOMAIN num = d.classes
      /\ \A x \in d.classes : num[x] \in ID /\ Fresh(num[x])
      /\ \A x, y \in d.classes : num[x] = num[y] => x = y
    BY <1>1, <1>3, NumberingType DEF Fresh
<1>5. nextID' \in ID /\ nextID <= nextID'
    BY <1>3, <1>4 DEF ID
<1>6. \A c \in ClassRows(f, num) : c \in ClassRecord /\ Fresh(c.id) /\ c.file = f
    BY <1>1, <1>4 DEF ClassRows, ClassRecord
<1>7. \A c, e \in ClassRows(f, num) : c.id = e.id => c = e
    BY <1>4 DEF ClassRows
<1>8. TypeOK'
    BY <1>1, <1>2, <1>5, <1>6 DEF UpsertClasses, IInv, TypeOK, tags, Upsert, Idle
<1>9. f < nextID'
    BY <1>1, <1>3, <1>5 DEF IInv, CounterAhead, ID
<1>10. \A v \in Workers : up'[v].file = up[v].file /\ up'[v].groups = up[v].groups
    BY DEF UpsertClasses, IInv, TypeOK
<1>11. RefsAhead'
    <2>1. \A c \in classes' : c \in classes \/ c.file < nextID'
        BY <1>2, <1>6, <1>9
    <2>2. \A v \in Workers : up'[v].file < nextID' /\ \A c \in up'[v].groups : c.id < nextID'
        <3>1. \A v \in Workers : up[v].file \in Nat /\ \A c \in up[v].groups : c.id \in Nat
            BY DEF IInv, TypeOK, Upsert, Idle, ClassRecord, ID
        <3> QED
            BY <1>3, <1>5, <1>10, <3>1 DEF IInv, CounterAhead, ID
    <2> QED
        BY <1>5, <1>8, <2>1, <2>2, RefsKept DEF UpsertClasses, tags
<1>12. RowsFresh
    BY <1>2, <1>6 DEF UpsertClasses, RowsFresh
<1> QED
    BY <1>2, <1>5, <1>6, <1>7, <1>8, <1>11, <1>12, OldNotFresh, FreshRows DEF UpsertClasses

LEMMA HandsBelow ==
    ASSUME IInv, nextID <= nextID', nextID' \in ID, NEW w \in Workers
    PROVE  up[w].file < nextID' /\ \A c \in up[w].groups : c.id < nextID'
<1>1. up[w].file \in Nat /\ \A c \in up[w].groups : c.id \in Nat
    BY DEF IInv, TypeOK, Upsert, Idle, ClassRecord, ID
<1> QED
    BY <1>1 DEF IInv, TypeOK, CounterAhead, ID

LEMMA LookupClassesIInv ==
    ASSUME IInv, NEW w \in Workers, LookupClasses(w)
    PROVE  IInv'
<1>1. up[w] \in Upsert
    BY InHand DEF IInv, LookupClasses
<1>2. TypeOK'
    BY <1>1 DEF LookupClasses, IInv, TypeOK, rows, tags, Upsert, ClassesOf
<1>3. nextID' = nextID /\ nextID \in ID /\ nextID <= nextID'
    BY DEF LookupClasses, IInv, TypeOK, ID
<1>4. \A v \in Workers : up'[v].file < nextID' /\ \A c \in up'[v].groups : c.id < nextID'
    <2>1. \A v \in Workers : up'[v].file = up[v].file /\ up'[v].groups \subseteq up[v].groups \cup classes
        BY DEF LookupClasses, IInv, TypeOK, ClassesOf
    <2>2. \A c \in classes : c.id < nextID'
        BY <1>3 DEF IInv, CounterAhead, ClassIDs
    <2> QED
        BY <1>3, <2>1, <2>2, HandsBelow
<1>5. RefsAhead'
    BY <1>2, <1>3, <1>4, RefsKept DEF LookupClasses, rows, tags
<1> QED
    BY <1>2, <1>3, <1>5, OldNotFresh, FreshRows DEF LookupClasses, rows

LEMMA UpsertMethodsIInv ==
    ASSUME IInv, NEW w \in Workers, NEW c \in up[w].groups, UpsertMethods(w, c)
    PROVE  IInv' /\ RowsFresh
<1> DEFINE G == GroupOf(up[w].doc, c)
<1>1. up[w] \in Upsert /\ c \in ClassRecord /\ IsFiniteSet(G) /\ \A m \in G : m.name \in MethodNames
    BY InHand, GroupFinite DEF IInv, UpsertMethods
<1>2. PICK num \in Numberings(G, nextID) : methods' = (methods \ MethodsOf(c.id)) \cup MethodRows(c, num)
    BY DEF UpsertMethods
<1>3. nextID \in ID /\ nextID' = nextID + Cardinality(G)
    BY DEF IInv, TypeOK, UpsertMethods
<1>4. /\ Cardinality(G) \in Nat /\ DOMAIN num = G
      /\ \A x \in G : num[x] \in ID /\ Fresh(num[x])
      /\ \A x, y \in G : num[x] = num[y] => x = y
    BY <1>1, <1>3, NumberingType DEF Fresh
<1>5. nextID' \in ID /\ nextID <= nextID'
    BY <1>3, <1>4 DEF ID
<1>6. \A m \in MethodRows(c, num) : m \in MethodRecord /\ Fresh(m.id) /\ m.class = c.id
    BY <1>1, <1>4 DEF MethodRows, MethodRecord, ClassRecord
<1>7. \A m, n \in MethodRows(c, num) : m.id = n.id => m = n
    BY <1>4 DEF MethodRows
<1>8. TypeOK'
    BY <1>1, <1>2, <1>5, <1>6 DEF UpsertMethods, IInv, TypeOK, tags, Upsert, Idle
<1>9. c.id < nextID'
    BY <1>5, HandsBelow
<1>10. \A v \in Workers : up'[v].file < nextID' /\ \A k \in up'[v].groups : k.id < nextID'
    <2>1. \A v \in Workers : up'[v].file = up[v].file /\ up'[v].groups \subseteq up[v].groups
        BY DEF UpsertMethods, IInv, TypeOK
    <2> QED
        BY <1>5, <2>1, HandsBelow
<1>11. RefsAhead'
    <2>1. \A m \in methods' : m \in methods \/ m.class < nextID'
        BY <1>2, <1>6, <1>9
    <2> QED
        BY <1>5, <1>8, <1>10, <2>1, RefsKept DEF UpsertMethods, tags
<1>12. RowsFresh
    BY <1>2, <1>6 DEF UpsertMethods, RowsFresh
<1> QED
    BY <1>2, <1>5, <1>6, <1>7, <1>8, <1>11, <1>12, OldNotFresh, FreshRows DEF UpsertMethods

LEMMA UpsertCallsIInv ==
    ASSUME IInv, NEW w \in Workers, UpsertCalls(w)
    PROVE  IInv'
<1>1. up[w] \in Upsert /\ up[w].file \in ID /\ up[w].doc.calls \subseteq Calls
    BY InHand, DocType DEF IInv, UpsertCalls
<1>2. nextID' = nextID /\ nextID \in ID /\ nextID <= nextID'
    BY DEF UpsertCalls, IInv, TypeOK, ID
<1>3. \A k \in CallRows(up[w].file, up[w].doc) : k \in [file : ID, call : Calls] /\ k.file = up[w].file
    BY <1>1 DEF CallRows
<1>4. TypeOK'
    BY <1>1, <1>3 DEF UpsertCalls, IInv, TypeOK, tags, Upsert
<1>5. \A v \in Workers : up'[v].file < nextID' /\ \A c \in up'[v].groups : c.id < nextID'
    <2>1. \A v \in Workers : up'[v].file = up[v].file /\ up'[v].groups = up[v].groups
        BY DEF UpsertCalls, IInv, TypeOK
    <2> QED
        BY <1>2, <2>1, HandsBelow
<1>6. RefsAhead'
    <2>1. \A k \in calls' : k \in calls \/ k.file < nextID'
        BY <1>2, <1>3, HandsBelow DEF UpsertCalls
    <2> QED
        BY <1>2, <1>4, <1>5, <2>1, RefsKept DEF UpsertCalls, tags
<1> QED
    BY <1>2, <1>4, <1>6, OldNotFresh, FreshRows DEF UpsertCalls

LEMMA SaveImportsIInv ==
    ASSUME IInv, NEW w \in Workers, SaveImports(w)
    PROVE  IInv'
<1> DEFINE d == up[w].doc
<1>1. d \in Docs /\ d.path \in Paths /\ d.imports \subseteq Imports
    BY InHand, DocType DEF IInv, SaveImports
<1>2. \A p \in Paths :
          \/ files'[p] = files[p]
          \/ files[p] # NoFile /\ files'[p] \in FileRecord /\ files'[p].id = files[p].id
    BY <1>1, FileStoreAssumption DEF SaveImports, IInv, TypeOK, FileRecord
<1>3. files' \in [Paths -> FileRecord \cup {NoFile}]
    BY <1>2 DEF SaveImports, IInv, TypeOK
<1>4. nextID' = nextID /\ nextID \in ID /\ nextID <= nextID'
    BY DEF SaveImports, IInv, TypeOK, ID
<1>5. TypeOK'
    BY <1>3 DEF SaveImports, IInv, TypeOK, rows, tags
<1>6. RefsAhead'
    <2>1. \A v \in Workers : up'[v] = up[v] \/ up'[v] = Idle
        BY DEF SaveImports, IInv, TypeOK
    <2>2. Idle.file < nextID' /\ Idle.groups = {}
        BY <1>4 DEF Idle, ID
    <2> QED
        BY <1>4, <1>5, <2>1, <2>2, RefsKept DEF SaveImports, rows, tags
<1>7. \A p \in Paths : files'[p] # NoFile => files[p] # NoFile /\ files'[p].id = files[p].id
    BY <1>2
<1> QED
    BY <1>4, <1>5, <1>6, <1>7, OldNotFresh, FreshRows DEF SaveImports, rows

LEMMA BeginBulkUpsertIInv ==
    ASSUME IInv, NEW b \in Batches, BeginBulkUpsert(b)
    PROVE  IInv'
<1>1. TypeOK'
    BY FileStoreAssumption DEF BeginBulkUpsert, IInv, TypeOK, rows, tags
<1>2. nextID' = nextID /\ nextID <= nextID'
    BY DEF BeginBulkUpsert, IInv, TypeOK, ID
<1>3. RefsAhead'
    BY <1>1, <1>2, RefsKept DEF BeginBulkUpsert, rows, tags
<1> QED
    BY <1>1, <1>2, <1>3, OldNotFresh, FreshRows DEF BeginBulkUpsert, rows

LEMMA BulkUpsertNextIInv ==
    ASSUME IInv, BulkUpsertNext
    PROVE  IInv' /\ RowsFresh
<1> DEFINE d == Head(bulk)
           f == FileID(d.path)
           first == AfterFile(d.path)
           mid == first + Cardinality(d.classes)
           kept == ClassMethods(d)
           r == [Recorded(d.path, d.hash) EXCEPT !.imports = IF d.imports # {} THEN d.imports ELSE @]
<1>1. d \in Docs /\ Tail(bulk) \in Seq(Docs)
    BY DEF BulkUpsertNext, IInv, TypeOK
<1>2. /\ d.path \in Paths /\ d.hash \in Hashes \cup {NoHash}
      /\ d.imports \subseteq Imports /\ d.calls \subseteq Calls
      /\ IsFiniteSet(d.classes) /\ d.classes \subseteq ClassNames
    BY <1>1, DocType
<1>3. IsFiniteSet(kept) /\ \A m \in kept : m.class \in d.classes /\ m.name \in MethodNames
    BY <1>1, KeptFinite
<1>4. /\ Recorded(d.path, d.hash) \in FileRecord
      /\ Recorded(d.path, d.hash).id = f
      /\ f \in ID /\ first \in ID /\ nextID <= first /\ f < first
    BY <1>2, RecordedType DEF IInv
<1>5. r \in FileRecord /\ r.id = f
    BY <1>2, <1>4 DEF FileRecord
<1>6. /\ files' = [files EXCEPT ![d.path] = r]
      /\ nextID' = mid + Cardinality(kept)
      /\ calls' \subseteq calls \cup CallRows(f, d)
      /\ bulk' = Tail(bulk)
      /\ UNCHANGED <<tags, up, held>>
    BY DEF BulkUpsertNext
<1>7. PICK cnum \in Numberings(d.classes, first), mnum \in Numberings(kept, mid) :
          /\ classes' = (classes \ ClassesOf(f)) \cup ClassRows(f, cnum)
          /\ methods' = methods \cup
                {[id |-> mnum[m], class |-> cnum[m.class], name |-> m.name] : m \in kept}
    BY DEF BulkUpsertNext
<1> DEFINE newMethods == {[id |-> mnum[m], class |-> cnum[m.class], name |-> m.name] : m \in kept}
<1>8. /\ Cardinality(d.classes) \in Nat /\ DOMAIN cnum = d.classes
      /\ \A x \in d.classes : cnum[x] \in ID /\ first <= cnum[x] /\ cnum[x] < mid
      /\ \A x, y \in d.classes : cnum[x] = cnum[y] => x = y
    BY <1>2, <1>4, NumberingType
<1>9. mid \in ID
    BY <1>4, <1>8 DEF ID
<1>10. /\ Cardinality(kept) \in Nat
       /\ \A m \in kept : mnum[m] \in ID /\ mid <= mnum[m] /\ mnum[m] < mid + Cardinality(kept)
       /\ \A m, n \in kept : mnum[m] = mnum[n] => m = n
    BY <1>3, <1>9, NumberingType
<1>11. /\ nextID \in ID /\ nextID' \in ID /\ nextID <= nextID' /\ first <= mid /\ mid <= nextID' /\ f < nextID'
    BY <1>4, <1>6, <1>8, <1>9, <1>10 DEF IInv, TypeOK, ID
<1>12. \A x \in d.classes : Fresh(cnum[x])
    BY <1>4, <1>8, <1>9, <1>11 DEF Fresh, ID
<1>13. \A m \in kept : Fresh(mnum[m])
    BY <1>4, <1>6, <1>9, <1>10, <1>11 DEF Fresh, ID
<1>14. \A c \in ClassRows(f, cnum) : c \in ClassRecord /\ Fresh(c.id) /\ c.file = f /\ first <= c.id /\ c.id < mid
    BY <1>2, <1>4, <1>8, <1>12 DEF ClassRows, ClassRecord
<1>15. \A m \in newMethods : m \in MethodRecord /\ Fresh(m.id) /\ m.class < nextID' /\ mid <= m.id
    BY <1>3, <1>8, <1>10, <1>12, <1>13 DEF MethodRecord, Fresh
<1>16. /\ \A c, e \in ClassRows(f, cnum) : c.id = e.id => c = e
       /\ \A m, n \in newMethods : m.id = n.id => m = n
    BY <1>8, <1>10 DEF ClassRows
<1>17. \A k \in CallRows(f, d) : k \in [file : ID, call : Calls] /\ k.file = f
    BY <1>2, <1>4 DEF CallRows
<1>18. TypeOK'
    <2>1. files' \in [Paths -> FileRecord \cup {NoFile}]
        BY <1>5, <1>6 DEF IInv, TypeOK
    <2>2. classes' \subseteq ClassRecord /\ methods' \subseteq MethodRecord
        BY <1>7, <1>14, <1>15 DEF IInv, TypeOK
    <2>3. calls' \subseteq [file : ID, call : Calls]
        BY <1>6, <1>17 DEF IInv, TypeOK
    <2> QED
        BY <1>1, <1>6, <1>11, <2>1, <2>2, <2>3 DEF IInv, TypeOK, tags
<1>19. RefsAhead'
    <2>1. \A c \in classes' : c \in classes \/ c.file < nextID'
        BY <1>7, <1>11, <1>14
    <2>2. \A m \in methods' : m \in methods \/ m.class < nextID'
        BY <1>7, <1>15
    <2>3. \A k \in calls' : k \in calls \/ k.file < nextID'
        BY <1>6, <1>11, <1>17
    <2> QED
        BY <1>6, <1>11, <1>18, <2>1, <2>2, <2>3, RefsKept DEF tags
<1>20. RowsFresh
    BY <1>7, <1>14, <1>15 DEF RowsFresh
<1>21. nextID < nextID' \/ ~IsNew(d.path)
    BY <1>11 DEF FileID
<1>22. /\ \A p \in Paths : files'[p] # NoFile =>
             \/ files[p] # NoFile /\ files'[p].id = files[p].id
             \/ p = d.path /\ IsNew(p) /\ files'[p].id = nextID /\ Fresh(nextID)
       /\ \A p, q \in Paths :
             files'[p] # NoFile /\ files'[q] # NoFile /\ Fresh(files'[p].id) /\ files'[p].id = files'[q].id => p = q
    BY <1>2, <1>5, <1>6, <1>21, RecordWritten
<1>23. \A p \in Paths : files'[p] # NoFile =>
          (files[p] # NoFile /\ ~Fresh(files'[p].id)) \/ (files'[p].id = f /\ f = nextID /\ first = nextID + 1)
    BY <1>22, OldNotFresh DEF FileID, AfterFile
<1>24. \A c \in classes', m \in methods' : Fresh(c.id) /\ Fresh(m.id) => c.id # m.id
    <2>1. \A c \in classes' : Fresh(c.id) => c \in ClassRows(f, cnum)
        BY <1>7, OldNotFresh
    <2>2. \A m \in methods' : Fresh(m.id) => m \in newMethods
        BY <1>7, OldNotFresh
    <2> QED
        BY <2>1, <2>2, <1>9, <1>14, <1>15, <1>18 DEF TypeOK, ClassRecord, MethodRecord, ID
<1>25. \A p \in Paths, c \in classes' : files'[p] # NoFile /\ Fresh(c.id) => files'[p].id # c.id
    <2>1. \A c \in classes' : Fresh(c.id) => first <= c.id
        BY <1>7, <1>14, OldNotFresh
    <2>2. \A c \in classes' : c.id \in Nat
        BY <1>18 DEF TypeOK, ClassRecord, ID
    <2> QED
        BY <1>11, <1>23, <2>1, <2>2 DEF ID
<1>26. \A p \in Paths, m \in methods' : files'[p] # NoFile /\ Fresh(m.id) => files'[p].id # m.id
    <2>1. \A m \in methods' : Fresh(m.id) => mid <= m.id
        BY <1>7, <1>15, OldNotFresh
    <2>2. \A m \in methods' : m.id \in Nat
        BY <1>18 DEF TypeOK, MethodRecord, ID
    <2> QED
        BY <1>9, <1>11, <1>23, <2>1, <2>2 DEF ID
<1>27. /\ \A c, e \in classes' : Fresh(c.id) /\ c.id = e.id => c = e
       /\ \A m, n \in methods' : Fresh(m.id) /\ m.id = n.id => m = n
    BY <1>7, <1>16, OldNotFresh
<1>28. IInv'
    BY <1>11, <1>18, <1>19, <1>20, <1>22, <1>24, <1>25, <1>26, <1>27, FreshRows DEF RowsFresh
<1> QED
    BY <1>20, <1>28

LEMMA DeleteFileIInv ==
    ASSUME IInv, NEW p \in Paths, DeleteFile(p)
    PROVE  IInv'
<1>1. nextID' = nextID /\ nextID \in ID /\ nextID <= nextID'
    BY DEF DeleteFile, IInv, TypeOK, ID
<1>2. /\ classes' \subseteq classes /\ methods' \subseteq methods /\ calls' \subseteq calls
      /\ classTags' \subseteq classTags /\ methodTags' \subseteq methodTags
      /\ UNCHANGED <<up, bulk, held>>
    BY DEF DeleteFile
<1>3. \A q \in Paths : files'[q] = IF q = p THEN NoFile ELSE files[q]
    BY DEF DeleteFile, IInv, TypeOK
<1>4. files' \in [Paths -> FileRecord \cup {NoFile}]
    BY DEF DeleteFile, IInv, TypeOK
<1>5. TypeOK'
    BY <1>1, <1>2, <1>4 DEF IInv, TypeOK
<1>6. RefsAhead'
    BY <1>1, <1>2, <1>5, RefsKept
<1> QED
    BY <1>1, <1>2, <1>3, <1>5, <1>6, OldNotFresh, FreshRows

\* A step of a tagger leaves the tables of files, classes and methods alone;
\* the identifiers it takes in hand or writes are in use.
LEMMA TaggerIInv ==
    ASSUME IInv, NEW t \in Taggers, Tagger(t)
    PROVE  IInv' /\ RowsFresh
<1>1. files' = files /\ classes' = classes /\ methods' = methods /\ calls' = calls
      /\ nextID' = nextID /\ up' = up /\ bulk' = bulk
    BY DEF Tagger, ReadClasses, ReadMethods, UpsertTags, UpsertMethodTags, rows
<1>2. nextID \in ID /\ nextID <= nextID'
    BY <1>1 DEF IInv, TypeOK, ID
<1>3. /\ \A c \in classes : c.id \in ID /\ c.id < nextID
      /\ \A m \in methods : m.id \in ID /\ m.id < nextID
    BY DEF IInv, TypeOK, CounterAhead, ClassIDs, MethodIDs, ClassRecord, MethodRecord
<1>4. held' \in [Taggers -> [classes : SUBSET ID, methods : SUBSET ID]]
      /\ \A u \in Taggers : held'[u] = held[u] \/ \A i \in held'[u].classes \cup held'[u].methods : i < nextID
    <2>1. CASE \E p \in Paths : ReadClasses(t, p)
        <3>1. PICK p \in Paths :
                  held' = [held EXCEPT ![t] = [classes |-> {c.id : c \in ClassesOf(files[p].id)}, methods |-> {}]]
            BY <2>1 DEF ReadClasses
        <3>2. \A i \in {c.id : c \in ClassesOf(files[p].id)} : i \in ID /\ i < nextID
            BY <1>3 DEF ClassesOf
        <3> QED
            BY <3>1, <3>2 DEF IInv, TypeOK
    <2>2. CASE \E c \in held[t].classes : ReadMethods(t, c)
        <3>1. PICK c \in held[t].classes :
                  held' = [held EXCEPT ![t] = [classes |-> @.classes \ {c}, methods |-> {m.id : m \in MethodsOf(c)}]]
            BY <2>2 DEF ReadMethods
        <3>2. \A i \in {m.id : m \in MethodsOf(c)} : i \in ID /\ i < nextID
            BY <1>3 DEF MethodsOf
        <3>3. \A i \in held[t].classes \ {c} : i \in ID /\ i < nextID
            BY DEF IInv, TypeOK, CounterAhead
        <3> QED
            BY <3>1, <3>2, <3>3 DEF IInv, TypeOK
    <2>3. CASE held' = held
        BY <2>3 DEF IInv, TypeOK
    <2> QED
        BY <2>1, <2>2, <2>3 DEF Tagger, UpsertTags, UpsertMethodTags
<1>5. \A c \in held[t].classes \cup held[t].methods : c \in ID /\ c < nextID
    BY DEF IInv, TypeOK, CounterAhead
<1>6. /\ \A g \in classTags' : g \in classTags \/ (g \in [class : ID, tag : Tags] /\ g.class < nextID)
      /\ \A g \in methodTags' : g \in methodTags \/ (g \in [method : ID, tag : Tags] /\ g.method < nextID)
    <2>1. CASE \E c \in held[t].classes, new \in SUBSET Tags : UpsertTags(t, c, new)
        BY <1>5, <2>1 DEF UpsertTags
    <2>2. CASE \E m \in held[t].methods, new \in SUBSET Tags : UpsertMethodTags(t, m, new)
        BY <1>5, <2>2 DEF UpsertMethodTags
    <2>3. CASE UNCHANGED tags
        BY <2>3 DEF tags
    <2> QED
        BY <2>1, <2>2, <2>3 DEF Tagger, ReadClasses, ReadMethods
<1>7. TypeOK'
    BY <1>1, <1>4, <1>6 DEF IInv, TypeOK
<1>8. RefsAhead'
    BY <1>1, <1>2, <1>4, <1>6, <1>7, RefsKept
<1>9. RowsFresh
    BY <1>1 DEF RowsFresh
<1> QED
    BY <1>1, <1>2, <1>7, <1>8, <1>9, OldNotFresh, FreshRows

LEMMA StepIInv == IInv /\ [Next]_vars => IInv' /\ RowsFresh
<1> SUFFICES ASSUME IInv, [Next]_vars
             PROVE  IInv' /\ RowsFresh
    OBVIOUS
<1>1. ASSUME NEW w \in Workers, NEW d \in Docs, UpsertFile(w, d) PROVE IInv' /\ RowsFresh
    BY <1>1, UpsertFileIInv DEF UpsertFile, rows, RowsFresh
<1>2. ASSUME NEW w \in Workers, UpsertClasses(w) PROVE IInv' /\ RowsFresh
    BY <1>2, UpsertClassesIInv
<1>3. ASSUME NEW w \in Workers, LookupClasses(w) PROVE IInv' /\ RowsFresh
    BY <1>3, LookupClassesIInv DEF LookupClasses, rows, RowsFresh
<1>4. ASSUME NEW w \in Workers, NEW c \in up[w].groups, UpsertMethods(w, c) PROVE IInv' /\ RowsFresh
    BY <1>4, UpsertMethodsIInv
<1>5. ASSUME NEW w \in Workers, UpsertCalls(w) PROVE IInv' /\ RowsFresh
    BY <1>5, UpsertCallsIInv DEF UpsertCalls, RowsFresh
<1>6. ASSUME NEW w \in Workers, SaveImports(w) PROVE IInv' /\ RowsFresh
    BY <1>6, SaveImportsIInv DEF SaveImports, rows, RowsFresh
<1>7. ASSUME NEW b \in Batches, BeginBulkUpsert(b) PROVE IInv' /\ RowsFresh
    BY <1>7, BeginBulkUpsertIInv DEF BeginBulkUpsert, rows, RowsFresh
<1>8. ASSUME BulkUpsertNext PROVE IInv' /\ RowsFresh
    BY <1>8, BulkUpsertNextIInv
<1>9. ASSUME NEW p \in Paths, DeleteFile(p) PROVE IInv' /\ RowsFresh
    BY <1>9, DeleteFileIInv DEF DeleteFile, RowsFresh
<1>10. ASSUME NEW p \in Paths, NEW h \in Hashes \cup {NoHash}, RecordFile(p, h) PROVE IInv' /\ RowsFresh
    BY <1>10, RecordFileIInv DEF RecordFile, rows, RowsFresh
<1>11. ASSUME NEW t \in Taggers, Tagger(t) PROVE IInv' /\ RowsFresh
    BY <1>11, TaggerIInv
<1>12. CASE UNCHANGED vars
    BY <1>12 DEF vars, rows, tags, IInv, TypeOK, CounterAhead, IDsDistinct, FileIDs, ClassIDs, MethodIDs, RowsFresh
<1> QED
    BY <1>1, <1>2, <1>3, <1>4, <1>5, <1>6, <1>7, <1>8, <1>9, <1>10, <1>11, <1>12 DEF Next, UpsertIR

-----------------------------------------------------------------------------
(* The theorems *)

\* The inductive invariant holds in every reachable state.
THEOREM Inductive == Spec => []IInv
<1>1. Init => IInv
    BY InitIInv
<1>2. IInv /\ [Next]_vars => IInv'
    BY StepIInv
<1> QED
    BY <1>1, <1>2, PTL DEF Spec

\* Whatever the interleaving of UpsertIR, BulkUpsert, DeleteFile and the taggers,
\* nextID is ahead of every identifier in a table, in a tag or in the hands of a
\* worker or tagger, and no two files, classes or methods have the same one,
\* although UpsertIR gives the mutex up between its tables and rows are replaced.
THEOREM IdentifiersStaySound == Spec => []IdentifiersSound
<1>1. IInv => IdentifiersSound
    BY DEF IInv, IdentifiersSound
<1> QED
    BY <1>1, Inductive, PTL

\* The steps that are not a tagger's write no tag, and only DeleteFile takes any.
LEMMA TagsLeftAlone ==
    ASSUME Next
    PROVE  \/ \E p \in Paths : DeleteFile(p)
           \/ \E t \in Taggers : Tagger(t)
           \/ classTags' = classTags /\ methodTags' = methodTags
<1>1. ASSUME NEW w \in Workers, UpsertIR(w) PROVE classTags' = classTags /\ methodTags' = methodTags
    BY <1>1 DEF UpsertIR, UpsertFile, UpsertClasses, LookupClasses, UpsertMethods, UpsertCalls, SaveImports, tags
<1>2. ASSUME NEW b \in Batches, BeginBulkUpsert(b) PROVE classTags' = classTags /\ methodTags' = methodTags
    BY <1>2 DEF BeginBulkUpsert, tags
<1>3. ASSUME BulkUpsertNext PROVE classTags' = classTags /\ methodTags' = methodTags
    BY <1>3 DEF BulkUpsertNext, tags
<1>4. ASSUME NEW p \in Paths, NEW h \in Hashes \cup {NoHash}, RecordFile(p, h)
      PROVE  classTags' = classTags /\ methodTags' = methodTags
    BY <1>4 DEF RecordFile, tags
<1> QED
    BY <1>1, <1>2, <1>3, <1>4 DEF Next

LEMMA NewcomersHaveNone ==
    ASSUME IInv, Next
    PROVE  NewcomersUntagged
<1>1. RowsFresh /\ IInv'
    BY StepIInv
<1>2. ASSUME NEW i \in ID, Fresh(i) PROVE (\A g \in classTags : g.class # i) /\ (\A g \in methodTags : g.method # i)
    BY <1>2 DEF Fresh, IInv, TypeOK, CounterAhead, ID
<1>3. CASE classTags' = classTags /\ methodTags' = methodTags
    BY <1>1, <1>2, <1>3 DEF NewcomersUntagged, RowsFresh, IInv, TypeOK, ClassRecord, MethodRecord
<1>4. CASE \E p \in Paths : DeleteFile(p)
    BY <1>4 DEF DeleteFile, NewcomersUntagged
<1>5. ASSUME NEW t \in Taggers, Tagger(t) PROVE NewcomersUntagged
    <2>1. classes' = classes /\ methods' = methods
        BY <1>5 DEF Tagger, ReadClasses, ReadMethods, UpsertTags, UpsertMethodTags, rows
    <2> QED
        BY <2>1 DEF NewcomersUntagged
<1> QED
    BY <1>3, <1>4, <1>5, TagsLeftAlone

\* The cascade of DeleteFile looks method tags up under class identifiers: what it
\* takes belongs to no method, for classes and methods share no identifier.
LEMMA LivingLoseNone ==
    ASSUME IInv, Next
    PROVE  LivingKeepTags
<1>1. CASE classTags' = classTags /\ methodTags' = methodTags
    BY <1>1 DEF LivingKeepTags
<1>2. ASSUME NEW p \in Paths, DeleteFile(p) PROVE LivingKeepTags
    <2> DEFINE ids == {c.id : c \in ClassesOf(files[p].id)}
    <2>1. /\ classes' = classes \ ClassesOf(files[p].id)
          /\ methods' \subseteq methods
          /\ classTags \ classTags' \subseteq {g \in classTags : g.class \in ids}
          /\ methodTags \ methodTags' \subseteq {g \in methodTags : g.method \in ids}
        BY <1>2 DEF DeleteFile
    <2>2. ids \subseteq ClassIDs /\ ids \cap MethodIDs = {}
        BY DEF ClassesOf, IInv, IDsDistinct, ClassIDs
    <2>3. ids \cap ClassIDs' = {}
        BY <2>1 DEF ClassesOf, IInv, IDsDistinct, ClassIDs
    <2>4. MethodIDs' \subseteq MethodIDs
        BY <2>1 DEF MethodIDs
    <2> QED
        BY <2>1, <2>2, <2>3, <2>4 DEF LivingKeepTags
<1>3. ASSUME NEW t \in Taggers, Tagger(t) PROVE LivingKeepTags
    <2>1. CASE \E p \in Paths : ReadClasses(t, p)
        BY <2>1 DEF ReadClasses, tags, LivingKeepTags
    <2>2. ASSUME NEW c \in held[t].classes, ReadMethods(t, c) PROVE LivingKeepTags
        BY <2>2 DEF ReadMethods, tags, LivingKeepTags
    <2>3. ASSUME NEW c \in held[t].classes, NEW new \in SUBSET Tags, UpsertTags(t, c, new) PROVE LivingKeepTags
        BY <2>3 DEF UpsertTags, LivingKeepTags
    <2>4. ASSUME NEW m \in held[t].methods, NEW new \in SUBSET Tags, UpsertMethodTags(t, m, new) PROVE LivingKeepTags
        BY <2>4 DEF UpsertMethodTags, LivingKeepTags
    <2> QED
        BY <1>3, <2>1, <2>2, <2>3, <2>4 DEF Tagger
<1> QED
    BY <1>1, <1>2, <1>3, TagsLeftAlone

\* Tags that a replaced or deleted class or method leaves behind, or that a
\* tagger writes late, never turn up on a class or method that appears, and no
\* step but that of a tagger takes the tags of one that stays.
THEOREM TagsStayWithSymbols == Spec => TagsStay
<1>1. IInv /\ [Next]_vars => [NewcomersUntagged /\ LivingKeepTags]_vars
    <2> SUFFICES ASSUME IInv, Next
                 PROVE  NewcomersUntagged /\ LivingKeepTags
        OBVIOUS
    <2> QED
        BY NewcomersHaveNone, LivingLoseNone
<1> QED
    BY <1>1, Inductive, PTL DEF Spec, TagsStay

-----------------------------------------------------------------------------
(* UpsertIR gives the mutex up between its tables and is not disturbed     *)

\* Two workers never hold the same path, a batch in progress holds none of
\* theirs, and groups exist only between the lookup and the last method table.
UInv ==
    /\ UpsertUndisturbed
    /\ \A v, w \in Workers :
          up[v].stage # "idle" /\ up[w].stage # "idle" /\ up[v].doc.path = up[w].doc.path => v = w
    /\ \A i \in DOMAIN bulk : ~Busy(bulk[i].path)
    /\ \A w \in Workers : up[w].stage # "methods" => up[w].groups = {}

\* The file records of the workers' paths stay, up to imports.
HandsKept ==
    \A w \in Workers : up[w].stage # "idle" =>
        LET p == up[w].doc.path
        IN  files'[p] # NoFile /\ files'[p].id = files[p].id /\ files'[p].hash = files[p].hash

\* A step that keeps the workers, their file records and their class rows.
LEMMA ElsewhereUInv ==
    ASSUME IInv, UInv, up' = up, HandsKept,
           \A w \in Workers : up[w].stage # "idle" => ClassesOf(up[w].file) \subseteq classes',
           \A i \in DOMAIN bulk' : ~Busy(bulk'[i].path)
    PROVE  UInv'
<1>1. \A w \in Workers : up[w].stage # "idle" => ClassesOf(up[w].file) \subseteq ClassesOf(up[w].file)'
    BY DEF ClassesOf
<1>2. UpsertUndisturbed'
    BY <1>1 DEF UInv, UpsertUndisturbed, HandsKept
<1> QED
    BY <1>2 DEF UInv, Busy

\* The identifier of the file another operation writes is in no worker's hands.
LEMMA OtherFile ==
    ASSUME IInv, UInv, NEW p \in Paths, ~Busy(p), NEW w \in Workers, up[w].stage # "idle"
    PROVE  up[w].doc.path \in Paths /\ up[w].doc.path # p /\ up[w].file # FileID(p)
<1>1. up[w].doc.path \in Paths /\ up[w].doc.path # p
    BY InHand, DocType DEF IInv, Busy
<1>2. /\ files[up[w].doc.path] # NoFile
      /\ files[up[w].doc.path].id = up[w].file
    BY DEF UInv, UpsertUndisturbed
<1>3. up[w].file < nextID /\ up[w].file \in ID /\ nextID \in ID
    BY InHand DEF IInv, CounterAhead, TypeOK
<1> QED
    BY <1>1, <1>2, <1>3 DEF FileID, IsNew, IInv, IDsDistinct, ID

LEMMA OtherWorker ==
    ASSUME IInv, UInv, NEW v \in Workers, NEW w \in Workers, v # w,
           up[v].stage # "idle", up[w].stage # "idle"
    PROVE  up[v].doc.path # up[w].doc.path /\ up[v].file # up[w].file
<1>1. up[v].doc.path \in Paths /\ up[w].doc.path \in Paths
    BY InHand, DocType DEF IInv
<1> QED
    BY <1>1 DEF UInv, UpsertUndisturbed, IInv, IDsDistinct

LEMMA UpsertFileUInv ==
    ASSUME IInv, UInv, NEW w \in Workers, NEW d \in Docs, UpsertFile(w, d)
    PROVE  UInv'
<1>1. d.path \in Paths /\ d.hash \in Hashes /\ ~Busy(d.path)
    BY DocType DEF UpsertFile
<1>2. files' = [files EXCEPT ![d.path] = Recorded(d.path, d.hash)]
    BY DEF UpsertFile
<1>3. /\ Recorded(d.path, d.hash) \in FileRecord /\ Recorded(d.path, d.hash).id = FileID(d.path)
      /\ Recorded(d.path, d.hash).hash = d.hash
    BY <1>1, RecordedType DEF IInv, Recorded, TypeOK, FileRecord
<1>4. /\ up'[w] = [stage |-> "classes", doc |-> d, file |-> FileID(d.path), groups |-> {}]
      /\ \A v \in Workers : v # w => up'[v] = up[v]
      /\ classes' = classes /\ bulk' = bulk /\ bulk = <<>>
    BY DEF UpsertFile, IInv, TypeOK, rows, Free
<1>5. \A v \in Workers : v # w /\ up[v].stage # "idle" =>
          up[v].doc.path \in Paths /\ up[v].doc.path # d.path /\ files'[up[v].doc.path] = files[up[v].doc.path]
    BY <1>1, <1>2, OtherFile DEF IInv, TypeOK
<1>6. files'[d.path] = Recorded(d.path, d.hash) /\ files'[d.path] # NoFile
    BY <1>1, <1>2, <1>3, FileStoreAssumption DEF IInv, TypeOK
<1>7. UpsertUndisturbed'
    BY <1>3, <1>4, <1>5, <1>6 DEF UInv, UpsertUndisturbed, ClassesOf
<1> QED
    BY <1>4, <1>5, <1>7 DEF UInv

LEMMA UpsertClassesUInv ==
    ASSUME IInv, UInv, NEW w \in Workers, UpsertClasses(w)
    PROVE  UInv'
<1>1. /\ up[w].stage = "classes" /\ up[w] \in Upsert /\ bulk = <<>> /\ bulk' = bulk /\ files' = files
      /\ up' = [up EXCEPT ![w].stage = "lookup"]
    BY InHand DEF UpsertClasses, IInv, Free
<1>2. /\ up'[w].stage = "lookup" /\ up'[w].doc = up[w].doc /\ up'[w].file = up[w].file /\ up'[w].groups = {}
      /\ \A v \in Workers : v # w => up'[v] = up[v]
    BY <1>1 DEF UInv, IInv, TypeOK, Upsert
<1>3. \A v \in Workers : v # w /\ up[v].stage # "idle" => ClassesOf(up[v].file) \subseteq ClassesOf(up[v].file)'
    BY <1>1, OtherWorker DEF UpsertClasses, ClassesOf
<1>4. UpsertUndisturbed'
    <2>1. \A v \in Workers : up'[v].stage # "idle" =>
              up[v].stage # "idle" /\ up'[v].doc = up[v].doc /\ up'[v].file = up[v].file
        BY <1>1, <1>2
    <2>2. \A v \in Workers : up'[v].stage # "idle" => up'[v].groups \subseteq ClassesOf(up[v].file)'
        BY <1>2, <1>3, <2>1 DEF UInv, UpsertUndisturbed
    <2> QED
        BY <1>1, <2>1, <2>2 DEF UInv, UpsertUndisturbed, ClassesOf
<1> QED
    BY <1>1, <1>2, <1>4 DEF UInv

\* The later steps of a worker: its document and file stay in hand, or it is done.
LEMMA LaterStepUInv ==
    ASSUME IInv, UInv, NEW w \in Workers, up[w].stage # "idle", bulk = <<>>, bulk' = bulk,
           classes' = classes, HandsKept,
           \A v \in Workers : v # w => up'[v] = up[v],
           \/ up'[w] = Idle
           \/ /\ up'[w].stage # "idle" /\ up'[w].doc = up[w].doc /\ up'[w].file = up[w].file
              /\ up'[w].groups \subseteq ClassesOf(up[w].file)
              /\ up'[w].stage # "methods" => up'[w].groups = {}
    PROVE  UInv'
<1>1. \A v \in Workers : up'[v].stage # "idle" => up[v].stage # "idle" /\ up'[v].doc = up[v].doc /\ up'[v].file = up[v].file
    BY DEF Idle
<1>2. UpsertUndisturbed'
    BY <1>1 DEF UInv, UpsertUndisturbed, HandsKept, ClassesOf, Idle
<1> QED
    BY <1>1, <1>2 DEF UInv, Idle

LEMMA WorkerUInv ==
    ASSUME IInv, UInv, NEW w \in Workers, UpsertIR(w)
    PROVE  UInv'
<1>1. ASSUME NEW d \in Docs, UpsertFile(w, d) PROVE UInv'
    BY <1>1, UpsertFileUInv
<1>2. CASE UpsertClasses(w)
    BY <1>2, UpsertClassesUInv
<1>3. CASE LookupClasses(w)
    <2>1. /\ up[w] \in Upsert /\ bulk = <<>> /\ bulk' = bulk /\ classes' = classes /\ HandsKept
          /\ up[w].stage # "idle"
        BY <1>3, InHand DEF LookupClasses, IInv, Free, rows, HandsKept, UInv, UpsertUndisturbed
    <2>2. /\ \A v \in Workers : v # w => up'[v] = up[v]
          /\ up'[w].stage = "methods" /\ up'[w].doc = up[w].doc /\ up'[w].file = up[w].file
          /\ up'[w].groups \subseteq ClassesOf(up[w].file)
        BY <1>3, <2>1 DEF LookupClasses, IInv, TypeOK, Upsert
    <2> QED
        BY <2>1, <2>2, LaterStepUInv
<1>4. ASSUME NEW c \in up[w].groups, UpsertMethods(w, c) PROVE UInv'
    <2>1. /\ up[w] \in Upsert /\ bulk = <<>> /\ bulk' = bulk /\ classes' = classes /\ HandsKept
          /\ up[w].stage = "methods"
        BY <1>4, InHand DEF UpsertMethods, IInv, Free, HandsKept, UInv, UpsertUndisturbed
    <2>2. /\ \A v \in Workers : v # w => up'[v] = up[v]
          /\ up'[w].stage = "methods" /\ up'[w].doc = up[w].doc /\ up'[w].file = up[w].file
          /\ up'[w].groups \subseteq up[w].groups
        BY <1>4, <2>1 DEF UpsertMethods, IInv, TypeOK, Upsert
    <2> QED
        BY <2>1, <2>2, LaterStepUInv DEF UInv, UpsertUndisturbed
<1>5. CASE UpsertCalls(w)
    <2>1. /\ up[w] \in Upsert /\ bulk = <<>> /\ bulk' = bulk /\ classes' = classes /\ HandsKept
          /\ up[w].stage = "methods" /\ up[w].groups = {}
        BY <1>5, InHand DEF UpsertCalls, IInv, Free, HandsKept, UInv, UpsertUndisturbed
    <2>2. /\ \A v \in Workers : v # w => up'[v] = up[v]
          /\ up'[w].stage = "imports" /\ up'[w].doc = up[w].doc /\ up'[w].file = up[w].file
          /\ up'[w].groups = {}
        BY <1>5, <2>1 DEF UpsertCalls, IInv, TypeOK, Upsert
    <2> QED
        BY <2>1, <2>2, LaterStepUInv
<1>6. CASE SaveImports(w)
    <2>1. /\ up[w].stage # "idle" /\ up[w].doc.path \in Paths
          /\ bulk = <<>> /\ bulk' = bulk /\ classes' = classes
        BY <1>6, InHand, DocType DEF SaveImports, IInv, Free, rows
    <2>2. /\ \A v \in Workers : v # w => up'[v] = up[v]
          /\ up'[w] = Idle
        BY <1>6 DEF SaveImports, IInv, TypeOK
    <2>3. \A p \in Paths : files[p] # NoFile =>
              files'[p] # NoFile /\ files'[p].id = files[p].id /\ files'[p].hash = files[p].hash
        <3>1. up[w].doc.imports \subseteq Imports
            BY <2>1, InHand, DocType DEF IInv
        <3>2. \A p \in Paths :
                  \/ files'[p] = files[p]
                  \/ files[p] # NoFile /\ files'[p] \in FileRecord /\ files'[p].id = files[p].id
                     /\ files'[p].hash = files[p].hash
            BY <1>6, <2>1, <3>1, FileStoreAssumption DEF SaveImports, IInv, TypeOK, FileRecord
        <3> QED
            BY <3>2, FileStoreAssumption
    <2>4. HandsKept
        <3>1. \A v \in Workers : up[v].stage # "idle" => up[v].doc.path \in Paths
            BY InHand, DocType DEF IInv
        <3> QED
            BY <2>3, <3>1 DEF HandsKept, UInv, UpsertUndisturbed
    <2> QED
        BY <2>1, <2>2, <2>4, LaterStepUInv
<1> QED
    BY <1>1, <1>2, <1>3, <1>4, <1>5, <1>6 DEF UpsertIR

LEMMA BulkUpsertNextUInv ==
    ASSUME IInv, UInv, BulkUpsertNext
    PROVE  UInv'
<1> DEFINE d == Head(bulk)
<1>1. d \in Docs /\ d.path \in Paths /\ ~Busy(d.path) /\ bulk' = Tail(bulk) /\ up' = up
    BY DocType DEF BulkUpsertNext, IInv, TypeOK, UInv
<1>2. PICK r : files' = [files EXCEPT ![d.path] = r]
    BY DEF BulkUpsertNext
<1>3. \A w \in Workers : up[w].stage # "idle" =>
          files'[up[w].doc.path] = files[up[w].doc.path] /\ up[w].file # FileID(d.path)
    BY <1>1, <1>2, OtherFile DEF IInv, TypeOK
<1>4. HandsKept
    BY <1>3 DEF HandsKept, UInv, UpsertUndisturbed
<1>5. classes \ ClassesOf(FileID(d.path)) \subseteq classes'
    BY DEF BulkUpsertNext
<1>6. \A w \in Workers : up[w].stage # "idle" => ClassesOf(up[w].file) \subseteq classes'
    BY <1>3, <1>5 DEF ClassesOf
<1>7. \A i \in DOMAIN bulk' : bulk'[i] = bulk[i + 1] /\ i + 1 \in DOMAIN bulk
    BY <1>1 DEF BulkUpsertNext, IInv, TypeOK
<1> QED
    BY <1>1, <1>4, <1>6, <1>7, ElsewhereUInv DEF UInv

LEMMA StepUInv == IInv /\ UInv /\ [Next]_vars => UInv'
<1> SUFFICES ASSUME IInv, UInv, [Next]_vars
             PROVE  UInv'
    OBVIOUS
<1>1. ASSUME NEW w \in Workers, UpsertIR(w) PROVE UInv'
    BY <1>1, WorkerUInv
<1>2. ASSUME NEW b \in Batches, BeginBulkUpsert(b) PROVE UInv'
    BY <1>2, ElsewhereUInv DEF BeginBulkUpsert, rows, HandsKept, UInv, UpsertUndisturbed, ClassesOf
<1>3. CASE BulkUpsertNext
    BY <1>3, BulkUpsertNextUInv
<1>4. ASSUME NEW p \in Paths, DeleteFile(p) PROVE UInv'
    <2>1. ~Busy(p) /\ up' = up /\ bulk' = bulk /\ bulk = <<>> /\ FileID(p) = files[p].id
          /\ files' = [files EXCEPT ![p] = NoFile] /\ classes' = classes \ ClassesOf(files[p].id)
        BY <1>4 DEF DeleteFile, Free, FileID, IsNew
    <2>2. \A w \in Workers : up[w].stage # "idle" =>
              files'[up[w].doc.path] = files[up[w].doc.path] /\ up[w].file # FileID(p)
        BY <2>1, OtherFile DEF IInv, TypeOK
    <2>3. HandsKept
        BY <2>2 DEF HandsKept, UInv, UpsertUndisturbed
    <2>4. \A w \in Workers : up[w].stage # "idle" => ClassesOf(up[w].file) \subseteq classes'
        BY <2>1, <2>2 DEF ClassesOf
    <2> QED
        BY <2>1, <2>3, <2>4, ElsewhereUInv
<1>5. ASSUME NEW p \in Paths, NEW h \in Hashes \cup {NoHash}, RecordFile(p, h) PROVE UInv'
    <2>1. ~Busy(p) /\ up' = up /\ bulk' = bulk /\ bulk = <<>> /\ classes' = classes
          /\ files' = [files EXCEPT ![p] = Recorded(p, h)]
        BY <1>5 DEF RecordFile, Free, rows
    <2>2. HandsKept
        BY <2>1, OtherFile DEF HandsKept, UInv, UpsertUndisturbed, IInv, TypeOK
    <2> QED
        BY <2>1, <2>2, ElsewhereUInv DEF ClassesOf
<1>6. ASSUME NEW t \in Taggers, Tagger(t) PROVE UInv'
    <2>1. files' = files /\ classes' = classes /\ up' = up /\ bulk' = bulk
        BY <1>6 DEF Tagger, ReadClasses, ReadMethods, UpsertTags, UpsertMethodTags, rows
    <2> QED
        BY <2>1, ElsewhereUInv DEF HandsKept, UInv, UpsertUndisturbed, ClassesOf
<1>7. CASE UNCHANGED vars
    BY <1>7, ElsewhereUInv DEF vars, rows, HandsKept, UInv, UpsertUndisturbed, ClassesOf
<1> QED
    BY <1>1, <1>2, <1>3, <1>4, <1>5, <1>6, <1>7 DEF Next

\* Whatever runs between two tables of an UpsertIR, its file record keeps the
\* identifier and hash it wrote and the classes it fills are still its own.
THEOREM UpsertStaysUndisturbed == Spec => []UpsertUndisturbed
<1>1. Init => UInv
    BY DEF Init, UInv, UpsertUndisturbed, Idle, Busy
<1>2. IInv /\ UInv /\ [Next]_vars => UInv'
    BY StepUInv
<1>3. UInv => UpsertUndisturbed
    BY DEF UInv
<1> QED
    BY <1>1, <1>2, <1>3, Inductive, PTL DEF Spec

-----------------------------------------------------------------------------
(* What a path shows                                                       *)

\* The methods a class row has are those of its class in the document.
Filled(d, c) == {m.name : m \in MethodsOf(c.id)} = {m.name : m \in GroupOf(d, c)}

\* What has been written of the UpsertIR u is its document's.
Written(u) ==
    LET d == u.doc
        f == u.file
    IN  /\ u.stage # "classes" => Names(f) = d.classes
        /\ u.stage = "lookup" => \A c \in ClassesOf(f) : MethodsOf(c.id) = {}
        /\ u.stage \in {"methods", "imports"} => \A c \in ClassesOf(f) \ u.groups : Filled(d, c)
        /\ u.stage = "imports" => CallsOf(f) = d.calls

WInv == \A w \in Workers : up[w].stage # "idle" => Written(up[w])

\* The rows of file f stay as they are.
Same(f) ==
    /\ {c \in classes' : c.file = f} = ClassesOf(f)
    /\ \A c \in ClassesOf(f) : {m \in methods' : m.class = c.id} = MethodsOf(c.id)
    /\ {k \in calls' : k.file = f} = {k \in calls : k.file = f}

\* A step writes rows of no file but f.
OnlyFile(f) == \A g : g # f => Same(g)

\* The refinement mapping, for paths that are absent, in hand or stored.
ShowsRight ==
    /\ \A p \in Paths : files[p] = NoFile => Shown(p) = Absent
    /\ \A w \in Workers : up[w].stage # "idle" =>
          Shown(up[w].doc.path) = Updating(up[w].doc, files[up[w].doc.path].imports)
    /\ \A p \in Paths : files[p] # NoFile /\ ~Busy(p) =>
          Shown(p) = Stored(files[p].hash, Names(files[p].id), Members(files[p].id),
                            CallsOf(files[p].id), files[p].imports)

LEMMA AlwaysShowsRight == IInv /\ UInv => ShowsRight
<1> SUFFICES ASSUME IInv, UInv PROVE ShowsRight
    OBVIOUS
<1>1. ASSUME NEW w \in Workers, up[w].stage # "idle"
      PROVE  Shown(up[w].doc.path) = Updating(up[w].doc, files[up[w].doc.path].imports)
    <2>1. Busy(up[w].doc.path)
        BY <1>1 DEF Busy
    <2>2. WorkerOn(up[w].doc.path) = w
        <3>1. \E v \in Workers : up[v].stage # "idle" /\ up[v].doc.path = up[w].doc.path
            BY <1>1
        <3>2. /\ WorkerOn(up[w].doc.path) \in Workers /\ up[WorkerOn(up[w].doc.path)].stage # "idle"
              /\ up[WorkerOn(up[w].doc.path)].doc.path = up[w].doc.path
            BY <3>1 DEF WorkerOn
        <3> QED
            BY <1>1, <3>2 DEF UInv
    <2> QED
        BY <1>1, <2>1, <2>2 DEF Shown, UInv, UpsertUndisturbed
<1> QED
    BY <1>1 DEF ShowsRight, Shown

-----------------------------------------------------------------------------
(* The rows each step writes *)

\* Rows that stay show the same.
LEMMA SameShows ==
    ASSUME NEW f, Same(f)
    PROVE  Names(f)' = Names(f) /\ Members(f)' = Members(f) /\ CallsOf(f)' = CallsOf(f)
<1>1. ClassesOf(f)' = ClassesOf(f)
    BY DEF Same, ClassesOf
<1>2. \A c \in ClassesOf(f) : MethodsOf(c.id)' = MethodsOf(c.id)
    BY DEF Same, MethodsOf
<1>3. Names(f)' = Names(f)
    BY <1>1 DEF Names
<1>4. CallsOf(f)' = CallsOf(f)
    BY DEF Same, CallsOf
<1>5. Members(f)' = Members(f)
    BY <1>1, <1>2 DEF Members
<1> QED
    BY <1>3, <1>4, <1>5

LEMMA SameWritten ==
    ASSUME NEW u, Same(u.file), Written(u)
    PROVE  Written(u)'
<1> DEFINE d == u.doc  f == u.file
<1>1. Names(f)' = Names(f) /\ CallsOf(f)' = CallsOf(f)
    BY SameShows
<1>2. ClassesOf(f)' = ClassesOf(f) /\ \A c \in ClassesOf(f) : MethodsOf(c.id)' = MethodsOf(c.id)
    BY DEF Same, ClassesOf, MethodsOf
<1>3. \A c \in ClassesOf(f) : Filled(d, c)' <=> Filled(d, c)
    BY <1>2 DEF Filled, GroupOf
<1> QED
    BY <1>1, <1>2, <1>3 DEF Written

\* Worker by worker, with what each has in hand after the step.
LEMMA StepWritten ==
    ASSUME \A w \in Workers : \A u : u = up'[w] /\ u.stage # "idle" => Written(u)'
    PROVE  WInv'
BY DEF WInv, Written

LEMMA RowsKept ==
    ASSUME UNCHANGED rows
    PROVE  \A g : Same(g)
BY DEF rows, Same, ClassesOf, MethodsOf

LEMMA UpsertClassesRows ==
    ASSUME IInv, UInv, NEW w \in Workers, UpsertClasses(w)
    PROVE  OnlyFile(up[w].file)
<1>1. PICK num : classes' = (classes \ ClassesOf(up[w].file)) \cup ClassRows(up[w].file, num)
    BY DEF UpsertClasses
<1>2. methods' = methods /\ calls' = calls
    BY DEF UpsertClasses
<1> QED
    BY <1>1, <1>2 DEF OnlyFile, Same, ClassesOf, MethodsOf, ClassRows

\* The methods of class c are replaced, those of no other class.
LEMMA UpsertMethodsRows ==
    ASSUME IInv, UInv, NEW w \in Workers, NEW c \in up[w].groups, UpsertMethods(w, c)
    PROVE  /\ OnlyFile(up[w].file)
           /\ UNCHANGED <<files, classes, calls>>
           /\ \A e \in classes : e # c => {m \in methods' : m.class = e.id} = MethodsOf(e.id)
           /\ {m.name : m \in {n \in methods' : n.class = c.id}} = {m.name : m \in GroupOf(up[w].doc, c)}
<1>1. c \in classes /\ c.file = up[w].file /\ up[w].doc \in Docs
    BY InHand DEF UInv, UpsertUndisturbed, UpsertMethods, ClassesOf, IInv
<1>2. PICK num \in Numberings(GroupOf(up[w].doc, c), nextID) :
          methods' = (methods \ MethodsOf(c.id)) \cup MethodRows(c, num)
    BY DEF UpsertMethods
<1>3. classes' = classes /\ calls' = calls /\ files' = files
    BY DEF UpsertMethods
<1>4. \A e \in classes : e # c => e.id # c.id
    BY <1>1 DEF IInv, IDsDistinct
<1>5. \A e \in classes : e # c => {m \in methods' : m.class = e.id} = MethodsOf(e.id)
    BY <1>2, <1>4 DEF MethodsOf, MethodRows
<1>6. DOMAIN num = GroupOf(up[w].doc, c)
    BY <1>2 DEF Numberings
<1>7. {n \in methods' : n.class = c.id} = MethodRows(c, num)
    BY <1>2 DEF MethodsOf, MethodRows
<1>8. {m.name : m \in MethodRows(c, num)} = {m.name : m \in GroupOf(up[w].doc, c)}
    <2>1. \A m \in MethodRows(c, num) : m.name \in {n.name : n \in GroupOf(up[w].doc, c)}
        BY <1>6 DEF MethodRows
    <2>2. ASSUME NEW n \in GroupOf(up[w].doc, c) PROVE \E m \in MethodRows(c, num) : m.name = n.name
        <3>1. [id |-> num[n], class |-> c.id, name |-> n.name] \in MethodRows(c, num)
            BY <1>6, <2>2 DEF MethodRows
        <3> QED
            BY <3>1
    <2> QED
        BY <2>1, <2>2
<1> QED
    BY <1>1, <1>3, <1>5, <1>7, <1>8 DEF OnlyFile, Same, ClassesOf

LEMMA CallRowsShow ==
    \A f, d : {k.call : k \in CallRows(f, d)} = d.calls
<1> SUFFICES ASSUME NEW f, NEW d
             PROVE  {k.call : k \in CallRows(f, d)} = d.calls
    OBVIOUS
<1>1. \A k \in CallRows(f, d) : k.call \in d.calls
    BY DEF CallRows
<1>2. ASSUME NEW k \in d.calls PROVE \E r \in CallRows(f, d) : r.call = k
    <2>1. [file |-> f, call |-> k] \in CallRows(f, d)
        BY <1>2 DEF CallRows
    <2> QED
        BY <2>1
<1> QED
    BY <1>1, <1>2

LEMMA UpsertCallsRows ==
    ASSUME IInv, UInv, NEW w \in Workers, UpsertCalls(w)
    PROVE  /\ OnlyFile(up[w].file)
           /\ UNCHANGED <<files, classes, methods>>
           /\ CallsOf(up[w].file)' = up'[w].doc.calls
<1>1. up[w] \in Upsert /\ up'[w].doc = up[w].doc /\ up'[w].file = up[w].file
    BY InHand DEF UpsertCalls, IInv, TypeOK, Upsert
<1>2. calls' = {k \in calls : k.file # up[w].file} \cup CallRows(up[w].file, up[w].doc)
    BY DEF UpsertCalls
<1>3. classes' = classes /\ methods' = methods /\ files' = files
    BY DEF UpsertCalls
<1>4. {k.call : k \in {r \in calls' : r.file = up[w].file}} = up[w].doc.calls
    <2>1. {r \in calls' : r.file = up[w].file} = CallRows(up[w].file, up[w].doc)
        BY <1>2 DEF CallRows
    <2> QED
        BY <2>1, CallRowsShow
<1> QED
    BY <1>1, <1>2, <1>3, <1>4 DEF OnlyFile, Same, ClassesOf, MethodsOf, CallRows, CallsOf

\* The rows a document of a batch leaves under its file.
LEMMA BulkUpsertRows ==
    ASSUME IInv, UInv, BulkUpsertNext, NEW d, d = Head(bulk), NEW f, f = FileID(d.path)
    PROVE  /\ OnlyFile(f)
           /\ Names(f)' = d.classes
           /\ Members(f)' = ClassMethods(d)
           /\ CallsOf(f)' = IF d.calls = {} THEN CallsOf(f) ELSE d.calls
<1> DEFINE first == AfterFile(d.path)
           mid == first + Cardinality(d.classes)
           kept == ClassMethods(d)
<1>1. d \in Docs /\ d.path \in Paths /\ d.hash \in Hashes \cup {NoHash}
    BY DocType DEF BulkUpsertNext, IInv, TypeOK
<1>2. f \in ID /\ first \in ID /\ nextID <= first /\ nextID \in ID
    BY <1>1, RecordedType DEF IInv, TypeOK
<1>3. PICK cnum \in Numberings(d.classes, first), mnum \in Numberings(kept, mid) :
          /\ classes' = (classes \ ClassesOf(f)) \cup ClassRows(f, cnum)
          /\ methods' = methods \cup
                {[id |-> mnum[m], class |-> cnum[m.class], name |-> m.name] : m \in kept}
    BY DEF BulkUpsertNext
<1>4. calls' = IF d.calls = {} THEN calls ELSE {k \in calls : k.file # f} \cup CallRows(f, d)
    BY DEF BulkUpsertNext
<1> DEFINE new == {[id |-> mnum[m], class |-> cnum[m.class], name |-> m.name] : m \in kept}
<1>5. /\ DOMAIN cnum = d.classes
      /\ \A n \in d.classes : cnum[n] \in ID /\ first <= cnum[n]
      /\ \A n, o \in d.classes : cnum[n] = cnum[o] => n = o
    BY <1>1, <1>2, DocType, NumberingType
<1>6. \A m \in kept : m.class \in d.classes /\ m.name \in MethodNames /\ m \in d.methods
    BY <1>1, KeptFinite DEF ClassMethods
<1>7. /\ \A m \in methods : m.class \in Nat /\ m.class < nextID
      /\ \A c \in classes : c.id \in Nat /\ c.id < nextID
    BY DEF IInv, TypeOK, CounterAhead, ClassIDs, ClassRecord, MethodRecord, ID
<1> HIDE DEF first, mid, kept, new
<1>8. \A n \in d.classes : cnum[n] \in Nat /\ nextID <= cnum[n]
    <2>1. \A i \in Nat, j \in Nat, k \in Nat : i <= j /\ j <= k => i <= k
        OBVIOUS
    <2> QED
        BY <1>2, <1>5, <2>1 DEF ID
<1>9. /\ \A m \in methods : \A n \in d.classes : m.class # cnum[n]
      /\ \A c \in classes : \A n \in d.classes : c.id # cnum[n]
    BY <1>2, <1>7, <1>8 DEF ID
<1>10. OnlyFile(f)
    <2> SUFFICES ASSUME NEW g, g # f PROVE Same(g)
        BY DEF OnlyFile
    <2>1. {c \in classes' : c.file = g} = ClassesOf(g)
        BY <1>3 DEF ClassesOf, ClassRows
    <2>2. ASSUME NEW c \in ClassesOf(g) PROVE {m \in methods' : m.class = c.id} = MethodsOf(c.id)
        <3>1. \A m \in new : m.class # c.id
            BY <1>6, <1>9 DEF ClassesOf, new
        <3> QED
            BY <1>3, <3>1 DEF MethodsOf, new
    <2>3. {k \in calls' : k.file = g} = {k \in calls : k.file = g}
        BY <1>4 DEF CallRows
    <2> QED
        BY <2>1, <2>2, <2>3 DEF Same
<1>11. {c \in classes' : c.file = f} = ClassRows(f, cnum)
    BY <1>3 DEF ClassesOf, ClassRows
<1>12. {c.name : c \in ClassRows(f, cnum)} = d.classes
    <2>1. \A c \in ClassRows(f, cnum) : c.name \in d.classes
        BY <1>5 DEF ClassRows
    <2>2. ASSUME NEW n \in d.classes PROVE \E c \in ClassRows(f, cnum) : c.name = n
        <3>1. [id |-> cnum[n], file |-> f, name |-> n] \in ClassRows(f, cnum)
            BY <1>5 DEF ClassRows
        <3> QED
            BY <3>1
    <2> QED
        BY <2>1, <2>2
<1>13. Names(f)' = d.classes
    BY <1>11, <1>12 DEF Names, ClassesOf
<1>14. CallsOf(f)' = IF d.calls = {} THEN CallsOf(f) ELSE d.calls
    <2>1. CASE d.calls = {}
        BY <1>4, <2>1 DEF CallsOf
    <2>2. CASE d.calls # {}
        <3>1. {r \in calls' : r.file = f} = CallRows(f, d)
            BY <1>4, <2>2 DEF CallRows
        <3> QED
            BY <2>2, <3>1, CallRowsShow DEF CallsOf
    <2> QED
        BY <2>1, <2>2
<1>15. Members(f)' = ClassMethods(d)
    <2> DEFINE Its(c) == {m.name : m \in {n \in methods' : n.class = c.id}}
    <2>1. Members(f)' = UNION {[class : {c.name}, name : Its(c)] : c \in ClassRows(f, cnum)}
        BY <1>11 DEF Members, MethodsOf, ClassesOf
    <2>2. ASSUME NEW n \in d.classes, NEW x
          PROVE  x \in Its([id |-> cnum[n], file |-> f, name |-> n])
                     <=> \E m \in kept : m.class = n /\ m.name = x
        <3>1. \A r \in methods' : r.class = cnum[n] => r \in new
            BY <1>3, <1>9 DEF new
        <3>2. \A m \in kept : [id |-> mnum[m], class |-> cnum[m.class], name |-> m.name] \in methods'
            BY <1>3
        <3> DEFINE c == [id |-> cnum[n], file |-> f, name |-> n]
        <3>3. c.id = cnum[n]
            OBVIOUS
        <3>4. x \in Its(c) <=> \E r \in methods' : r.class = cnum[n] /\ r.name = x
            BY <3>3
        <3> HIDE DEF c, Its
        <3>5. ASSUME NEW r \in methods', r.class = cnum[n], r.name = x
              PROVE  \E m \in kept : m.class = n /\ m.name = x
            <4>1. PICK m \in kept : r = [id |-> mnum[m], class |-> cnum[m.class], name |-> m.name]
                BY <3>1, <3>5 DEF new
            <4> QED
                BY <1>5, <1>6, <3>5, <4>1
        <3>6. ASSUME NEW m \in kept, m.class = n, m.name = x
              PROVE  \E r \in methods' : r.class = cnum[n] /\ r.name = x
            BY <3>2, <3>6
        <3>7. x \in Its(c) <=> \E m \in kept : m.class = n /\ m.name = x
            BY <3>4, <3>5, <3>6
        <3> QED
            BY <3>7 DEF c
    <2>3. \A m \in kept : m = [class |-> m.class, name |-> m.name]
        BY <1>1, <1>6, DocType
    <2> HIDE DEF Its
    <2>4. ASSUME NEW x \in kept
          PROVE  \E c \in ClassRows(f, cnum) : x \in [class : {c.name}, name : Its(c)]
        <3> DEFINE c == [id |-> cnum[x.class], file |-> f, name |-> x.class]
        <3>1. c \in ClassRows(f, cnum) /\ c.name = x.class
            BY <1>5, <1>6, <2>4 DEF ClassRows
        <3>2. x.name \in Its(c)
            BY <1>6, <2>2, <2>4
        <3> HIDE DEF c
        <3> QED
            BY <2>3, <3>1, <3>2
    <2>5. ASSUME NEW c \in ClassRows(f, cnum), NEW x \in [class : {c.name}, name : Its(c)]
          PROVE  x \in kept
        <3>1. PICK n \in d.classes : c = [id |-> cnum[n], file |-> f, name |-> n]
            BY <1>5 DEF ClassRows
        <3>2. x.name \in Its(c) /\ x = [class |-> n, name |-> x.name]
            BY <3>1
        <3>3. PICK m \in kept : m.class = n /\ m.name = x.name
            BY <2>2, <3>1, <3>2
        <3> QED
            BY <2>3, <3>2, <3>3
    <2>6. UNION {[class : {c.name}, name : Its(c)] : c \in ClassRows(f, cnum)} = kept
        BY <2>4, <2>5
    <2> QED
        BY <2>1, <2>6 DEF kept
<1> QED
    BY <1>10, <1>13, <1>14, <1>15

LEMMA DeleteFileRows ==
    ASSUME IInv, NEW p \in Paths, DeleteFile(p)
    PROVE  OnlyFile(files[p].id)
<1>1. /\ classes' = classes \ ClassesOf(files[p].id)
      /\ calls' = {k \in calls : k.file # files[p].id}
      /\ methods' = {m \in methods : m.class \notin {c.id : c \in ClassesOf(files[p].id)}}
    BY DEF DeleteFile
<1> SUFFICES ASSUME NEW g, g # files[p].id PROVE Same(g)
    BY DEF OnlyFile
<1>2. \A c \in ClassesOf(g) : c.id \notin {e.id : e \in ClassesOf(files[p].id)}
    BY DEF ClassesOf, IInv, IDsDistinct
<1>3. \A c \in ClassesOf(g) : {m \in methods' : m.class = c.id} = MethodsOf(c.id)
    BY <1>1, <1>2 DEF MethodsOf
<1> QED
    BY <1>1, <1>3 DEF Same, ClassesOf

\* No row hangs on an identifier that has not been handed out.
LEMMA NothingAhead ==
    ASSUME IInv, NEW i \in ID, nextID <= i
    PROVE  ClassesOf(i) = {} /\ MethodsOf(i) = {} /\ CallsOf(i) = {}
<1>1. /\ nextID \in Nat /\ i \in Nat
      /\ \A c \in classes : c.file \in Nat /\ c.file < nextID
      /\ \A m \in methods : m.class \in Nat /\ m.class < nextID
      /\ \A k \in calls : k.file \in Nat /\ k.file < nextID
    BY DEF IInv, TypeOK, CounterAhead, ClassRecord, MethodRecord, ID
<1>2. /\ \A c \in classes : c.file # i
      /\ \A m \in methods : m.class # i
      /\ \A k \in calls : k.file # i
    BY <1>1
<1> QED
    BY <1>2 DEF ClassesOf, MethodsOf, CallsOf

-----------------------------------------------------------------------------
(* What is written is kept                                                 *)

\* The UpsertIR of a worker that a step does not touch.
LEMMA OthersWritten ==
    ASSUME IInv, UInv, WInv, NEW F, OnlyFile(F), NEW w \in Workers, up[w].file # F,
           up[w].stage # "idle", NEW u, u = up[w]
    PROVE  Written(u)'
BY SameWritten DEF WInv, OnlyFile

LEMMA UpsertClassesWritten ==
    ASSUME IInv, UInv, WInv, NEW w \in Workers, UpsertClasses(w)
    PROVE  WInv'
<1>1. up[w] \in Upsert /\ up[w].stage = "classes" /\ up[w].doc \in Docs /\ up[w].file \in ID
    BY InHand DEF UpsertClasses, IInv, Upsert
<1>2. up' = [up EXCEPT ![w].stage = "lookup"]
    BY DEF UpsertClasses
<1>3. /\ up'[w].stage = "lookup" /\ up'[w].doc = up[w].doc /\ up'[w].file = up[w].file
      /\ \A v \in Workers : v # w => up'[v] = up[v]
    BY <1>1, <1>2 DEF IInv, TypeOK, Upsert
<1>4. \A v \in Workers : \A u : v # w /\ u = up'[v] /\ u.stage # "idle" => Written(u)'
    BY <1>1, <1>3, OtherWorker, OthersWritten, UpsertClassesRows
<1>5. PICK num \in Numberings(up[w].doc.classes, nextID) :
          classes' = (classes \ ClassesOf(up[w].file)) \cup ClassRows(up[w].file, num)
    BY DEF UpsertClasses
<1>6. nextID \in ID /\ IsFiniteSet(up[w].doc.classes)
    BY <1>1, DocType DEF IInv, TypeOK
<1>7. DOMAIN num = up[w].doc.classes /\ \A n \in up[w].doc.classes : num[n] \in ID /\ nextID <= num[n]
    BY <1>5, <1>6, NumberingType
<1>8. {c \in classes' : c.file = up[w].file} = ClassRows(up[w].file, num)
    BY <1>5 DEF ClassesOf, ClassRows
<1>9. {c.name : c \in ClassRows(up[w].file, num)} = up[w].doc.classes
    <2>1. \A c \in ClassRows(up[w].file, num) : c.name \in up[w].doc.classes
        BY <1>7 DEF ClassRows
    <2>2. ASSUME NEW n \in up[w].doc.classes PROVE \E c \in ClassRows(up[w].file, num) : c.name = n
        <3>1. [id |-> num[n], file |-> up[w].file, name |-> n] \in ClassRows(up[w].file, num)
            BY <1>7 DEF ClassRows
        <3> QED
            BY <3>1
    <2> QED
        BY <2>1, <2>2
<1>10. \A c \in ClassRows(up[w].file, num) : {m \in methods' : m.class = c.id} = {}
    <2>1. methods' = methods
        BY DEF UpsertClasses
    <2>2. \A c \in ClassRows(up[w].file, num) : MethodsOf(c.id) = {}
        BY <1>7, NothingAhead DEF ClassRows
    <2> QED
        BY <2>1, <2>2 DEF MethodsOf
<1>11. ASSUME NEW u, u = up'[w] PROVE Written(u)'
    <2>1. ClassesOf(u.file)' = ClassRows(up[w].file, num) /\ u.stage = "lookup" /\ u.doc = up[w].doc
        BY <1>3, <1>8, <1>11 DEF ClassesOf
    <2>2. Names(u.file)' = u.doc.classes
        BY <1>9, <2>1 DEF Names
    <2> QED
        BY <1>10, <2>1, <2>2 DEF Written, MethodsOf
<1> QED
    BY <1>4, <1>11, StepWritten

LEMMA LookupClassesWritten ==
    ASSUME IInv, UInv, WInv, NEW w \in Workers, LookupClasses(w)
    PROVE  WInv'
<1>1. up[w] \in Upsert /\ up[w].stage = "lookup" /\ up' = [up EXCEPT ![w].stage = "methods",
          ![w].groups = {c \in ClassesOf(up[w].file) : GroupOf(up[w].doc, c) # {}}]
    BY InHand DEF LookupClasses, IInv
<1>2. /\ up'[w].stage = "methods" /\ up'[w].doc = up[w].doc /\ up'[w].file = up[w].file
      /\ up'[w].groups = {c \in ClassesOf(up[w].file) : GroupOf(up[w].doc, c) # {}}
      /\ \A v \in Workers : v # w => up'[v] = up[v]
    BY <1>1 DEF IInv, TypeOK, Upsert
<1>3. \A g : Same(g)
    BY RowsKept DEF LookupClasses
<1>4. \A v \in Workers : \A u : v # w /\ u = up'[v] /\ u.stage # "idle" => Written(u)'
    BY <1>2, <1>3, SameWritten DEF WInv
<1>5. ASSUME NEW u, u = up'[w] PROVE Written(u)'
    <2>1. Names(u.file) = u.doc.classes /\ \A c \in ClassesOf(u.file) : MethodsOf(c.id) = {}
        BY <1>1, <1>2, <1>5 DEF WInv, Written
    <2>2. \A c \in ClassesOf(u.file) \ u.groups : Filled(u.doc, c)
        BY <1>2, <1>5, <2>1 DEF Filled
    <2>3. Written(u)
        BY <1>2, <1>5, <2>1, <2>2 DEF Written
    <2> QED
        BY <1>3, <2>3, SameWritten
<1> QED
    BY <1>4, <1>5, StepWritten

LEMMA UpsertMethodsWritten ==
    ASSUME IInv, UInv, WInv, NEW w \in Workers, NEW c \in up[w].groups, UpsertMethods(w, c)
    PROVE  WInv'
<1>1. up[w] \in Upsert /\ up[w].stage = "methods" /\ up' = [up EXCEPT ![w].groups = @ \ {c}]
    BY InHand DEF UpsertMethods, IInv
<1>2. /\ up'[w].stage = "methods" /\ up'[w].doc = up[w].doc /\ up'[w].file = up[w].file
      /\ up'[w].groups = up[w].groups \ {c}
      /\ \A v \in Workers : v # w => up'[v] = up[v]
    BY <1>1 DEF IInv, TypeOK, Upsert
<1>3. \A v \in Workers : \A u : v # w /\ u = up'[v] /\ u.stage # "idle" => Written(u)'
    BY <1>1, <1>2, OtherWorker, OthersWritten, UpsertMethodsRows
<1>4. ASSUME NEW u, u = up'[w] PROVE Written(u)'
    <2>1. Names(up[w].file) = up[w].doc.classes
          /\ \A e \in ClassesOf(up[w].file) \ up[w].groups : Filled(up[w].doc, e)
        BY <1>1 DEF WInv, Written
    <2>2. u.file = up[w].file /\ u.doc = up[w].doc /\ u.stage = "methods" /\ u.groups = up[w].groups \ {c}
        BY <1>2, <1>4
    <2>3. classes' = classes
        BY UpsertMethodsRows
    <2>4. ClassesOf(u.file)' = ClassesOf(up[w].file) /\ Names(u.file)' = u.doc.classes
        BY <2>1, <2>2, <2>3 DEF ClassesOf, Names
    <2>5. ASSUME NEW e \in ClassesOf(up[w].file) \ u.groups PROVE Filled(u.doc, e)'
        <3>1. CASE e = c
            BY <2>2, <3>1, UpsertMethodsRows DEF Filled, MethodsOf, GroupOf
        <3>2. CASE e # c
            <4>1. {m \in methods' : m.class = e.id} = MethodsOf(e.id)
                BY <2>5, <3>2, UpsertMethodsRows DEF ClassesOf
            <4> QED
                BY <2>1, <2>2, <2>5, <3>2, <4>1 DEF Filled, MethodsOf, GroupOf
        <3> QED
            BY <3>1, <3>2
    <2> QED
        BY <2>2, <2>4, <2>5 DEF Written
<1> QED
    BY <1>3, <1>4, StepWritten

LEMMA UpsertCallsWritten ==
    ASSUME IInv, UInv, WInv, NEW w \in Workers, UpsertCalls(w)
    PROVE  WInv'
<1>1. up[w] \in Upsert /\ up[w].stage = "methods" /\ up[w].groups = {}
      /\ up' = [up EXCEPT ![w].stage = "imports"]
    BY InHand DEF UpsertCalls, IInv
<1>2. /\ up'[w].stage = "imports" /\ up'[w].doc = up[w].doc /\ up'[w].file = up[w].file
      /\ up'[w].groups = up[w].groups
      /\ \A v \in Workers : v # w => up'[v] = up[v]
    BY <1>1 DEF IInv, TypeOK, Upsert
<1>3. \A v \in Workers : \A u : v # w /\ u = up'[v] /\ u.stage # "idle" => Written(u)'
    BY <1>1, <1>2, OtherWorker, OthersWritten, UpsertCallsRows
<1>4. ASSUME NEW u, u = up'[w] PROVE Written(u)'
    <2>1. Names(up[w].file) = up[w].doc.classes
          /\ \A e \in ClassesOf(up[w].file) \ up[w].groups : Filled(up[w].doc, e)
        BY <1>1 DEF WInv, Written
    <2>2. u.file = up[w].file /\ u.doc = up[w].doc /\ u.stage = "imports" /\ u.groups = up[w].groups
        BY <1>2, <1>4
    <2>3. classes' = classes /\ methods' = methods
        BY UpsertCallsRows
    <2>4. ClassesOf(u.file)' = ClassesOf(up[w].file) /\ Names(u.file)' = u.doc.classes
        BY <2>1, <2>2, <2>3 DEF ClassesOf, Names
    <2>5. \A e \in ClassesOf(up[w].file) \ u.groups : Filled(u.doc, e)'
        BY <2>1, <2>2, <2>3 DEF Filled, MethodsOf, GroupOf
    <2>6. CallsOf(u.file)' = u.doc.calls
        BY <1>4, <2>2, UpsertCallsRows DEF CallsOf
    <2> QED
        BY <2>2, <2>4, <2>5, <2>6 DEF Written
<1> QED
    BY <1>3, <1>4, StepWritten

LEMMA StepWInv == IInv /\ UInv /\ WInv /\ [Next]_vars => WInv'
<1> SUFFICES ASSUME IInv, UInv, WInv, [Next]_vars
             PROVE  WInv'
    OBVIOUS
<1>1. ASSUME NEW w \in Workers, NEW d \in Docs, UpsertFile(w, d) PROVE WInv'
    <2>1. /\ up'[w] = [stage |-> "classes", doc |-> d, file |-> FileID(d.path), groups |-> {}]
          /\ \A v \in Workers : v # w => up'[v] = up[v]
        BY <1>1 DEF UpsertFile, IInv, TypeOK
    <2>2. \A g : Same(g)
        BY <1>1, RowsKept DEF UpsertFile
    <2>3. \A v \in Workers : \A u : v # w /\ u = up'[v] /\ u.stage # "idle" => Written(u)'
        BY <2>1, <2>2, SameWritten DEF WInv
    <2>4. ASSUME NEW u, u = up'[w] PROVE Written(u)'
        BY <2>1, <2>4 DEF Written
    <2> QED
        BY <2>3, <2>4, StepWritten
<1>2. ASSUME NEW w \in Workers, SaveImports(w) PROVE WInv'
    <2>1. up'[w] = Idle /\ \A v \in Workers : v # w => up'[v] = up[v]
        BY <1>2 DEF SaveImports, IInv, TypeOK
    <2>2. \A g : Same(g)
        BY <1>2, RowsKept DEF SaveImports
    <2>3. \A v \in Workers : \A u : u = up'[v] /\ u.stage # "idle" => Written(u)'
        BY <2>1, <2>2, SameWritten DEF WInv, Idle
    <2> QED
        BY <2>3, StepWritten
<1>3. ASSUME NEW w \in Workers, UpsertIR(w) PROVE WInv'
    <2>1. CASE \E d \in Docs : UpsertFile(w, d)
        BY <1>1, <2>1
    <2>2. CASE UpsertClasses(w)
        BY <2>2, UpsertClassesWritten
    <2>3. CASE LookupClasses(w)
        BY <2>3, LookupClassesWritten
    <2>4. CASE \E c \in up[w].groups : UpsertMethods(w, c)
        BY <2>4, UpsertMethodsWritten
    <2>5. CASE UpsertCalls(w)
        BY <2>5, UpsertCallsWritten
    <2>6. CASE SaveImports(w)
        BY <1>2, <2>6
    <2> QED
        BY <1>3, <2>1, <2>2, <2>3, <2>4, <2>5, <2>6 DEF UpsertIR
<1>4. CASE BulkUpsertNext
    <2> DEFINE p == Head(bulk).path
    <2>1. p \in Paths /\ ~Busy(p) /\ up' = up
        BY <1>4, DocType DEF BulkUpsertNext, IInv, TypeOK, UInv
    <2>2. OnlyFile(FileID(p))
        BY <1>4, BulkUpsertRows
    <2> HIDE DEF p
    <2> QED
        BY <2>1, <2>2, OtherFile, OthersWritten, StepWritten
<1>5. ASSUME NEW p \in Paths, DeleteFile(p) PROVE WInv'
    <2>1. OnlyFile(FileID(p)) /\ ~Busy(p) /\ up' = up
        BY <1>5, DeleteFileRows DEF DeleteFile, FileID, IsNew
    <2> QED
        BY <2>1, OtherFile, OthersWritten, StepWritten
<1>6. CASE UNCHANGED <<rows, up>>
    <2>1. \A g : Same(g)
        BY <1>6, RowsKept
    <2> QED
        BY <1>6, <2>1, SameWritten, StepWritten DEF WInv
<1>7. ASSUME NEW b \in Batches, BeginBulkUpsert(b) PROVE UNCHANGED <<rows, up>>
    BY <1>7 DEF BeginBulkUpsert
<1>8. ASSUME NEW p \in Paths, NEW h, RecordFile(p, h) PROVE UNCHANGED <<rows, up>>
    BY <1>8 DEF RecordFile
<1>9. ASSUME NEW t \in Taggers, Tagger(t) PROVE UNCHANGED <<rows, up>>
    BY <1>9 DEF Tagger, ReadClasses, ReadMethods, UpsertTags, UpsertMethodTags
<1>10. UNCHANGED vars => UNCHANGED <<rows, up>>
    BY DEF vars
<1> QED
    BY <1>3, <1>4, <1>5, <1>6, <1>7, <1>8, <1>9, <1>10 DEF Next

-----------------------------------------------------------------------------
(* FileStore implements CodeStore                                          *)

Table == [p \in Paths |-> Shown(p)]

\* What a step may not change of a path it does not work on.
Untouched(q) ==
    /\ files'[q] = files[q]
    /\ files[q] # NoFile => Same(files[q].id)
    /\ \A w \in Workers :
          /\ up[w].stage # "idle" /\ up[w].doc.path = q =>
                up'[w].stage # "idle" /\ up'[w].doc = up[w].doc
          /\ up'[w].stage # "idle" /\ up'[w].doc.path = q =>
                up[w].stage # "idle" /\ up'[w].doc = up[w].doc

LEMMA UntouchedShows ==
    ASSUME IInv, UInv, ShowsRight, ShowsRight', NEW q \in Paths, Untouched(q)
    PROVE  Shown(q)' = Shown(q)
<1>1. CASE files[q] = NoFile
    BY <1>1 DEF ShowsRight, Untouched
<1>2. CASE files[q] # NoFile /\ Busy(q)
    <2>1. PICK w \in Workers : up[w].stage # "idle" /\ up[w].doc.path = q
        BY <1>2 DEF Busy
    <2>2. up'[w].stage # "idle" /\ up'[w].doc = up[w].doc
        BY <2>1 DEF Untouched
    <2>3. Shown(q) = Updating(up[w].doc, files[q].imports)
        BY <2>1 DEF ShowsRight
    <2>4. PICK r : r = up'[w].doc.path
        OBVIOUS
    <2>5. Shown(r)' = Updating(up'[w].doc, files'[r].imports)
        BY <2>2, <2>4 DEF ShowsRight
    <2> QED
        BY <2>1, <2>2, <2>3, <2>4, <2>5 DEF Untouched, Updating
<1>3. CASE files[q] # NoFile /\ ~Busy(q)
    <2>1. files'[q] = files[q] /\ ~Busy(q)'
        BY <1>3 DEF Untouched, Busy
    <2>2. PICK f : f = files[q].id
        OBVIOUS
    <2>3. Names(f)' = Names(f) /\ Members(f)' = Members(f) /\ CallsOf(f)' = CallsOf(f)
        BY <1>3, <2>2, SameShows DEF Untouched
    <2>4. Shown(q) = Stored(files[q].hash, Names(f), Members(f), CallsOf(f), files[q].imports)
        BY <1>3, <2>2 DEF ShowsRight
    <2>5. Shown(q)' = Stored(files'[q].hash, Names(f)', Members(f)', CallsOf(f)', files'[q].imports)
        BY <1>3, <2>1, <2>2 DEF ShowsRight, Stored
    <2> QED
        BY <2>1, <2>3, <2>4, <2>5 DEF Stored
<1> QED
    BY <1>1, <1>2, <1>3

\* A step that works on p alone.
LEMMA OneShows ==
    ASSUME IInv, UInv, ShowsRight, ShowsRight', NEW p \in Paths, \A q \in Paths : q # p => Untouched(q),
           NEW v, Shown(p)' = v
    PROVE  Table' = [Table EXCEPT ![p] = v]
<1>1. \A q \in Paths : Shown(q)' = IF q = p THEN v ELSE Shown(q)
    BY UntouchedShows
<1> QED
    BY <1>1 DEF Table

\* What UpsertIR has written before its last step is its document's content.
LEMMA WrittenShows ==
    ASSUME IInv, UInv, WInv, NEW w \in Workers, up[w].stage = "imports"
    PROVE  /\ Names(up[w].file) = up[w].doc.classes
           /\ Members(up[w].file) = ClassMethods(up[w].doc)
           /\ CallsOf(up[w].file) = up[w].doc.calls
<1> DEFINE d == up[w].doc  f == up[w].file
<1>1. d \in Docs
    BY InHand DEF IInv
<1>2. /\ Names(f) = d.classes /\ CallsOf(f) = d.calls
      /\ \A c \in ClassesOf(f) : Filled(d, c)
    BY DEF WInv, Written, UInv
<1>3. \A m \in d.methods : m = [class |-> m.class, name |-> m.name]
    BY <1>1, DocType
<1> HIDE DEF d, f
<1>4. Members(f) = UNION {[class : {c.name}, name : {m.name : m \in GroupOf(d, c)}] : c \in ClassesOf(f)}
    BY <1>2 DEF Members, Filled
<1>5. ASSUME NEW x \in ClassMethods(d)
      PROVE  \E c \in ClassesOf(f) : x \in [class : {c.name}, name : {m.name : m \in GroupOf(d, c)}]
    <2>1. PICK c \in ClassesOf(f) : c.name = x.class
        BY <1>2, <1>5 DEF Names, ClassMethods
    <2>2. x \in GroupOf(d, c) /\ x = [class |-> x.class, name |-> x.name]
        BY <1>3, <1>5, <2>1 DEF ClassMethods, GroupOf
    <2> QED
        BY <2>1, <2>2
<1>6. ASSUME NEW c \in ClassesOf(f), NEW x \in [class : {c.name}, name : {m.name : m \in GroupOf(d, c)}]
      PROVE  x \in ClassMethods(d)
    <2>1. PICK m \in GroupOf(d, c) : x.name = m.name
        OBVIOUS
    <2>2. x = [class |-> c.name, name |-> m.name] /\ m = [class |-> c.name, name |-> m.name] /\ m \in d.methods
        BY <1>3, <2>1 DEF GroupOf
    <2>3. c.name \in d.classes
        BY <1>2 DEF Names
    <2> QED
        BY <2>2, <2>3 DEF ClassMethods
<1>7. Members(f) = ClassMethods(d)
    BY <1>4, <1>5, <1>6
<1> QED
    BY <1>2, <1>7 DEF d, f

\* A path with no UpsertIR under way has settled, and shows what its record says.
LEMMA QuietShows ==
    ASSUME IInv, ShowsRight, NEW p \in Paths, ~Busy(p)
    PROVE  /\ Table[p].state # "updating"
           /\ LET old == IF Table[p] = Absent THEN Stored(NoHash, {}, {}, {}, {}) ELSE Table[p]
                  f   == FileID(p)
              IN  /\ old = Stored(old.hash, Names(f), Members(f), CallsOf(f), old.imports)
                  /\ old.imports = IF IsNew(p) THEN {} ELSE files[p].imports
<1>1. Table[p] = Shown(p)
    BY DEF Table
<1>2. CASE files[p] = NoFile
    <2>1. nextID \in ID /\ nextID <= nextID /\ FileID(p) = nextID
        BY <1>2 DEF IInv, TypeOK, ID, FileID, IsNew
    <2>2. ClassesOf(FileID(p)) = {} /\ CallsOf(FileID(p)) = {}
        BY <2>1, NothingAhead
    <2>3. Names(FileID(p)) = {} /\ Members(FileID(p)) = {}
        BY <2>2 DEF Names, Members
    <2>4. Table[p] = Absent
        BY <1>1, <1>2 DEF ShowsRight
    <2> QED
        BY <1>2, <2>2, <2>3, <2>4 DEF Absent, Stored, IsNew
<1>3. CASE files[p] # NoFile
    <2>1. Table[p] = Stored(files[p].hash, Names(FileID(p)), Members(FileID(p)), CallsOf(FileID(p)), files[p].imports)
        BY <1>1, <1>3 DEF ShowsRight, FileID, IsNew
    <2> QED
        BY <1>3, <2>1 DEF Absent, Stored, IsNew
<1> QED
    BY <1>2, <1>3

LEMMA UpsertFileBegins ==
    ASSUME IInv, UInv, ShowsRight, IInv', UInv', ShowsRight', NEW w \in Workers, NEW d \in Docs, UpsertFile(w, d)
    PROVE  Interface!BeginUpsertIR(d)
<1> DEFINE p == d.path
<1>1. p \in Paths /\ ~Busy(p) /\ files' = [files EXCEPT ![p] = Recorded(p, d.hash)]
    BY DocType DEF UpsertFile
<1>2. /\ up'[w] = [stage |-> "classes", doc |-> d, file |-> FileID(p), groups |-> {}]
      /\ \A v \in Workers : v # w => up'[v] = up[v]
      /\ up[w].stage = "idle"
    BY DEF UpsertFile, IInv, TypeOK
<1>3. \A g : Same(g)
    BY RowsKept DEF UpsertFile
<1>4. ASSUME NEW q \in Paths, q # p PROVE Untouched(q)
    <2>1. files'[q] = files[q]
        BY <1>1, <1>4 DEF IInv, TypeOK
    <2>2. up'[w].doc.path # q
        BY <1>2, <1>4
    <2> HIDE DEF p
    <2> QED
        BY <1>2, <1>3, <2>1, <2>2 DEF Untouched
<1>5. files'[p] = Recorded(p, d.hash)
    BY <1>1 DEF IInv, TypeOK
<1>6. Recorded(p, d.hash).imports = IF IsNew(p) THEN {} ELSE files[p].imports
    <2>1. ~IsNew(p) => files[p] \in FileRecord
        BY <1>1 DEF IInv, TypeOK, IsNew
    <2> QED
        BY <2>1 DEF Recorded, FileRecord
<1>7. Shown(p)' = Updating(d, IF IsNew(p) THEN {} ELSE files[p].imports)
    <2>1. PICK r : r = up'[w].doc.path
        OBVIOUS
    <2>2. Shown(r)' = Updating(up'[w].doc, files'[r].imports)
        BY <1>2, <2>1 DEF ShowsRight
    <2> QED
        BY <1>2, <1>5, <1>6, <2>1, <2>2
<1> HIDE DEF p
<1>8. Table' = [Table EXCEPT ![p] = Updating(d, IF IsNew(p) THEN {} ELSE files[p].imports)]
    BY <1>1, <1>4, <1>7, OneShows
<1> QED
    BY <1>1, <1>8, QuietShows
       DEF p, Table, Absent, Stored, Updating, Interface!BeginUpsertIR, Interface!Settled, Interface!Known,
           Interface!Absent, Interface!Stored, Interface!Updating

\* The tables between the first and the last are written unseen.
LEMMA WorkUnseen ==
    ASSUME IInv, UInv, ShowsRight, IInv', UInv', ShowsRight', NEW w \in Workers, up[w].stage # "idle",
           files' = files, OnlyFile(up[w].file),
           up'[w].stage # "idle", up'[w].doc = up[w].doc, \A v \in Workers : v # w => up'[v] = up[v]
    PROVE  Table' = Table
<1>1. up[w].doc.path \in Paths
    BY InHand, DocType DEF IInv
<1>2. PICK p \in Paths : p = up[w].doc.path
    BY <1>1
<1>3. \A q \in Paths : q # p /\ files[q] # NoFile => files[q].id # up[w].file
    BY <1>2 DEF UInv, UpsertUndisturbed, IInv, IDsDistinct
<1>4. ASSUME NEW q \in Paths, q # p PROVE Untouched(q)
    BY <1>2, <1>3, <1>4 DEF Untouched, OnlyFile
<1>5. Shown(p)' = Shown(p)
    BY <1>2 DEF ShowsRight
<1>6. Table' = [Table EXCEPT ![p] = Shown(p)]
    BY <1>4, <1>5, OneShows
<1> QED
    BY <1>6 DEF Table

LEMMA SaveImportsFinishes ==
    ASSUME IInv, UInv, WInv, ShowsRight, IInv', UInv', ShowsRight', NEW w \in Workers, SaveImports(w)
    PROVE  Interface!FinishUpsertIR(up[w].doc.path)
<1> DEFINE d == up[w].doc
<1>1. /\ up[w].stage = "imports" /\ d \in Docs /\ d.path \in Paths /\ d.imports \subseteq Imports
    BY InHand, DocType DEF SaveImports, IInv
<1>2. PICK p \in Paths : p = d.path
    BY <1>1
<1>3. /\ up'[w] = Idle /\ \A v \in Workers : v # w => up'[v] = up[v]
    BY DEF SaveImports, IInv, TypeOK
<1>4. /\ files[p] # NoFile /\ files[p] \in FileRecord
      /\ files[p].id = up[w].file /\ files[p].hash = d.hash
    BY <1>1, <1>2 DEF UInv, UpsertUndisturbed, IInv, TypeOK
<1>5. files' = [files EXCEPT ![p] = IF d.imports # {} THEN [files[p] EXCEPT !.imports = d.imports] ELSE files[p]]
    BY <1>2, <1>4 DEF SaveImports, IInv, TypeOK
<1>6. /\ files'[p] # NoFile
      /\ files'[p].id = up[w].file /\ files'[p].hash = d.hash
      /\ files'[p].imports = KeepImports(d, files[p].imports)
      /\ \A q \in Paths : q # p => files'[q] = files[q]
    <2>1. [files[p] EXCEPT !.imports = d.imports] \in FileRecord
        BY <1>1, <1>4 DEF FileRecord
    <2>2. files'[p] = IF d.imports # {} THEN [files[p] EXCEPT !.imports = d.imports] ELSE files[p]
        BY <1>5 DEF IInv, TypeOK
    <2> QED
        BY <1>4, <1>5, <2>1, <2>2, FileStoreAssumption DEF KeepImports, FileRecord, IInv, TypeOK
<1>7. \A g : Same(g)
    BY RowsKept DEF SaveImports
<1>8. \A v \in Workers : v # w /\ up[v].stage # "idle" => up[v].doc.path # p
    BY <1>1, <1>2 DEF UInv
<1>9. ASSUME NEW q \in Paths, q # p PROVE Untouched(q)
    BY <1>2, <1>3, <1>6, <1>7, <1>9 DEF Untouched, Idle
<1>10. ~Busy(p)'
    BY <1>3, <1>8 DEF Busy, Idle
<1>11. PICK f : f = up[w].file
    OBVIOUS
<1>12. Names(f)' = d.classes /\ Members(f)' = ClassMethods(d) /\ CallsOf(f)' = d.calls
    BY <1>1, <1>7, <1>11, WrittenShows, SameShows
<1>13. Shown(p)' = DocContent(d, files[p].imports)
    <2>1. Shown(p)' = Stored(files'[p].hash, Names(f)', Members(f)', CallsOf(f)', files'[p].imports)
        BY <1>6, <1>10, <1>11 DEF ShowsRight, Stored
    <2> QED
        BY <1>6, <1>12, <2>1 DEF DocContent
<1>14. Table' = [Table EXCEPT ![p] = DocContent(d, files[p].imports)]
    BY <1>9, <1>13, OneShows
<1>15. Table[p] = Updating(d, files[p].imports)
    BY <1>1, <1>2 DEF Table, ShowsRight
<1>16. Table[p].state = "updating" /\ Table[p].doc = d /\ Table[p].imports = files[p].imports
    BY <1>15 DEF Updating
<1>17. Interface!DocContent(d, files[p].imports) = DocContent(d, files[p].imports)
    BY DEF DocContent, Stored, ClassMethods, KeepImports, Interface!DocContent, Interface!Stored,
           Interface!ClassMethods, Interface!KeepImports
<1> HIDE DEF d
<1>18. Table' = [Table EXCEPT ![p] = Interface!DocContent(Table[p].doc, Table[p].imports)]
    BY <1>14, <1>16, <1>17
<1>19. Interface!FinishUpsertIR(p)
    BY <1>16, <1>18 DEF Table, Interface!FinishUpsertIR, Interface!Settled
<1> QED
    BY <1>2, <1>19 DEF d

\* Steps on a path that no worker has in hand, and their new record of it.
LEMMA RecordShows ==
    ASSUME IInv, UInv, ShowsRight, IInv', UInv', ShowsRight', NEW p \in Paths, ~Busy(p), up' = up,
           NEW r, files' = [files EXCEPT ![p] = r], NEW f, f = FileID(p), OnlyFile(f)
    PROVE  /\ \A q \in Paths : q # p => Untouched(q)
           /\ files'[p] = r /\ ~Busy(p)'
           /\ r # NoFile /\ r.id = f =>
                 Shown(p)' = Stored(r.hash, Names(f)', Members(f)', CallsOf(f)', r.imports)
           /\ r = NoFile => Shown(p)' = Absent
<1>1. files'[p] = r /\ \A q \in Paths : q # p => files'[q] = files[q]
    BY DEF IInv, TypeOK
<1>2. \A q \in Paths : q # p /\ files[q] # NoFile => files[q].id # f
    <2>1. CASE IsNew(p)
        <3>1. f = nextID /\ nextID \in Nat
            BY <2>1 DEF FileID, IInv, TypeOK, ID
        <3>2. \A q \in Paths : files[q] # NoFile => files[q].id \in Nat /\ files[q].id < nextID
            BY DEF IInv, TypeOK, CounterAhead, FileIDs, FileRecord, ID
        <3> QED
            BY <3>1, <3>2
    <2>2. CASE ~IsNew(p)
        BY <2>2 DEF FileID, IsNew, IInv, IDsDistinct
    <2> QED
        BY <2>1, <2>2
<1>3. ASSUME NEW q \in Paths, q # p PROVE Untouched(q)
    BY <1>1, <1>2, <1>3 DEF Untouched, OnlyFile
<1>4. ~Busy(p)'
    BY DEF Busy
<1>5. ASSUME r # NoFile, r.id = f
      PROVE  Shown(p)' = Stored(r.hash, Names(f)', Members(f)', CallsOf(f)', r.imports)
    BY <1>1, <1>4, <1>5 DEF ShowsRight, Stored
<1>6. ASSUME r = NoFile PROVE Shown(p)' = Absent
    BY <1>1, <1>6 DEF ShowsRight
<1> QED
    BY <1>1, <1>3, <1>4, <1>5, <1>6

LEMMA RecordFileRecords ==
    ASSUME IInv, UInv, ShowsRight, IInv', UInv', ShowsRight',
           NEW p \in Paths, NEW h \in Hashes \cup {NoHash}, RecordFile(p, h)
    PROVE  Interface!Record(p, h)
<1>1. ~Busy(p) /\ up' = up /\ files' = [files EXCEPT ![p] = Recorded(p, h)]
    BY DEF RecordFile
<1>2. \A g : Same(g)
    BY RowsKept DEF RecordFile
<1>3. PICK f : f = FileID(p)
    OBVIOUS
<1>4. /\ Recorded(p, h) # NoFile /\ Recorded(p, h).id = f /\ Recorded(p, h).hash = h
      /\ Recorded(p, h).imports = IF IsNew(p) THEN {} ELSE files[p].imports
    <2>1. Recorded(p, h) \in FileRecord /\ Recorded(p, h).id = FileID(p)
        BY RecordedType DEF IInv
    <2>2. ~IsNew(p) => files[p] \in FileRecord
        BY DEF IInv, TypeOK, IsNew
    <2> QED
        BY <1>3, <2>1, <2>2, FileStoreAssumption DEF Recorded, FileRecord
<1>5. OnlyFile(f)
    BY <1>2 DEF OnlyFile
<1> DEFINE v == Stored(h, Names(f), Members(f), CallsOf(f), IF IsNew(p) THEN {} ELSE files[p].imports)
<1>6. Shown(p)' = v /\ \A q \in Paths : q # p => Untouched(q)
    <2> DEFINE r == Recorded(p, h)
    <2>1. r # NoFile /\ r.id = f /\ files' = [files EXCEPT ![p] = r]
        BY <1>1, <1>4
    <2> HIDE DEF r
    <2>2. /\ \A q \in Paths : q # p => Untouched(q)
          /\ Shown(p)' = Stored(r.hash, Names(f)', Members(f)', CallsOf(f)', r.imports)
        BY <1>1, <1>3, <1>5, <2>1, RecordShows
    <2>3. Names(f)' = Names(f) /\ Members(f)' = Members(f) /\ CallsOf(f)' = CallsOf(f)
        BY <1>2, SameShows
    <2> QED
        BY <1>4, <2>2, <2>3 DEF r
<1> HIDE DEF v
<1>7. Table' = [Table EXCEPT ![p] = v]
    BY <1>6, OneShows
<1> DEFINE old == IF Table[p] = Absent THEN Stored(NoHash, {}, {}, {}, {}) ELSE Table[p]
<1>8. /\ Table[p].state # "updating"
      /\ old = Stored(old.hash, Names(f), Members(f), CallsOf(f), old.imports)
      /\ old.imports = IF IsNew(p) THEN {} ELSE files[p].imports
    BY <1>1, <1>3, QuietShows
<1>9. v = [old EXCEPT !.hash = h]
    <2> HIDE DEF old
    <2> QED
        BY <1>8 DEF v, Stored
<1>10. old = Interface!Known(p)
    BY DEF Table, Absent, Stored, Interface!Known, Interface!Absent, Interface!Stored
<1> HIDE DEF old
<1> QED
    BY <1>7, <1>8, <1>9, <1>10 DEF Table, Interface!Record, Interface!Settled

LEMMA DeleteFileDeletes ==
    ASSUME IInv, UInv, ShowsRight, IInv', UInv', ShowsRight', NEW p \in Paths, DeleteFile(p)
    PROVE  Interface!DeleteFile(p)
<1>1. ~Busy(p) /\ up' = up /\ files' = [files EXCEPT ![p] = NoFile] /\ FileID(p) = files[p].id
    BY DEF DeleteFile, FileID, IsNew
<1>2. PICK f : f = FileID(p)
    OBVIOUS
<1>3. OnlyFile(f)
    BY <1>1, <1>2, DeleteFileRows
<1>4. Shown(p)' = Absent /\ \A q \in Paths : q # p => Untouched(q)
    BY <1>1, <1>2, <1>3, RecordShows
<1>5. Table' = [Table EXCEPT ![p] = Absent]
    BY <1>4, OneShows
<1>6. Table[p].state # "updating"
    BY <1>1, QuietShows
<1> QED
    BY <1>5, <1>6 DEF Table, Absent, Interface!DeleteFile, Interface!Settled, Interface!Absent

LEMMA BulkUpsertUpserts ==
    ASSUME IInv, UInv, ShowsRight, IInv', UInv', ShowsRight', BulkUpsertNext
    PROVE  Interface!BulkUpsert(Head(bulk))
<1>1. PICK d \in Docs : d = Head(bulk)
    BY DEF BulkUpsertNext, IInv, TypeOK
<1>2. PICK p \in Paths : p = d.path
    BY DocType
<1>3. PICK f : f = FileID(p)
    OBVIOUS
<1> DEFINE known == IF IsNew(p) THEN {} ELSE files[p].imports
           r == [Recorded(p, d.hash) EXCEPT !.imports = IF d.imports # {} THEN d.imports ELSE @]
           v == Stored(d.hash, d.classes, ClassMethods(d), IF d.calls = {} THEN CallsOf(f) ELSE d.calls,
                       KeepImports(d, known))
<1>4. /\ ~Busy(p) /\ up' = up
      /\ files' = [files EXCEPT ![p] = r]
    BY <1>1, <1>2 DEF BulkUpsertNext, IInv, TypeOK, UInv
<1>5. r # NoFile /\ r.id = f /\ r.hash = d.hash /\ r.imports = KeepImports(d, known)
    <2>1. Recorded(p, d.hash) \in FileRecord /\ Recorded(p, d.hash).id = FileID(p) /\ d.imports \subseteq Imports
        BY RecordedType, DocType DEF IInv
    <2>2. ~IsNew(p) => files[p] \in FileRecord
        BY DEF IInv, TypeOK, IsNew
    <2>3. Recorded(p, d.hash).imports = known /\ Recorded(p, d.hash).hash = d.hash
        BY <2>2 DEF Recorded, FileRecord
    <2>4. r \in FileRecord /\ r.id = f /\ r.hash = d.hash
          /\ r.imports = IF d.imports # {} THEN d.imports ELSE known
        <3> HIDE DEF known
        <3> QED
            BY <1>3, <2>1, <2>3 DEF FileRecord
    <2> HIDE DEF r, known
    <2> QED
        BY <2>4, FileStoreAssumption DEF KeepImports
<1>6. /\ OnlyFile(f) /\ Names(f)' = d.classes /\ Members(f)' = ClassMethods(d)
      /\ CallsOf(f)' = IF d.calls = {} THEN CallsOf(f) ELSE d.calls
    BY <1>1, <1>2, <1>3, BulkUpsertRows
<1> HIDE DEF r, known
<1>7. Shown(p)' = v /\ \A q \in Paths : q # p => Untouched(q)
    <2>1. OnlyFile(f)
        BY <1>6
    <2>2. /\ \A q \in Paths : q # p => Untouched(q)
          /\ Shown(p)' = Stored(r.hash, Names(f)', Members(f)', CallsOf(f)', r.imports)
        BY <1>3, <1>4, <1>5, <2>1, RecordShows
    <2> QED
        BY <1>5, <1>6, <2>2 DEF v
<1> HIDE DEF v
<1>8. Table' = [Table EXCEPT ![p] = v]
    BY <1>7, OneShows
<1> DEFINE old == IF Table[p] = Absent THEN Stored(NoHash, {}, {}, {}, {}) ELSE Table[p]
<1>9. /\ Table[p].state # "updating"
      /\ old = Stored(old.hash, Names(f), Members(f), CallsOf(f), old.imports)
      /\ old.imports = known
    BY <1>3, <1>4, QuietShows DEF known
<1>10. old.calls = CallsOf(f)
    <2> HIDE DEF old
    <2> QED
        BY <1>9 DEF Stored
<1>11. old = Interface!Known(p)
    BY DEF Table, Absent, Stored, Interface!Known, Interface!Absent, Interface!Stored
<1> HIDE DEF old
<1>12. v = Interface!Stored(d.hash, d.classes, Interface!ClassMethods(d),
                            IF d.calls = {} THEN old.calls ELSE d.calls, Interface!KeepImports(d, old.imports))
    BY <1>9, <1>10 DEF v, Stored, ClassMethods, KeepImports, Interface!Stored, Interface!ClassMethods,
                       Interface!KeepImports
<1>13. Interface!BulkUpsert(d)
    BY <1>2, <1>8, <1>9, <1>11, <1>12 DEF Table, Interface!BulkUpsert, Interface!Settled
<1> QED
    BY <1>1, <1>13

\* No step but these is seen.
LEMMA RestUnseen ==
    ASSUME IInv, UInv, ShowsRight, ShowsRight', UNCHANGED <<files, rows, up>>
    PROVE  Table' = Table
<1>1. \A q \in Paths : Untouched(q)
    BY RowsKept DEF Untouched
<1>2. \A q \in Paths : Shown(q)' = Shown(q)
    BY <1>1, UntouchedShows
<1> QED
    BY <1>2 DEF Table

LEMMA WorkerRefines ==
    ASSUME IInv, UInv, WInv, ShowsRight, IInv', UInv', ShowsRight', NEW w \in Workers, UpsertIR(w)
    PROVE  Interface!Next \/ Table' = Table
<1>1. ASSUME NEW d \in Docs, UpsertFile(w, d) PROVE Interface!Next
    BY <1>1, UpsertFileBegins DEF Interface!Next
<1>2. CASE UpsertClasses(w)
    <2>1. up[w] \in Upsert /\ up[w].stage # "idle" /\ files' = files /\ up' = [up EXCEPT ![w].stage = "lookup"]
        BY <1>2, InHand DEF UpsertClasses, IInv
    <2>2. up'[w].stage # "idle" /\ up'[w].doc = up[w].doc /\ \A v \in Workers : v # w => up'[v] = up[v]
        BY <2>1 DEF IInv, TypeOK, Upsert
    <2> QED
        BY <1>2, <2>1, <2>2, UpsertClassesRows, WorkUnseen
<1>3. CASE LookupClasses(w)
    <2>1. up[w] \in Upsert /\ up[w].stage # "idle" /\ files' = files
        BY <1>3, InHand DEF LookupClasses, IInv
    <2>2. up'[w].stage # "idle" /\ up'[w].doc = up[w].doc /\ \A v \in Workers : v # w => up'[v] = up[v]
        BY <1>3, <2>1 DEF LookupClasses, IInv, TypeOK, Upsert
    <2>3. OnlyFile(up[w].file)
        BY <1>3, RowsKept DEF LookupClasses, OnlyFile
    <2> QED
        BY <2>1, <2>2, <2>3, WorkUnseen
<1>4. ASSUME NEW c \in up[w].groups, UpsertMethods(w, c) PROVE Table' = Table
    <2>1. up[w] \in Upsert /\ up[w].stage # "idle" /\ up' = [up EXCEPT ![w].groups = @ \ {c}]
        BY <1>4, InHand DEF UpsertMethods, IInv
    <2>2. up'[w].stage # "idle" /\ up'[w].doc = up[w].doc /\ \A v \in Workers : v # w => up'[v] = up[v]
        BY <2>1 DEF IInv, TypeOK, Upsert
    <2> QED
        BY <1>4, <2>1, <2>2, UpsertMethodsRows, WorkUnseen
<1>5. CASE UpsertCalls(w)
    <2>1. up[w] \in Upsert /\ up[w].stage # "idle" /\ up' = [up EXCEPT ![w].stage = "imports"]
        BY <1>5, InHand DEF UpsertCalls, IInv
    <2>2. up'[w].stage # "idle" /\ up'[w].doc = up[w].doc /\ \A v \in Workers : v # w => up'[v] = up[v]
        BY <2>1 DEF IInv, TypeOK, Upsert
    <2> QED
        BY <1>5, <2>1, <2>2, UpsertCallsRows, WorkUnseen
<1>6. CASE SaveImports(w)
    <2>1. up[w].doc.path \in Paths
        BY <1>6, InHand, DocType DEF SaveImports, IInv
    <2> QED
        BY <1>6, <2>1, SaveImportsFinishes DEF Interface!Next
<1> QED
    BY <1>1, <1>2, <1>3, <1>4, <1>5, <1>6 DEF UpsertIR

LEMMA StepRefines ==
    ASSUME IInv, UInv, WInv, ShowsRight, IInv', UInv', ShowsRight', [Next]_vars
    PROVE  Interface!Next \/ Table' = Table
<1>1. ASSUME NEW w \in Workers, UpsertIR(w) PROVE Interface!Next \/ Table' = Table
    BY <1>1, WorkerRefines
<1>2. CASE BulkUpsertNext
    <2>1. Head(bulk) \in Docs
        BY <1>2 DEF BulkUpsertNext, IInv, TypeOK
    <2> QED
        BY <1>2, <2>1, BulkUpsertUpserts DEF Interface!Next
<1>3. ASSUME NEW p \in Paths, DeleteFile(p) PROVE Interface!Next
    BY <1>3, DeleteFileDeletes DEF Interface!Next
<1>4. ASSUME NEW p \in Paths, NEW h \in Hashes \cup {NoHash}, RecordFile(p, h) PROVE Interface!Next
    BY <1>4, RecordFileRecords DEF Interface!Next
<1>5. ASSUME NEW b \in Batches, BeginBulkUpsert(b) PROVE UNCHANGED <<files, rows, up>>
    BY <1>5 DEF BeginBulkUpsert
<1>6. ASSUME NEW t \in Taggers, Tagger(t) PROVE UNCHANGED <<files, rows, up>>
    BY <1>6 DEF Tagger, ReadClasses, ReadMethods, UpsertTags, UpsertMethodTags
<1>7. UNCHANGED vars => UNCHANGED <<files, rows, up>>
    BY DEF vars
<1> QED
    BY <1>1, <1>2, <1>3, <1>4, <1>5, <1>6, <1>7, RestUnseen DEF Next

\* Every step of the tables is a step of the store its users see, or unseen:
\* an UpsertIR begins with its file record and ends, with exactly the content
\* of its document, when its imports are saved.
THEOREM FileStoreImplements == Spec => ImplementsCodeStore
<1>1. Init => UInv /\ WInv
    BY DEF Init, UInv, WInv, UpsertUndisturbed, Idle, Busy
<1>2. Init => Interface!Init
    BY DEF Init, Shown, Interface!Init, Absent, Interface!Absent
<1>3. IInv /\ UInv /\ [Next]_vars => UInv'
    BY StepUInv
<1>4. IInv /\ UInv /\ WInv /\ [Next]_vars => WInv'
    BY StepWInv
<1>5. IInv /\ UInv => ShowsRight
    BY AlwaysShowsRight
<1>6. IInv /\ UInv /\ WInv /\ ShowsRight /\ IInv' /\ UInv' /\ ShowsRight' /\ [Next]_vars
          => [Interface!Next]_([p \in Paths |-> Shown(p)])
    BY StepRefines DEF Table
<1> QED
    BY <1>1, <1>2, <1>3, <1>4, <1>5, <1>6, Inductive, PTL DEF Spec, ImplementsCodeStore, Interface!Spec

-----------------------------------------------------------------------------
(* Sessions of the file store (StoreSessions).  That the index file never   *)
(* goes back rests on the directory's lock and on what a session holds in   *)
(* memory being ahead of the file it will replace; that a row is whole, on  *)
(* whose goroutines ScanAll waited for; and the two on each other, since a  *)
(* session begins with what another one saved.                              *)

ProcState == [at : {"down", "scan", "watch", "closing", "saved", "closed"}, table : Tables,
              todo : SUBSET Files, began : [Files -> Versions]]
JobState == [version : Versions, at : {"none", "record", "symbols"}]

\* Who is in a session holds the directory; a lock left behind is nobody's.
OneHolder ==
    /\ \A i \in Procs : proc[i].at \in {"scan", "watch", "closing", "saved"} => holder = i
    /\ left => holder \in Procs /\ proc[holder].at = "down"

\* What is stored, or about to be, was once in the repository.
NothingInvented(i, p) ==
    /\ proc[i].table[p].hash <= repo[p]
    /\ job[i][p].version <= repo[p]
    /\ proc[i].began[p] <= repo[p]

SavedOnce(p) == saved # Unreadable => saved[p].hash <= repo[p] /\ (saved[p].hash # saved[p].symbols => p \in cut)

\* A session is ahead of the index file it will replace.
AheadOfSaved(i, p) ==
    proc[i].at \in {"scan", "watch", "closing"} /\ saved # Unreadable => saved[p].hash <= proc[i].table[p].hash

\* An UpsertIR brings a version that is not older than the table's, and a row
\* is whole unless it is at work or the path was cut off.
JobsForward(i, p) ==
    /\ job[i][p].at = "record" => proc[i].table[p].hash <= job[i][p].version
    /\ job[i][p].at = "symbols" => proc[i].table[p].hash = job[i][p].version
    /\ proc[i].table[p].hash # proc[i].table[p].symbols => p \in cut \/ job[i][p].at = "symbols"

\* After a scan or a watch only what was cut off goes on.
OnlyCutGoOn(i, p) ==
    /\ proc[i].at = "down" => job[i][p].at = "none"
    /\ proc[i].at \notin {"scan", "watch"} /\ job[i][p].at # "none" => p \in cut

\* A path a scan has been at is at its version, or an UpsertIR brings it.
ScanProgress(i, p) ==
    /\ proc[i].at = "scan" /\ p \in proc[i].todo => job[i][p].at = "none"
    /\ proc[i].at = "scan" /\ p \notin proc[i].todo =>
        \/ proc[i].began[p] <= proc[i].table[p].hash
        \/ job[i][p].at = "record" /\ proc[i].began[p] <= job[i][p].version
    /\ proc[i].at = "watch" => proc[i].began[p] <= proc[i].table[p].hash

PathInv(i, p) ==
    /\ NothingInvented(i, p) /\ AheadOfSaved(i, p) /\ JobsForward(i, p)
    /\ OnlyCutGoOn(i, p) /\ ScanProgress(i, p)

SessionsInv ==
    /\ SessionsTypeOK /\ OneHolder
    /\ \A p \in Files : SavedOnce(p)
    /\ \A i \in Procs, p \in Files : PathInv(i, p)

LEMMA VersionsType ==
    /\ Versions \subseteq Nat /\ 0 \in Versions /\ 1 \in Versions
    /\ \A n \in Versions : n <= MaxEdits => n + 1 \in Versions
BY SessionsAssumption DEF Versions

LEMMA DownType ==
    /\ Unknown \in [hash : Versions, symbols : Versions] /\ Empty \in Tables
    /\ NoJob \in JobState /\ Down \in ProcState
BY VersionsType DEF Unknown, Empty, Tables, NoJob, Down, ProcState, JobState

\* The parts of a process and its jobs, as the steps below use them
LEMMA PartsType ==
    ASSUME SessionsTypeOK, NEW i \in Procs
    PROVE  /\ DOMAIN proc = Procs /\ DOMAIN job = Procs /\ DOMAIN job[i] = Files
           /\ proc[i] \in ProcState /\ proc[i].at \in {"down", "scan", "watch", "closing", "saved", "closed"}
           /\ proc[i].table \in Tables /\ proc[i].todo \subseteq Files /\ proc[i].began \in [Files -> Versions]
BY DEF SessionsTypeOK, ProcState

LEMMA NumbersType ==
    ASSUME SessionsTypeOK, NEW i \in Procs, NEW p \in Files
    PROVE  /\ proc[i].table[p] \in [hash : Versions, symbols : Versions] /\ job[i][p] \in JobState
           /\ proc[i].table[p].hash \in Nat /\ proc[i].table[p].symbols \in Nat
           /\ proc[i].began[p] \in Nat /\ repo[p] \in Nat /\ repo[p] \in Versions
           /\ job[i][p].version \in Nat /\ job[i][p].at \in {"none", "record", "symbols"}
           /\ saved # Unreadable => saved[p].hash \in Nat /\ saved[p].symbols \in Nat
<1>1. proc[i].table[p] \in [hash : Versions, symbols : Versions]
    BY PartsType DEF Tables
<1>2. job[i][p] \in JobState
    BY DEF SessionsTypeOK, JobState
<1>3. saved # Unreadable => saved[p] \in [hash : Versions, symbols : Versions]
    BY DEF SessionsTypeOK, Tables
<1>4. proc[i].began[p] \in Versions /\ repo[p] \in Versions
    BY PartsType DEF SessionsTypeOK
<1> QED
    BY <1>1, <1>2, <1>3, <1>4, VersionsType DEF JobState

\* A process and a path that a step leaves alone
LEMMA UntouchedKept ==
    ASSUME SessionsInv, NEW i \in Procs, NEW p \in Files,
           proc'[i].at = proc[i].at, proc'[i].table[p] = proc[i].table[p], proc'[i].began = proc[i].began,
           p \in proc'[i].todo <=> p \in proc[i].todo, job'[i][p] = job[i][p],
           repo'[p] \in Nat, repo[p] <= repo'[p], cut \subseteq cut', saved' = saved
    PROVE  PathInv(i, p)'
<1> USE NumbersType DEF SessionsInv, PathInv
<1>1. NothingInvented(i, p)'
    BY DEF NothingInvented
<1>2. AheadOfSaved(i, p)'
    BY DEF AheadOfSaved
<1>3. JobsForward(i, p)' /\ OnlyCutGoOn(i, p)'
    BY DEF JobsForward, OnlyCutGoOn
<1>4. ScanProgress(i, p)'
    BY DEF ScanProgress
<1> QED
    BY <1>1, <1>2, <1>3, <1>4

LEMMA SessionsStart == SessionsInit => SessionsInv
<1> SUFFICES ASSUME SessionsInit PROVE SessionsInv
    OBVIOUS
<1>0. ~left /\ left \in BOOLEAN /\ windows \in BOOLEAN
    BY Zenon DEF SessionsInit
<1>1. SessionsTypeOK
    <2>1. repo \in [Files -> Versions \ {0}]
        BY VersionsType DEF SessionsInit
    <2>2. proc \in [Procs -> ProcState] /\ job \in [Procs -> [Files -> JobState]]
        BY DownType DEF SessionsInit
    <2>3. saved \in (Tables \cup {Unreadable}) /\ holder \in (Procs \cup {Nobody})
          /\ cut \subseteq Files /\ sessions \in 0 .. MaxSessions
        BY SessionsAssumption, DownType DEF SessionsInit
    <2> QED
        BY <1>0, <2>1, <2>2, <2>3, Zenon DEF SessionsTypeOK, ProcState, JobState
<1>2. \A i \in Procs, p \in Files :
        /\ proc[i].table[p] = Unknown /\ job[i][p] = NoJob /\ proc[i].at = "down"
        /\ proc[i].began[p] = 0 /\ repo[p] = 1
    BY DEF SessionsInit, Down, Empty
<1>3. \A p \in Files : saved[p] = Unknown /\ repo[p] = 1
    BY DEF SessionsInit, Empty
<1>4. OneHolder
    BY <1>0 DEF OneHolder, SessionsInit, Down
<1>5. \A p \in Files : SavedOnce(p)
    BY <1>3 DEF SavedOnce, Unknown
<1>6. \A i \in Procs, p \in Files : PathInv(i, p)
    BY <1>2 DEF PathInv, NothingInvented, AheadOfSaved, JobsForward, OnlyCutGoOn, ScanProgress, Unknown, NoJob
<1> QED
    BY <1>1, <1>4, <1>5, <1>6 DEF SessionsInv

\* Dispatch hands a path of the scan to a goroutine, or passes it by.
LEMMA DispatchKeeps ==
    ASSUME SessionsInv, NEW i \in Procs, NEW p \in Files, Dispatch(i, p)
    PROVE  SessionsInv'
<1> USE DEF SessionsInv
<1>1. /\ proc[i].at = "scan" /\ p \in proc[i].todo
      /\ repo' = repo /\ saved' = saved /\ holder' = holder /\ left' = left
      /\ windows' = windows /\ cut' = cut /\ sessions' = sessions
    BY DEF Dispatch
<1>2. /\ proc' \in [Procs -> ProcState]
      /\ proc'[i] = [proc[i] EXCEPT !.todo = @ \ {p}]
      /\ \A j \in Procs : j # i => proc'[j] = proc[j]
    BY DEF Dispatch, SessionsTypeOK, ProcState
<1>3. /\ proc'[i].at = proc[i].at /\ proc'[i].table = proc[i].table
      /\ proc'[i].began = proc[i].began /\ proc'[i].todo = proc[i].todo \ {p}
    BY <1>2, PartsType DEF ProcState
<1>4. /\ job' \in [Procs -> [Files -> JobState]]
      /\ \A j \in Procs, q \in Files : j # i \/ q # p \/ Gate(i, p) => job'[j][q] = job[j][q]
      /\ ~Gate(i, p) => job'[i][p] = [version |-> repo[p], at |-> "record"]
    BY NumbersType DEF Dispatch, SessionsTypeOK, JobState
<1>T. SessionsTypeOK'
    BY <1>1, <1>2, <1>4 DEF SessionsTypeOK, ProcState, JobState
<1>H. OneHolder'
    BY <1>1, <1>2, <1>3 DEF OneHolder
<1>S. \A q \in Files : SavedOnce(q)'
    BY <1>1 DEF SavedOnce
<1>P. ASSUME NEW j \in Procs, NEW q \in Files PROVE PathInv(j, q)'
    <2> USE NumbersType
    <2>0. CASE j # i
        BY <2>0, <1>1, <1>2, <1>4, UntouchedKept
    <2>1. CASE j = i /\ q # p
        BY <2>1, <1>1, <1>3, <1>4, UntouchedKept
    <2>2. CASE j = i /\ q = p
        <3>1. PathInv(i, p) /\ job[i][p].at = "none"
            BY <1>1 DEF PathInv, ScanProgress
        <3>2. p \notin proc'[i].todo
            BY <1>3
        <3>3. CASE Gate(i, p)
            BY <3>1, <3>2, <3>3, <2>2, <1>1, <1>3, <1>4 DEF Gate, PathInv, NothingInvented, AheadOfSaved, JobsForward, OnlyCutGoOn, ScanProgress
        <3>4. CASE ~Gate(i, p)
            BY <3>1, <3>2, <3>4, <2>2, <1>1, <1>3, <1>4 DEF PathInv, NothingInvented, AheadOfSaved, JobsForward, OnlyCutGoOn, ScanProgress
        <3> QED
            BY <3>3, <3>4
    <2> QED
        BY <2>0, <2>1, <2>2
<1> QED
    BY <1>T, <1>H, <1>S, <1>P

\* The handler of the watcher takes one changed file.
LEMMA HandleChangeKeeps ==
    ASSUME SessionsInv, NEW i \in Procs, NEW p \in Files, HandleChange(i, p)
    PROVE  SessionsInv'
<1> USE DEF SessionsInv
<1>1. /\ proc[i].at = "watch" /\ job[i][p].at = "none" /\ proc' = proc
      /\ repo' = repo /\ saved' = saved /\ holder' = holder /\ left' = left
      /\ windows' = windows /\ cut' = cut /\ sessions' = sessions
    BY DEF HandleChange, UnderWay
<1>2. /\ job' \in [Procs -> [Files -> JobState]]
      /\ \A j \in Procs, q \in Files : j # i \/ q # p => job'[j][q] = job[j][q]
      /\ job'[i][p] = [version |-> repo[p], at |-> "record"]
    BY NumbersType DEF HandleChange, SessionsTypeOK, JobState
<1>T. SessionsTypeOK'
    BY <1>1, <1>2 DEF SessionsTypeOK, JobState
<1>H. OneHolder'
    BY <1>1 DEF OneHolder
<1>S. \A q \in Files : SavedOnce(q)'
    BY <1>1 DEF SavedOnce
<1>P. ASSUME NEW j \in Procs, NEW q \in Files PROVE PathInv(j, q)'
    <2> USE NumbersType
    <2>1. CASE j # i \/ q # p
        BY <2>1, <1>1, <1>2, UntouchedKept
    <2>2. CASE j = i /\ q = p
        <3>1. PathInv(i, p)
            OBVIOUS
        <3> QED
            BY <3>1, <2>2, <1>1, <1>2 DEF PathInv, NothingInvented, AheadOfSaved, JobsForward, OnlyCutGoOn, ScanProgress
    <2> QED
        BY <2>1, <2>2
<1> QED
    BY <1>T, <1>H, <1>S, <1>P

\* A row written into the table of one process
LEMMA RowWritten ==
    ASSUME SessionsTypeOK, NEW i \in Procs, NEW p \in Files, NEW row \in [hash : Versions, symbols : Versions],
           proc' = [proc EXCEPT ![i] = [proc[i] EXCEPT !.table = [proc[i].table EXCEPT ![p] = row]]]
    PROVE  /\ proc' \in [Procs -> ProcState]
           /\ \A j \in Procs : j # i => proc'[j] = proc[j]
<1>1. proc \in [Procs -> ProcState]
    BY DEF SessionsTypeOK, ProcState
<1>2. proc[i].table \in [Files -> [hash : Versions, symbols : Versions]]
    BY PartsType DEF Tables
<1>3. [proc[i].table EXCEPT ![p] = row] \in Tables
    BY <1>2 DEF Tables
<1>4. [proc[i] EXCEPT !.table = [proc[i].table EXCEPT ![p] = row]] \in ProcState
    <2> DEFINE t == [proc[i].table EXCEPT ![p] = row]
    <2>1. t \in Tables
        BY <1>3
    <2>2. proc[i] \in ProcState
        BY <1>1
    <2> HIDE DEF t
    <2>3. [proc[i] EXCEPT !.table = t] \in ProcState
        BY <2>1, <2>2 DEF ProcState
    <2> QED
        BY <2>3 DEF t
<1> QED
    BY <1>1, <1>4

\* The first step of an UpsertIR writes the hash of the version it brings.
LEMMA StoreRecordKeeps ==
    ASSUME SessionsInv, NEW i \in Procs, NEW p \in Files, StoreRecord(i, p)
    PROVE  SessionsInv'
<1> USE DEF SessionsInv
<1>1. /\ job[i][p].at = "record"
      /\ repo' = repo /\ saved' = saved /\ holder' = holder /\ left' = left
      /\ windows' = windows /\ cut' = cut /\ sessions' = sessions
    BY DEF StoreRecord
<1>2. /\ proc' = [proc EXCEPT ![i] = [proc[i] EXCEPT !.table = [proc[i].table EXCEPT ![p] = [proc[i].table[p] EXCEPT !.hash = job[i][p].version]]]]
      /\ job' = [job EXCEPT ![i] = [job[i] EXCEPT ![p] = [job[i][p] EXCEPT !.at = "symbols"]]]
    BY DEF StoreRecord
<1>3. [proc[i].table[p] EXCEPT !.hash = job[i][p].version] \in [hash : Versions, symbols : Versions]
    BY NumbersType DEF JobState
<1>4. /\ proc' \in [Procs -> ProcState]
      /\ \A j \in Procs : j # i => proc'[j] = proc[j]
    BY <1>2, <1>3, RowWritten
<1>5. /\ proc'[i].at = proc[i].at /\ proc'[i].began = proc[i].began /\ proc'[i].todo = proc[i].todo
      /\ proc'[i].table = [proc[i].table EXCEPT ![p] = [proc[i].table[p] EXCEPT !.hash = job[i][p].version]]
    BY <1>2, PartsType DEF ProcState
<1>6. /\ \A q \in Files : q # p => proc'[i].table[q] = proc[i].table[q]
      /\ proc'[i].table[p].hash = job[i][p].version /\ proc'[i].table[p].symbols = proc[i].table[p].symbols
    BY <1>5, PartsType, NumbersType DEF Tables
<1>7. /\ job' \in [Procs -> [Files -> JobState]]
      /\ \A j \in Procs, q \in Files : j # i \/ q # p => job'[j][q] = job[j][q]
      /\ job'[i][p].version = job[i][p].version /\ job'[i][p].at = "symbols"
    <2>1. [job[i][p] EXCEPT !.at = "symbols"] \in JobState
        BY NumbersType DEF JobState
    <2>2. job'[i][p] = [job[i][p] EXCEPT !.at = "symbols"]
        BY <1>2, PartsType
    <2>3. job' \in [Procs -> [Files -> JobState]]
        BY <2>1, <1>2 DEF SessionsTypeOK, JobState
    <2>4. \A j \in Procs, q \in Files : j # i \/ q # p => job'[j][q] = job[j][q]
        BY <1>2, PartsType
    <2> QED
        BY <2>2, <2>3, <2>4, NumbersType DEF JobState
<1>T. SessionsTypeOK'
    BY <1>1, <1>4, <1>7 DEF SessionsTypeOK, ProcState, JobState
<1>H. OneHolder'
    BY <1>1, <1>4, <1>5 DEF OneHolder
<1>S. \A q \in Files : SavedOnce(q)'
    BY <1>1 DEF SavedOnce
<1>P. ASSUME NEW j \in Procs, NEW q \in Files PROVE PathInv(j, q)'
    <2> USE NumbersType
    <2>0. CASE j # i
        BY <2>0, <1>1, <1>4, <1>7, UntouchedKept
    <2>1. CASE j = i /\ q # p
        <3>1. proc'[i].table[q] = proc[i].table[q] /\ job'[i][q] = job[i][q]
            BY <2>1, <1>6, <1>7
        <3>2. (q \in proc'[i].todo <=> q \in proc[i].todo) /\ proc'[i].began = proc[i].began /\ proc'[i].at = proc[i].at
            BY <1>5
        <3> QED
            BY <3>1, <3>2, <2>1, <1>1, UntouchedKept
    <2>2. CASE j = i /\ q = p
        <3>1. PathInv(i, p)
            OBVIOUS
        <3> QED
            BY <3>1, <2>2, <1>1, <1>5, <1>6, <1>7 DEF PathInv, NothingInvented, AheadOfSaved, JobsForward, OnlyCutGoOn, ScanProgress
    <2> QED
        BY <2>0, <2>1, <2>2
<1> QED
    BY <1>T, <1>H, <1>S, <1>P

\* Its last step writes the symbols: the row is whole again.
LEMMA StoreSymbolsKeeps ==
    ASSUME SessionsInv, NEW i \in Procs, NEW p \in Files, StoreSymbols(i, p)
    PROVE  SessionsInv'
<1> USE DEF SessionsInv
<1>1. /\ job[i][p].at = "symbols"
      /\ repo' = repo /\ saved' = saved /\ holder' = holder /\ left' = left
      /\ windows' = windows /\ cut' = cut /\ sessions' = sessions
    BY DEF StoreSymbols
<1>2. /\ proc' = [proc EXCEPT ![i] = [proc[i] EXCEPT !.table = [proc[i].table EXCEPT ![p] = [proc[i].table[p] EXCEPT !.symbols = job[i][p].version]]]]
      /\ job' = [job EXCEPT ![i] = [job[i] EXCEPT ![p] = NoJob]]
    BY DEF StoreSymbols
<1>3. [proc[i].table[p] EXCEPT !.symbols = job[i][p].version] \in [hash : Versions, symbols : Versions]
    BY NumbersType DEF JobState
<1>4. /\ proc' \in [Procs -> ProcState]
      /\ \A j \in Procs : j # i => proc'[j] = proc[j]
    BY <1>2, <1>3, RowWritten
<1>5. /\ proc'[i].at = proc[i].at /\ proc'[i].began = proc[i].began /\ proc'[i].todo = proc[i].todo
      /\ proc'[i].table = [proc[i].table EXCEPT ![p] = [proc[i].table[p] EXCEPT !.symbols = job[i][p].version]]
    BY <1>2, PartsType DEF ProcState
<1>6. /\ \A q \in Files : q # p => proc'[i].table[q] = proc[i].table[q]
      /\ proc'[i].table[p].hash = proc[i].table[p].hash /\ proc'[i].table[p].symbols = job[i][p].version
    BY <1>5, PartsType, NumbersType DEF Tables
<1>7. /\ job' \in [Procs -> [Files -> JobState]]
      /\ \A j \in Procs, q \in Files : j # i \/ q # p => job'[j][q] = job[j][q]
      /\ job'[i][p].version = 0 /\ job'[i][p].at = "none"
    BY <1>2, DownType, NumbersType DEF SessionsTypeOK, JobState, NoJob
<1>T. SessionsTypeOK'
    BY <1>1, <1>4, <1>7 DEF SessionsTypeOK, ProcState, JobState
<1>H. OneHolder'
    BY <1>1, <1>4, <1>5 DEF OneHolder
<1>S. \A q \in Files : SavedOnce(q)'
    BY <1>1 DEF SavedOnce
<1>P. ASSUME NEW j \in Procs, NEW q \in Files PROVE PathInv(j, q)'
    <2> USE NumbersType
    <2>0. CASE j # i
        BY <2>0, <1>1, <1>4, <1>7, UntouchedKept
    <2>1. CASE j = i /\ q # p
        <3>1. proc'[i].table[q] = proc[i].table[q] /\ job'[i][q] = job[i][q]
            BY <2>1, <1>6, <1>7
        <3>2. (q \in proc'[i].todo <=> q \in proc[i].todo) /\ proc'[i].began = proc[i].began /\ proc'[i].at = proc[i].at
            BY <1>5
        <3> QED
            BY <3>1, <3>2, <2>1, <1>1, UntouchedKept
    <2>2. CASE j = i /\ q = p
        <3>1. PathInv(i, p)
            OBVIOUS
        <3> QED
            BY <3>1, <2>2, <1>1, <1>5, <1>6, <1>7 DEF PathInv, NothingInvented, AheadOfSaved, JobsForward, OnlyCutGoOn, ScanProgress
    <2> QED
        BY <2>0, <2>1, <2>2
<1> QED
    BY <1>T, <1>H, <1>S, <1>P

\* Open takes the directory, and the tables of the index file or none.
LEMMA OpenKeeps ==
    ASSUME SessionsInv, NEW i \in Procs, Open(i)
    PROVE  SessionsInv'
<1> USE DEF SessionsInv
<1>1. /\ proc[i].at = "down" /\ holder = Nobody /\ holder' = i /\ sessions < MaxSessions /\ sessions' = sessions + 1
      /\ repo' = repo /\ saved' = saved /\ left' = left /\ windows' = windows /\ cut' = cut /\ job' = job
    BY DEF Open, Acquire
<1>2. Loaded \in Tables /\ \A p \in Files : Loaded[p] = IF saved = Unreadable THEN Unknown ELSE saved[p]
    BY DownType DEF Loaded, SessionsTypeOK, Empty
<1>3. [at |-> "scan", table |-> Loaded, todo |-> Files, began |-> repo] \in ProcState
    BY <1>2 DEF SessionsTypeOK, ProcState
<1>4. /\ proc' \in [Procs -> ProcState]
      /\ proc'[i] = [at |-> "scan", table |-> Loaded, todo |-> Files, began |-> repo]
      /\ \A j \in Procs : j # i => proc'[j] = proc[j]
    BY <1>3 DEF Open, SessionsTypeOK, ProcState
<1>5. \A j \in Procs : proc[j].at \notin {"scan", "watch", "closing", "saved"}
    BY <1>1, SessionsAssumption DEF OneHolder
<1>T. SessionsTypeOK'
    <2>1. sessions' \in 0 .. MaxSessions
        BY <1>1, SessionsAssumption DEF SessionsTypeOK
    <2> QED
        BY <1>1, <1>4, <2>1 DEF SessionsTypeOK, ProcState
<1>H. OneHolder'
    BY <1>1, <1>4, <1>5, SessionsAssumption DEF OneHolder
<1>S. \A p \in Files : SavedOnce(p)'
    BY <1>1 DEF SavedOnce
<1>P. ASSUME NEW j \in Procs, NEW p \in Files PROVE PathInv(j, p)'
    <2> USE NumbersType
    <2>1. CASE j # i
        BY <2>1, <1>1, <1>4, UntouchedKept
    <2>2. CASE j = i
        <3>1. job[i][p].at = "none" /\ SavedOnce(p)
            BY <1>1 DEF PathInv, OnlyCutGoOn
        <3>2. proc'[i].at = "scan" /\ proc'[i].table[p] = Loaded[p] /\ proc'[i].began[p] = repo[p] /\ p \in proc'[i].todo
            BY <1>4
        <3>3. CASE saved = Unreadable
            <4>1. Loaded[p].hash = 0 /\ Loaded[p].symbols = 0
                BY <3>3, <1>2 DEF Unknown
            <4> QED
                BY <4>1, <3>1, <3>2, <3>3, <2>2, <1>1 DEF PathInv, NothingInvented, AheadOfSaved, JobsForward, OnlyCutGoOn, ScanProgress
        <3>4. CASE saved # Unreadable
            BY <3>1, <3>2, <3>4, <2>2, <1>1, <1>2 DEF SavedOnce, PathInv, NothingInvented, AheadOfSaved, JobsForward, OnlyCutGoOn, ScanProgress
        <3> QED
            BY <3>3, <3>4
    <2> QED
        BY <2>1, <2>2
<1> QED
    BY <1>T, <1>H, <1>S, <1>P

\* Close saves the tables, or fails to; nobody else holds the directory.
LEMMA SaveKeeps ==
    ASSUME SessionsInv, NEW i \in Procs, Close(i), proc[i].at = "closing"
    PROVE  SessionsInv'
<1> USE DEF SessionsInv
<1>1. /\ saved' \in {saved, proc[i].table}
      /\ repo' = repo /\ holder' = holder /\ left' = left
      /\ windows' = windows /\ cut' = cut /\ job' = job /\ sessions' = sessions
    BY DEF Close
<1>2. /\ proc' \in [Procs -> ProcState]
      /\ proc'[i].at = "saved" /\ proc'[i].table = proc[i].table /\ proc'[i].began = proc[i].began
      /\ \A j \in Procs : j # i => proc'[j] = proc[j]
    <2>1. proc' = [proc EXCEPT ![i] = [proc[i] EXCEPT !.at = "saved"]]
        BY DEF Close
    <2> QED
        BY <2>1, PartsType DEF SessionsTypeOK, ProcState
<1>3. \A j \in Procs : j # i => proc[j].at \notin {"scan", "watch", "closing", "saved"}
    BY DEF OneHolder
<1>T. SessionsTypeOK'
    BY <1>1, <1>2, PartsType DEF SessionsTypeOK, ProcState
<1>H. OneHolder'
    BY <1>1, <1>2 DEF OneHolder
<1>S. ASSUME NEW q \in Files PROVE SavedOnce(q)'
    <2>1. SavedOnce(q) /\ PathInv(i, q)
        OBVIOUS
    <2>2. proc[i].table[q].hash # proc[i].table[q].symbols => q \in cut
        BY <2>1 DEF PathInv, JobsForward, OnlyCutGoOn
    <2> QED
        BY <2>1, <2>2, <1>1, NumbersType DEF SavedOnce, PathInv, NothingInvented
<1>P. ASSUME NEW j \in Procs, NEW q \in Files PROVE PathInv(j, q)'
    <2>1. PathInv(j, q) /\ proc'[j].at \notin {"scan", "watch", "closing"}
        BY <1>2, <1>3
    <2>2. /\ proc'[j].table = proc[j].table /\ proc'[j].began = proc[j].began
          /\ proc'[j].at = "down" => proc[j].at = "down"
        BY <1>2
    <2>3. proc[j].at \notin {"scan", "watch"}
        BY <1>3
    <2> QED
        BY <2>1, <2>2, <2>3, <1>1 DEF PathInv, NothingInvented, AheadOfSaved, JobsForward, OnlyCutGoOn, ScanProgress
<1> QED
    BY <1>T, <1>H, <1>S, <1>P

\* Then it releases the directory.
LEMMA ReleaseKeeps ==
    ASSUME SessionsInv, NEW i \in Procs, Close(i), proc[i].at = "saved"
    PROVE  SessionsInv'
<1> USE DEF SessionsInv
<1>1. /\ holder = i /\ holder' = Nobody /\ ~left
      /\ repo' = repo /\ saved' = saved /\ left' = left
      /\ windows' = windows /\ cut' = cut /\ job' = job /\ sessions' = sessions
    BY DEF Close, Release, OneHolder
<1>2. /\ proc' \in [Procs -> ProcState]
      /\ proc'[i].at = "closed" /\ proc'[i].table = proc[i].table /\ proc'[i].began = proc[i].began
      /\ \A j \in Procs : j # i => proc'[j] = proc[j]
    <2>1. proc' = [proc EXCEPT ![i] = [proc[i] EXCEPT !.at = "closed"]]
        BY DEF Close
    <2> QED
        BY <2>1, PartsType DEF SessionsTypeOK, ProcState
<1>3. \A j \in Procs : j # i => proc[j].at \notin {"scan", "watch", "closing", "saved"}
    BY <1>1 DEF OneHolder
<1>T. SessionsTypeOK'
    BY <1>1, <1>2 DEF SessionsTypeOK, ProcState
<1>H. OneHolder'
    BY <1>1, <1>2, <1>3 DEF OneHolder
<1>S. \A q \in Files : SavedOnce(q)'
    BY <1>1 DEF SavedOnce
<1>P. ASSUME NEW j \in Procs, NEW q \in Files PROVE PathInv(j, q)'
    <2>1. PathInv(j, q) /\ proc'[j].at \notin {"scan", "watch", "closing"}
        BY <1>2, <1>3
    <2>2. /\ proc'[j].table = proc[j].table /\ proc'[j].began = proc[j].began
          /\ proc'[j].at = "down" => proc[j].at = "down"
        BY <1>2
    <2>3. proc[j].at \notin {"scan", "watch"}
        BY <1>3
    <2> QED
        BY <2>1, <2>2, <2>3, <1>1 DEF PathInv, NothingInvented, AheadOfSaved, JobsForward, OnlyCutGoOn, ScanProgress
<1> QED
    BY <1>T, <1>H, <1>S, <1>P

\* ScanAll returns after the last of its goroutines.
LEMMA ScanReturnsKeeps ==
    ASSUME SessionsInv, NEW i \in Procs, ScanReturns(i)
    PROVE  SessionsInv'
<1> USE DEF SessionsInv
<1>1. /\ proc[i].at = "scan" /\ proc[i].todo = {} /\ \A q \in Files : job[i][q].at = "none"
      /\ repo' = repo /\ saved' = saved /\ holder' = holder /\ left' = left
      /\ windows' = windows /\ cut' = cut /\ job' = job /\ sessions' = sessions
    BY DEF ScanReturns, Scanned, UnderWay
<1>2. PICK to \in {"closing", "watch"} : proc' = [proc EXCEPT ![i] = [proc[i] EXCEPT !.at = to]]
    BY DEF ScanReturns
<1>3. /\ proc' \in [Procs -> ProcState]
      /\ proc'[i].at = to /\ proc'[i].table = proc[i].table /\ proc'[i].began = proc[i].began
      /\ \A j \in Procs : j # i => proc'[j] = proc[j]
    BY <1>2, PartsType DEF SessionsTypeOK, ProcState
<1>T. SessionsTypeOK'
    BY <1>1, <1>3 DEF SessionsTypeOK, ProcState
<1>H. OneHolder'
    BY <1>1, <1>3 DEF OneHolder
<1>S. \A q \in Files : SavedOnce(q)'
    BY <1>1 DEF SavedOnce
<1>P. ASSUME NEW j \in Procs, NEW q \in Files PROVE PathInv(j, q)'
    <2> USE NumbersType
    <2>1. CASE j # i
        BY <2>1, <1>1, <1>3, UntouchedKept
    <2>2. CASE j = i
        <3>1. PathInv(i, q) /\ job[i][q].at = "none" /\ q \notin proc[i].todo
            BY <1>1
        <3> QED
            BY <3>1, <2>2, <1>1, <1>3 DEF PathInv, NothingInvented, AheadOfSaved, JobsForward, OnlyCutGoOn, ScanProgress
    <2> QED
        BY <2>1, <2>2
<1> QED
    BY <1>T, <1>H, <1>S, <1>P

\* A cancelled scan or watch leaves what is in hand to its goroutines.
LEMMA CancelKeeps ==
    ASSUME SessionsInv, NEW i \in Procs, Cancel(i)
    PROVE  SessionsInv'
<1> USE DEF SessionsInv
<1>1. /\ proc[i].at \in {"scan", "watch"} /\ cut' = cut \cup UnderWay(i)
      /\ proc' = [proc EXCEPT ![i] = [proc[i] EXCEPT !.at = "closing"]]
      /\ repo' = repo /\ saved' = saved /\ holder' = holder /\ left' = left
      /\ windows' = windows /\ job' = job /\ sessions' = sessions
    BY DEF Cancel
<1>2. /\ proc' \in [Procs -> ProcState]
      /\ proc'[i].at = "closing" /\ proc'[i].table = proc[i].table /\ proc'[i].began = proc[i].began
      /\ \A j \in Procs : j # i => proc'[j] = proc[j]
    BY <1>1, PartsType DEF SessionsTypeOK, ProcState
<1>3. cut \subseteq cut' /\ cut' \subseteq Files /\ \A q \in Files : job[i][q].at # "none" => q \in cut'
    BY <1>1 DEF UnderWay, SessionsTypeOK
<1>T. SessionsTypeOK'
    BY <1>1, <1>2, <1>3 DEF SessionsTypeOK, ProcState
<1>H. OneHolder'
    BY <1>1, <1>2 DEF OneHolder
<1>S. \A q \in Files : SavedOnce(q)'
    BY <1>1, <1>3 DEF SavedOnce
<1>P. ASSUME NEW j \in Procs, NEW q \in Files PROVE PathInv(j, q)'
    <2> USE NumbersType
    <2>1. CASE j # i
        BY <2>1, <1>1, <1>2, <1>3, UntouchedKept
    <2>2. CASE j = i
        <3>1. PathInv(i, q)
            OBVIOUS
        <3> QED
            BY <3>1, <2>2, <1>1, <1>2, <1>3 DEF PathInv, NothingInvented, AheadOfSaved, JobsForward, OnlyCutGoOn, ScanProgress
    <2> QED
        BY <2>1, <2>2
<1> QED
    BY <1>T, <1>H, <1>S, <1>P

\* A process that ends takes its goroutines with it; its lock is released, or
\* stays as a file that is nobody's.
LEMMA ExitKeeps ==
    ASSUME SessionsInv, NEW i \in Procs, Exit(i)
    PROVE  SessionsInv'
<1> USE DEF SessionsInv
<1>1. /\ proc[i].at # "down"
      /\ repo' = repo /\ saved' = saved /\ windows' = windows /\ cut' = cut /\ sessions' = sessions
    BY DEF Exit
<1>2. /\ proc' \in [Procs -> ProcState] /\ proc'[i] = Down
      /\ \A j \in Procs : j # i => proc'[j] = proc[j]
    BY DownType DEF Exit, SessionsTypeOK, ProcState
<1>3. /\ job' \in [Procs -> [Files -> JobState]] /\ \A q \in Files : job'[i][q] = NoJob
      /\ \A j \in Procs : j # i => job'[j] = job[j]
    BY DownType DEF Exit, SessionsTypeOK, JobState
<1>4. proc'[i].at = "down"
    BY <1>2 DEF Down
<1>5. OneHolder' /\ holder' \in (Procs \cup {Nobody}) /\ left' \in BOOLEAN
    <2>1. CASE windows
        <3>1. holder' = holder /\ left' = (left \/ holder = i)
            BY <2>1, Zenon DEF Exit
        <3>2. \A j \in Procs : proc'[j].at \in {"scan", "watch", "closing", "saved"} => holder' = j
            BY <3>1, <1>2, <1>4 DEF OneHolder
        <3>3. CASE left
            BY <3>1, <3>2, <3>3, <1>2, <1>4 DEF OneHolder, SessionsTypeOK
        <3>4. CASE ~left
            BY <3>1, <3>2, <3>4, <1>2, <1>4 DEF OneHolder, SessionsTypeOK
        <3> QED
            BY <3>3, <3>4
    <2>2. CASE ~windows
        <3>1. holder' = (IF holder = i THEN Nobody ELSE holder) /\ left' = left
            BY <2>2, Zenon DEF Exit, Release
        <3>2. \A j \in Procs : proc'[j].at \in {"scan", "watch", "closing", "saved"} => holder' = j
            BY <3>1, <1>2, <1>4 DEF OneHolder
        <3>3. left => holder # i
            BY <1>1 DEF OneHolder
        <3> QED
            BY <3>1, <3>2, <3>3, <1>2, <1>4 DEF OneHolder, SessionsTypeOK
    <2> QED
        BY <2>1, <2>2
<1>T. SessionsTypeOK'
    BY <1>1, <1>2, <1>3, <1>5 DEF SessionsTypeOK, ProcState, JobState
<1>S. \A q \in Files : SavedOnce(q)'
    BY <1>1 DEF SavedOnce
<1>P. ASSUME NEW j \in Procs, NEW q \in Files PROVE PathInv(j, q)'
    <2> USE NumbersType
    <2>1. CASE j # i
        <3>1. proc'[j] = proc[j] /\ job'[j][q] = job[j][q] /\ cut \subseteq cut' /\ repo'[q] \in Nat /\ repo[q] <= repo'[q]
            BY <2>1, <1>1, <1>2, <1>3
        <3> QED
            BY <3>1, <1>1, UntouchedKept
    <2>2. CASE j = i
        <3>1. proc'[i].table[q].hash = 0 /\ proc'[i].table[q].symbols = 0 /\ proc'[i].began[q] = 0
            BY <1>2 DEF Down, Empty, Unknown
        <3>2. job'[i][q].at = "none" /\ job'[i][q].version = 0
            BY <1>3 DEF NoJob
        <3> QED
            BY <3>1, <3>2, <2>2, <1>1, <1>4 DEF PathInv, NothingInvented, AheadOfSaved, JobsForward, OnlyCutGoOn, ScanProgress
    <2> QED
        BY <2>1, <2>2
<1> QED
    BY <1>T, <1>5, <1>S, <1>P

\* The world changes a file, removes a lock or damages the index file.
LEMMA WorldKeeps ==
    ASSUME SessionsInv, (\E p \in Files : ChangeFile(p)) \/ RemoveLock \/ Damage
    PROVE  SessionsInv'
<1> USE DEF SessionsInv
<1>1. ASSUME NEW p \in Files, ChangeFile(p) PROVE SessionsInv'
    <2>1. /\ repo' = [repo EXCEPT ![p] = repo[p] + 1] /\ repo[p] <= MaxEdits
          /\ saved' = saved /\ holder' = holder /\ left' = left /\ windows' = windows
          /\ proc' = proc /\ job' = job /\ cut' = cut /\ sessions' = sessions
        BY <1>1 DEF ChangeFile
    <2>2. repo[p] \in Nat /\ repo[p] + 1 \in Versions \ {0}
        <3>1. repo[p] \in Versions
            BY DEF SessionsTypeOK
        <3> QED
            BY <2>1, <3>1, SessionsAssumption DEF Versions
    <2>3. \A q \in Files : repo'[q] \in Nat /\ repo[q] <= repo'[q]
        <3>1. \A q \in Files : repo[q] \in Nat /\ repo'[q] = IF q = p THEN repo[p] + 1 ELSE repo[q]
            BY <2>1, VersionsType DEF SessionsTypeOK
        <3> QED
            BY <3>1, <2>2
    <2>4. SessionsTypeOK' /\ OneHolder'
        BY <2>1, <2>2 DEF SessionsTypeOK, OneHolder
    <2>5. ASSUME NEW q \in Files PROVE SavedOnce(q)'
        <3>1. saved # Unreadable => saved[q].hash \in Nat
            BY VersionsType DEF SessionsTypeOK, Tables
        <3>2. repo[q] \in Nat
            BY VersionsType DEF SessionsTypeOK
        <3> QED
            BY <3>1, <3>2, <2>1, <2>3 DEF SavedOnce
    <2>6. \A j \in Procs, q \in Files : PathInv(j, q)'
        BY <2>1, <2>3, UntouchedKept
    <2> QED
        BY <2>4, <2>5, <2>6
<1>2. CASE RemoveLock
    <2>1. /\ left /\ ~left' /\ left' \in BOOLEAN /\ holder' = Nobody
          /\ repo' = repo /\ saved' = saved /\ windows' = windows
          /\ proc' = proc /\ job' = job /\ cut' = cut /\ sessions' = sessions
        BY <1>2, Zenon DEF RemoveLock
    <2>2. SessionsTypeOK'
        BY <2>1 DEF SessionsTypeOK
    <2>3. OneHolder'
        BY <2>1 DEF OneHolder
    <2>4. \A q \in Files : SavedOnce(q)'
        BY <2>1 DEF SavedOnce
    <2>5. ASSUME NEW j \in Procs, NEW q \in Files PROVE PathInv(j, q)'
        BY <2>1, UntouchedKept, NumbersType
    <2> QED
        BY <2>2, <2>3, <2>4, <2>5
<1>3. CASE Damage
    <2>1. /\ saved' = Unreadable
          /\ repo' = repo /\ holder' = holder /\ left' = left /\ windows' = windows
          /\ proc' = proc /\ job' = job /\ cut' = cut /\ sessions' = sessions
        BY <1>3 DEF Damage
    <2>2. SessionsTypeOK' /\ OneHolder' /\ \A q \in Files : SavedOnce(q)'
        BY <2>1 DEF SessionsTypeOK, OneHolder, SavedOnce
    <2>3. \A j \in Procs, q \in Files : PathInv(j, q)'
        BY <2>1 DEF PathInv, NothingInvented, AheadOfSaved, JobsForward, OnlyCutGoOn, ScanProgress
    <2> QED
        BY <2>2, <2>3
<1> QED
    BY <1>1, <1>2, <1>3

LEMMA SessionsStep == SessionsInv /\ [SessionsNext]_sessionsVars => SessionsInv'
<1> SUFFICES ASSUME SessionsInv, [SessionsNext]_sessionsVars PROVE SessionsInv'
    OBVIOUS
<1>1. ASSUME NEW i \in Procs, Open(i) \/ Close(i) \/ ScanReturns(i) \/ Cancel(i) \/ Exit(i) PROVE SessionsInv'
    <2>1. CASE Close(i)
        BY <2>1, SaveKeeps, ReleaseKeeps DEF Close
    <2> QED
        BY <1>1, <2>1, OpenKeeps, ScanReturnsKeeps, CancelKeeps, ExitKeeps
<1>2. ASSUME NEW i \in Procs, NEW p \in Files, Dispatch(i, p) \/ HandleChange(i, p) \/ StoreRecord(i, p) \/ StoreSymbols(i, p)
      PROVE  SessionsInv'
    BY <1>2, DispatchKeeps, HandleChangeKeeps, StoreRecordKeeps, StoreSymbolsKeeps
<1>3. CASE UNCHANGED sessionsVars
    BY <1>3 DEF sessionsVars, SessionsInv, SessionsTypeOK, OneHolder, SavedOnce, PathInv,
        NothingInvented, AheadOfSaved, JobsForward, OnlyCutGoOn, ScanProgress
<1> QED
    BY <1>1, <1>2, <1>3, WorldKeeps DEF SessionsNext

\* Who replaces the index file holds the directory, and has what was in it.
LEMMA SavedGrows ==
    ASSUME SessionsInv, [SessionsNext]_sessionsVars, saved # Unreadable, saved' # Unreadable, NEW p \in Files
    PROVE  saved[p].hash <= saved'[p].hash
<1>0. saved[p].hash \in Nat
    BY VersionsType DEF SessionsInv, SessionsTypeOK, Tables
<1>1. CASE \E i \in Procs : proc[i].at = "closing" /\ saved' \in {saved, proc[i].table}
    BY <1>0, <1>1 DEF SessionsInv, PathInv, AheadOfSaved
<1>2. saved' = saved \/ saved' = Unreadable \/ \E i \in Procs : proc[i].at = "closing" /\ saved' \in {saved, proc[i].table}
    BY DEF SessionsNext, sessionsVars, Open, Close, ScanReturns, Cancel, Exit, Dispatch, HandleChange,
        StoreRecord, StoreSymbols, ChangeFile, RemoveLock, Damage
<1> QED
    BY <1>0, <1>1, <1>2

\* From session to session the index file of the file store never goes back,
\* its symbols lag behind their hash only in files at which a scan was cut off,
\* and a whole scan ends with every file stored as it was when it began, or later:
\* for any number of processes, files, changes and sessions.
THEOREM SessionsKeepTheirFiles == SessionsSpec => SessionsKeepFiles
<1>1. SessionsInv => WholeUnlessCut
    BY DEF SessionsInv, WholeUnlessCut, SavedOnce
<1>2. SessionsInv => ScanCatchesUp
    <2>1. ASSUME SessionsInv, NEW i \in Procs, proc[i].at = "watch", NEW p \in Files
          PROVE  /\ proc[i].table[p].hash >= proc[i].began[p]
                 /\ p \notin cut /\ job[i][p].at = "none" => proc[i].table[p].symbols >= proc[i].began[p]
        BY <2>1, NumbersType DEF SessionsInv, PathInv, JobsForward, ScanProgress
    <2> QED
        BY <2>1 DEF ScanCatchesUp
<1>3. SessionsInv /\ [SessionsNext]_sessionsVars =>
        [saved # Unreadable /\ saved' # Unreadable => \A p \in Files : saved[p].hash <= saved'[p].hash]_sessionsVars
    BY SavedGrows
<1> QED
    BY <1>1, <1>2, <1>3, SessionsStart, SessionsStep, PTL DEF SessionsSpec, SessionsKeepFiles, SavedForward
=============================================================================
