-------------------------- MODULE SqliteStoreProofs --------------------------
(***************************************************************************)
(* TypeOK and LayersWhole hold of SqliteStore for any documents, batches   *)
(* and bound.  Sound is what every statement keeps of a database, in a     *)
(* transaction or outside; the statements are treated one lemma each, and  *)
(* the actions put them together.  With what each statement leaves, every  *)
(* step is one that DurableStore allows, or one it does not see.           *)
(*                                                                         *)
(* At the end, the Redis layer that lies over an SQL store.                *)
(***************************************************************************)
EXTENDS SqliteStore, RedisLayer, FiniteSetTheorems, SublistProofs

\* Every identifier in use was handed out by its counter.
Counted(x) ==
    /\ \A p \in Paths : x.files[p] # NoFile => x.files[p].id <= x.lastFile
    /\ \A c \in x.classes : c.id <= x.lastClass /\ c.file <= x.lastFile
    /\ \A m \in x.methods : m.class <= x.lastClass
    /\ \A k \in x.calls : k.file <= x.lastFile

\* One identifier, one file or class.
IDsDistinct(x) ==
    /\ \A p, q \in Paths :
          x.files[p] # NoFile /\ x.files[q] # NoFile /\ x.files[p].id = x.files[q].id => p = q
    /\ \A c, d \in x.classes : c.id = d.id => c = d

Layered(x) == \A p \in Paths : x.files[p] # NoFile => WholeFile(x, p, x.files[p].id)

Sound(x) == Counted(x) /\ IDsDistinct(x) /\ Layered(x)

Filed(x, p, f) == x.files[p] # NoFile /\ x.files[p].id = f

\* In x and y the file f shows the same rows.
SameLayers(x, y, f) ==
    /\ ClassesOf(y, f) = ClassesOf(x, f)
    /\ \A c \in ClassesOf(x, f) : NamesOf(y, c) = NamesOf(x, c)
    /\ CallsOf(y, f) = CallsOf(x, f)

\* From x to y no file record changes, and no rows but those of file f.
OnlyRowsOf(f, x, y) ==
    y.files = x.files /\ y.torn = x.torn /\ \A g : g # f => SameLayers(x, y, g)

\* An UpsertIR has its file record in place; while it writes methods, the
\* classes of the file are those of its document, and the ones still in groups
\* have no methods.
Upserting ==
    up # Idle =>
        /\ tx = NoTx
        /\ up.doc \in Docs
        /\ Filed(db, up.doc.path, up.file)
        /\ up.stage = "methods" =>
              /\ up.groups \subseteq ClassesOf(db, up.file)
              /\ OneVersion(db, up.file, up.doc)

\* The database as a batch sees it is sound too.
Batching == (tx # NoTx => Sound(tx)) /\ (tx = NoTx => bulk = <<>>)

Inv == TypeOK /\ Sound(db) /\ Upserting /\ Batching

-----------------------------------------------------------------------------
(* The statements *)

LEMMA DocType == \A d \in Docs : d.path \in Paths /\ d.hash \in Hashes /\ d.classes \in SUBSET ClassNames
                    /\ d.calls \in SUBSET Calls /\ d.imports \in SUBSET Imports
                    /\ d.methods \in SUBSET [class : ClassNames, name : MethodNames]
                    /\ IsFiniteSet(d.classes)
  BY IRAssumption DEF IRDocument

LEMMA FileType == \A r \in FileRecord : r # NoFile /\ r.id \in Nat
  BY SqliteStoreAssumption DEF FileRecord, ID

\* The rows a path is judged by, whatever else changes.
LEMMA SameRows ==
  ASSUME NEW x, NEW y, x.classes = y.classes, x.methods = y.methods, x.calls = y.calls,
         NEW p, NEW f, WholeFile(x, p, f)
  PROVE  WholeFile(y, p, f)
  <1>1. ClassesOf(x, f) = ClassesOf(y, f) /\ CallsOf(x, f) = CallsOf(y, f)
    BY DEF ClassesOf, CallsOf
  <1>2. \A c : NamesOf(x, c) = NamesOf(y, c)
    BY DEF NamesOf, MethodsOf
  <1>3. Classes(x, f) = Classes(y, f) /\ Calling(x, f) = Calling(y, f)
    BY <1>1 DEF Classes, Calling
  <1>4. \A d : OneVersion(x, f, d) => OneVersion(y, f, d)
    BY <1>1, <1>2, <1>3 DEF OneVersion
  <1> QED BY <1>1, <1>3, <1>4 DEF WholeFile

\* y is x with a file record for p: a new one, with no rows yet, or the one it
\* had, with the hash h.
PutFileShown(x, p, h, y) ==
    /\ \A q \in Paths : q # p => y.files[q] = x.files[q]
    /\ y.files[p].hash = h
    /\ y.files[p].imports = IF x.files[p] = NoFile THEN {} ELSE x.files[p].imports
    /\ x.files[p] # NoFile => y.files[p].id = x.files[p].id
    /\ x.files[p] = NoFile => ClassesOf(y, y.files[p].id) = {} /\ CallsOf(y, y.files[p].id) = {}
    /\ y.classes = x.classes /\ y.methods = x.methods /\ y.calls = x.calls /\ y.torn = x.torn

LEMMA PutFileSound ==
  ASSUME NEW x \in Database, Sound(x), NEW p \in Paths, NEW h \in Hashes \cup {NoHash}
  PROVE  /\ PutFile(x, p, h) \in Database
         /\ Sound(PutFile(x, p, h))
         /\ PutFile(x, p, h).files[p] \in FileRecord
         /\ PutFileShown(x, p, h, PutFile(x, p, h))
  <1> DEFINE y == PutFile(x, p, h)
  <1>1. CASE x.files[p] = NoFile
    <2> DEFINE r == [id |-> x.lastFile + 1, hash |-> h, imports |-> {}]
    <2>1. y = [x EXCEPT !.files[p] = r, !.lastFile = x.lastFile + 1]
      BY <1>1 DEF PutFile
    <2>2. x.lastFile \in Nat /\ x.lastFile + 1 \in ID /\ x.files \in [Paths -> FileRecord \cup {NoFile}]
      BY DEF Database, ID
    <2>3. r \in FileRecord
      BY <2>2 DEF FileRecord
    <2> HIDE DEF r
    <2>4. /\ y.files = [x.files EXCEPT ![p] = r] /\ y.lastFile = x.lastFile + 1
          /\ y.classes = x.classes /\ y.methods = x.methods /\ y.calls = x.calls
          /\ y.lastClass = x.lastClass /\ y.torn = x.torn
      BY <2>1 DEF Database
    <2>5. y \in Database
      <3>1. [x.files EXCEPT ![p] = r] \in [Paths -> FileRecord \cup {NoFile}]
        BY <2>2, <2>3
      <3>2. y = [x EXCEPT !.files = [x.files EXCEPT ![p] = r], !.lastFile = x.lastFile + 1]
        BY <2>1
      <3>3. x.lastFile + 1 \in Nat
        BY <2>2
      <3> HIDE DEF y
      <3> QED BY <3>1, <3>2, <3>3 DEF Database
    <2>6. r.id = x.lastFile + 1 /\ r.hash = h /\ r.imports = {}
      BY DEF r
    <2> HIDE DEF y
    <2>7. \A q \in Paths : y.files[q] = IF q = p THEN r ELSE x.files[q]
      BY <2>2, <2>4
    <2>8. \A q \in Paths : x.files[q] # NoFile => x.files[q].id \in Nat /\ x.files[q].id <= x.lastFile
      BY <2>2, FileType DEF Sound, Counted
    <2>9. Counted(y)
      <3>1. \A q \in Paths : y.files[q] # NoFile => y.files[q].id <= y.lastFile
        BY <2>2, <2>4, <2>6, <2>7, <2>8
      <3>2. \A c \in x.classes : c.file \in Nat
        BY DEF Database, ClassRecord, ID
      <3>3. \A c \in y.classes : c.id <= y.lastClass /\ c.file <= y.lastFile
        BY <2>2, <2>4, <3>2 DEF Sound, Counted
      <3>4. \A k \in x.calls : k.file \in Nat
        BY DEF Database, ID
      <3>5. \A k \in y.calls : k.file <= y.lastFile
        BY <2>2, <2>4, <3>4 DEF Sound, Counted
      <3>6. \A m \in y.methods : m.class <= y.lastClass
        BY <2>4 DEF Sound, Counted
      <3> QED BY <3>1, <3>3, <3>5, <3>6 DEF Counted
    <2>10. IDsDistinct(y)
      <3>1. ASSUME NEW q \in Paths, NEW s \in Paths, y.files[q] # NoFile, y.files[s] # NoFile,
                   y.files[q].id = y.files[s].id
            PROVE  q = s
        BY <2>2, <2>6, <2>7, <2>8, <3>1 DEF Sound, IDsDistinct
      <3> QED BY <2>4, <3>1 DEF Sound, IDsDistinct
    <2>11a. ClassesOf(y, r.id) = {} /\ CallsOf(y, r.id) = {}
      <3>1. \A c \in y.classes : c.file \in Nat /\ c.file <= x.lastFile
        BY <2>4 DEF Sound, Counted, Database, ClassRecord, ID
      <3>2. \A k \in y.calls : k.file \in Nat /\ k.file <= x.lastFile
        BY <2>4 DEF Sound, Counted, Database, ID
      <3> QED BY <2>2, <2>6, <3>1, <3>2 DEF ClassesOf, CallsOf
    <2>11. Layered(y)
      <3>1. ASSUME NEW q \in Paths, q # p, y.files[q] # NoFile
            PROVE  WholeFile(y, q, y.files[q].id)
        <4>1. WholeFile(x, q, x.files[q].id)
          BY <2>7, <3>1 DEF Sound, Layered
        <4> QED BY <2>4, <2>7, <3>1, <4>1, SameRows
      <3>2. WholeFile(y, p, r.id)
        BY <2>11a DEF WholeFile
      <3> QED BY <2>7, <3>1, <3>2 DEF Layered
    <2>12. PutFileShown(x, p, h, y)
      BY <1>1, <2>4, <2>6, <2>7, <2>11a DEF PutFileShown
    <2> QED BY <2>3, <2>5, <2>7, <2>9, <2>10, <2>11, <2>12 DEF Sound, y
  <1>2. CASE x.files[p] # NoFile
    <2>1. y = [x EXCEPT !.files = [x.files EXCEPT ![p] = [x.files[p] EXCEPT !.hash = h]]]
      BY <1>2 DEF PutFile
    <2> DEFINE r == [x.files[p] EXCEPT !.hash = h]
    <2>2. x.files \in [Paths -> FileRecord \cup {NoFile}] /\ x.files[p] \in FileRecord
      BY <1>2 DEF Database
    <2>3. r \in FileRecord /\ r.id = x.files[p].id /\ r.hash = h /\ r.imports = x.files[p].imports
      BY <2>2 DEF FileRecord
    <2> HIDE DEF r
    <2>4. /\ y.files = [x.files EXCEPT ![p] = r] /\ y.lastFile = x.lastFile
          /\ y.classes = x.classes /\ y.methods = x.methods /\ y.calls = x.calls
          /\ y.lastClass = x.lastClass /\ y.torn = x.torn
      BY <2>1 DEF Database, r
    <2>5. y \in Database
      BY <2>1, <2>2, <2>3 DEF Database, r
    <2> HIDE DEF y
    <2>6. \A q \in Paths : y.files[q] = IF q = p THEN r ELSE x.files[q]
      BY <2>2, <2>4
    <2>7. \A q \in Paths : (y.files[q] # NoFile <=> x.files[q] # NoFile) /\ (y.files[q] # NoFile => y.files[q].id = x.files[q].id)
      BY <2>3, <2>6, <1>2, FileType
    <2>8. Counted(y)
      BY <2>4, <2>7 DEF Sound, Counted
    <2>9. IDsDistinct(y)
      BY <2>4, <2>7 DEF Sound, IDsDistinct
    <2>10. Layered(y)
      <3>1. ASSUME NEW q \in Paths, y.files[q] # NoFile
            PROVE  WholeFile(y, q, y.files[q].id)
        <4>1. WholeFile(x, q, x.files[q].id)
          BY <2>7, <3>1 DEF Sound, Layered
        <4> QED BY <2>4, <2>7, <3>1, <4>1, SameRows
      <3> QED BY <3>1 DEF Layered
    <2>11. PutFileShown(x, p, h, y)
      BY <1>2, <2>3, <2>4, <2>6 DEF PutFileShown
    <2> QED BY <2>3, <2>5, <2>6, <2>8, <2>9, <2>10, <2>11 DEF Sound, y
  <1> QED BY <1>1, <1>2

LEMMA RowTypes ==
  ASSUME NEW x \in Database
  PROVE  /\ x.files \in [Paths -> FileRecord \cup {NoFile}]
         /\ x.lastFile \in Nat /\ x.lastClass \in Nat
         /\ \A c \in x.classes : c \in ClassRecord /\ c.id \in Nat /\ c.file \in Nat
         /\ \A m \in x.methods : m.class \in Nat
         /\ \A k \in x.calls : k.file \in Nat
         /\ \A p \in Paths : x.files[p] # NoFile => x.files[p] \in FileRecord /\ x.files[p].id \in Nat
  BY DEF Database, ClassRecord, FileRecord, ID

LEMMA PutClassesSound ==
  ASSUME NEW x \in Database, Sound(x), NEW d \in Docs, NEW f, Filed(x, d.path, f),
         NEW num \in FreshIDs(x, d.classes)
  PROVE  /\ PutClasses(x, f, num) \in Database
         /\ Sound(PutClasses(x, f, num))
         /\ PutClasses(x, f, num).files = x.files
         /\ OneVersion(PutClasses(x, f, num), f, d)
         /\ \A c \in ClassesOf(PutClasses(x, f, num), f) : c.name \in d.classes /\ c.id = num[c.name]
         /\ OnlyRowsOf(f, x, PutClasses(x, f, num))
         /\ CallsOf(PutClasses(x, f, num), f) = CallsOf(x, f)
         /\ \A c \in ClassesOf(PutClasses(x, f, num), f) : NamesOf(PutClasses(x, f, num), c) = {}
  <1> DEFINE y == PutClasses(x, f, num)
  <1> DEFINE new == {[id |-> num[n], file |-> f, name |-> n] : n \in d.classes}
  <1> DEFINE step == Cardinality(d.classes)
  <1>1. d.path \in Paths /\ d.classes \in SUBSET ClassNames /\ step \in Nat
    BY DocType, FS_CardinalityType
  <1>2. /\ num \in [d.classes -> (x.lastClass + 1) .. (x.lastClass + step)]
        /\ \A a, b \in d.classes : num[a] = num[b] => a = b
    BY DEF FreshIDs
  <1>3. DOMAIN num = d.classes
    BY <1>2
  <1>4. f \in ID /\ f \in Nat /\ f <= x.lastFile
    BY <1>1, RowTypes DEF Filed, FileRecord, ID, Sound, Counted
  <1>5. y = [x EXCEPT !.classes = (x.classes \ ClassesOf(x, f)) \cup new, !.lastClass = x.lastClass + step]
    BY <1>3 DEF PutClasses
  <1>6. \A n \in d.classes : num[n] \in ID /\ num[n] > x.lastClass /\ num[n] <= x.lastClass + step
    BY <1>1, <1>2, RowTypes DEF ID
  <1> HIDE DEF step
  <1>7. new \subseteq ClassRecord
    BY <1>1, <1>4, <1>6 DEF ClassRecord
  <1>8. \A c \in new : c.name \in d.classes /\ c.id = num[c.name] /\ c.file = f
    OBVIOUS
  <1>9. \A n \in d.classes : \E c \in new : c.name = n
    <2>1. ASSUME NEW n \in d.classes PROVE \E c \in new : c.name = n
      <3>1. [id |-> num[n], file |-> f, name |-> n] \in new
        OBVIOUS
      <3>2. [id |-> num[n], file |-> f, name |-> n].name = n
        OBVIOUS
      <3> HIDE DEF new
      <3> QED BY <3>1, <3>2
    <2> QED BY <2>1
  <1>9a. \A b, c \in new : b.name = c.name => b = c
    OBVIOUS
  <1> HIDE DEF new
  <1>10. y \in Database
    <2>1. (x.classes \ ClassesOf(x, f)) \cup new \in SUBSET ClassRecord
      BY <1>7, RowTypes
    <2>2. x.lastClass + step \in Nat
      BY <1>1, RowTypes
    <2> HIDE DEF y
    <2> QED BY <1>5, <2>1, <2>2 DEF Database
  <1>11. /\ y.files = x.files /\ y.lastFile = x.lastFile /\ y.methods = x.methods /\ y.calls = x.calls
         /\ y.classes = (x.classes \ ClassesOf(x, f)) \cup new /\ y.lastClass = x.lastClass + step
         /\ y.torn = x.torn
    BY <1>5 DEF Database
  <1> HIDE DEF y
  <1>12. ClassesOf(y, f) = new
    BY <1>8, <1>11 DEF ClassesOf
  <1>13. \A c \in new : NamesOf(y, c) = {}
    BY <1>6, <1>8, <1>11, RowTypes DEF NamesOf, MethodsOf, Sound, Counted
  <1>14. OneVersion(y, f, d)
    <2>1. Classes(y, f) = d.classes
      BY <1>8, <1>9, <1>12 DEF Classes
    <2> QED BY <1>12, <1>13, <2>1 DEF OneVersion
  <1>15. Counted(y)
    <2>1. \A p \in Paths : y.files[p] # NoFile => y.files[p].id <= y.lastFile
      BY <1>11 DEF Sound, Counted
    <2>2. \A c \in y.classes : c.id <= y.lastClass /\ c.file <= y.lastFile
      BY <1>1, <1>4, <1>6, <1>8, <1>11, RowTypes DEF Sound, Counted
    <2>3. \A m \in y.methods : m.class <= y.lastClass
      BY <1>1, <1>11, RowTypes DEF Sound, Counted
    <2>4. \A k \in y.calls : k.file <= y.lastFile
      BY <1>11 DEF Sound, Counted
    <2> QED BY <2>1, <2>2, <2>3, <2>4 DEF Counted
  <1>16. IDsDistinct(y)
    <2>1. ASSUME NEW b \in y.classes, NEW c \in y.classes, b.id = c.id PROVE b = c
      <3>1. CASE b \in new /\ c \in new
        BY <1>2, <1>8, <1>9a, <2>1, <3>1
      <3>2. CASE b \in new /\ c \notin new
        BY <1>6, <1>8, <1>11, <2>1, <3>2, RowTypes DEF Sound, Counted
      <3>3. CASE b \notin new /\ c \in new
        BY <1>6, <1>8, <1>11, <2>1, <3>3, RowTypes DEF Sound, Counted
      <3>4. CASE b \notin new /\ c \notin new
        BY <1>11, <2>1, <3>4 DEF Sound, IDsDistinct
      <3> QED BY <3>1, <3>2, <3>3, <3>4
    <2> QED BY <1>11, <2>1 DEF Sound, IDsDistinct
  <1>17. Layered(y)
    <2>1. ASSUME NEW p \in Paths, y.files[p] # NoFile, p # d.path
          PROVE  WholeFile(y, p, y.files[p].id)
      <3> DEFINE g == y.files[p].id
      <3>1. g # f /\ WholeFile(x, p, g)
        BY <1>1, <1>11, <2>1 DEF Sound, IDsDistinct, Layered, Filed
      <3> HIDE DEF g
      <3>2. ClassesOf(y, g) = ClassesOf(x, g)
        BY <1>8, <1>11, <3>1 DEF ClassesOf
      <3>3. CallsOf(y, g) = CallsOf(x, g) /\ \A c : NamesOf(y, c) = NamesOf(x, c)
        BY <1>11 DEF CallsOf, NamesOf, MethodsOf
      <3>4. WholeFile(y, p, g)
        BY <3>1, <3>2, <3>3 DEF WholeFile, OneVersion, Classes, Calling
      <3> QED BY <3>4 DEF g
    <2>2. WholeFile(y, d.path, f)
      <3>1. CallsOf(y, f) = CallsOf(x, f)
        BY <1>11 DEF CallsOf
      <3>2. WholeFile(x, d.path, f)
        BY <1>1 DEF Sound, Layered, Filed
      <3>3. d \in Versions(d.path)
        BY DEF Versions
      <3> QED BY <1>14, <3>1, <3>2, <3>3 DEF WholeFile, Calling
    <2> QED BY <1>1, <1>11, <2>1, <2>2 DEF Layered, Filed
  <1>18. \A g : CallsOf(y, g) = CallsOf(x, g)
    BY <1>11 DEF CallsOf
  <1>19. OnlyRowsOf(f, x, y)
    <2>1. \A g : g # f => ClassesOf(y, g) = ClassesOf(x, g)
      BY <1>8, <1>11 DEF ClassesOf
    <2>2. \A c : NamesOf(y, c) = NamesOf(x, c)
      BY <1>11 DEF NamesOf, MethodsOf
    <2> QED BY <1>11, <1>18, <2>1, <2>2 DEF OnlyRowsOf, SameLayers
  <1> QED BY <1>8, <1>10, <1>11, <1>12, <1>13, <1>14, <1>15, <1>16, <1>17, <1>18, <1>19 DEF Sound, y

\* The methods of one class are replaced, the classes of its file being those
\* of d.
LEMMA PutMethodsSound ==
  ASSUME NEW x \in Database, Sound(x), NEW d \in Docs, NEW f, Filed(x, d.path, f),
         OneVersion(x, f, d), NEW c \in ClassesOf(x, f)
  PROVE  /\ PutMethods(x, c, d) \in Database
         /\ Sound(PutMethods(x, c, d))
         /\ PutMethods(x, c, d).files = x.files
         /\ PutMethods(x, c, d).classes = x.classes
         /\ OneVersion(PutMethods(x, c, d), f, d)
         /\ OnlyRowsOf(f, x, PutMethods(x, c, d))
         /\ CallsOf(PutMethods(x, c, d), f) = CallsOf(x, f)
         /\ NamesOf(PutMethods(x, c, d), c) = GroupOf(d, c.name)
         /\ \A b \in x.classes : b # c => NamesOf(PutMethods(x, c, d), b) = NamesOf(x, b)
  <1> DEFINE y == PutMethods(x, c, d)
  <1> DEFINE new == [class : {c.id}, name : GroupOf(d, c.name)]
  <1>1. c \in x.classes /\ c.file = f /\ c \in ClassRecord
    BY RowTypes DEF ClassesOf
  <1>2. GroupOf(d, c.name) \subseteq MethodNames
    BY DocType DEF GroupOf
  <1>3. new \subseteq [class : ID, name : MethodNames]
    BY <1>1, <1>2 DEF ClassRecord
  <1>4. \A m \in new : m.class = c.id /\ m.name \in GroupOf(d, c.name)
    OBVIOUS
  <1>5. \A n \in GroupOf(d, c.name) : \E m \in new : m.name = n
    <2>1. ASSUME NEW n \in GroupOf(d, c.name) PROVE \E m \in new : m.name = n
      <3>1. [class |-> c.id, name |-> n] \in new /\ [class |-> c.id, name |-> n].name = n
        OBVIOUS
      <3> HIDE DEF new
      <3> QED BY <3>1
    <2> QED BY <2>1
  <1>6. y = [x EXCEPT !.methods = (x.methods \ MethodsOf(x, c.id)) \cup new]
    BY DEF PutMethods
  <1> HIDE DEF new
  <1>7. y \in Database
    <2>1. (x.methods \ MethodsOf(x, c.id)) \cup new \in SUBSET [class : ID, name : MethodNames]
      BY <1>3 DEF Database
    <2> HIDE DEF y
    <2> QED BY <1>6, <2>1 DEF Database
  <1>8. /\ y.files = x.files /\ y.lastFile = x.lastFile /\ y.lastClass = x.lastClass
        /\ y.classes = x.classes /\ y.calls = x.calls
        /\ y.methods = (x.methods \ MethodsOf(x, c.id)) \cup new /\ y.torn = x.torn
    BY <1>6 DEF Database
  <1> HIDE DEF y
  <1>9. MethodsOf(y, c.id) = new
    BY <1>4, <1>8 DEF MethodsOf
  <1>10. \A b \in x.classes : b # c => MethodsOf(y, b.id) = MethodsOf(x, b.id)
    BY <1>1, <1>4, <1>8 DEF MethodsOf, Sound, IDsDistinct
  <1>11. NamesOf(y, c) = GroupOf(d, c.name)
    BY <1>4, <1>5, <1>9 DEF NamesOf
  <1>12. \A b \in x.classes : b # c => NamesOf(y, b) = NamesOf(x, b)
    BY <1>10 DEF NamesOf
  <1>13. \A g : ClassesOf(y, g) = ClassesOf(x, g) /\ CallsOf(y, g) = CallsOf(x, g)
    BY <1>8 DEF ClassesOf, CallsOf
  <1>14. OneVersion(y, f, d)
    <2>1. \A b \in ClassesOf(y, f) : NamesOf(y, b) \in {{}, GroupOf(d, b.name)}
      BY <1>11, <1>12, <1>13 DEF OneVersion, ClassesOf
    <2>2. Classes(y, f) = d.classes
      BY <1>13 DEF Classes, OneVersion
    <2> QED BY <2>1, <2>2 DEF OneVersion
  <1>15. Counted(y)
    <2>1. \A m \in y.methods : m.class <= y.lastClass
      BY <1>1, <1>4, <1>8 DEF Sound, Counted
    <2> QED BY <1>8, <2>1 DEF Sound, Counted
  <1>16. IDsDistinct(y)
    BY <1>8 DEF Sound, IDsDistinct
  <1>17. Layered(y)
    <2>1. ASSUME NEW p \in Paths, y.files[p] # NoFile, p # d.path
          PROVE  WholeFile(y, p, y.files[p].id)
      <3> DEFINE g == y.files[p].id
      <3>1. g # f /\ WholeFile(x, p, g)
        BY <1>8, <2>1, DocType DEF Sound, IDsDistinct, Layered, Filed
      <3> HIDE DEF g
      <3>2. \A b \in ClassesOf(x, g) : b # c /\ b \in x.classes
        BY <1>1, <3>1 DEF ClassesOf
      <3>3. \A b \in ClassesOf(x, g) : NamesOf(y, b) = NamesOf(x, b)
        BY <1>12, <3>2
      <3>4. \A e : OneVersion(x, g, e) => OneVersion(y, g, e)
        BY <1>13, <3>3 DEF OneVersion, Classes
      <3>5. WholeFile(y, p, g)
        BY <1>13, <3>1, <3>4 DEF WholeFile, Calling
      <3> QED BY <3>5 DEF g
    <2>2. WholeFile(y, d.path, f)
      <3>1. WholeFile(x, d.path, f)
        BY DocType DEF Sound, Layered, Filed
      <3>2. d \in Versions(d.path)
        BY DEF Versions
      <3> QED BY <1>13, <1>14, <3>1, <3>2 DEF WholeFile, Calling
    <2> QED BY <1>8, <2>1, <2>2 DEF Layered, Filed
  <1>18. OnlyRowsOf(f, x, y)
    <2>1. \A g : g # f => \A b \in ClassesOf(x, g) : NamesOf(y, b) = NamesOf(x, b)
      BY <1>1, <1>12 DEF ClassesOf
    <2> QED BY <1>8, <1>13, <2>1 DEF OnlyRowsOf, SameLayers
  <1> QED BY <1>7, <1>8, <1>11, <1>12, <1>13, <1>14, <1>15, <1>16, <1>17, <1>18 DEF Sound, y

LEMMA PutCallsSound ==
  ASSUME NEW x \in Database, Sound(x), NEW d \in Docs, NEW f, Filed(x, d.path, f)
  PROVE  /\ PutCalls(x, f, d) \in Database
         /\ Sound(PutCalls(x, f, d))
         /\ PutCalls(x, f, d).files = x.files
         /\ OnlyRowsOf(f, x, PutCalls(x, f, d))
         /\ Calling(PutCalls(x, f, d), f) = d.calls
         /\ ClassesOf(PutCalls(x, f, d), f) = ClassesOf(x, f)
         /\ \A c : NamesOf(PutCalls(x, f, d), c) = NamesOf(x, c)
  <1> DEFINE y == PutCalls(x, f, d)
  <1> DEFINE new == [file : {f}, call : d.calls]
  <1>1. f \in ID /\ f <= x.lastFile /\ d.path \in Paths /\ d.calls \in SUBSET Calls
    BY DocType, RowTypes DEF Filed, FileRecord, ID, Sound, Counted
  <1>2. new \subseteq [file : ID, call : Calls]
    BY <1>1
  <1>3. \A k \in new : k.file = f /\ k.call \in d.calls
    OBVIOUS
  <1>4. \A n \in d.calls : \E k \in new : k.call = n
    <2>1. ASSUME NEW n \in d.calls PROVE \E k \in new : k.call = n
      <3>1. [file |-> f, call |-> n] \in new /\ [file |-> f, call |-> n].call = n
        OBVIOUS
      <3> HIDE DEF new
      <3> QED BY <3>1
    <2> QED BY <2>1
  <1>5. y = [x EXCEPT !.calls = (x.calls \ CallsOf(x, f)) \cup new]
    BY DEF PutCalls
  <1> HIDE DEF new
  <1>6. y \in Database
    <2>1. (x.calls \ CallsOf(x, f)) \cup new \in SUBSET [file : ID, call : Calls]
      BY <1>2 DEF Database
    <2> HIDE DEF y
    <2> QED BY <1>5, <2>1 DEF Database
  <1>7. /\ y.files = x.files /\ y.lastFile = x.lastFile /\ y.lastClass = x.lastClass
        /\ y.classes = x.classes /\ y.methods = x.methods
        /\ y.calls = (x.calls \ CallsOf(x, f)) \cup new /\ y.torn = x.torn
    BY <1>5 DEF Database
  <1> HIDE DEF y
  <1>8. CallsOf(y, f) = new /\ \A g : g # f => CallsOf(y, g) = CallsOf(x, g)
    BY <1>3, <1>7 DEF CallsOf
  <1>9. Calling(y, f) = d.calls
    BY <1>3, <1>4, <1>8 DEF Calling
  <1>10. Counted(y)
    BY <1>1, <1>3, <1>7 DEF Sound, Counted
  <1>11. IDsDistinct(y)
    BY <1>7 DEF Sound, IDsDistinct
  <1>12. \A g : ClassesOf(y, g) = ClassesOf(x, g) /\ \A c : NamesOf(y, c) = NamesOf(x, c)
    BY <1>7 DEF ClassesOf, NamesOf, MethodsOf
  <1>13. \A g, e : OneVersion(x, g, e) => OneVersion(y, g, e)
    BY <1>12 DEF OneVersion, Classes
  <1>14. Layered(y)
    <2>1. ASSUME NEW p \in Paths, y.files[p] # NoFile
          PROVE  WholeFile(y, p, y.files[p].id)
      <3> DEFINE g == y.files[p].id
      <3>1. WholeFile(x, p, g) /\ (p # d.path => g # f) /\ (p = d.path => g = f)
        BY <1>1, <1>7, <2>1 DEF Sound, IDsDistinct, Layered, Filed
      <3>2. CASE p = d.path
        BY <1>9, <1>12, <1>13, <3>1, <3>2 DEF WholeFile, Versions
      <3>3. CASE p # d.path
        BY <1>8, <1>12, <1>13, <3>1, <3>3 DEF WholeFile, Calling
      <3> QED BY <3>2, <3>3
    <2> QED BY <2>1 DEF Layered
  <1>15. OnlyRowsOf(f, x, y)
    BY <1>7, <1>8, <1>12 DEF OnlyRowsOf, SameLayers
  <1> QED BY <1>6, <1>7, <1>9, <1>10, <1>11, <1>12, <1>14, <1>15 DEF Sound, y

\* Soundness is about rows and the identifiers of files: hashes, imports and
\* torn may change.
LEMMA SameIDs ==
  ASSUME NEW x, NEW y, Sound(x),
         y.classes = x.classes, y.methods = x.methods, y.calls = x.calls,
         y.lastFile = x.lastFile, y.lastClass = x.lastClass,
         \A p \in Paths : y.files[p] # NoFile => x.files[p] # NoFile /\ y.files[p].id = x.files[p].id
  PROVE  Sound(y)
  <1>1. Counted(y)
    BY DEF Sound, Counted
  <1>2. IDsDistinct(y)
    BY DEF Sound, IDsDistinct
  <1>3. Layered(y)
    <2>1. ASSUME NEW p \in Paths, y.files[p] # NoFile
          PROVE  WholeFile(y, p, y.files[p].id)
      <3>1. WholeFile(x, p, x.files[p].id)
        BY <2>1 DEF Sound, Layered
      <3> QED BY <2>1, <3>1, SameRows
    <2> QED BY <2>1 DEF Layered
  <1> QED BY <1>1, <1>2, <1>3 DEF Sound

\* y is x with the imports of d in the record of its path.
PutImportsShown(x, d, y) ==
    /\ \A q \in Paths : q # d.path => y.files[q] = x.files[q]
    /\ x.files[d.path] # NoFile =>
          /\ y.files[d.path] # NoFile
          /\ y.files[d.path].id = x.files[d.path].id
          /\ y.files[d.path].hash = x.files[d.path].hash
          /\ y.files[d.path].imports = KeepImports(d, x.files[d.path].imports)
    /\ y.classes = x.classes /\ y.methods = x.methods /\ y.calls = x.calls /\ y.torn = x.torn

LEMMA PutImportsSound ==
  ASSUME NEW x \in Database, Sound(x), NEW d \in Docs
  PROVE  /\ PutImports(x, d.path, d) \in Database
         /\ Sound(PutImports(x, d.path, d))
         /\ PutImportsShown(x, d, PutImports(x, d.path, d))
  <1> DEFINE y == PutImports(x, d.path, d)
  <1>1. CASE d.imports = {} \/ x.files[d.path] = NoFile
    BY <1>1 DEF PutImports, PutImportsShown, KeepImports
  <1>2. CASE ~(d.imports = {} \/ x.files[d.path] = NoFile)
    <2> DEFINE r == [x.files[d.path] EXCEPT !.imports = d.imports]
    <2>1. d.path \in Paths /\ d.imports \in SUBSET Imports /\ x.files[d.path] \in FileRecord
      BY <1>2, DocType, RowTypes
    <2>2. /\ r \in FileRecord /\ r.id = x.files[d.path].id
          /\ r.hash = x.files[d.path].hash /\ r.imports = d.imports
      BY <2>1 DEF FileRecord
    <2>3. y = [x EXCEPT !.files = [x.files EXCEPT ![d.path] = r]]
      BY <1>2 DEF PutImports
    <2> HIDE DEF r
    <2>4. [x.files EXCEPT ![d.path] = r] \in [Paths -> FileRecord \cup {NoFile}]
      BY <2>2, RowTypes
    <2>5. /\ y.files = [x.files EXCEPT ![d.path] = r] /\ y.lastFile = x.lastFile
          /\ y.lastClass = x.lastClass /\ y.classes = x.classes /\ y.methods = x.methods /\ y.calls = x.calls
          /\ y.torn = x.torn
      BY <2>3 DEF Database
    <2> HIDE DEF y
    <2>6. y \in Database
      BY <2>3, <2>4 DEF Database
    <2>7. \A p \in Paths : y.files[p] # NoFile => x.files[p] # NoFile /\ y.files[p].id = x.files[p].id
      BY <1>2, <2>1, <2>2, <2>5, RowTypes
    <2>8. \A p \in Paths : y.files[p] = IF p = d.path THEN r ELSE x.files[p]
      BY <2>1, <2>5, RowTypes
    <2>9. y.files[d.path] = r /\ r # NoFile
      BY <2>1, <2>2, <2>8, FileType
    <2>10. PutImportsShown(x, d, y)
      BY <1>2, <2>1, <2>2, <2>5, <2>8, <2>9 DEF PutImportsShown, KeepImports
    <2> QED BY <2>5, <2>6, <2>7, <2>10, SameIDs DEF y
  <1> QED BY <1>1, <1>2

LEMMA TornSound ==
  ASSUME NEW x \in Database, Sound(x), NEW t \in SUBSET Paths
  PROVE  /\ [x EXCEPT !.torn = t] \in Database
         /\ Sound([x EXCEPT !.torn = t])
         /\ [x EXCEPT !.torn = t].files = x.files
  <1> DEFINE y == [x EXCEPT !.torn = t]
  <1>1. y \in Database /\ y.files = x.files /\ y.lastFile = x.lastFile /\ y.lastClass = x.lastClass
        /\ y.classes = x.classes /\ y.methods = x.methods /\ y.calls = x.calls
    BY DEF Database
  <1> HIDE DEF y
  <1> QED BY <1>1, SameIDs DEF y

LEMMA UntornSound ==
  ASSUME NEW x \in Database, Sound(x), NEW p \in Paths
  PROVE  Untorn(x, p) \in Database /\ Sound(Untorn(x, p)) /\ Untorn(x, p).files = x.files
  <1>1. x.torn \ {p} \in SUBSET Paths
    BY DEF Database
  <1>2. Untorn(x, p) = [x EXCEPT !.torn = x.torn \ {p}]
    BY DEF Untorn
  <1> QED BY <1>1, <1>2, TornSound

\* The methods of a batch document go in at once; either its classes have just
\* been numbered, or it has none.
LEMMA PutBulkMethodsSound ==
  ASSUME NEW x \in Database, Sound(x), NEW d \in Docs, NEW f, Filed(x, d.path, f), NEW num,
         DOMAIN num = d.classes,
         \A a, b \in d.classes : num[a] = num[b] => a = b,
         d.classes # {} =>
            /\ OneVersion(x, f, d)
            /\ \A c \in ClassesOf(x, f) : c.name \in d.classes /\ c.id = num[c.name]
  PROVE  /\ PutBulkMethods(x, f, d, num) \in Database
         /\ Sound(PutBulkMethods(x, f, d, num))
         /\ PutBulkMethods(x, f, d, num).files = x.files
         /\ OnlyRowsOf(f, x, PutBulkMethods(x, f, d, num))
         /\ ClassesOf(PutBulkMethods(x, f, d, num), f) = ClassesOf(x, f)
         /\ CallsOf(PutBulkMethods(x, f, d, num), f) = CallsOf(x, f)
         /\ \A c \in ClassesOf(x, f) :
               NamesOf(PutBulkMethods(x, f, d, num), c) = IF d.classes = {} THEN {} ELSE GroupOf(d, c.name)
  <1> DEFINE y == PutBulkMethods(x, f, d, num)
  <1> DEFINE new == BulkMethodRows(d, num)
  <1> DEFINE gone == {c.id : c \in ClassesOf(x, f)}
  <1>1. d.methods \in SUBSET [class : ClassNames, name : MethodNames] /\ d.path \in Paths
    BY DocType
  <1>2. \A c \in ClassesOf(x, f) : c \in x.classes /\ c.id \in gone /\ c.file = f /\ c.id \in ID
    BY RowTypes DEF ClassesOf, ClassRecord
  <1>3. \A n \in d.classes : \E c \in ClassesOf(x, f) : c.name = n /\ c.id = num[n]
    BY DEF OneVersion, Classes
  <1>4. \A m \in new : \E g \in d.methods : g.class \in d.classes /\ m.class = num[g.class] /\ m.name = g.name
    BY DEF BulkMethodRows
  <1>5. \A m \in new : \E c \in ClassesOf(x, f) : m.class = c.id /\ m.name \in GroupOf(d, c.name)
    BY <1>3, <1>4 DEF GroupOf
  <1>6. \A c \in ClassesOf(x, f) : d.classes # {} =>
           \A n \in GroupOf(d, c.name) : \E m \in new : m.class = c.id /\ m.name = n
    <2>1. ASSUME NEW c \in ClassesOf(x, f), d.classes # {}, NEW n \in GroupOf(d, c.name)
          PROVE  \E m \in new : m.class = c.id /\ m.name = n
      <3>1. c.name \in d.classes /\ c.id = num[c.name]
        BY <2>1
      <3>2. PICK g \in d.methods : g.class = c.name /\ g.name = n
        BY DEF GroupOf
      <3>3. [class |-> num[g.class], name |-> g.name] \in new
        BY <3>1, <3>2 DEF BulkMethodRows
      <3> QED BY <3>1, <3>2, <3>3
    <2> QED BY <2>1
  <1>7. new \subseteq [class : ID, name : MethodNames]
    <2>1. ASSUME NEW m \in new PROVE m \in [class : ID, name : MethodNames]
      <3>1. PICK g \in d.methods : g.class \in d.classes /\ m = [class |-> num[g.class], name |-> g.name]
        BY DEF BulkMethodRows
      <3>2. num[g.class] \in ID
        BY <1>2, <1>3, <3>1
      <3>3. g.name \in MethodNames
        BY <1>1
      <3> QED BY <3>1, <3>2, <3>3
    <2> QED BY <2>1
  <1>8. y = [x EXCEPT !.methods = {m \in x.methods : m.class \notin gone} \cup new]
    BY DEF PutBulkMethods
  <1> HIDE DEF new
  <1>9. \A b \in x.classes : b.id \in gone => b \in ClassesOf(x, f)
    BY DEF Sound, IDsDistinct, ClassesOf
  <1> HIDE DEF gone
  <1>10. y \in Database
    <2>1. {m \in x.methods : m.class \notin gone} \cup new \in SUBSET [class : ID, name : MethodNames]
      BY <1>7 DEF Database
    <2> HIDE DEF y
    <2> QED BY <1>8, <2>1 DEF Database
  <1>11. /\ y.files = x.files /\ y.lastFile = x.lastFile /\ y.lastClass = x.lastClass
         /\ y.classes = x.classes /\ y.calls = x.calls
         /\ y.methods = {m \in x.methods : m.class \notin gone} \cup new /\ y.torn = x.torn
    BY <1>8 DEF Database
  <1> HIDE DEF y
  <1>12. \A g : ClassesOf(y, g) = ClassesOf(x, g) /\ CallsOf(y, g) = CallsOf(x, g)
    BY <1>11 DEF ClassesOf, CallsOf
  <1>13. \A b \in x.classes : b \notin ClassesOf(x, f) => NamesOf(y, b) = NamesOf(x, b)
    <2>1. ASSUME NEW b \in x.classes, b \notin ClassesOf(x, f) PROVE MethodsOf(y, b.id) = MethodsOf(x, b.id)
      <3>1. b.id \notin gone
        BY <1>9, <2>1
      <3>2. \A m \in new : m.class \in gone
        BY <1>2, <1>5
      <3> QED BY <1>11, <3>1, <3>2 DEF MethodsOf
    <2> QED BY <2>1 DEF NamesOf
  <1>14. \A c \in ClassesOf(x, f) : NamesOf(y, c) = IF d.classes = {} THEN {} ELSE GroupOf(d, c.name)
    <2>1. ASSUME NEW c \in ClassesOf(x, f)
          PROVE  NamesOf(y, c) = IF d.classes = {} THEN {} ELSE GroupOf(d, c.name)
      <3>1. MethodsOf(y, c.id) = {m \in new : m.class = c.id}
        BY <1>2, <1>11 DEF MethodsOf
      <3>2. CASE d.classes = {}
        BY <1>4, <3>1, <3>2 DEF NamesOf
      <3>3. CASE d.classes # {}
        <4>1. \A m \in new : m.class = c.id => m.name \in GroupOf(d, c.name)
          BY <1>2, <1>5 DEF Sound, IDsDistinct
        <4> QED BY <1>6, <3>1, <3>3, <4>1 DEF NamesOf
      <3> QED BY <3>2, <3>3
    <2> QED BY <2>1
  <1>15. Counted(y)
    <2>1. \A m \in y.methods : m.class <= y.lastClass
      BY <1>2, <1>5, <1>11 DEF Sound, Counted
    <2> QED BY <1>11, <2>1 DEF Sound, Counted
  <1>16. IDsDistinct(y)
    BY <1>11 DEF Sound, IDsDistinct
  <1>17. Layered(y)
    <2>1. ASSUME NEW p \in Paths, y.files[p] # NoFile, p # d.path
          PROVE  WholeFile(y, p, y.files[p].id)
      <3> DEFINE g == y.files[p].id
      <3>1. g # f /\ WholeFile(x, p, g)
        BY <1>1, <1>11, <2>1 DEF Sound, IDsDistinct, Layered, Filed
      <3> HIDE DEF g
      <3>2. \A b \in ClassesOf(x, g) : NamesOf(y, b) = NamesOf(x, b)
        BY <1>13, <3>1 DEF ClassesOf
      <3>3. \A e : OneVersion(x, g, e) => OneVersion(y, g, e)
        BY <1>12, <3>2 DEF OneVersion, Classes
      <3>4. WholeFile(y, p, g)
        BY <1>12, <3>1, <3>3 DEF WholeFile, Calling
      <3> QED BY <3>4 DEF g
    <2>2. WholeFile(y, d.path, f)
      <3>1. WholeFile(x, d.path, f)
        BY <1>1 DEF Sound, Layered, Filed
      <3>2. CASE d.classes = {}
        <4>1. \A e : OneVersion(x, f, e) => OneVersion(y, f, e)
          BY <1>12, <1>14, <3>2 DEF OneVersion, Classes
        <4> QED BY <1>12, <3>1, <4>1 DEF WholeFile, Calling
      <3>3. CASE d.classes # {}
        <4>1. OneVersion(y, f, d)
          BY <1>12, <1>14, <3>3 DEF OneVersion, Classes
        <4>2. d \in Versions(d.path)
          BY DEF Versions
        <4> QED BY <1>12, <3>1, <4>1, <4>2 DEF WholeFile, Calling
      <3> QED BY <3>2, <3>3
    <2> QED BY <1>1, <1>11, <2>1, <2>2 DEF Layered, Filed
  <1>18. OnlyRowsOf(f, x, y)
    <2>1. \A g : g # f => \A b \in ClassesOf(x, g) : NamesOf(y, b) = NamesOf(x, b)
      BY <1>13 DEF ClassesOf
    <2> QED BY <1>11, <1>12, <2>1 DEF OnlyRowsOf, SameLayers
  <1> QED BY <1>10, <1>11, <1>12, <1>14, <1>15, <1>16, <1>17, <1>18 DEF Sound, y

LEMMA AfterDocumentSound ==
  ASSUME NEW x \in Database, Sound(x), NEW d \in Docs, NEW num \in FreshIDs(x, d.classes)
  PROVE  AfterDocument(x, d, num) \in Database /\ Sound(AfterDocument(x, d, num))
  <1> DEFINE filed   == PutFile(x, d.path, d.hash)
             f       == filed.files[d.path].id
             classed == IF d.classes = {} THEN filed ELSE PutClasses(filed, f, num)
             method  == IF d.methods = {} THEN classed ELSE PutBulkMethods(classed, f, d, num)
             called  == IF d.calls = {} THEN method ELSE PutCalls(method, f, d)
             saved   == PutImports(called, d.path, d)
  <1>1. d.path \in Paths /\ d.hash \in Hashes \cup {NoHash}
    BY DocType
  <1>2. filed \in Database /\ Sound(filed) /\ filed.files[d.path] \in FileRecord
    BY <1>1, PutFileSound
  <1>3. filed.lastClass = x.lastClass
    BY DEF PutFile, Database
  <1>4. num \in FreshIDs(filed, d.classes)
    BY <1>3 DEF FreshIDs
  <1>5. Filed(filed, d.path, f)
    BY <1>2, FileType DEF Filed
  <1> HIDE DEF filed, f
  <1>6. DOMAIN num = d.classes /\ \A a, b \in d.classes : num[a] = num[b] => a = b
    BY DEF FreshIDs
  <1>7. /\ classed \in Database /\ Sound(classed) /\ Filed(classed, d.path, f)
        /\ d.classes # {} =>
              /\ OneVersion(classed, f, d)
              /\ \A c \in ClassesOf(classed, f) : c.name \in d.classes /\ c.id = num[c.name]
    <2>1. CASE d.classes = {}
      BY <1>2, <1>5, <2>1
    <2>2. CASE d.classes # {}
      <3>1. /\ PutClasses(filed, f, num) \in Database
            /\ Sound(PutClasses(filed, f, num))
            /\ PutClasses(filed, f, num).files = filed.files
            /\ OneVersion(PutClasses(filed, f, num), f, d)
            /\ \A c \in ClassesOf(PutClasses(filed, f, num), f) : c.name \in d.classes /\ c.id = num[c.name]
        BY <1>2, <1>4, <1>5, PutClassesSound
      <3> QED BY <1>5, <2>2, <3>1 DEF Filed
    <2> QED BY <2>1, <2>2
  <1> HIDE DEF classed
  <1>8. method \in Database /\ Sound(method) /\ Filed(method, d.path, f)
    <2>1. CASE d.methods = {}
      BY <1>7, <2>1
    <2>2. CASE d.methods # {}
      <3>1. /\ PutBulkMethods(classed, f, d, num) \in Database
            /\ Sound(PutBulkMethods(classed, f, d, num))
            /\ PutBulkMethods(classed, f, d, num).files = classed.files
        BY <1>6, <1>7, PutBulkMethodsSound
      <3> QED BY <1>7, <2>2, <3>1 DEF Filed
    <2> QED BY <2>1, <2>2
  <1> HIDE DEF method
  <1>9. called \in Database /\ Sound(called)
    BY <1>8, PutCallsSound
  <1> HIDE DEF called
  <1>10. saved \in Database /\ Sound(saved)
    BY <1>9, PutImportsSound
  <1>11. AfterDocument(x, d, num) = IF d.classes # {} /\ d.calls # {} THEN Untorn(saved, d.path) ELSE saved
    BY DEF AfterDocument, filed, f, classed, method, called
  <1> HIDE DEF saved
  <1> QED BY <1>1, <1>10, <1>11, UntornSound

-----------------------------------------------------------------------------
(* The actions *)

LEMMA IdleFacts == Idle \notin Upsert /\ Idle.stage = "idle" /\ \A u \in Upsert : u # Idle /\ u.stage # "idle"
  BY DEF Idle, Upsert

LEMMA InitInv == Init => Inv
  <1> SUFFICES ASSUME Init PROVE Inv
    OBVIOUS
  <1>1. Empty \in Database
    BY DEF Empty, Database
  <1>2. Sound(Empty)
    BY DEF Empty, Sound, Counted, IDsDistinct, Layered
  <1>3. TypeOK
    BY <1>1 DEF Init, TypeOK
  <1> QED BY <1>2, <1>3 DEF Init, Inv, Upserting, Batching

LEMMA UpsertFileInv ==
  ASSUME Inv, NEW d \in Docs, UpsertFile(d)
  PROVE  Inv'
  <1>1. db \in Database /\ Sound(db) /\ d.path \in Paths /\ d.hash \in Hashes \cup {NoHash}
    BY DocType DEF Inv, TypeOK
  <1>2. db' \in Database /\ Sound(db') /\ db'.files[d.path] \in FileRecord
    BY <1>1, PutFileSound DEF UpsertFile
  <1>3. up' = [stage |-> "classes", doc |-> d, file |-> db'.files[d.path].id, groups |-> {}]
    BY DEF UpsertFile
  <1>4. db'.files[d.path].id \in ID /\ db'.files[d.path] # NoFile
    BY <1>2, FileType DEF FileRecord
  <1>5. up' \in Upsert
    BY <1>3, <1>4 DEF Upsert
  <1>6. tx' = NoTx /\ bulk' = bulk /\ bulk = <<>>
    BY DEF UpsertFile, Free, Inv, Batching
  <1>7. Upserting'
    BY <1>3, <1>4, <1>6 DEF Upserting, Filed
  <1>8. TypeOK'
    BY <1>2, <1>5, <1>6 DEF Inv, TypeOK
  <1> QED BY <1>2, <1>6, <1>7, <1>8 DEF Inv, Batching

\* What the steps of a running UpsertIR start from.
LEMMA Running ==
  ASSUME Inv, up.stage # "idle"
  PROVE  /\ db \in Database /\ Sound(db) /\ up \in Upsert /\ up # Idle /\ tx = NoTx /\ bulk = <<>>
         /\ up.doc \in Docs /\ up.doc.path \in Paths /\ Filed(db, up.doc.path, up.file)
         /\ up.stage = "methods" => up.groups \subseteq ClassesOf(db, up.file) /\ OneVersion(db, up.file, up.doc)
  <1>1. up \in Upsert /\ up # Idle
    BY IdleFacts DEF Inv, TypeOK
  <1>2. up.doc \in Docs
    BY <1>1 DEF Upsert
  <1> QED BY <1>1, <1>2, DocType DEF Inv, TypeOK, Upserting, Batching

\* A step of an UpsertIR that keeps the database sound, the file record of the
\* document and what the methods stage needs, keeps the invariant.
LEMMA RunningStep ==
  ASSUME Inv, up.stage # "idle", UNCHANGED <<tx, bulk>>,
         db' \in Database, Sound(db'), up' \in Upsert,
         up'.doc = up.doc, up'.file = up.file, db'.files = db.files,
         up'.stage = "methods" => up'.groups \subseteq ClassesOf(db', up.file) /\ OneVersion(db', up.file, up.doc)
  PROVE  Inv'
  <1>1. Upserting'
    BY Running DEF Upserting, Filed
  <1>2. TypeOK'
    BY DEF Inv, TypeOK
  <1>3. Batching'
    BY Running DEF Batching
  <1> QED BY <1>1, <1>2, <1>3 DEF Inv

LEMMA UpsertClassesInv ==
  ASSUME Inv, UpsertClasses
  PROVE  Inv'
  <1>1. up.stage = "classes"
    BY DEF UpsertClasses
  <1>2. PICK num \in FreshIDs(db, up.doc.classes) : db' = PutClasses(db, up.file, num)
    BY DEF UpsertClasses
  <1>3. db' \in Database /\ Sound(db') /\ db'.files = db.files /\ OneVersion(db', up.file, up.doc)
    <2> DEFINE d == up.doc
               f == up.file
               y == PutClasses(db, f, num)
    <2>1. db \in Database /\ Sound(db) /\ d \in Docs /\ Filed(db, d.path, f) /\ num \in FreshIDs(db, d.classes)
      BY <1>1, Running
    <2> HIDE DEF d, f
    <2>2. y \in Database /\ Sound(y) /\ y.files = db.files /\ OneVersion(y, f, d)
      BY <2>1, PutClassesSound
    <2> QED BY <1>2, <2>2 DEF d, f
  <1> DEFINE g == {c \in ClassesOf(db', up.file) : GroupOf(up.doc, c.name) # {}}
  <1>4. up' = [up EXCEPT !.stage = "methods", !.groups = g]
    BY DEF UpsertClasses
  <1>5. g \subseteq ClassesOf(db', up.file) /\ g \subseteq ClassRecord
    BY <1>3 DEF ClassesOf, Database
  <1> HIDE DEF g
  <1>6. up' \in Upsert /\ up'.doc = up.doc /\ up'.file = up.file /\ up'.groups = g
    BY <1>1, <1>4, <1>5, Running DEF Upsert
  <1>7. UNCHANGED <<tx, bulk>>
    BY DEF UpsertClasses
  <1> QED BY <1>1, <1>3, <1>5, <1>6, <1>7, RunningStep

LEMMA UpsertMethodsInv ==
  ASSUME Inv, NEW c \in up.groups, UpsertMethods(c)
  PROVE  Inv'
  <1>1. up.stage = "methods" /\ db' = PutMethods(db, c, up.doc) /\ up' = [up EXCEPT !.groups = up.groups \ {c}]
        /\ UNCHANGED <<tx, bulk>>
    BY DEF UpsertMethods
  <1>2. c \in ClassesOf(db, up.file)
    BY <1>1, Running
  <1>3. db' \in Database /\ Sound(db') /\ db'.files = db.files /\ db'.classes = db.classes /\ OneVersion(db', up.file, up.doc)
    BY <1>1, <1>2, Running, PutMethodsSound
  <1>4. up' \in Upsert /\ up'.doc = up.doc /\ up'.file = up.file /\ up'.groups = up.groups \ {c}
    BY <1>1, Running DEF Upsert
  <1>5. up'.groups \subseteq ClassesOf(db', up.file)
    BY <1>1, <1>3, <1>4, Running DEF ClassesOf
  <1> QED BY <1>1, <1>3, <1>4, <1>5, RunningStep

LEMMA UpsertCallsInv ==
  ASSUME Inv, UpsertCalls
  PROVE  Inv'
  <1>1. up.stage = "methods" /\ db' = PutCalls(db, up.file, up.doc) /\ up' = [up EXCEPT !.stage = "imports"]
        /\ UNCHANGED <<tx, bulk>>
    BY DEF UpsertCalls
  <1>2. db' \in Database /\ Sound(db') /\ db'.files = db.files
    BY <1>1, Running, PutCallsSound
  <1>3. up' \in Upsert /\ up'.doc = up.doc /\ up'.file = up.file /\ up'.stage = "imports"
    BY <1>1, Running DEF Upsert
  <1> QED BY <1>1, <1>2, <1>3, RunningStep

\* UpsertIR ends, done or cut short.
LEMMA BackToIdle ==
  ASSUME Inv, db' \in Database, Sound(db'), up' = Idle, tx' = NoTx, bulk' = <<>>
  PROVE  Inv'
  <1>1. TypeOK'
    BY DEF TypeOK
  <1> QED BY <1>1 DEF Inv, Upserting, Batching

LEMMA SaveImportsInv ==
  ASSUME Inv, SaveImports
  PROVE  Inv'
  <1>1. up.stage = "imports" /\ up' = Idle /\ UNCHANGED <<tx, bulk>>
    BY DEF SaveImports
  <1>2. PutImports(db, up.doc.path, up.doc) \in Database /\ Sound(PutImports(db, up.doc.path, up.doc))
    BY <1>1, Running, PutImportsSound
  <1>3. db' \in Database /\ Sound(db')
    BY <1>1, <1>2, Running, UntornSound DEF SaveImports
  <1> QED BY <1>1, <1>3, Running, BackToIdle

LEMMA InterruptInv ==
  ASSUME Inv, Interrupt
  PROVE  Inv'
  <1>1. up \in Upsert
    BY DEF Interrupt, Inv, TypeOK
  <1>2. up.stage # "idle"
    BY <1>1, IdleFacts
  <1>3. db.torn \cup {up.doc.path} \in SUBSET Paths
    BY <1>2, Running DEF Database
  <1>4. db' = [db EXCEPT !.torn = db.torn \cup {up.doc.path}] /\ up' = Idle /\ UNCHANGED <<tx, bulk>>
    BY DEF Interrupt
  <1>5. db' \in Database /\ Sound(db')
    BY <1>2, <1>3, <1>4, Running, TornSound
  <1> QED BY <1>2, <1>4, <1>5, Running, BackToIdle

LEMMA BulkInv ==
  ASSUME Inv,
         \/ \E b \in Batches : BeginBulkUpsert(b)
         \/ BulkUpsertNext
         \/ Commit
         \/ Rollback
  PROVE  Inv'
  <1>0. db \in Database /\ Sound(db) /\ bulk \in Seq(Docs) /\ tx \in Database \cup {NoTx}
        /\ (tx # NoTx => up = Idle /\ Sound(tx)) /\ up \in Upsert \cup {Idle}
    BY DEF Inv, TypeOK, Upserting, Batching
  <1>1. CASE \E b \in Batches : BeginBulkUpsert(b)
    <2>1. PICK b \in Batches : BeginBulkUpsert(b)
      BY <1>1
    <2>2. up = Idle /\ up' = up /\ db' = db /\ tx' = db /\ bulk' = b /\ b \in Seq(Docs)
      BY <2>1, SqliteStoreAssumption DEF BeginBulkUpsert, Free
    <2>3. TypeOK'
      BY <1>0, <2>2 DEF TypeOK
    <2>4. tx' # NoTx
      BY <1>0, <2>2, SqliteStoreAssumption
    <2> QED BY <1>0, <2>2, <2>3, <2>4 DEF Inv, Upserting, Batching
  <1>2. CASE BulkUpsertNext
    <2>1. tx \in Database /\ Sound(tx) /\ up = Idle /\ Head(bulk) \in Docs /\ Tail(bulk) \in Seq(Docs)
      BY <1>0, <1>2 DEF BulkUpsertNext, Inv, Batching
    <2>2. PICK num \in FreshIDs(tx, Head(bulk).classes) : tx' = AfterDocument(tx, Head(bulk), num)
      BY <1>2 DEF BulkUpsertNext
    <2>3. tx' \in Database /\ Sound(tx') /\ tx' # NoTx
      BY <2>1, <2>2, AfterDocumentSound, SqliteStoreAssumption
    <2>4. db' = db /\ up' = up /\ bulk' = Tail(bulk)
      BY <1>2 DEF BulkUpsertNext
    <2>5. TypeOK'
      BY <1>0, <2>1, <2>3, <2>4 DEF TypeOK
    <2> QED BY <1>0, <2>1, <2>3, <2>4, <2>5 DEF Inv, Upserting, Batching
  <1>3. CASE Commit
    <2>1. tx \in Database /\ Sound(tx) /\ up = Idle /\ up' = Idle /\ db' = tx /\ tx' = NoTx /\ bulk' = bulk
      BY <1>0, <1>3 DEF Commit
    <2>2. bulk' = <<>>
      BY <1>3, <2>1 DEF Commit
    <2> QED BY <1>0, <2>1, <2>2, BackToIdle
  <1>4. CASE Rollback
    <2>1. up = Idle /\ up' = Idle /\ db' = db /\ tx' = NoTx /\ bulk' = <<>>
      BY <1>0, <1>4 DEF Rollback
    <2> QED BY <1>0, <2>1, BackToIdle
  <1> QED BY <1>1, <1>2, <1>3, <1>4

LEMMA RecordFileInv ==
  ASSUME Inv, NEW p \in Paths, NEW h \in Hashes \cup {NoHash}, RecordFile(p, h)
  PROVE  Inv'
  <1>1. db \in Database /\ Sound(db) /\ db' = PutFile(db, p, h) /\ up' = Idle /\ tx' = NoTx /\ bulk' = <<>>
    BY DEF RecordFile, Free, Inv, TypeOK, Batching
  <1>2. db' \in Database /\ Sound(db')
    BY <1>1, PutFileSound
  <1> QED BY <1>1, <1>2, BackToIdle

LEMMA DeleteFileInv ==
  ASSUME Inv, NEW p \in Paths, DeleteFile(p)
  PROVE  Inv'
  <1> DEFINE f    == db.files[p].id
             gone == {c.id : c \in ClassesOf(db, f)}
             x    == Untorn(db, p)
  <1>1. up' = Idle /\ tx' = NoTx /\ bulk' = <<>> /\ db \in Database /\ Sound(db) /\ db.files[p] # NoFile
    BY DEF DeleteFile, Free, Inv, TypeOK, Batching
  <1>2. x \in Database /\ Sound(x) /\ x.files = db.files /\ x.classes = db.classes
        /\ x.methods = db.methods /\ x.calls = db.calls
    <2>1. x \in Database /\ Sound(x) /\ x.files = db.files
      BY <1>1, UntornSound
    <2> QED BY <1>1, <2>1 DEF Untorn, Database
  <1>3. db' = [x EXCEPT !.files = [x.files EXCEPT ![p] = NoFile],
                        !.classes = x.classes \ ClassesOf(db, f),
                        !.methods = {m \in x.methods : m.class \notin gone},
                        !.calls = x.calls \ CallsOf(db, f)]
    BY DEF DeleteFile
  <1> HIDE DEF x
  <1>4. /\ db'.files = [x.files EXCEPT ![p] = NoFile] /\ db'.lastFile = x.lastFile /\ db'.lastClass = x.lastClass
        /\ db'.classes = x.classes \ ClassesOf(x, f) /\ db'.calls = x.calls \ CallsOf(x, f)
        /\ db'.methods = {m \in x.methods : m.class \notin gone}
    BY <1>2, <1>3 DEF Database, ClassesOf, CallsOf
  <1>5. \A b \in x.classes : b.id \in gone => b.file = f
    BY <1>2 DEF Sound, IDsDistinct, ClassesOf
  <1> HIDE DEF gone
  <1>6. db' \in Database
    <2>1. [x.files EXCEPT ![p] = NoFile] \in [Paths -> FileRecord \cup {NoFile}]
      BY <1>2, RowTypes
    <2>2. {m \in x.methods : m.class \notin gone} \in SUBSET [class : ID, name : MethodNames]
      BY <1>2 DEF Database
    <2>3. x.classes \ ClassesOf(db, f) \in SUBSET ClassRecord /\ x.calls \ CallsOf(db, f) \in SUBSET [file : ID, call : Calls]
      BY <1>2 DEF Database
    <2> QED BY <1>2, <1>3, <2>1, <2>2, <2>3 DEF Database
  <1>7. \A q \in Paths : db'.files[q] # NoFile => q # p /\ db'.files[q] = x.files[q]
    BY <1>2, <1>4, RowTypes
  <1>8. Counted(db')
    BY <1>2, <1>4, <1>7 DEF Sound, Counted
  <1>9. IDsDistinct(db')
    BY <1>2, <1>4, <1>7 DEF Sound, IDsDistinct
  <1>10. Layered(db')
    <2>1. ASSUME NEW q \in Paths, db'.files[q] # NoFile
          PROVE  WholeFile(db', q, db'.files[q].id)
      <3> DEFINE g == db'.files[q].id
      <3>1. g # f /\ WholeFile(x, q, g)
        BY <1>1, <1>2, <1>7, <2>1 DEF Sound, IDsDistinct, Layered
      <3> HIDE DEF g, f
      <3>2. ClassesOf(db', g) = ClassesOf(x, g) /\ CallsOf(db', g) = CallsOf(x, g)
        BY <1>4, <3>1 DEF ClassesOf, CallsOf
      <3>3. \A b \in ClassesOf(x, g) : MethodsOf(db', b.id) = MethodsOf(x, b.id)
        BY <1>4, <1>5, <3>1 DEF ClassesOf, MethodsOf
      <3>4. \A b \in ClassesOf(x, g) : NamesOf(db', b) = NamesOf(x, b)
        BY <3>3 DEF NamesOf
      <3>5. \A e : OneVersion(x, g, e) => OneVersion(db', g, e)
        BY <3>2, <3>4 DEF OneVersion, Classes
      <3>6. WholeFile(db', q, g)
        BY <3>1, <3>2, <3>5 DEF WholeFile, Calling
      <3> QED BY <3>6 DEF g
    <2> QED BY <2>1 DEF Layered
  <1> QED BY <1>1, <1>6, <1>8, <1>9, <1>10, BackToIdle DEF Sound

LEMMA StutterInv == Inv /\ UNCHANGED vars => Inv'
  <1> SUFFICES ASSUME Inv, UNCHANGED vars PROVE Inv'
    OBVIOUS
  <1>1. db' = db /\ up' = up /\ tx' = tx /\ bulk' = bulk
    BY DEF vars
  <1> QED BY <1>1 DEF Inv, TypeOK, Upserting, Batching

-----------------------------------------------------------------------------
\* Every reachable database, and every one a batch sees, is sound.
THEOREM Inductive == Spec => []Inv
  <1>1. Inv /\ [Next]_vars => Inv'
    <2> SUFFICES ASSUME Inv, [Next]_vars PROVE Inv'
      OBVIOUS
    <2>1. CASE \E d \in Docs : UpsertFile(d)
      BY <2>1, UpsertFileInv
    <2>2. CASE UpsertClasses
      BY <2>2, UpsertClassesInv
    <2>3. CASE \E c \in up.groups : UpsertMethods(c)
      BY <2>3, UpsertMethodsInv
    <2>4. CASE UpsertCalls
      BY <2>4, UpsertCallsInv
    <2>5. CASE SaveImports
      BY <2>5, SaveImportsInv
    <2>6. CASE Interrupt
      BY <2>6, InterruptInv
    <2>7. CASE (\E b \in Batches : BeginBulkUpsert(b)) \/ BulkUpsertNext \/ Commit \/ Rollback
      BY <2>7, BulkInv
    <2>8. CASE \E p \in Paths : DeleteFile(p)
      BY <2>8, DeleteFileInv
    <2>9. CASE \E p \in Paths, h \in Hashes \cup {NoHash} : RecordFile(p, h)
      BY <2>9, RecordFileInv
    <2>10. CASE UNCHANGED vars
      BY <2>10, StutterInv
    <2> QED BY <2>1, <2>2, <2>3, <2>4, <2>5, <2>6, <2>7, <2>8, <2>9, <2>10 DEF Next
  <1> QED BY InitInv, <1>1, PTL DEF Spec

\* For any documents and batches, whatever fails in between: tables, the running
\* UpsertIR and the open transaction keep their types, and what a path shows of
\* each layer is the whole layer of one version of the file.
THEOREM RowsStaySound == Spec => []RowsSound
  <1>1. Inv => RowsSound
    BY DEF Inv, Sound, Layered, LayersWhole, RowsSound
  <1> QED BY <1>1, Inductive, PTL

-----------------------------------------------------------------------------
(* What the paths show *)

LEMMA LayersShow ==
  ASSUME NEW x, NEW y, NEW f, SameLayers(x, y, f)
  PROVE  /\ Classes(y, f) = Classes(x, f)
         /\ Methods(y, f) = Methods(x, f)
         /\ Calling(y, f) = Calling(x, f)
  <1>1. ClassesOf(y, f) = ClassesOf(x, f) /\ CallsOf(y, f) = CallsOf(x, f)
    BY DEF SameLayers
  <1>2. \A c \in ClassesOf(x, f) : NamesOf(y, c) = NamesOf(x, c)
    BY DEF SameLayers
  <1>3. Methods(y, f) = Methods(x, f)
    BY <1>1, <1>2 DEF Methods
  <1> QED BY <1>1, <1>3 DEF Classes, Calling

LEMMA ShownSame ==
  ASSUME NEW x, NEW y, NEW q, y.files[q] = x.files[q], q \in y.torn <=> q \in x.torn,
         x.files[q] # NoFile => SameLayers(x, y, x.files[q].id)
  PROVE  Shown(y, q) = Shown(x, q)
  BY LayersShow DEF Shown

\* Classes that have the names of d, and each its methods, show those of d.
LEMMA MethodsOfDoc ==
  ASSUME NEW d \in Docs, NEW x, NEW f, Classes(x, f) = d.classes,
         \A c \in ClassesOf(x, f) : NamesOf(x, c) = GroupOf(d, c.name)
  PROVE  Methods(x, f) = ClassMethods(d)
  <1>1. d.methods \in SUBSET [class : ClassNames, name : MethodNames]
    BY DocType
  <1>2. ASSUME NEW m \in Methods(x, f) PROVE m \in ClassMethods(d)
    <2>1. PICK c \in ClassesOf(x, f) : m \in [class : {c.name}, name : NamesOf(x, c)]
      BY DEF Methods
    <2>2. c.name \in d.classes
      BY DEF Classes
    <2>3. m = [class |-> c.name, name |-> m.name] /\ m.name \in GroupOf(d, c.name)
      BY <2>1
    <2>4. PICK g \in d.methods : g.class = c.name /\ g.name = m.name
      BY <2>3 DEF GroupOf
    <2>5. g = m
      BY <1>1, <2>3, <2>4
    <2> QED BY <2>2, <2>4, <2>5 DEF ClassMethods
  <1>3. ASSUME NEW m \in ClassMethods(d) PROVE m \in Methods(x, f)
    <2>1. m \in d.methods /\ m.class \in d.classes
      BY DEF ClassMethods
    <2>2. PICK c \in ClassesOf(x, f) : c.name = m.class
      BY <2>1 DEF Classes
    <2>3. m.name \in GroupOf(d, c.name)
      BY <2>1, <2>2 DEF GroupOf
    <2>4. m \in [class : {c.name}, name : NamesOf(x, c)]
      BY <1>1, <2>1, <2>2, <2>3
    <2> QED BY <2>4 DEF Methods
  <1> QED BY <1>2, <1>3

LEMMA NoNames ==
  ASSUME NEW x, NEW f, \A c \in ClassesOf(x, f) : NamesOf(x, c) = {}
  PROVE  Methods(x, f) = {}
  BY DEF Methods

LEMMA OnlyRowsTrans ==
  ASSUME NEW f, NEW x, NEW y, NEW z, OnlyRowsOf(f, x, y), OnlyRowsOf(f, y, z)
  PROVE  OnlyRowsOf(f, x, z)
  BY DEF OnlyRowsOf, SameLayers

LEMMA OnlyRowsSelf == \A f, x : OnlyRowsOf(f, x, x)
  BY DEF OnlyRowsOf, SameLayers

\* A document of a batch replaces what it has something for, under the record
\* that PutFile leaves.
AfterDocumentShown(x, d, w, y) ==
    LET p == d.path
        f == w.files[p].id
    IN  /\ \A q \in Paths : q # p => y.files[q] = x.files[q]
        /\ y.files[p] # NoFile
        /\ y.files[p].id = f
        /\ y.files[p].hash = d.hash
        /\ y.files[p].imports = KeepImports(d, w.files[p].imports)
        /\ y.torn = IF d.classes # {} /\ d.calls # {} THEN x.torn \ {p} ELSE x.torn
        /\ \A g : g # f => SameLayers(x, y, g)
        /\ Classes(y, f) = IF d.classes = {} THEN Classes(w, f) ELSE d.classes
        /\ Methods(y, f) = IF d.classes = {} /\ d.methods = {} THEN Methods(w, f) ELSE ClassMethods(d)
        /\ Calling(y, f) = IF d.calls = {} THEN Calling(w, f) ELSE d.calls

LEMMA AfterDocumentRows ==
  ASSUME NEW x \in Database, Sound(x), NEW d \in Docs, NEW num \in FreshIDs(x, d.classes)
  PROVE  AfterDocumentShown(x, d, PutFile(x, d.path, d.hash), AfterDocument(x, d, num))
  <1> DEFINE p       == d.path
             filed   == PutFile(x, p, d.hash)
             f       == filed.files[p].id
             classed == IF d.classes = {} THEN filed ELSE PutClasses(filed, f, num)
             method  == IF d.methods = {} THEN classed ELSE PutBulkMethods(classed, f, d, num)
             called  == IF d.calls = {} THEN method ELSE PutCalls(method, f, d)
             saved   == PutImports(called, p, d)
             y       == AfterDocument(x, d, num)
  <1>1. p \in Paths /\ d.hash \in Hashes \cup {NoHash}
    BY DocType
  <1>2. filed \in Database /\ Sound(filed) /\ filed.files[p] \in FileRecord /\ PutFileShown(x, p, d.hash, filed)
    BY <1>1, PutFileSound
  <1>3. filed.lastClass = x.lastClass
    BY DEF PutFile, Database
  <1>4. num \in FreshIDs(filed, d.classes)
    BY <1>3 DEF FreshIDs
  <1>5. Filed(filed, p, f) /\ filed.files[p].hash = d.hash
    BY <1>2, FileType DEF Filed, PutFileShown
  <1>6. y = IF d.classes # {} /\ d.calls # {} THEN Untorn(saved, p) ELSE saved
    BY DEF AfterDocument
  <1> HIDE DEF filed, f, y
  <1>7. DOMAIN num = d.classes /\ \A a, b \in d.classes : num[a] = num[b] => a = b
    BY DEF FreshIDs
  <1>8. /\ classed \in Database /\ Sound(classed) /\ OnlyRowsOf(f, filed, classed)
        /\ CallsOf(classed, f) = CallsOf(filed, f)
        /\ d.classes = {} => classed = filed
        /\ d.classes # {} =>
              /\ OneVersion(classed, f, d)
              /\ \A c \in ClassesOf(classed, f) : c.name \in d.classes /\ c.id = num[c.name]
              /\ \A c \in ClassesOf(classed, f) : NamesOf(classed, c) = {}
    <2>1. CASE d.classes = {}
      BY <1>2, <2>1, OnlyRowsSelf
    <2>2. CASE d.classes # {}
      <3> DEFINE z == PutClasses(filed, f, num)
      <3>1. /\ z \in Database /\ Sound(z) /\ OneVersion(z, f, d)
            /\ \A c \in ClassesOf(z, f) : c.name \in d.classes /\ c.id = num[c.name]
            /\ OnlyRowsOf(f, filed, z) /\ CallsOf(z, f) = CallsOf(filed, f)
            /\ \A c \in ClassesOf(z, f) : NamesOf(z, c) = {}
        BY <1>2, <1>4, <1>5, PutClassesSound
      <3>2. classed = z
        BY <2>2
      <3> QED BY <2>2, <3>1, <3>2
    <2> QED BY <2>1, <2>2
  <1> HIDE DEF classed
  <1>9. Filed(classed, p, f)
    BY <1>5, <1>8 DEF Filed, OnlyRowsOf
  <1>10. /\ method \in Database /\ Sound(method) /\ OnlyRowsOf(f, classed, method)
         /\ CallsOf(method, f) = CallsOf(classed, f)
         /\ ClassesOf(method, f) = ClassesOf(classed, f)
         /\ d.methods = {} => method = classed
         /\ d.methods # {} => \A c \in ClassesOf(classed, f) :
               NamesOf(method, c) = IF d.classes = {} THEN {} ELSE GroupOf(d, c.name)
    <2>1. CASE d.methods = {}
      BY <1>8, <2>1, OnlyRowsSelf
    <2>2. CASE d.methods # {}
      <3> DEFINE z == PutBulkMethods(classed, f, d, num)
      <3>1. /\ z \in Database /\ Sound(z) /\ OnlyRowsOf(f, classed, z)
            /\ ClassesOf(z, f) = ClassesOf(classed, f) /\ CallsOf(z, f) = CallsOf(classed, f)
            /\ \A c \in ClassesOf(classed, f) :
                  NamesOf(z, c) = IF d.classes = {} THEN {} ELSE GroupOf(d, c.name)
        BY <1>7, <1>8, <1>9, PutBulkMethodsSound
      <3>2. method = z
        BY <2>2
      <3> QED BY <2>2, <3>1, <3>2
    <2> QED BY <2>1, <2>2
  <1> HIDE DEF method
  <1>11. Filed(method, p, f)
    BY <1>9, <1>10 DEF Filed, OnlyRowsOf
  <1>12. /\ called \in Database /\ Sound(called) /\ OnlyRowsOf(f, method, called)
         /\ ClassesOf(called, f) = ClassesOf(method, f)
         /\ \A c : NamesOf(called, c) = NamesOf(method, c)
         /\ Calling(called, f) = IF d.calls = {} THEN Calling(method, f) ELSE d.calls
    <2>1. CASE d.calls = {}
      BY <1>10, <2>1, OnlyRowsSelf
    <2>2. CASE d.calls # {}
      <3> DEFINE z == PutCalls(method, f, d)
      <3>1. /\ z \in Database /\ Sound(z) /\ OnlyRowsOf(f, method, z)
            /\ ClassesOf(z, f) = ClassesOf(method, f) /\ Calling(z, f) = d.calls
            /\ \A c : NamesOf(z, c) = NamesOf(method, c)
        BY <1>10, <1>11, PutCallsSound
      <3>2. called = z
        BY <2>2
      <3> QED BY <2>2, <3>1, <3>2
    <2> QED BY <2>1, <2>2
  <1> HIDE DEF called
  <1>13. saved \in Database /\ PutImportsShown(called, d, saved)
    BY <1>12, PutImportsSound
  <1> HIDE DEF saved
  <1>14. /\ y.files = saved.files /\ y.classes = saved.classes /\ y.methods = saved.methods
         /\ y.calls = saved.calls
         /\ y.torn = IF d.classes # {} /\ d.calls # {} THEN saved.torn \ {p} ELSE saved.torn
    BY <1>6, <1>13 DEF Untorn, Database
  <1>15. y.classes = called.classes /\ y.methods = called.methods /\ y.calls = called.calls
    BY <1>13, <1>14 DEF PutImportsShown
  <1>16. OnlyRowsOf(f, filed, called)
    BY <1>8, <1>10, <1>12, OnlyRowsTrans
  <1>17. \A g : /\ ClassesOf(y, g) = ClassesOf(called, g) /\ CallsOf(y, g) = CallsOf(called, g)
                /\ \A c : NamesOf(y, c) = NamesOf(called, c)
    BY <1>15 DEF ClassesOf, CallsOf, NamesOf, MethodsOf
  <1>18. \A g : /\ ClassesOf(filed, g) = ClassesOf(x, g) /\ CallsOf(filed, g) = CallsOf(x, g)
                /\ \A c : NamesOf(filed, c) = NamesOf(x, c)
    BY <1>2 DEF PutFileShown, ClassesOf, CallsOf, NamesOf, MethodsOf
  <1>19. \A g : g # f => SameLayers(x, y, g)
    BY <1>16, <1>17, <1>18 DEF OnlyRowsOf, SameLayers
  <1>20. called.files = filed.files /\ called.torn = filed.torn
    BY <1>16 DEF OnlyRowsOf
  <1>21. /\ \A q \in Paths : q # p => y.files[q] = x.files[q]
         /\ y.files[p] # NoFile /\ y.files[p].id = f /\ y.files[p].hash = d.hash
         /\ y.files[p].imports = KeepImports(d, filed.files[p].imports)
         /\ y.torn = IF d.classes # {} /\ d.calls # {} THEN x.torn \ {p} ELSE x.torn
    BY <1>2, <1>5, <1>13, <1>14, <1>20 DEF PutImportsShown, PutFileShown, Filed
  <1>22. ClassesOf(y, f) = ClassesOf(classed, f)
    BY <1>10, <1>12, <1>17
  <1>23. Classes(y, f) = IF d.classes = {} THEN Classes(filed, f) ELSE d.classes
    BY <1>8, <1>22 DEF Classes, OneVersion
  <1>24. Calling(y, f) = IF d.calls = {} THEN Calling(filed, f) ELSE d.calls
    BY <1>8, <1>10, <1>12, <1>17 DEF Calling
  <1>25. Methods(y, f) = IF d.classes = {} /\ d.methods = {} THEN Methods(filed, f) ELSE ClassMethods(d)
    <2>1. \A c : NamesOf(y, c) = NamesOf(method, c)
      BY <1>12, <1>17
    <2>2. CASE d.classes = {} /\ d.methods = {}
      BY <1>8, <1>10, <1>22, <2>1, <2>2 DEF Methods
    <2>3. CASE d.classes = {} /\ d.methods # {}
      <3>1. Methods(y, f) = {}
        BY <1>10, <1>22, <2>1, <2>3, NoNames
      <3> QED BY <2>3, <3>1 DEF ClassMethods
    <2>4. CASE d.classes # {} /\ d.methods = {}
      <3>1. Methods(y, f) = {}
        BY <1>8, <1>10, <1>22, <2>1, <2>4, NoNames
      <3> QED BY <2>4, <3>1 DEF ClassMethods
    <2>5. CASE d.classes # {} /\ d.methods # {}
      <3>1. \A c \in ClassesOf(y, f) : NamesOf(y, c) = GroupOf(d, c.name)
        BY <1>10, <1>22, <2>1, <2>5
      <3> QED BY <1>23, <2>5, <3>1, MethodsOfDoc
    <2> QED BY <2>2, <2>3, <2>4, <2>5
  <1> QED BY <1>19, <1>21, <1>23, <1>24, <1>25 DEF AfterDocumentShown, filed, f, y

-----------------------------------------------------------------------------
(* Batches *)

\* Table by table, from t by the documents of b.
Chain(f, n, t, b) ==
    \A i \in 0 .. n : f[i] = IF i = 0 THEN t ELSE Durable!AfterDocument(f[i - 1], b[i])

LEMMA ChainUnique ==
  ASSUME NEW t, NEW b, NEW f, NEW g, NEW m \in Nat, NEW n \in Nat, Chain(f, m, t, b), Chain(g, n, t, b)
  PROVE  \A i \in Nat : i <= m /\ i <= n => f[i] = g[i]
  <1> DEFINE I == {i \in Nat : i <= m /\ i <= n => f[i] = g[i]}
  <1>1. 0 \in I
    <2>1. f[0] = t /\ g[0] = t
      BY DEF Chain
    <2> QED BY <2>1
  <1>2. ASSUME NEW i \in Nat, i \in I PROVE i + 1 \in I
    <2> SUFFICES ASSUME i + 1 <= m, i + 1 <= n PROVE f[i + 1] = g[i + 1]
      OBVIOUS
    <2>1. f[i] = g[i]
      BY <1>2
    <2>2. i + 1 \in 0 .. m /\ i + 1 \in 0 .. n /\ i + 1 # 0 /\ (i + 1) - 1 = i
      OBVIOUS
    <2>3. f[i + 1] = Durable!AfterDocument(f[i], b[i + 1]) /\ g[i + 1] = Durable!AfterDocument(g[i], b[i + 1])
      BY <2>2 DEF Chain
    <2> QED BY <2>1, <2>3
  <1> HIDE DEF I
  <1>3. Nat \subseteq I
    BY <1>1, <1>2, SetInduction
  <1> QED BY <1>3 DEF I

LEMMA ChainExists ==
  ASSUME NEW t, NEW b, NEW n \in Nat
  PROVE  \E f : Chain(f, n, t, b)
  <1> DEFINE I == {i \in Nat : \E f : Chain(f, i, t, b)}
  <1>1. 0 \in I
    <2>1. Chain([i \in {0} |-> t], 0, t, b)
      BY DEF Chain
    <2> QED BY <2>1
  <1>2. ASSUME NEW i \in Nat, i \in I PROVE i + 1 \in I
    <2>1. PICK f : Chain(f, i, t, b)
      BY <1>2
    <2> DEFINE next == Durable!AfterDocument(f[i], b[i + 1])
    <2> HIDE DEF next
    <2> DEFINE g == [j \in 0 .. i + 1 |-> IF j = i + 1 THEN next ELSE f[j]]
    <2>2. ASSUME NEW j \in 0 .. i + 1
          PROVE  g[j] = IF j = 0 THEN t ELSE Durable!AfterDocument(g[j - 1], b[j])
      <3>1. CASE j = i + 1
        <4>1. j # 0 /\ j - 1 = i /\ i \in 0 .. i + 1 /\ i # i + 1
          BY <3>1
        <4>2. g[j] = next /\ g[j - 1] = f[i]
          BY <3>1, <4>1
        <4> HIDE DEF g
        <4> QED BY <3>1, <4>1, <4>2 DEF next
      <3>2. CASE j # i + 1
        <4>1. j \in 0 .. i
          BY <3>2
        <4>2. g[j] = f[j] /\ (j # 0 => g[j - 1] = f[j - 1])
          BY <3>2, <4>1
        <4> HIDE DEF g
        <4> QED BY <2>1, <4>1, <4>2 DEF Chain
      <3> QED BY <3>1, <3>2
    <2> HIDE DEF g
    <2>3. Chain(g, i + 1, t, b)
      BY <2>2 DEF Chain
    <2> QED BY <2>3
  <1> HIDE DEF I
  <1>3. Nat \subseteq I
    BY <1>1, <1>2, SetInduction
  <1> QED BY <1>3 DEF I

\* What the recursive function of AfterDocuments is, since there is one.
LEMMA AfterDocumentsSteps ==
  ASSUME NEW t, NEW b
  PROVE  /\ Durable!AfterDocuments(0, t, b) = t
         /\ \A n \in Nat : Durable!AfterDocuments(n + 1, t, b)
                             = Durable!AfterDocument(Durable!AfterDocuments(n, t, b), b[n + 1])
  <1> DEFINE Is(f) == f = [i \in Nat |-> IF i = 0 THEN t ELSE Durable!AfterDocument(f[i - 1], b[i])]
             after == CHOOSE f : Is(f)
             Through(n) == CHOOSE f : Chain(f, n, t, b)
             all == [n \in Nat |-> Through(n)[n]]
  <1>1. \A n \in Nat : Chain(Through(n), n, t, b)
    BY ChainExists
  <1> HIDE DEF Through
  <1>2. ASSUME NEW n \in Nat
        PROVE  all[n] = IF n = 0 THEN t ELSE Durable!AfterDocument(all[n - 1], b[n])
    <2>1. all[n] = Through(n)[n] /\ n \in 0 .. n
      OBVIOUS
    <2>2. CASE n = 0
      BY <1>1, <2>1, <2>2 DEF Chain
    <2>3. CASE n # 0
      <3>1. n - 1 \in Nat /\ n - 1 <= n
        BY <2>3
      <3>2. all[n - 1] = Through(n - 1)[n - 1]
        BY <3>1
      <3>3. Through(n - 1)[n - 1] = Through(n)[n - 1]
        <4>1. Chain(Through(n), n, t, b) /\ Chain(Through(n - 1), n - 1, t, b)
          BY <1>1, <3>1
        <4> QED BY <3>1, <4>1, ChainUnique
      <3>4. Through(n)[n] = Durable!AfterDocument(Through(n)[n - 1], b[n])
        BY <1>1, <2>1, <2>3 DEF Chain
      <3> HIDE DEF all
      <3> QED BY <2>1, <2>3, <3>2, <3>3, <3>4
    <2> QED BY <2>2, <2>3
  <1>3. Is(all)
    <2>1. all = [n \in Nat |-> all[n]]
      OBVIOUS
    <2> HIDE DEF all
    <2> QED BY <1>2, <2>1, Zenon
  <1>4. Is(after)
    <2> HIDE DEF Is, all
    <2> QED BY <1>3
  <1>5. \A n \in Nat : Durable!AfterDocuments(n, t, b) = after[n]
    BY DEF Durable!AfterDocuments
  <1> HIDE DEF after
  <1>6. \A n \in Nat : after[n] = IF n = 0 THEN t ELSE Durable!AfterDocument(after[n - 1], b[n])
    BY <1>4, Zenon
  <1>7. \A n \in Nat : n + 1 \in Nat /\ n + 1 # 0 /\ (n + 1) - 1 = n
    OBVIOUS
  <1>8. \A n \in Nat : after[n + 1] = Durable!AfterDocument(after[n], b[n + 1])
    <2> TAKE n \in Nat
    <2>1. n + 1 \in Nat /\ n + 1 # 0 /\ (n + 1) - 1 = n
      BY <1>7
    <2>2. after[n + 1] = IF n + 1 = 0 THEN t ELSE Durable!AfterDocument(after[(n + 1) - 1], b[n + 1])
      BY <1>6, <2>1, Zenon
    <2> QED BY <2>1, <2>2
  <1>9. after[0] = t
    BY <1>6
  <1> QED BY <1>5, <1>7, <1>8, <1>9

\* Only a path with a record is torn.
Marked(x) == \A p \in x.torn : x.files[p] # NoFile

Table(x) == [p \in Paths |-> Shown(x, p)]

\* A path that shows no stored content gets all there is from the document.
LEMMA BulkContentFresh ==
  ASSUME NEW c, NEW d, c.state # "stored", c.state = "torn" => d.classes # {} /\ d.calls # {}
  PROVE  Durable!BulkContent(c, d)
            = Stored(d.hash, d.classes, IF d.classes = {} /\ d.methods = {} THEN {} ELSE ClassMethods(d),
                     d.calls, KeepImports(d, Durable!Kept(c)))
  <1> DEFINE old == Durable!Stored(NoHash, {}, {}, {}, Durable!Kept(c))
  <1>1. old.classes = {} /\ old.methods = {} /\ old.calls = {} /\ old.imports = Durable!Kept(c)
    BY DEF Durable!Stored
  <1>2. Durable!BulkContent(c, d) =
            Durable!Stored(d.hash, IF d.classes = {} THEN old.classes ELSE d.classes,
                IF d.classes = {} /\ d.methods = {} THEN old.methods ELSE Durable!ClassMethods(d),
                IF d.calls = {} THEN old.calls ELSE d.calls,
                Durable!KeepImports(d, old.imports))
    BY DEF Durable!BulkContent, Durable!Mends
  <1> HIDE DEF old
  <1>3. /\ (IF d.classes = {} THEN old.classes ELSE d.classes) = d.classes
        /\ (IF d.calls = {} THEN old.calls ELSE d.calls) = d.calls
    BY <1>1
  <1> QED BY <1>1, <1>2, <1>3 DEF Stored, ClassMethods, KeepImports,
             Durable!Stored, Durable!ClassMethods, Durable!KeepImports

LEMMA AfterDocumentTable ==
  ASSUME NEW x \in Database, Sound(x), Marked(x), NEW d \in Docs, NEW num \in FreshIDs(x, d.classes)
  PROVE  /\ Marked(AfterDocument(x, d, num))
         /\ Table(AfterDocument(x, d, num)) = Durable!AfterDocument(Table(x), d)
  <1> DEFINE p == d.path
             h == d.hash
             y == AfterDocument(x, d, num)
             w == PutFile(x, p, h)
             f == w.files[p].id
             old == x.files[p]
  <1>1. p \in Paths /\ h \in Hashes \cup {NoHash}
    BY DocType
  <1>2. PutFileShown(x, p, h, w)
    BY <1>1, PutFileSound
  <1>3. AfterDocumentShown(x, d, w, y)
    BY AfterDocumentRows
  <1> HIDE DEF y, w
  <1>4. /\ \A q \in Paths : q # p => y.files[q] = x.files[q]
        /\ y.files[p] # NoFile /\ y.files[p].id = f /\ y.files[p].hash = h
        /\ y.files[p].imports = KeepImports(d, w.files[p].imports)
        /\ y.torn = IF d.classes # {} /\ d.calls # {} THEN x.torn \ {p} ELSE x.torn
        /\ \A g : g # f => SameLayers(x, y, g)
        /\ Classes(y, f) = IF d.classes = {} THEN Classes(w, f) ELSE d.classes
        /\ Methods(y, f) = IF d.classes = {} /\ d.methods = {} THEN Methods(w, f) ELSE ClassMethods(d)
        /\ Calling(y, f) = IF d.calls = {} THEN Calling(w, f) ELSE d.calls
    BY <1>3 DEF AfterDocumentShown
  <1>5. Marked(y)
    BY <1>1, <1>4 DEF Marked, Database
  <1>6. ASSUME NEW q \in Paths, q # p PROVE Shown(y, q) = Shown(x, q)
    <2>1. ASSUME x.files[q] # NoFile PROVE x.files[q].id # f
      <3>1. y.files[q].id = x.files[q].id /\ y.files[q] # NoFile
        BY <1>4, <1>6, <2>1
      <3>2. Sound(y)
        BY AfterDocumentSound DEF y
      <3> QED BY <1>1, <1>4, <1>6, <3>1, <3>2 DEF Sound, IDsDistinct
    <2>2. x.files[q] # NoFile => SameLayers(x, y, x.files[q].id)
      BY <1>4, <2>1
    <2>3. q \in y.torn <=> q \in x.torn
      BY <1>4, <1>6
    <2> QED BY <1>4, <1>6, <2>2, <2>3, ShownSame
  <1>7. SameLayers(x, w, f)
    BY <1>2 DEF PutFileShown, SameLayers, ClassesOf, CallsOf, NamesOf, MethodsOf
  <1>8. Classes(w, f) = Classes(x, f) /\ Methods(w, f) = Methods(x, f) /\ Calling(w, f) = Calling(x, f)
    BY <1>7, LayersShow
  <1>9. Shown(y, p) = Durable!BulkContent(Shown(x, p), d)
    <2>1. CASE old = NoFile
      <3>1. p \notin x.torn /\ p \notin y.torn
        BY <1>4, <2>1 DEF Marked
      <3>2. ClassesOf(x, f) = {} /\ CallsOf(x, f) = {}
        BY <1>2, <1>7, <2>1 DEF PutFileShown, SameLayers
      <3>3. Classes(w, f) = {} /\ Methods(w, f) = {} /\ Calling(w, f) = {}
        BY <1>8, <3>2 DEF Classes, Methods, Calling
      <3>4. y.files[p].imports = KeepImports(d, {})
        BY <1>2, <1>4, <2>1 DEF PutFileShown
      <3>5. Shown(x, p) = Absent
        BY <2>1 DEF Shown
      <3>6. Shown(y, p) = Stored(h, d.classes, IF d.classes = {} /\ d.methods = {} THEN {} ELSE ClassMethods(d),
                                 d.calls, KeepImports(d, {}))
        BY <1>4, <3>1, <3>3, <3>4 DEF Shown
      <3>7. Durable!Kept(Absent) = {} /\ Absent.state = "absent"
        BY DEF Absent, Durable!Kept, Durable!Absent
      <3> QED BY <3>5, <3>6, <3>7, BulkContentFresh
    <2>2. CASE old # NoFile
      <3>1. f = old.id /\ w.files[p].imports = old.imports
        BY <1>2, <2>2 DEF PutFileShown
      <3>2. CASE p \in x.torn
        <4>1. Shown(x, p) = [state |-> "torn", imports |-> old.imports]
          BY <2>2, <3>2 DEF Shown
        <4>2. CASE d.classes # {} /\ d.calls # {}
          <5>1. p \notin y.torn
            BY <1>4, <4>2
          <5>2. Shown(y, p) = Stored(h, d.classes, ClassMethods(d), d.calls, KeepImports(d, old.imports))
            BY <1>4, <3>1, <4>2, <5>1 DEF Shown
          <5>3. Durable!Kept(Shown(x, p)) = old.imports /\ Shown(x, p).state = "torn"
            BY <4>1 DEF Durable!Kept, Durable!Absent
          <5> QED BY <4>2, <5>2, <5>3, BulkContentFresh
        <4>3. CASE ~(d.classes # {} /\ d.calls # {})
          <5>1. p \in y.torn
            BY <1>4, <3>2, <4>3
          <5>2. Shown(y, p) = [state |-> "torn", imports |-> KeepImports(d, old.imports)]
            BY <1>4, <3>1, <5>1 DEF Shown
          <5> QED BY <4>1, <4>3, <5>2 DEF Durable!BulkContent, Durable!Mends, Durable!Torn, KeepImports, Durable!KeepImports
        <4> QED BY <4>2, <4>3
      <3>3. CASE p \notin x.torn
        <4> DEFINE c == Stored(old.hash, Classes(x, f), Methods(x, f), Calling(x, f), old.imports)
        <4>1. Shown(x, p) = c
          BY <2>2, <3>1, <3>3 DEF Shown
        <4>2. Shown(y, p) = Stored(h, IF d.classes = {} THEN Classes(x, f) ELSE d.classes,
                                   IF d.classes = {} /\ d.methods = {} THEN Methods(x, f) ELSE ClassMethods(d),
                                   IF d.calls = {} THEN Calling(x, f) ELSE d.calls,
                                   KeepImports(d, old.imports))
          BY <1>4, <1>8, <3>1, <3>3 DEF Shown
        <4>3. /\ c.state = "stored" /\ c.classes = Classes(x, f) /\ c.methods = Methods(x, f)
              /\ c.calls = Calling(x, f) /\ c.imports = old.imports
          BY DEF Stored
        <4> HIDE DEF c
        <4> QED BY <4>1, <4>2, <4>3 DEF Durable!BulkContent,
                   Stored, ClassMethods, KeepImports, Durable!Stored, Durable!ClassMethods, Durable!KeepImports
      <3> QED BY <3>2, <3>3
    <2> QED BY <2>1, <2>2
  <1>10. Table(y) = Durable!AfterDocument(Table(x), d)
    <2>1. \A q \in Paths : Shown(y, q) = IF q = p THEN Durable!BulkContent(Shown(x, p), d) ELSE Shown(x, q)
      BY <1>6, <1>9
    <2>2. Table(x)[p] = Shown(x, p)
      BY <1>1 DEF Table
    <2>3. Table(y) = [Table(x) EXCEPT ![p] = Durable!BulkContent(Table(x)[p], d)]
      BY <1>1, <2>1, <2>2 DEF Table
    <2> QED BY <2>3 DEF Durable!AfterDocument
  <1> QED BY <1>5, <1>10 DEF y

-----------------------------------------------------------------------------
(* The steps as DurableStore sees them *)

\* What a running UpsertIR has committed is its document's: the hash, then the
\* class names, the methods of every class outside groups, the calls.
Written ==
    up # Idle =>
        /\ db.files[up.doc.path].hash = up.doc.hash
        /\ up.stage = "methods" =>
              \A c \in ClassesOf(db, up.file) \ up.groups : NamesOf(db, c) = GroupOf(up.doc, c.name)
        /\ up.stage = "imports" =>
              /\ Classes(db, up.file) = up.doc.classes
              /\ Methods(db, up.file) = ClassMethods(up.doc)
              /\ Calling(db, up.file) = up.doc.calls

\* The transaction shows what the documents done so far make of the tables.
BatchSeen ==
    tx # NoTx =>
        \E b \in Batches : \E n \in 0 .. Len(b) :
            /\ Len(bulk) = Len(b) - n
            /\ \A i \in 1 .. Len(bulk) : bulk[i] = b[n + i]
            /\ Table(tx) = Durable!AfterDocuments(n, Table(db), b)

SeenInv == Marked(db) /\ (tx # NoTx => Marked(tx)) /\ Written /\ BatchSeen

SeenTable == [p \in Paths |-> Seen(p)]

LEMMA ShownFacts ==
  ASSUME NEW x, NEW p
  PROVE  /\ Shown(x, p).state \in {"absent", "torn", "stored"}
         /\ Durable!Kept(Shown(x, p)) = IF x.files[p] = NoFile THEN {} ELSE x.files[p].imports
         /\ x.files[p] = NoFile <=> Shown(x, p) = Absent
  <1>1. CASE x.files[p] = NoFile
    BY <1>1 DEF Shown, Absent, Durable!Kept, Durable!Absent
  <1>2. CASE x.files[p] # NoFile /\ p \in x.torn
    <2>1. Shown(x, p) = [state |-> "torn", imports |-> x.files[p].imports]
      BY <1>2 DEF Shown
    <2> QED BY <1>2, <2>1 DEF Absent, Durable!Kept, Durable!Absent
  <1>3. CASE x.files[p] # NoFile /\ p \notin x.torn
    <2> DEFINE c == Shown(x, p)
    <2>1. c = Stored(x.files[p].hash, Classes(x, x.files[p].id), Methods(x, x.files[p].id),
                     Calling(x, x.files[p].id), x.files[p].imports)
      BY <1>3 DEF Shown
    <2>2. c.state = "stored" /\ c.imports = x.files[p].imports
      BY <2>1 DEF Stored
    <2>3. c # Absent
      BY <2>2 DEF Absent
    <2> HIDE DEF c
    <2> QED BY <1>3, <2>2, <2>3 DEF Absent, Durable!Kept, Durable!Absent, c
  <1> QED BY <1>1, <1>2, <1>3

LEMMA OneSeen ==
  ASSUME NEW p \in Paths, NEW c, Seen(p)' = c, \A q \in Paths : q # p => Seen(q)' = Seen(q)
  PROVE  SeenTable' = [SeenTable EXCEPT ![p] = c]
  BY DEF SeenTable

LEMMA NoneSeen ==
  ASSUME \A q \in Paths : Seen(q)' = Seen(q)
  PROVE  SeenTable' = SeenTable
  BY DEF SeenTable

LEMMA UpsertFileBegins ==
  ASSUME Inv, SeenInv, NEW d \in Docs, UpsertFile(d)
  PROVE  SeenInv' /\ Durable!BeginUpsertIR(d)
  <1> DEFINE p == d.path
             old == Durable!Kept(Shown(db, p))
  <1>1. db \in Database /\ Sound(db) /\ p \in Paths /\ d.hash \in Hashes \cup {NoHash}
    BY DocType DEF Inv, TypeOK
  <1>2. db' = PutFile(db, p, d.hash) /\ up = Idle /\ tx' = NoTx
        /\ up' = [stage |-> "classes", doc |-> d, file |-> db'.files[p].id, groups |-> {}]
    BY DEF UpsertFile, Free
  <1>3. PutFileShown(db, p, d.hash, db') /\ db'.files[p] # NoFile
    BY <1>1, <1>2, PutFileSound, FileType
  <1>4. up' # Idle /\ up'.stage = "classes" /\ up'.doc = d
    BY <1>2 DEF Idle
  <1>5. \A f : SameLayers(db, db', f)
    BY <1>3 DEF PutFileShown, SameLayers, ClassesOf, CallsOf, NamesOf, MethodsOf
  <1>6. \A q \in Paths : q # p => db'.files[q] = db.files[q]
    BY <1>3 DEF PutFileShown
  <1>7. db'.torn = db.torn /\ db.torn \subseteq Paths
    BY <1>1, <1>3 DEF PutFileShown, Database
  <1>8. SeenInv'
    <2>1. Marked(db')
      BY <1>3, <1>6, <1>7 DEF SeenInv, Marked
    <2>2. Written'
      BY <1>3, <1>4 DEF Written, PutFileShown
    <2>3. BatchSeen' /\ (tx' # NoTx => Marked(tx'))
      BY <1>2 DEF BatchSeen
    <2> QED BY <2>1, <2>2, <2>3 DEF SeenInv
  <1>9. \A q \in Paths : Seen(q) = Shown(db, q)
    BY <1>2 DEF Seen
  <1>10. ASSUME NEW q \in Paths, q # p PROVE Seen(q)' = Seen(q)
    <2>1. Shown(db', q) = Shown(db, q)
      BY <1>5, <1>6, <1>7, <1>10, ShownSame
    <2>2. Seen(q)' = Shown(db', q)
      BY <1>4, <1>10 DEF Seen
    <2> QED BY <1>9, <2>1, <2>2
  <1>11. Seen(p)' = Updating(d, old)
    <2>1. Seen(p)' = Updating(d, db'.files[p].imports)
      BY <1>4 DEF Seen
    <2>2. old = IF db.files[p] = NoFile THEN {} ELSE db.files[p].imports
      BY ShownFacts
    <2> HIDE DEF old
    <2>3. db'.files[p].imports = old
      BY <1>3, <2>2 DEF PutFileShown
    <2> QED BY <2>1, <2>3
  <1>12. SeenTable' = [SeenTable EXCEPT ![p] = Updating(d, old)]
    <2> HIDE DEF p, old
    <2> QED BY <1>1, <1>10, <1>11, OneSeen
  <1>13. SeenTable[p] = Shown(db, p) /\ Shown(db, p).state # "updating"
    BY <1>1, <1>9, ShownFacts DEF SeenTable
  <1> QED BY <1>8, <1>12, <1>13 DEF Durable!BeginUpsertIR, Durable!Busy, SeenTable, Updating, Durable!Updating

\* Between its first and its last commit an UpsertIR is seen as one update.
LEMMA RunningUnseen ==
  ASSUME Inv, SeenInv, up.stage # "idle", OnlyRowsOf(up.file, db, db'),
         up'.stage # "idle", up'.doc = up.doc, UNCHANGED tx
  PROVE  /\ SeenTable' = SeenTable
         /\ Marked(db)' /\ (tx # NoTx => Marked(tx))' /\ BatchSeen'
         /\ db'.files[up.doc.path].hash = up.doc.hash
  <1>1. tx = NoTx /\ up # Idle /\ up' # Idle /\ up.doc.path \in Paths /\ Filed(db, up.doc.path, up.file)
        /\ db \in Database /\ Sound(db)
    BY Running, IdleFacts
  <1>2. db'.files = db.files /\ db'.torn = db.torn
    BY DEF OnlyRowsOf
  <1>3. Marked(db') /\ BatchSeen' /\ (tx' # NoTx => Marked(tx'))
    BY <1>1, <1>2 DEF SeenInv, Marked, BatchSeen
  <1>4. db'.files[up.doc.path].hash = up.doc.hash
    BY <1>1, <1>2 DEF SeenInv, Written
  <1>5. ASSUME NEW q \in Paths PROVE Seen(q)' = Seen(q)
    <2>1. CASE q = up.doc.path
      BY <1>1, <1>2, <2>1 DEF Seen
    <2>2. CASE q # up.doc.path
      <3>1. db.files[q] # NoFile => db.files[q].id # up.file
        BY <1>1, <2>2 DEF Sound, IDsDistinct, Filed
      <3>2. db.files[q] # NoFile => SameLayers(db, db', db.files[q].id)
        BY <3>1 DEF OnlyRowsOf
      <3>3. Shown(db', q) = Shown(db, q)
        BY <1>2, <3>2, ShownSame
      <3>4. Seen(q)' = Shown(db', q) /\ Seen(q) = Shown(db, q)
        BY <2>2 DEF Seen
      <3> QED BY <3>3, <3>4
    <2> QED BY <2>1, <2>2
  <1> QED BY <1>3, <1>4, <1>5, NoneSeen

LEMMA UpsertClassesUnseen ==
  ASSUME Inv, SeenInv, UpsertClasses
  PROVE  SeenInv' /\ SeenTable' = SeenTable
  <1> DEFINE d == up.doc
             f == up.file
  <1>1. up.stage = "classes" /\ UNCHANGED tx
    BY DEF UpsertClasses
  <1>2. PICK num \in FreshIDs(db, d.classes) : db' = PutClasses(db, f, num)
    BY DEF UpsertClasses
  <1>3. db \in Database /\ Sound(db) /\ d \in Docs /\ Filed(db, d.path, f) /\ up \in Upsert
    BY <1>1, Running
  <1>4. /\ OnlyRowsOf(f, db, db')
        /\ \A c \in ClassesOf(db', f) : NamesOf(db', c) = {}
    <2> HIDE DEF d, f
    <2> DEFINE y == PutClasses(db, f, num)
    <2>1. OnlyRowsOf(f, db, y) /\ \A c \in ClassesOf(y, f) : NamesOf(y, c) = {}
      BY <1>3, PutClassesSound
    <2> QED BY <1>2, <2>1
  <1> DEFINE g == {c \in ClassesOf(db', f) : GroupOf(d, c.name) # {}}
  <1>5. up' = [up EXCEPT !.stage = "methods", !.groups = g]
    BY DEF UpsertClasses
  <1> HIDE DEF g
  <1>6. up'.stage = "methods" /\ up'.doc = d /\ up'.file = f /\ up'.groups = g
    BY <1>3, <1>5 DEF Upsert
  <1>7. /\ SeenTable' = SeenTable /\ Marked(db)' /\ (tx # NoTx => Marked(tx))' /\ BatchSeen'
        /\ db'.files[d.path].hash = d.hash
    BY <1>1, <1>4, <1>6, RunningUnseen
  <1>8. \A c \in ClassesOf(db', f) \ g : NamesOf(db', c) = GroupOf(d, c.name)
    BY <1>4 DEF g
  <1>9. Written'
    BY <1>6, <1>7, <1>8 DEF Written
  <1> QED BY <1>7, <1>9 DEF SeenInv

LEMMA UpsertMethodsUnseen ==
  ASSUME Inv, SeenInv, NEW c \in up.groups, UpsertMethods(c)
  PROVE  SeenInv' /\ SeenTable' = SeenTable
  <1> DEFINE d == up.doc
             f == up.file
  <1>1. up.stage = "methods" /\ UNCHANGED tx /\ db' = PutMethods(db, c, d)
        /\ up' = [up EXCEPT !.groups = up.groups \ {c}]
    BY DEF UpsertMethods
  <1>2. /\ db \in Database /\ Sound(db) /\ d \in Docs /\ Filed(db, d.path, f) /\ up \in Upsert
        /\ OneVersion(db, f, d) /\ up.groups \subseteq ClassesOf(db, f) /\ up # Idle
    BY <1>1, Running
  <1>3. c \in ClassesOf(db, f)
    BY <1>2
  <1>4. /\ OnlyRowsOf(f, db, db') /\ db'.classes = db.classes
        /\ NamesOf(db', c) = GroupOf(d, c.name)
        /\ \A b \in db.classes : b # c => NamesOf(db', b) = NamesOf(db, b)
    <2> HIDE DEF d, f
    <2> DEFINE y == PutMethods(db, c, d)
    <2>1. /\ OnlyRowsOf(f, db, y) /\ y.classes = db.classes
          /\ NamesOf(y, c) = GroupOf(d, c.name)
          /\ \A b \in db.classes : b # c => NamesOf(y, b) = NamesOf(db, b)
      BY <1>2, <1>3, PutMethodsSound
    <2> QED BY <1>1, <2>1
  <1>5. up'.stage = "methods" /\ up'.doc = d /\ up'.file = f /\ up'.groups = up.groups \ {c}
    BY <1>1, <1>2 DEF Upsert
  <1>6. /\ SeenTable' = SeenTable /\ Marked(db)' /\ (tx # NoTx => Marked(tx))' /\ BatchSeen'
        /\ db'.files[d.path].hash = d.hash
    BY <1>1, <1>4, <1>5, RunningUnseen
  <1>7. \A b \in ClassesOf(db, f) \ up.groups : NamesOf(db, b) = GroupOf(d, b.name)
    BY <1>1, <1>2 DEF SeenInv, Written
  <1>8. ClassesOf(db', f) = ClassesOf(db, f)
    BY <1>4 DEF ClassesOf
  <1>9. ASSUME NEW b \in ClassesOf(db', f) \ up'.groups PROVE NamesOf(db', b) = GroupOf(d, b.name)
    <2>1. b \in db.classes /\ b \in ClassesOf(db, f) /\ (b = c \/ b \notin up.groups)
      BY <1>5, <1>8 DEF ClassesOf
    <2> QED BY <1>4, <1>7, <2>1
  <1>10. Written'
    BY <1>5, <1>6, <1>9 DEF Written
  <1> QED BY <1>6, <1>10 DEF SeenInv

LEMMA UpsertCallsUnseen ==
  ASSUME Inv, SeenInv, UpsertCalls
  PROVE  SeenInv' /\ SeenTable' = SeenTable
  <1> DEFINE d == up.doc
             f == up.file
  <1>1. up.stage = "methods" /\ up.groups = {} /\ UNCHANGED tx /\ db' = PutCalls(db, f, d)
        /\ up' = [up EXCEPT !.stage = "imports"]
    BY DEF UpsertCalls
  <1>2. /\ db \in Database /\ Sound(db) /\ d \in Docs /\ Filed(db, d.path, f) /\ up \in Upsert
        /\ OneVersion(db, f, d) /\ up # Idle
    BY <1>1, Running
  <1>3. /\ OnlyRowsOf(f, db, db') /\ Calling(db', f) = d.calls
        /\ ClassesOf(db', f) = ClassesOf(db, f) /\ \A c : NamesOf(db', c) = NamesOf(db, c)
    <2> HIDE DEF d, f
    <2> DEFINE y == PutCalls(db, f, d)
    <2>1. /\ OnlyRowsOf(f, db, y) /\ Calling(y, f) = d.calls
          /\ ClassesOf(y, f) = ClassesOf(db, f) /\ \A c : NamesOf(y, c) = NamesOf(db, c)
      BY <1>2, PutCallsSound
    <2> QED BY <1>1, <2>1
  <1>4. up'.stage = "imports" /\ up'.doc = d /\ up'.file = f
    BY <1>1, <1>2 DEF Upsert
  <1>5. /\ SeenTable' = SeenTable /\ Marked(db)' /\ (tx # NoTx => Marked(tx))' /\ BatchSeen'
        /\ db'.files[d.path].hash = d.hash
    BY <1>1, <1>3, <1>4, RunningUnseen
  <1>6. \A c \in ClassesOf(db, f) : NamesOf(db, c) = GroupOf(d, c.name)
    BY <1>1, <1>2 DEF SeenInv, Written
  <1>7. Classes(db', f) = d.classes
    BY <1>2, <1>3 DEF OneVersion, Classes
  <1>8. \A c \in ClassesOf(db', f) : NamesOf(db', c) = GroupOf(d, c.name)
    BY <1>3, <1>6
  <1>9. Methods(db', f) = ClassMethods(d)
    BY <1>2, <1>7, <1>8, MethodsOfDoc
  <1>10. Written'
    BY <1>3, <1>4, <1>5, <1>7, <1>9 DEF Written
  <1> QED BY <1>5, <1>10 DEF SeenInv

\* An UpsertIR ends: its path shows c from now on, the others what they did.
LEMMA UpsertEnds ==
  ASSUME Inv, SeenInv, up # Idle, up' = Idle, UNCHANGED tx, NEW c,
         \A q \in Paths : q # up.doc.path => db'.files[q] = db.files[q] /\ (q \in db'.torn <=> q \in db.torn),
         db'.classes = db.classes, db'.methods = db.methods, db'.calls = db.calls,
         Marked(db'), Shown(db', up.doc.path) = c
  PROVE  /\ SeenInv'
         /\ SeenTable' = [SeenTable EXCEPT ![up.doc.path] = c]
         /\ up.doc.path \in Paths
         /\ SeenTable[up.doc.path] = Updating(up.doc, db.files[up.doc.path].imports)
  <1> DEFINE p == up.doc.path
  <1>1. tx = NoTx /\ p \in Paths
    <2>1. up.stage # "idle"
      BY IdleFacts DEF Inv, TypeOK
    <2> QED BY <2>1, Running
  <1>2. SeenInv'
    BY <1>1 DEF SeenInv, Written, BatchSeen
  <1>3. \A f : SameLayers(db, db', f)
    BY DEF SameLayers, ClassesOf, CallsOf, NamesOf, MethodsOf
  <1>4. \A q \in Paths : Seen(q)' = Shown(db', q)
    BY DEF Seen
  <1>5. ASSUME NEW q \in Paths, q # p PROVE Seen(q)' = Seen(q)
    <2>1. Shown(db', q) = Shown(db, q)
      BY <1>3, <1>5, ShownSame
    <2>2. Seen(q) = Shown(db, q)
      BY <1>5 DEF Seen
    <2> QED BY <1>4, <2>1, <2>2
  <1>6. SeenTable' = [SeenTable EXCEPT ![p] = c]
    <2>1. PICK r \in Paths : r = up.doc.path
      BY <1>1
    <2>2. Seen(r)' = c
      BY <1>4, <2>1
    <2>3. SeenTable' = [SeenTable EXCEPT ![r] = c]
      BY <1>5, <2>1, <2>2, OneSeen
    <2> QED BY <2>1, <2>3
  <1>7. SeenTable[p] = Updating(up.doc, db.files[p].imports)
    BY <1>1 DEF SeenTable, Seen
  <1> QED BY <1>1, <1>2, <1>6, <1>7

LEMMA SaveImportsFinishes ==
  ASSUME Inv, SeenInv, SaveImports
  PROVE  SeenInv' /\ \E p \in Paths : Durable!FinishUpsertIR(p)
  <1> DEFINE d == up.doc
             p == up.doc.path
             f == up.file
             y == PutImports(db, p, d)
  <1>1. up.stage = "imports" /\ up' = Idle /\ UNCHANGED tx /\ db' = Untorn(y, p)
    BY DEF SaveImports
  <1>2. /\ db \in Database /\ Sound(db) /\ d \in Docs /\ p \in Paths /\ Filed(db, p, f)
        /\ up # Idle
    BY <1>1, Running
  <1>3. y \in Database /\ PutImportsShown(db, d, y)
    <2> HIDE DEF d
    <2> QED BY <1>2, PutImportsSound DEF d
  <1> HIDE DEF y
  <1>4. /\ db'.files = y.files /\ db'.classes = db.classes /\ db'.methods = db.methods
        /\ db'.calls = db.calls /\ db'.torn = db.torn \ {p}
    BY <1>1, <1>3 DEF Untorn, Database, PutImportsShown
  <1>5. /\ \A q \in Paths : q # p => db'.files[q] = db.files[q] /\ (q \in db'.torn <=> q \in db.torn)
        /\ db'.files[p] # NoFile /\ db'.files[p].id = f
        /\ db'.files[p].hash = db.files[p].hash
        /\ db'.files[p].imports = KeepImports(d, db.files[p].imports)
    BY <1>2, <1>3, <1>4 DEF PutImportsShown, Filed
  <1>6. Marked(db')
    BY <1>2, <1>4, <1>5 DEF SeenInv, Marked, Database
  <1>7. /\ db.files[p].hash = d.hash /\ Classes(db, f) = d.classes
        /\ Methods(db, f) = ClassMethods(d) /\ Calling(db, f) = d.calls
    BY <1>1, <1>2 DEF SeenInv, Written
  <1>8. SameLayers(db, db', f)
    BY <1>4 DEF SameLayers, ClassesOf, CallsOf, NamesOf, MethodsOf
  <1> DEFINE c == DocContent(d, db.files[p].imports)
  <1>9. Shown(db', p) = c
    <2>1. Classes(db', f) = d.classes /\ Methods(db', f) = ClassMethods(d) /\ Calling(db', f) = d.calls
      BY <1>7, <1>8, LayersShow
    <2>2. p \notin db'.torn
      BY <1>4
    <2> QED BY <1>5, <1>7, <2>1, <2>2 DEF Shown, DocContent
  <1>10. /\ SeenInv'
         /\ SeenTable' = [SeenTable EXCEPT ![p] = c]
         /\ SeenTable[p] = Updating(d, db.files[p].imports)
    <2> HIDE DEF c
    <2> QED BY <1>1, <1>2, <1>4, <1>5, <1>6, <1>9, UpsertEnds
  <1>11. /\ SeenTable[p].state = "updating" /\ SeenTable[p].doc = d
         /\ SeenTable[p].imports = db.files[p].imports
    BY <1>10 DEF Updating
  <1>12. c = Durable!DocContent(SeenTable[p].doc, SeenTable[p].imports)
    BY <1>11 DEF DocContent, Durable!DocContent, Stored, Durable!Stored, KeepImports, Durable!KeepImports,
       ClassMethods, Durable!ClassMethods
  <1> HIDE DEF c
  <1>13. Durable!FinishUpsertIR(p)
    BY <1>10, <1>11, <1>12 DEF Durable!FinishUpsertIR, Durable!Busy, SeenTable
  <1> QED BY <1>2, <1>10, <1>13

LEMMA InterruptTears ==
  ASSUME Inv, SeenInv, Interrupt
  PROVE  SeenInv' /\ \E p \in Paths : Durable!Tear(p)
  <1> DEFINE p == up.doc.path
             c == [state |-> "torn", imports |-> db.files[p].imports]
  <1>1. up # Idle /\ up' = Idle /\ UNCHANGED tx /\ db' = [db EXCEPT !.torn = db.torn \cup {p}]
    BY DEF Interrupt
  <1>2. db \in Database /\ p \in Paths /\ db.files[p] # NoFile
    <2>1. up.stage # "idle"
      BY <1>1, IdleFacts DEF Inv, TypeOK
    <2> QED BY <2>1, Running DEF Filed
  <1>3. /\ db'.files = db.files /\ db'.classes = db.classes /\ db'.methods = db.methods
        /\ db'.calls = db.calls /\ db'.torn = db.torn \cup {p}
    BY <1>1, <1>2 DEF Database
  <1>4. Marked(db')
    BY <1>2, <1>3 DEF SeenInv, Marked
  <1>5. Shown(db', p) = c
    BY <1>2, <1>3 DEF Shown
  <1>6. /\ SeenInv'
        /\ SeenTable' = [SeenTable EXCEPT ![p] = c]
        /\ SeenTable[p] = Updating(up.doc, db.files[p].imports)
    <2> HIDE DEF c
    <2> QED BY <1>1, <1>3, <1>4, <1>5, UpsertEnds
  <1>7. SeenTable[p].state = "updating" /\ SeenTable[p].imports = db.files[p].imports
    BY <1>6 DEF Updating
  <1>8. Durable!Tear(p)
    BY <1>6, <1>7 DEF Durable!Tear, Durable!Busy, Durable!Torn, SeenTable
  <1> QED BY <1>2, <1>6, <1>8

-----------------------------------------------------------------------------
LEMMA QuietTable ==
  ASSUME up = Idle
  PROVE  SeenTable = Table(db) /\ \A p \in Paths : SeenTable[p] = Shown(db, p) /\ ~Durable!Busy(p)
  <1>1. \A p \in Paths : Seen(p) = Shown(db, p)
    BY DEF Seen
  <1>2. \A p \in Paths : SeenTable[p] = Shown(db, p)
    BY <1>1 DEF SeenTable
  <1>3. \A p \in Paths : Shown(db, p).state # "updating"
    BY ShownFacts
  <1>4. \A p \in Paths : ~Durable!Busy(p)
    BY <1>2, <1>3 DEF Durable!Busy, SeenTable
  <1> QED BY <1>1, <1>2, <1>4 DEF SeenTable, Table

LEMMA BeginBulkUnseen ==
  ASSUME Inv, SeenInv, NEW b \in Batches, BeginBulkUpsert(b)
  PROVE  SeenInv' /\ SeenTable' = SeenTable
  <1>1. up = Idle /\ up' = up /\ db' = db /\ tx' = db /\ bulk' = b /\ b \in Seq(Docs)
    BY SqliteStoreAssumption DEF BeginBulkUpsert, Free
  <1>2. Table(tx') = Durable!AfterDocuments(0, Table(db'), b)
    BY <1>1, AfterDocumentsSteps
  <1>3. BatchSeen'
    <2>1. Len(b) \in Nat /\ 0 \in 0 .. Len(b) /\ Len(b) = Len(b) - 0 /\ \A i \in 1 .. Len(b) : b[i] = b[0 + i]
      BY <1>1
    <2>2. \E n \in 0 .. Len(b) :
            /\ Len(bulk') = Len(b) - n
            /\ \A i \in 1 .. Len(bulk') : bulk'[i] = b[n + i]
            /\ Table(tx') = Durable!AfterDocuments(n, Table(db'), b)
      BY <1>1, <1>2, <2>1
    <2> QED BY <2>2 DEF BatchSeen, Table
  <1>4. SeenInv'
    BY <1>1, <1>3 DEF SeenInv, Written, Marked
  <1> QED BY <1>1, <1>4 DEF SeenTable, Seen

LEMMA BulkNextUnseen ==
  ASSUME Inv, SeenInv, BulkUpsertNext
  PROVE  SeenInv' /\ SeenTable' = SeenTable
  <1>1. bulk # <<>> /\ bulk \in Seq(Docs) /\ tx # NoTx /\ tx \in Database /\ Sound(tx) /\ up = Idle
    BY DEF BulkUpsertNext, Inv, TypeOK, Batching, Upserting
  <1>2. up' = up /\ db' = db /\ bulk' = Tail(bulk)
    BY DEF BulkUpsertNext
  <1>3. PICK b \in Batches : \E n \in 0 .. Len(b) :
            /\ Len(bulk) = Len(b) - n
            /\ \A i \in 1 .. Len(bulk) : bulk[i] = b[n + i]
            /\ Table(tx) = Durable!AfterDocuments(n, Table(db), b)
    BY <1>1 DEF SeenInv, BatchSeen
  <1>4. PICK n \in 0 .. Len(b) :
            /\ Len(bulk) = Len(b) - n
            /\ \A i \in 1 .. Len(bulk) : bulk[i] = b[n + i]
            /\ Table(tx) = Durable!AfterDocuments(n, Table(db), b)
    BY <1>3
  <1>5. b \in Seq(Docs) /\ Len(b) \in Nat
    BY SqliteStoreAssumption
  <1> DEFINE d == Head(bulk)
  <1>6. /\ d \in Docs /\ d = bulk[1] /\ Len(bulk) \in Nat /\ Len(bulk) > 0
        /\ Tail(bulk) \in Seq(Docs) /\ Len(Tail(bulk)) = Len(bulk) - 1
        /\ \A i \in 1 .. Len(bulk) - 1 : Tail(bulk)[i] = bulk[i + 1]
    BY <1>1
  <1>7. d = b[n + 1] /\ n + 1 \in 0 .. Len(b) /\ n \in Nat
    BY <1>4, <1>5, <1>6
  <1> HIDE DEF d
  <1>8. PICK num \in FreshIDs(tx, d.classes) : tx' = AfterDocument(tx, d, num)
    BY DEF BulkUpsertNext, d
  <1>9. Marked(tx') /\ Table(tx') = Durable!AfterDocument(Table(tx), d)
    <2>1. Marked(tx)
      BY <1>1 DEF SeenInv
    <2> QED BY <1>1, <1>6, <1>8, <2>1, AfterDocumentTable
  <1>10. Table(tx') = Durable!AfterDocuments(n + 1, Table(db), b)
    <2> DEFINE t == Table(db)
    <2> HIDE DEF t
    <2>1. Durable!AfterDocuments(n + 1, t, b) = Durable!AfterDocument(Durable!AfterDocuments(n, t, b), b[n + 1])
      BY <1>7, AfterDocumentsSteps
    <2>2. Table(tx) = Durable!AfterDocuments(n, t, b)
      BY <1>4 DEF t
    <2>3. Table(tx') = Durable!AfterDocuments(n + 1, t, b)
      BY <1>7, <1>9, <2>1, <2>2
    <2> QED BY <2>3 DEF t
  <1>11. Len(Tail(bulk)) = Len(b) - (n + 1)
    BY <1>4, <1>5, <1>6
  <1>12. \A i \in 1 .. Len(Tail(bulk)) : Tail(bulk)[i] = b[(n + 1) + i]
    <2> TAKE i \in 1 .. Len(Tail(bulk))
    <2>1. i + 1 \in 1 .. Len(bulk) /\ i \in 1 .. Len(bulk) - 1 /\ n + (i + 1) = (n + 1) + i
      BY <1>6
    <2> QED BY <1>4, <1>6, <2>1
  <1>13. BatchSeen'
    <2>1. \E m \in 0 .. Len(b) :
            /\ Len(bulk') = Len(b) - m
            /\ \A i \in 1 .. Len(bulk') : bulk'[i] = b[m + i]
            /\ Table(tx') = Durable!AfterDocuments(m, Table(db'), b)
      BY <1>2, <1>7, <1>10, <1>11, <1>12
    <2> QED BY <2>1 DEF BatchSeen, Table
  <1>14. SeenInv'
    BY <1>1, <1>2, <1>9, <1>13 DEF SeenInv, Written, Marked
  <1>15. SeenTable' = SeenTable
    BY <1>2 DEF SeenTable, Seen
  <1> QED BY <1>14, <1>15

LEMMA CommitUpserts ==
  ASSUME Inv, SeenInv, Commit
  PROVE  SeenInv' /\ \E b \in Batches : Durable!BulkUpsert(b)
  <1>1. tx # NoTx /\ up = Idle /\ bulk = <<>> /\ db' = tx /\ tx' = NoTx /\ up' = Idle
    BY DEF Commit, Inv, Upserting
  <1>2. PICK b \in Batches : \E n \in 0 .. Len(b) :
            /\ Len(bulk) = Len(b) - n
            /\ Table(tx) = Durable!AfterDocuments(n, Table(db), b)
    BY <1>1 DEF SeenInv, BatchSeen
  <1>3. b \in Seq(Docs) /\ Len(b) \in Nat
    BY SqliteStoreAssumption
  <1>4. Table(tx) = Durable!AfterDocuments(Len(b), Table(db), b)
    <2>1. Len(bulk) = 0
      BY <1>1
    <2> QED BY <1>2, <1>3, <2>1
  <1>5. SeenTable = Table(db) /\ \A p \in Paths : ~Durable!Busy(p)
    BY <1>1, QuietTable
  <1>6. SeenTable' = Table(tx)
    <2>1. \A q \in Paths : Seen(q)' = Shown(tx, q)
      BY <1>1 DEF Seen
    <2> QED BY <2>1 DEF SeenTable, Table
  <1>7. \A i \in DOMAIN b : b[i].path \in Paths
    BY <1>3, DocType
  <1>8. Durable!BulkUpsert(b)
    BY <1>4, <1>5, <1>6, <1>7 DEF Durable!BulkUpsert, SeenTable
  <1>9. SeenInv'
    BY <1>1 DEF SeenInv, Written, BatchSeen, Marked
  <1> QED BY <1>8, <1>9

LEMMA RollbackUnseen ==
  ASSUME Inv, SeenInv, Rollback
  PROVE  SeenInv' /\ SeenTable' = SeenTable
  <1>1. up = Idle /\ up' = up /\ db' = db /\ tx' = NoTx
    BY DEF Rollback, Inv, Upserting
  <1> QED BY <1>1 DEF SeenInv, Written, BatchSeen, Marked, SeenTable, Seen

\* A step outside UpsertIR and batches: p shows c from now on.
LEMMA QuietStep ==
  ASSUME SeenInv, up = Idle, up' = Idle, tx = NoTx, tx' = NoTx, Marked(db'), NEW p \in Paths, NEW c,
         Shown(db', p) = c, \A q \in Paths : q # p => Shown(db', q) = Shown(db, q)
  PROVE  SeenInv' /\ SeenTable' = [SeenTable EXCEPT ![p] = c]
  <1>1. SeenInv'
    BY DEF SeenInv, Written, BatchSeen
  <1>2. \A q \in Paths : Seen(q)' = Shown(db', q) /\ Seen(q) = Shown(db, q)
    BY DEF Seen
  <1> QED BY <1>1, <1>2, OneSeen

LEMMA RecordFileRecords ==
  ASSUME Inv, SeenInv, NEW p \in Paths, NEW h \in Hashes \cup {NoHash}, RecordFile(p, h)
  PROVE  SeenInv' /\ (Durable!Record(p, h) \/ SeenTable' = SeenTable)
  <1> DEFINE c == Shown(db', p)
             old == db.files[p]
             f == db'.files[p].id
  <1>1. /\ db \in Database /\ Sound(db) /\ db' = PutFile(db, p, h)
        /\ up = Idle /\ up' = Idle /\ tx = NoTx /\ tx' = NoTx
    BY DEF RecordFile, Free, Inv, TypeOK
  <1>2. PutFileShown(db, p, h, db') /\ db'.files[p] # NoFile
    BY <1>1, PutFileSound, FileType
  <1>3. \A g : SameLayers(db, db', g)
    BY <1>2 DEF PutFileShown, SameLayers, ClassesOf, CallsOf, NamesOf, MethodsOf
  <1>4. \A q \in Paths : q # p => db'.files[q] = db.files[q]
    BY <1>2 DEF PutFileShown
  <1>5. db'.torn = db.torn /\ db.torn \subseteq Paths
    BY <1>1, <1>2 DEF PutFileShown, Database
  <1>6. Marked(db')
    BY <1>2, <1>4, <1>5 DEF SeenInv, Marked
  <1>7. \A q \in Paths : q # p => Shown(db', q) = Shown(db, q)
    BY <1>3, <1>4, <1>5, ShownSame
  <1>8. SeenInv' /\ SeenTable' = [SeenTable EXCEPT ![p] = c]
    <2> HIDE DEF c
    <2>1. Shown(db', p) = c
      BY DEF c
    <2> QED BY <1>1, <1>6, <1>7, <2>1, QuietStep
  <1>9. SeenTable[p] = Shown(db, p) /\ SeenTable \in [Paths -> {Shown(db, q) : q \in Paths}]
    <2>1. \A q \in Paths : SeenTable[q] = Shown(db, q)
      BY <1>1, QuietTable
    <2> QED BY <2>1 DEF SeenTable
  <1>10. CASE old = NoFile
    <2>1. p \notin db'.torn
      BY <1>5, <1>10 DEF SeenInv, Marked
    <2>2. Classes(db', f) = {} /\ Methods(db', f) = {} /\ Calling(db', f) = {}
      BY <1>2, <1>10 DEF PutFileShown, Classes, Methods, Calling
    <2>3. c = Stored(h, {}, {}, {}, {})
      BY <1>2, <1>10, <2>1, <2>2 DEF Shown, PutFileShown
    <2>4. SeenTable[p] = Absent
      BY <1>9, <1>10 DEF Shown
    <2> HIDE DEF c
    <2>5. Durable!Record(p, h)
      BY <1>8, <2>3, <2>4 DEF Durable!Record, SeenTable, Absent, Durable!Absent, Stored, Durable!Stored
    <2> QED BY <1>8, <2>5
  <1>11. CASE old # NoFile
    <2>1. f = old.id /\ db'.files[p].imports = old.imports /\ db'.files[p].hash = h
      BY <1>2, <1>11 DEF PutFileShown
    <2>2. Classes(db', f) = Classes(db, f) /\ Methods(db', f) = Methods(db, f) /\ Calling(db', f) = Calling(db, f)
      BY <1>3, LayersShow
    <2>3. CASE p \in db.torn
      <3>1. c = Shown(db, p)
        BY <1>2, <1>5, <1>11, <2>1, <2>3 DEF Shown
      <3> HIDE DEF c
      <3>2. SeenTable' = SeenTable
        BY <1>8, <1>9, <3>1
      <3> QED BY <1>8, <3>2
    <2>4. CASE p \notin db.torn
      <3>1. c = Stored(h, Classes(db, f), Methods(db, f), Calling(db, f), old.imports)
        BY <1>2, <1>5, <2>1, <2>2, <2>4 DEF Shown
      <3>2. SeenTable[p] = Stored(old.hash, Classes(db, f), Methods(db, f), Calling(db, f), old.imports)
        BY <1>9, <1>11, <2>1, <2>4 DEF Shown
      <3> HIDE DEF c
      <3>3. SeenTable[p].state = "stored" /\ c = [SeenTable[p] EXCEPT !.hash = h]
        BY <3>1, <3>2 DEF Stored
      <3>4. Durable!Record(p, h)
        BY <1>8, <3>3 DEF Durable!Record, SeenTable
      <3> QED BY <1>8, <3>4
    <2> QED BY <2>3, <2>4
  <1> QED BY <1>10, <1>11

LEMMA DeleteFileDeletes ==
  ASSUME Inv, SeenInv, NEW p \in Paths, DeleteFile(p)
  PROVE  SeenInv' /\ Durable!DeleteFile(p)
  <1> DEFINE f    == db.files[p].id
             gone == {c.id : c \in ClassesOf(db, f)}
             x    == Untorn(db, p)
  <1>1. /\ up = Idle /\ up' = Idle /\ tx = NoTx /\ tx' = NoTx
        /\ db \in Database /\ Sound(db) /\ db.files[p] # NoFile
    BY DEF DeleteFile, Free, Inv, TypeOK
  <1>2. /\ x \in Database /\ x.files = db.files /\ x.classes = db.classes
        /\ x.methods = db.methods /\ x.calls = db.calls /\ x.torn = db.torn \ {p}
    <2>1. x \in Database
      BY <1>1, UntornSound
    <2> QED BY <1>1, <2>1 DEF Untorn, Database
  <1>3. db' = [x EXCEPT !.files = [x.files EXCEPT ![p] = NoFile],
                        !.classes = x.classes \ ClassesOf(db, f),
                        !.methods = {m \in x.methods : m.class \notin gone},
                        !.calls = x.calls \ CallsOf(db, f)]
    BY <1>2 DEF DeleteFile
  <1> HIDE DEF x
  <1>4. /\ db'.files = [db.files EXCEPT ![p] = NoFile] /\ db'.torn = db.torn \ {p}
        /\ db'.classes = db.classes \ ClassesOf(db, f) /\ db'.calls = db.calls \ CallsOf(db, f)
        /\ db'.methods = {m \in db.methods : m.class \notin gone}
    BY <1>2, <1>3 DEF Database
  <1>5. \A b \in db.classes : b.id \in gone => b.file = f
    BY <1>1 DEF Sound, IDsDistinct, ClassesOf
  <1> HIDE DEF gone
  <1>6. db'.files[p] = NoFile /\ \A q \in Paths : q # p => db'.files[q] = db.files[q]
    BY <1>1, <1>4, RowTypes
  <1>7. Marked(db')
    BY <1>1, <1>4, <1>6 DEF SeenInv, Marked, Database
  <1>8. ASSUME NEW q \in Paths, q # p PROVE Shown(db', q) = Shown(db, q)
    <2>1. ASSUME db.files[q] # NoFile PROVE SameLayers(db, db', db.files[q].id)
      <3> DEFINE g == db.files[q].id
      <3>1. g # f
        BY <1>1, <1>8, <2>1 DEF Sound, IDsDistinct
      <3> HIDE DEF g, f
      <3>2. ClassesOf(db', g) = ClassesOf(db, g) /\ CallsOf(db', g) = CallsOf(db, g)
        BY <1>4, <3>1 DEF ClassesOf, CallsOf
      <3>3. \A b \in ClassesOf(db, g) : MethodsOf(db', b.id) = MethodsOf(db, b.id)
        BY <1>4, <1>5, <3>1 DEF ClassesOf, MethodsOf
      <3>4. \A b \in ClassesOf(db, g) : NamesOf(db', b) = NamesOf(db, b)
        BY <3>3 DEF NamesOf
      <3> QED BY <3>2, <3>4 DEF SameLayers, g
    <2>2. q \in db'.torn <=> q \in db.torn
      BY <1>4, <1>8
    <2> QED BY <1>6, <1>8, <2>1, <2>2, ShownSame
  <1>9. Shown(db', p) = Absent
    BY <1>6 DEF Shown
  <1>10. SeenInv' /\ SeenTable' = [SeenTable EXCEPT ![p] = Absent]
    BY <1>1, <1>7, <1>8, <1>9, QuietStep
  <1>11. ~Durable!Busy(p)
    BY <1>1, QuietTable
  <1> QED BY <1>10, <1>11 DEF Durable!DeleteFile, Absent, Durable!Absent, SeenTable

LEMMA StepSeen ==
  ASSUME Inv, SeenInv, [Next]_vars
  PROVE  SeenInv' /\ (Durable!Next \/ SeenTable' = SeenTable)
  <1>1. CASE \E d \in Docs : UpsertFile(d)
    BY <1>1, UpsertFileBegins DEF Durable!Next
  <1>2. CASE UpsertClasses
    BY <1>2, UpsertClassesUnseen
  <1>3. CASE \E c \in up.groups : UpsertMethods(c)
    BY <1>3, UpsertMethodsUnseen
  <1>4. CASE UpsertCalls
    BY <1>4, UpsertCallsUnseen
  <1>5. CASE SaveImports
    BY <1>5, SaveImportsFinishes DEF Durable!Next
  <1>6. CASE Interrupt
    BY <1>6, InterruptTears DEF Durable!Next
  <1>7. CASE \E b \in Batches : BeginBulkUpsert(b)
    BY <1>7, BeginBulkUnseen
  <1>8. CASE BulkUpsertNext
    BY <1>8, BulkNextUnseen
  <1>9. CASE Commit
    BY <1>9, CommitUpserts DEF Durable!Next
  <1>10. CASE Rollback
    BY <1>10, RollbackUnseen
  <1>11. ASSUME NEW p \in Paths, DeleteFile(p) PROVE SeenInv' /\ Durable!Next
    BY <1>11, DeleteFileDeletes DEF Durable!Next
  <1>12. ASSUME NEW p \in Paths, NEW h \in Hashes \cup {NoHash}, RecordFile(p, h)
         PROVE  SeenInv' /\ (Durable!Next \/ SeenTable' = SeenTable)
    BY <1>12, RecordFileRecords DEF Durable!Next
  <1>13. CASE UNCHANGED vars
    <2>1. db' = db /\ up' = up /\ tx' = tx /\ bulk' = bulk
      BY <1>13 DEF vars
    <2> QED BY <2>1 DEF SeenInv, Written, BatchSeen, Marked, Table, SeenTable, Seen
  <1> QED BY <1>1, <1>2, <1>3, <1>4, <1>5, <1>6, <1>7, <1>8, <1>9, <1>10, <1>11, <1>12, <1>13 DEF Next

\* Every commit, failure and restart is a step of the store its users see, or
\* unseen: an interrupted UpsertIR tears its own path and no other, a batch shows
\* at its commit as its documents one after the other, or never.
THEOREM SqliteStoreImplements == Spec => ImplementsDurableStore
  <1>1. Init => SeenInv
    BY DEF Init, Empty, SeenInv, Marked, Written, BatchSeen
  <1>2. Init => Durable!Init
    BY DEF Init, Empty, Seen, Shown, Idle, Durable!Init, Absent, Durable!Absent
  <1>3. Inv /\ SeenInv /\ [Next]_vars => SeenInv'
    BY StepSeen
  <1>4. Inv /\ SeenInv /\ [Next]_vars => [Durable!Next]_([p \in Paths |-> Seen(p)])
    BY StepSeen DEF SeenTable
  <1> QED BY <1>1, <1>2, <1>3, <1>4, Inductive, PTL DEF Spec, ImplementsDurableStore, Durable!Spec

-----------------------------------------------------------------------------
(* The Redis layer beside rebuild-kv.  KvComplete is not inductive: what   *)
(* Redis lacks must be on its way (ToCome), from a writer that has stored  *)
(* it and will show it, from the rebuild's puts, or since the rebuild has  *)
(* yet to read the file.                                                   *)

KvKinds == {"class", "classpath", "method", "methodpath", "file", "callee", "caller"}
KvWords == Nat \cup Sources \cup Symbols
PutCommand == [kind : KvKinds, key : KvWords, vals : (SUBSET KvWords) \ {{}}]
RebuildFields == {"at", "alone", "keys", "files", "path", "puts"}

KvTypeOK ==
    /\ base \in [Sources -> [classes : SUBSET (Symbols \X Nat), calls : SUBSET (Symbols \X Symbols)]]
    /\ todo \in [Writers -> [store : Seq(IRs), show : Seq(IRs), puts : SUBSET PutCommand]]
    /\ rebuild = [f \in RebuildFields |-> rebuild[f]]
    /\ rebuild.at \in {"new", "flush", "read", "done", "failed"} /\ rebuild.alone \in BOOLEAN
    /\ rebuild.files \subseteq Sources /\ rebuild.path \in Sources \cup {NoSource}
    /\ rebuild.puts \subseteq PutCommand
    /\ lost \in BOOLEAN

\* The puts will give Redis the entry.
Brings(puts, e) ==
    \E i \in puts :
        \/ i.kind = e[1] /\ i.key = e[2] /\ (e[1] \notin Single => e[3] \in i.vals)
        \/ e[1] = "callee" /\ i.kind = "caller" /\ i.key = e[3] /\ e[2] \in i.vals

WillShow(w, e) ==
    \/ Brings(todo[w].puts, e)
    \/ \E n \in 1 .. Len(todo[w].show) : Brings(Populate(todo[w].show[n]), e)

WillRead(p, e) == p \in rebuild.files \/ (rebuild.path = p /\ e[1] \in {"caller", "callee"})

ToCome(p, e) == (\E w \in Writers : WillShow(w, e)) \/ Brings(rebuild.puts, e) \/ WillRead(p, e)

NothingMissing ==
    rebuild.at \in {"read", "done"} /\ ~lost => \A p \in Sources : \A e \in Expected(p) : Known(e) \/ ToCome(p, e)

\* What a writer is to store it is also to show.
ShowsAll(job) == \A n \in 1 .. Len(job.store) : \E m \in 1 .. Len(job.show) : job.store[n] = job.show[m]
StoredIsShown == \A w \in Writers : ShowsAll(todo[w])

OnlyWhileReading ==
    rebuild.at # "read" => rebuild.puts = {} /\ rebuild.files = {} /\ rebuild.path = NoSource

AllExpected == UNION {Expected(p) : p \in Sources}

\* What puts of the rebuild leave in Redis is in the base store.
Honest(puts) ==
    \A i \in puts : \A v \in i.vals :
        /\ <<i.kind, i.key, v>> \in AllExpected
        /\ i.kind = "caller" => <<"callee", v, i.key>> \in AllExpected

CleanSoFar ==
    rebuild.alone =>
        /\ \A w \in Writers : todo[w] = NothingToDo
        /\ rebuild.at = "flush" => \A e \in redis : <<e[1], e[2]>> \in rebuild.keys
        /\ rebuild.at \in {"read", "done"} => redis \subseteq AllExpected /\ Honest(rebuild.puts)

KvInv == KvTypeOK /\ NothingMissing /\ StoredIsShown /\ OnlyWhileReading /\ CleanSoFar

(* Puts *)

\* Puts and what follows them are commands with a value.
LEMMA PutType ==
    ASSUME NEW kind \in KvKinds, NEW key \in KvWords, NEW v \in KvWords
    PROVE  PutOf(kind, key, {v}) \in PutCommand
BY DEF PutOf, PutCommand

\* The puts of a document are commands.
LEMMA PopulateType ==
    ASSUME NEW d \in IRs
    PROVE  Populate(d) \subseteq PutCommand
<1>1. d.path \in KvWords /\ d.rev \in KvWords /\ d.classes \subseteq KvWords /\ d.methods \subseteq KvWords
      /\ \A c \in d.calls : c[1] \in KvWords /\ c[2] \in KvWords
    BY RedisAssumption DEF KvWords
<1>2. FilePuts(d.path, d.classes) \subseteq PutCommand
    BY <1>1 DEF FilePuts, PutOf, PutCommand, KvKinds
<1>3. CallPuts(d.calls) \subseteq PutCommand
    BY <1>1, PutType DEF CallPuts, KvKinds
<1> QED
    BY <1>1, <1>2, <1>3, PutType DEF Populate, KvKinds

\* So are those that are left after a put.
LEMMA RestType ==
    ASSUME NEW puts \in SUBSET PutCommand, NEW i \in puts, NEW ok \in BOOLEAN
    PROVE  Rest(puts, i, ok) \subseteq PutCommand
<1>1. i.key \in KvWords /\ i.vals \subseteq KvWords
    BY DEF PutCommand
<1> QED
    BY <1>1, PutType DEF Rest, KvKinds

\* A put takes away no key.
LEMMA AfterKnows ==
    ASSUME NEW i \in PutCommand, redis' = After(i), NEW e, Known(e)
    PROVE  Known(e)'
<1>1. PICK f \in redis : f[1] = e[1] /\ f[2] = e[2] /\ (e[1] \notin Single => f[3] = e[3])
    BY DEF Known
<1>2. CASE f \in redis'
    BY <1>1, <1>2 DEF Known
<1>3. CASE f \notin redis'
    <2>1. i.kind \in Single /\ <<f[1], f[2]>> = <<i.kind, i.key>>
        BY <1>3 DEF After
    <2>2. PICK v \in i.vals : TRUE
        BY DEF PutCommand
    <2>3. <<i.kind, i.key, v>> \in redis'
        BY <2>2 DEF After
    <2> QED
        BY <1>1, <2>1, <2>3 DEF Known
<1> QED
    BY <1>2, <1>3

\* A put does what it was to bring, or leaves it to the next.
LEMMA PutBrings ==
    ASSUME NEW puts \in SUBSET PutCommand, NEW i \in puts, redis' = After(i), NEW e, Brings(puts, e)
    PROVE  Known(e)' \/ Brings(Rest(puts, i, TRUE), e)
<1>1. PICK j \in puts :
        \/ j.kind = e[1] /\ j.key = e[2] /\ (e[1] \notin Single => e[3] \in j.vals)
        \/ e[1] = "callee" /\ j.kind = "caller" /\ j.key = e[3] /\ e[2] \in j.vals
    BY DEF Brings
<1>2. CASE j # i
    BY <1>1, <1>2 DEF Brings, Rest
<1>3. CASE j = i /\ j.kind = e[1] /\ j.key = e[2] /\ (e[1] \notin Single => e[3] \in j.vals)
    <2>1. PICK v \in j.vals : e[1] \notin Single => v = e[3]
        BY <1>3 DEF PutCommand
    <2>2. <<i.kind, i.key, v>> \in redis'
        BY <1>3, <2>1 DEF After
    <2> QED
        BY <1>3, <2>1, <2>2 DEF Known
<1>4. CASE j = i /\ e[1] = "callee" /\ j.kind = "caller" /\ j.key = e[3] /\ e[2] \in j.vals
    <2>1. PutOf("callee", e[2], {i.key}) \in Rest(puts, i, TRUE)
        BY <1>4 DEF Rest
    <2>2. /\ PutOf("callee", e[2], {i.key}).kind = e[1] /\ PutOf("callee", e[2], {i.key}).key = e[2]
          /\ e[3] \in PutOf("callee", e[2], {i.key}).vals
        BY <1>4 DEF PutOf
    <2> QED
        BY <2>1, <2>2 DEF Brings
<1> QED
    BY <1>1, <1>2, <1>3, <1>4

\* populate brings what the base store has taken of a document.
LEMMA PopulateBrings ==
    ASSUME NEW d \in IRs
    PROVE  /\ \A c \in d.classes : /\ Brings(Populate(d), <<"class", c, d.rev>>)
                                   /\ Brings(Populate(d), <<"file", d.path, c>>)
           /\ \A c \in d.calls : /\ Brings(Populate(d), <<"caller", c[1], c[2]>>)
                                 /\ Brings(Populate(d), <<"callee", c[2], c[1]>>)
<1>1. ASSUME NEW c \in d.classes PROVE Brings(Populate(d), <<"class", c, d.rev>>)
    <2>1. PutOf("class", c, {d.rev}) \in Populate(d)
        BY DEF Populate
    <2> QED
        BY <2>1 DEF Brings, PutOf, Single
<1>2. ASSUME NEW c \in d.classes PROVE Brings(Populate(d), <<"file", d.path, c>>)
    <2>1. PutOf("file", d.path, d.classes) \in Populate(d)
        BY DEF Populate, FilePuts
    <2> QED
        BY <2>1 DEF Brings, PutOf, Single
<1>3. ASSUME NEW c \in d.calls PROVE Brings(Populate(d), <<"caller", c[1], c[2]>>) /\ Brings(Populate(d), <<"callee", c[2], c[1]>>)
    <2>1. PutOf("caller", c[1], {c[2]}) \in Populate(d)
        BY DEF Populate, CallPuts
    <2> QED
        BY <2>1 DEF Brings, PutOf, Single
<1> QED
    BY <1>1, <1>2, <1>3

(* The initial state and the writers *)

\* Nothing is stored, shown or listed yet.
LEMMA KvInitInv == KvInit => KvInv
<1> SUFFICES ASSUME KvInit PROVE KvInv
    OBVIOUS
<1>1. base \in [Sources -> [classes : SUBSET (Symbols \X Nat), calls : SUBSET (Symbols \X Symbols)]]
    BY DEF KvInit, NothingStored
<1>2. todo \in [Writers -> [store : Seq(IRs), show : Seq(IRs), puts : SUBSET PutCommand]]
    <2>1. <<>> \in Seq(IRs)
        OBVIOUS
    <2>2. NothingToDo \in [store : Seq(IRs), show : Seq(IRs), puts : SUBSET PutCommand]
        BY <2>1 DEF NothingToDo
    <2> QED
        BY <2>2 DEF KvInit
<1>3. rebuild = [f \in RebuildFields |-> rebuild[f]]
    BY DEF KvInit, RebuildFields
<1>4. KvTypeOK
    BY <1>1, <1>2, <1>3 DEF KvInit, KvTypeOK
<1>5. StoredIsShown
    BY DEF StoredIsShown, ShowsAll, KvInit, NothingToDo
<1> QED
    BY <1>4, <1>5 DEF KvInv, KvInit, NothingMissing, OnlyWhileReading, CleanSoFar

\* What a step of a writer leaves alone
LEMMA WriterType ==
    ASSUME KvTypeOK, NEW w \in Writers
    PROVE  /\ todo[w] \in [store : Seq(IRs), show : Seq(IRs), puts : SUBSET PutCommand]
           /\ todo[w].store \in Seq(IRs) /\ todo[w].show \in Seq(IRs) /\ todo[w].puts \subseteq PutCommand
BY DEF KvTypeOK

\* What is expected of Redis is the base store's alone.
LEMMA SameBase ==
    ASSUME base' = base
    PROVE  /\ \A p : Expected(p)' = Expected(p)
           /\ AllExpected' = AllExpected
BY DEF Expected, AllExpected

\* A call begins: its documents are to be stored and shown, and the rebuild is no
\* longer alone.
LEMMA WriteThroughKeeps ==
    ASSUME KvInv, NEW w \in Writers, NEW b \in IRBatches, WriteThrough(w, b)
    PROVE  KvInv'
<1> USE DEF KvInv
<1> DEFINE job == [store |-> b, show |-> b, puts |-> {}]
<1>1. /\ todo[w] = NothingToDo /\ todo' = [todo EXCEPT ![w] = job]
      /\ rebuild' = [rebuild EXCEPT !.alone = FALSE] /\ base' = base /\ redis' = redis /\ lost' = lost
    BY DEF WriteThrough
<1>2. b \in Seq(IRs)
    BY RedisAssumption
<1>3. job \in [store : Seq(IRs), show : Seq(IRs), puts : SUBSET PutCommand]
    BY <1>2
<1>4. /\ rebuild' = [f \in RebuildFields |-> rebuild'[f]] /\ rebuild'.alone = FALSE
      /\ rebuild'.at = rebuild.at /\ rebuild'.files = rebuild.files /\ rebuild'.path = rebuild.path /\ rebuild'.puts = rebuild.puts
    BY <1>1 DEF KvTypeOK, RebuildFields
<1>5. todo'[w] = job /\ \A u \in Writers : u # w => todo'[u] = todo[u]
    BY <1>1 DEF KvTypeOK
<1>T. KvTypeOK'
    <2>1. todo' \in [Writers -> [store : Seq(IRs), show : Seq(IRs), puts : SUBSET PutCommand]]
        <3> HIDE DEF job
        <3> QED
            BY <1>1, <1>3 DEF KvTypeOK
    <2> QED
        BY <2>1, <1>1, <1>4 DEF KvTypeOK
<1>M. NothingMissing'
    <2> SUFFICES ASSUME rebuild.at \in {"read", "done"}, ~lost, NEW p \in Sources, NEW e \in Expected(p), ~Known(e)
                 PROVE  ToCome(p, e)'
        BY <1>1, <1>4, SameBase DEF NothingMissing, Known
    <2>1. ToCome(p, e)
        BY DEF NothingMissing
    <2>2. ~WillShow(w, e)
        BY <1>1 DEF WillShow, NothingToDo, Brings
    <2>3. \A u \in Writers : u # w => WillShow(u, e)' = WillShow(u, e)
        BY <1>5 DEF WillShow, Brings
    <2> QED
        BY <2>1, <2>2, <2>3, <1>4 DEF ToCome, WillRead, Brings
<1>S. StoredIsShown'
    <2>1. ShowsAll(job)
        BY DEF ShowsAll
    <2> HIDE DEF job
    <2> QED
        BY <2>1, <1>5 DEF StoredIsShown
<1>R. OnlyWhileReading' /\ CleanSoFar'
    BY <1>4 DEF OnlyWhileReading, CleanSoFar
<1> QED
    BY <1>T, <1>M, <1>S, <1>R

\* A document comes into the base store before any of it is shown.
LEMMA StoreBaseKeeps ==
    ASSUME KvInv, NEW w \in Writers, StoreBase(w)
    PROVE  KvInv'
<1> USE DEF KvInv
<1> DEFINE d == Head(todo[w].store)
           job == [todo[w] EXCEPT !.store = Tail(todo[w].store)]
           row == [classes |-> IF d.classes = {} THEN base[d.path].classes ELSE d.classes \X {d.rev},
                   calls   |-> IF d.calls = {} THEN base[d.path].calls ELSE d.calls]
<1>1. /\ todo[w].store # <<>> /\ todo' = [todo EXCEPT ![w] = job]
      /\ base' = [base EXCEPT ![d.path] = row]
      /\ rebuild' = rebuild /\ redis' = redis /\ lost' = lost
    BY DEF StoreBase
<1>2. d \in IRs /\ Tail(todo[w].store) \in Seq(IRs) /\ d = todo[w].store[1] /\ 1 \in 1 .. Len(todo[w].store)
    BY <1>1, WriterType
<1>3. PICK m \in 1 .. Len(todo[w].show) : todo[w].show[m] = d
    BY <1>2 DEF StoredIsShown, ShowsAll
<1>4. row \in [classes : SUBSET (Symbols \X Nat), calls : SUBSET (Symbols \X Symbols)] /\ d.path \in Sources
    <2>1. /\ d.path \in Sources /\ d.rev \in Nat /\ d.classes \subseteq Symbols /\ d.calls \subseteq Symbols \X Symbols
        BY <1>2, RedisAssumption
    <2>2. base[d.path].classes \subseteq Symbols \X Nat /\ base[d.path].calls \subseteq Symbols \X Symbols
        BY <2>1 DEF KvTypeOK
    <2> HIDE DEF d
    <2>3. d.classes \X {d.rev} \subseteq Symbols \X Nat
        BY <2>1
    <2> QED
        BY <2>1, <2>2, <2>3
<1>5. /\ job \in [store : Seq(IRs), show : Seq(IRs), puts : SUBSET PutCommand]
      /\ job.store = Tail(todo[w].store) /\ job.show = todo[w].show /\ job.puts = todo[w].puts
    <2> DEFINE t == Tail(todo[w].store)
    <2>1. t \in Seq(IRs)
        BY <1>2
    <2> HIDE DEF t
    <2>2. /\ [todo[w] EXCEPT !.store = t] \in [store : Seq(IRs), show : Seq(IRs), puts : SUBSET PutCommand]
          /\ [todo[w] EXCEPT !.store = t].store = t /\ [todo[w] EXCEPT !.store = t].show = todo[w].show
          /\ [todo[w] EXCEPT !.store = t].puts = todo[w].puts
        BY <2>1, WriterType
    <2> QED
        BY <2>2 DEF t
<1> HIDE DEF d, job, row
<1>6. /\ todo'[w] = job /\ \A u \in Writers : u # w => todo'[u] = todo[u]
      /\ todo' \in [Writers -> [store : Seq(IRs), show : Seq(IRs), puts : SUBSET PutCommand]]
    BY <1>1, <1>5 DEF KvTypeOK
<1>7. /\ base'[d.path] = row /\ \A p \in Sources : p # d.path => base'[p] = base[p]
      /\ base' \in [Sources -> [classes : SUBSET (Symbols \X Nat), calls : SUBSET (Symbols \X Symbols)]]
    BY <1>1, <1>4 DEF KvTypeOK
<1>T. KvTypeOK'
    BY <1>1, <1>6, <1>7 DEF KvTypeOK
<1>8. \A u \in Writers : \A e : WillShow(u, e)' = WillShow(u, e)
    BY <1>5, <1>6 DEF WillShow, Brings
<1>M. NothingMissing'
    <2> SUFFICES ASSUME rebuild.at \in {"read", "done"}, ~lost, NEW p \in Sources, NEW e \in Expected(p)'
                 PROVE  Known(e) \/ ToCome(p, e)'
        BY <1>1 DEF NothingMissing, Known
    <2>1. CASE e \in Expected(p)
        <3>1. Known(e) \/ ToCome(p, e)
            BY <2>1 DEF NothingMissing
        <3> QED
            BY <3>1, <1>1, <1>8 DEF ToCome, WillRead
    <2>2. CASE e \notin Expected(p)
        <3>1. p = d.path
            BY <2>2, <1>7 DEF Expected
        <3>2. Brings(Populate(d), e)
            <4>1. base'[p] = row
                BY <3>1, <1>7
            <4>2. CASE \E c \in row.classes : e = <<"class", c[1], c[2]>> \/ e = <<"file", p, c[1]>>
                <5>1. PICK c \in row.classes : e = <<"class", c[1], c[2]>> \/ e = <<"file", p, c[1]>>
                    BY <4>2
                <5>2. row.classes # base[p].classes
                    BY <5>1, <2>2 DEF Expected
                <5>3. row.classes = d.classes \X {d.rev}
                    BY <5>2, <3>1 DEF row
                <5>4. c[1] \in d.classes /\ c[2] = d.rev
                    BY <5>1, <5>3
                <5> QED
                    BY <5>1, <5>4, <3>1, <1>2, PopulateBrings
            <4>3. CASE \E c \in row.calls : e = <<"caller", c[1], c[2]>> \/ e = <<"callee", c[2], c[1]>>
                <5>1. PICK c \in row.calls : e = <<"caller", c[1], c[2]>> \/ e = <<"callee", c[2], c[1]>>
                    BY <4>3
                <5>2. row.calls # base[p].calls
                    BY <5>1, <2>2 DEF Expected
                <5>3. c \in d.calls
                    BY <5>1, <5>2, <3>1 DEF row
                <5> QED
                    BY <5>1, <5>3, <1>2, PopulateBrings
            <4> QED
                BY <4>1, <4>2, <4>3 DEF Expected
        <3>3. WillShow(w, e)
            BY <3>2, <1>3 DEF WillShow
        <3> QED
            BY <3>3, <1>8 DEF ToCome
    <2> QED
        BY <2>1, <2>2
<1>S. StoredIsShown'
    <2>1. ASSUME NEW n \in 1 .. Len(job.store) PROVE \E k \in 1 .. Len(job.show) : job.store[n] = job.show[k]
        <3>1. job.store[n] = todo[w].store[n + 1] /\ n + 1 \in 1 .. Len(todo[w].store)
            BY <1>1, <1>5, WriterType
        <3> QED
            BY <3>1, <1>5 DEF StoredIsShown, ShowsAll
    <2>2. ShowsAll(job)
        BY <2>1 DEF ShowsAll
    <2> QED
        BY <2>2, <1>6 DEF StoredIsShown
<1>R. OnlyWhileReading'
    BY <1>1 DEF OnlyWhileReading
<1>C. CleanSoFar'
    <2>1. ~rebuild.alone
        BY <1>1 DEF CleanSoFar, NothingToDo
    <2> QED
        BY <2>1, <1>1 DEF CleanSoFar
<1> QED
    BY <1>T, <1>M, <1>S, <1>R, <1>C

\* One put fewer of a writer, or the next document's: the facts that the
\* steps which change only the jobs of one writer share
LEMMA JobType ==
    ASSUME KvTypeOK, NEW w \in Writers, NEW job \in [store : Seq(IRs), show : Seq(IRs), puts : SUBSET PutCommand],
           todo' = [todo EXCEPT ![w] = job]
    PROVE  /\ todo' \in [Writers -> [store : Seq(IRs), show : Seq(IRs), puts : SUBSET PutCommand]]
           /\ todo'[w] = job /\ \A u \in Writers : u # w => todo'[u] = todo[u]
           /\ \A u \in Writers : \A e : u # w => WillShow(u, e)' = WillShow(u, e)
<1>1. /\ todo' \in [Writers -> [store : Seq(IRs), show : Seq(IRs), puts : SUBSET PutCommand]]
      /\ todo'[w] = job /\ \A u \in Writers : u # w => todo'[u] = todo[u]
    BY DEF KvTypeOK
<1> QED
    BY <1>1 DEF WillShow, Brings

\* The puts of the next document take the place of the document.
LEMMA ShowNextKeeps ==
    ASSUME KvInv, NEW w \in Writers, ShowNext(w)
    PROVE  KvInv'
<1> USE DEF KvInv
<1> DEFINE d == Head(todo[w].show)
           rest == Tail(todo[w].show)
           job == [todo[w] EXCEPT !.puts = Populate(d), !.show = rest]
<1>1. /\ todo[w].store = <<>> /\ todo[w].puts = {} /\ todo[w].show # <<>> /\ todo' = [todo EXCEPT ![w] = job]
      /\ base' = base /\ rebuild' = rebuild /\ redis' = redis /\ lost' = lost
    BY DEF ShowNext
<1>2. d \in IRs /\ rest \in Seq(IRs) /\ d = todo[w].show[1]
      /\ \A n \in 1 .. Len(todo[w].show) : n # 1 => n - 1 \in 1 .. Len(rest) /\ rest[n - 1] = todo[w].show[n]
    BY <1>1, WriterType
<1>3. Populate(d) \subseteq PutCommand
    BY <1>2, PopulateType
<1> HIDE DEF d, rest
<1>4. /\ job \in [store : Seq(IRs), show : Seq(IRs), puts : SUBSET PutCommand]
      /\ job.store = <<>> /\ job.show = rest /\ job.puts = Populate(d)
    BY <1>1, <1>2, <1>3, WriterType
<1> HIDE DEF job
<1>5. /\ todo' \in [Writers -> [store : Seq(IRs), show : Seq(IRs), puts : SUBSET PutCommand]]
      /\ todo'[w] = job /\ \A u \in Writers : u # w => todo'[u] = todo[u]
      /\ \A u \in Writers : \A e : u # w => WillShow(u, e)' = WillShow(u, e)
    BY <1>1, <1>4, JobType
<1>T. KvTypeOK'
    BY <1>1, <1>5 DEF KvTypeOK
<1>M. NothingMissing'
    <2> SUFFICES ASSUME rebuild.at \in {"read", "done"}, ~lost, NEW p \in Sources, NEW e \in Expected(p), ~Known(e)
                 PROVE  ToCome(p, e)'
        BY <1>1, SameBase DEF NothingMissing, Known
    <2>1. ToCome(p, e)
        BY DEF NothingMissing
    <2>2. ASSUME WillShow(w, e) PROVE WillShow(w, e)'
        <3>1. PICK n \in 1 .. Len(todo[w].show) : Brings(Populate(todo[w].show[n]), e)
            BY <2>2, <1>1 DEF WillShow, Brings
        <3>2. CASE n = 1
            <4>1. Brings(todo'[w].puts, e)
                BY <3>1, <3>2, <1>2, <1>4, <1>5
            <4> QED
                BY <4>1 DEF WillShow, Brings
        <3>3. CASE n # 1
            <4>1. Brings(Populate(todo'[w].show[n - 1]), e) /\ n - 1 \in 1 .. Len(todo'[w].show)
                BY <3>1, <3>3, <1>2, <1>4, <1>5
            <4> QED
                BY <4>1 DEF WillShow
        <3> QED
            BY <3>2, <3>3
    <2> QED
        BY <2>1, <2>2, <1>1, <1>5 DEF ToCome, WillRead
<1>S. StoredIsShown'
    <2>1. ShowsAll(job)
        BY <1>4 DEF StoredIsShown, ShowsAll
    <2> QED
        BY <2>1, <1>5 DEF StoredIsShown
<1>C. CleanSoFar'
    <2>1. ~rebuild.alone
        BY <1>1 DEF CleanSoFar, NothingToDo
    <2> QED
        BY <2>1, <1>1 DEF CleanSoFar
<1> QED
    BY <1>T, <1>M, <1>S, <1>C, <1>1 DEF OnlyWhileReading

\* Known stays known after a put; what a put was to bring is there, or follows.
LEMMA PutNextKeeps ==
    ASSUME KvInv, NEW w \in Writers, PutNext(w)
    PROVE  KvInv'
<1> USE DEF KvInv
<1>0. PICK i \in NextOf(todo[w].puts) : redis' = After(i) /\ todo' = [todo EXCEPT ![w].puts = Rest(@, i, TRUE)]
    BY DEF PutNext
<1> DEFINE job == [todo[w] EXCEPT !.puts = Rest(todo[w].puts, i, TRUE)]
<1>1. /\ redis' = After(i) /\ todo' = [todo EXCEPT ![w] = job]
      /\ base' = base /\ rebuild' = rebuild /\ lost' = lost
    BY <1>0 DEF PutNext
<1>2. i \in todo[w].puts /\ i \in PutCommand /\ todo[w].puts \in SUBSET PutCommand
    BY WriterType DEF NextOf
<1>3. Rest(todo[w].puts, i, TRUE) \subseteq PutCommand
    BY <1>2, RestType
<1>4. /\ job \in [store : Seq(IRs), show : Seq(IRs), puts : SUBSET PutCommand]
      /\ job.store = todo[w].store /\ job.show = todo[w].show /\ job.puts = Rest(todo[w].puts, i, TRUE)
    BY <1>3, WriterType
<1> HIDE DEF job
<1>5. /\ todo' \in [Writers -> [store : Seq(IRs), show : Seq(IRs), puts : SUBSET PutCommand]]
      /\ todo'[w] = job /\ \A u \in Writers : u # w => todo'[u] = todo[u]
      /\ \A u \in Writers : \A e : u # w => WillShow(u, e)' = WillShow(u, e)
    BY <1>1, <1>4, JobType
<1>T. KvTypeOK'
    BY <1>1, <1>5 DEF KvTypeOK
<1>M. NothingMissing'
    <2> SUFFICES ASSUME rebuild.at \in {"read", "done"}, ~lost, NEW p \in Sources, NEW e \in Expected(p)
                 PROVE  Known(e)' \/ ToCome(p, e)'
        BY <1>1, SameBase DEF NothingMissing
    <2>1. Known(e) => Known(e)'
        BY <1>1, <1>2, AfterKnows
    <2>2. Known(e) \/ ToCome(p, e)
        BY DEF NothingMissing
    <2>3. ASSUME WillShow(w, e) PROVE Known(e)' \/ WillShow(w, e)'
        <3>1. CASE Brings(todo[w].puts, e)
            <4>1. Known(e)' \/ Brings(todo'[w].puts, e)
                BY <3>1, <1>1, <1>2, <1>4, <1>5, PutBrings
            <4> QED
                BY <4>1 DEF WillShow, Brings
        <3>2. CASE ~Brings(todo[w].puts, e)
            BY <2>3, <3>2, <1>4, <1>5 DEF WillShow
        <3> QED
            BY <3>1, <3>2
    <2> QED
        BY <2>1, <2>2, <2>3, <1>1, <1>5 DEF ToCome, WillRead
<1>S. StoredIsShown'
    <2>1. ShowsAll(job)
        BY <1>4 DEF StoredIsShown, ShowsAll
    <2> QED
        BY <2>1, <1>5 DEF StoredIsShown
<1>C. CleanSoFar'
    <2>1. ~rebuild.alone
        BY <1>2 DEF CleanSoFar, NothingToDo
    <2> QED
        BY <2>1, <1>1 DEF CleanSoFar
<1> QED
    BY <1>T, <1>M, <1>S, <1>C, <1>1 DEF OnlyWhileReading

\* What a writer drops while the rebuild reads, or later, is lost.
LEMMA WriterDrops ==
    ASSUME KvInv, NEW w \in Writers, NEW job \in [store : Seq(IRs), show : Seq(IRs), puts : SUBSET PutCommand],
           todo' = [todo EXCEPT ![w] = job], todo[w] # NothingToDo,
           ShowsAll(job),
           Losing, base' = base, redis' = redis, rebuild' = rebuild
    PROVE  KvInv'
<1> USE DEF KvInv
<1>1. /\ todo' \in [Writers -> [store : Seq(IRs), show : Seq(IRs), puts : SUBSET PutCommand]]
      /\ todo'[w] = job /\ \A u \in Writers : u # w => todo'[u] = todo[u]
    BY JobType
<1>2. ~rebuild.alone
    BY DEF CleanSoFar
<1>3. KvTypeOK'
    BY <1>1 DEF KvTypeOK, Losing
<1>4. NothingMissing'
    BY DEF NothingMissing, Losing
<1>5. StoredIsShown'
    BY <1>1 DEF StoredIsShown
<1> QED
    BY <1>2, <1>3, <1>4, <1>5 DEF OnlyWhileReading, CleanSoFar

\* A put that fails is dropped.
LEMMA PutFailsKeeps ==
    ASSUME KvInv, NEW w \in Writers, PutFails(w)
    PROVE  KvInv'
<1>0. PICK i \in NextOf(todo[w].puts) : todo' = [todo EXCEPT ![w].puts = Rest(@, i, FALSE)]
    BY DEF PutFails
<1> DEFINE job == [todo[w] EXCEPT !.puts = Rest(todo[w].puts, i, FALSE)]
<1>1. todo' = [todo EXCEPT ![w] = job] /\ Losing /\ base' = base /\ redis' = redis /\ rebuild' = rebuild
    BY <1>0 DEF PutFails
<1>2. i \in todo[w].puts /\ todo[w].puts \in SUBSET PutCommand
    BY WriterType DEF NextOf, KvInv
<1>3. Rest(todo[w].puts, i, FALSE) \subseteq PutCommand
    BY <1>2, RestType
<1>4. /\ job \in [store : Seq(IRs), show : Seq(IRs), puts : SUBSET PutCommand]
      /\ job.store = todo[w].store /\ job.show = todo[w].show
    BY <1>3, WriterType DEF KvInv
<1>5. todo[w] # NothingToDo
    BY <1>2 DEF NothingToDo
<1>6. ShowsAll(job)
    BY <1>4 DEF KvInv, StoredIsShown, ShowsAll
<1> HIDE DEF job
<1> QED
    BY <1>1, <1>4, <1>5, <1>6, WriterDrops

\* So is all that a writer had before it when it stops.
LEMMA WriterStopsKeeps ==
    ASSUME KvInv, NEW w \in Writers, WriterStops(w)
    PROVE  KvInv'
<1>1. <<>> \in Seq(IRs) /\ Len(<<>>) = 0
    OBVIOUS
<1>2. NothingToDo \in [store : Seq(IRs), show : Seq(IRs), puts : SUBSET PutCommand] /\ ShowsAll(NothingToDo)
    BY <1>1 DEF NothingToDo, ShowsAll
<1> QED
    BY <1>1, <1>2, WriterDrops DEF WriterStops

\* A Redis that restarts has nothing, and the rebuild does not count on it.
LEMMA RedisForgetsKeeps ==
    ASSUME KvInv, RedisForgets
    PROVE  KvInv'
<1>1. redis' = {} /\ Losing /\ base' = base /\ todo' = todo /\ rebuild' = rebuild
    BY DEF RedisForgets
<1>2. AllExpected' = AllExpected
    BY <1>1, SameBase
<1> QED
    BY <1>1, <1>2 DEF KvInv, KvTypeOK, NothingMissing, StoredIsShown, OnlyWhileReading, CleanSoFar, Losing, Honest

(* The rebuild *)

\* What a step of the rebuild alone leaves of the writers
LEMMA WritersRest ==
    ASSUME KvInv, todo' = todo
    PROVE  /\ StoredIsShown'
           /\ \A u \in Writers : \A e : WillShow(u, e)' = WillShow(u, e)
BY DEF KvInv, StoredIsShown, ShowsAll, WillShow, Brings

\* The keys to be deleted are all that Redis has.
LEMMA StartFlushKeeps ==
    ASSUME KvInv, StartFlush
    PROVE  KvInv'
<1> USE DEF KvInv
<1>1. /\ rebuild.at = "new" /\ base' = base /\ redis' = redis /\ todo' = todo /\ lost' = lost
      /\ rebuild' = [rebuild EXCEPT !.at = "flush", !.alone = (\A w \in Writers : todo[w] = NothingToDo),
                                    !.keys = {<<e[1], e[2]>> : e \in redis}]
    BY DEF StartFlush
<1>2. /\ rebuild' = [f \in RebuildFields |-> rebuild'[f]]
      /\ rebuild'.at = "flush" /\ rebuild'.alone \in BOOLEAN /\ rebuild'.keys = {<<e[1], e[2]>> : e \in redis}
      /\ rebuild'.files = rebuild.files /\ rebuild'.path = rebuild.path /\ rebuild'.puts = rebuild.puts
    BY <1>1 DEF KvTypeOK, RebuildFields
<1>3. rebuild'.alone <=> \A w \in Writers : todo[w] = NothingToDo
    BY <1>1 DEF KvTypeOK, RebuildFields
<1>T. KvTypeOK'
    BY <1>1, <1>2 DEF KvTypeOK
<1>C. CleanSoFar'
    BY <1>1, <1>2, <1>3 DEF CleanSoFar
<1> QED
    BY <1>T, <1>C, <1>1, <1>2, WritersRest DEF NothingMissing, OnlyWhileReading

\* A deleted key is neither to be deleted nor there.
LEMMA FlushKeyKeeps ==
    ASSUME KvInv, NEW k, FlushKey(k)
    PROVE  KvInv'
<1> USE DEF KvInv
<1>1. /\ rebuild.at = "flush" /\ base' = base /\ todo' = todo /\ lost' = lost
      /\ redis' = {e \in redis : <<e[1], e[2]>> # k}
      /\ rebuild' = [rebuild EXCEPT !.keys = rebuild.keys \ {k}]
    BY DEF FlushKey
<1>2. /\ rebuild' = [f \in RebuildFields |-> rebuild'[f]]
      /\ rebuild'.at = "flush" /\ rebuild'.alone = rebuild.alone /\ rebuild'.keys = rebuild.keys \ {k}
      /\ rebuild'.files = rebuild.files /\ rebuild'.path = rebuild.path /\ rebuild'.puts = rebuild.puts
    BY <1>1 DEF KvTypeOK, RebuildFields
<1>T. KvTypeOK'
    BY <1>1, <1>2 DEF KvTypeOK
<1>C. CleanSoFar'
    BY <1>1, <1>2 DEF CleanSoFar
<1> QED
    BY <1>T, <1>C, <1>1, <1>2, WritersRest DEF NothingMissing, OnlyWhileReading

\* Every file of which the base store holds something is listed.
LEMMA ListFilesKeeps ==
    ASSUME KvInv, ListFiles
    PROVE  KvInv'
<1> USE DEF KvInv
<1>1. /\ rebuild.at = "flush" /\ rebuild.keys = {} /\ base' = base /\ redis' = redis /\ todo' = todo /\ lost' = lost
      /\ rebuild' = [rebuild EXCEPT !.at = "read", !.files = {p \in Sources : base[p] # NothingStored}]
    BY DEF ListFiles
<1>2. /\ rebuild' = [f \in RebuildFields |-> rebuild'[f]]
      /\ rebuild'.at = "read" /\ rebuild'.alone = rebuild.alone
      /\ rebuild'.files = {p \in Sources : base[p] # NothingStored} /\ rebuild'.path = rebuild.path /\ rebuild'.puts = {}
    BY <1>1 DEF KvTypeOK, RebuildFields, OnlyWhileReading
<1>T. KvTypeOK'
    BY <1>1, <1>2 DEF KvTypeOK
<1>M. NothingMissing'
    <2> SUFFICES ASSUME NEW p \in Sources, NEW e \in Expected(p) PROVE p \in rebuild'.files
        BY <1>1, SameBase DEF NothingMissing, ToCome, WillRead
    <2>1. base[p] # NothingStored
        BY DEF Expected, NothingStored
    <2> QED
        BY <2>1, <1>2
<1>C. CleanSoFar'
    <2>1. rebuild.alone => redis = {}
        BY <1>1 DEF CleanSoFar
    <2> QED
        BY <2>1, <1>1, <1>2 DEF CleanSoFar, Honest
<1> QED
    BY <1>T, <1>M, <1>C, <1>1, <1>2, WritersRest DEF OnlyWhileReading

\* A file's classes are to be put; its calls are still to be read.
LEMMA ReadClassesKeeps ==
    ASSUME KvInv, NEW p \in rebuild.files, ReadClasses(p)
    PROVE  KvInv'
<1> USE DEF KvInv
<1> DEFINE names == {c[1] : c \in base[p].classes}
           puts == {PutOf("class", c[1], {c[2]}) : c \in base[p].classes} \cup FilePuts(p, names)
<1>1. /\ rebuild.at = "read" /\ rebuild.puts = {} /\ rebuild.path = NoSource
      /\ base' = base /\ redis' = redis /\ todo' = todo /\ lost' = lost
      /\ rebuild' = [rebuild EXCEPT !.path = p, !.files = rebuild.files \ {p}, !.puts = puts]
    BY DEF ReadClasses
<1> HIDE DEF puts
<1>2. /\ rebuild' = [f \in RebuildFields |-> rebuild'[f]]
      /\ rebuild'.at = "read" /\ rebuild'.alone = rebuild.alone
      /\ rebuild'.files = rebuild.files \ {p} /\ rebuild'.path = p /\ rebuild'.puts = puts
    BY <1>1 DEF KvTypeOK, RebuildFields
<1>3. p \in Sources /\ \A c \in base[p].classes : c[1] \in Symbols /\ c[2] \in Nat
    <2>1. p \in Sources
        BY DEF KvTypeOK
    <2>2. base[p].classes \subseteq Symbols \X Nat
        BY <2>1 DEF KvTypeOK
    <2> QED
        BY <2>1, <2>2
<1>4. puts \subseteq PutCommand
    <2>1. \A c \in base[p].classes : PutOf("class", c[1], {c[2]}) \in PutCommand
        BY <1>3, PutType DEF KvKinds, KvWords
    <2>2. names \subseteq KvWords /\ p \in KvWords
        BY <1>3 DEF KvWords
    <2>3. FilePuts(p, names) \subseteq PutCommand
        BY <2>2 DEF FilePuts, PutOf, PutCommand, KvKinds
    <2> QED
        BY <2>1, <2>3 DEF puts
<1>5. \A c \in base[p].classes : Brings(puts, <<"class", c[1], c[2]>>) /\ Brings(puts, <<"file", p, c[1]>>)
    <2> SUFFICES ASSUME NEW c \in base[p].classes
                 PROVE  Brings(puts, <<"class", c[1], c[2]>>) /\ Brings(puts, <<"file", p, c[1]>>)
        OBVIOUS
    <2>1. PutOf("class", c[1], {c[2]}) \in puts /\ PutOf("file", p, names) \in puts
        BY DEF puts, FilePuts
    <2> QED
        BY <2>1 DEF Brings, PutOf, Single
<1>T. KvTypeOK'
    BY <1>1, <1>2, <1>3, <1>4 DEF KvTypeOK
<1>M. NothingMissing'
    <2> SUFFICES ASSUME ~lost, NEW q \in Sources, NEW e \in Expected(q), ~Known(e)
                 PROVE  ToCome(q, e)'
        BY <1>1, SameBase DEF NothingMissing, Known
    <2>1. (\E u \in Writers : WillShow(u, e)) \/ q \in rebuild.files
        BY <1>1, RedisAssumption DEF NothingMissing, ToCome, WillRead, Brings
    <2>2. CASE q = p
        <3>1. CASE e[1] \in {"caller", "callee"}
            BY <3>1, <2>2, <1>2 DEF ToCome, WillRead
        <3>2. CASE e[1] \notin {"caller", "callee"}
            <4>1. \E c \in base[p].classes : e = <<"class", c[1], c[2]>> \/ e = <<"file", p, c[1]>>
                BY <3>2, <2>2 DEF Expected
            <4>2. Brings(puts, e)
                BY <4>1, <1>5
            <4> QED
                BY <4>2, <1>2 DEF ToCome, Brings
        <3> QED
            BY <3>1, <3>2
    <2>3. CASE q # p
        BY <2>1, <2>3, <1>1, <1>2, WritersRest DEF ToCome, WillRead
    <2> QED
        BY <2>2, <2>3
<1>C. CleanSoFar'
    <2>1. \A c \in base[p].classes : <<"class", c[1], c[2]>> \in AllExpected /\ <<"file", p, c[1]>> \in AllExpected
        BY <1>3 DEF AllExpected, Expected
    <2>2. \A i \in puts : \/ \E c \in base[p].classes : i = PutOf("class", c[1], {c[2]})
                          \/ i = PutOf("file", p, names)
        BY DEF puts, FilePuts
    <2>3. Honest(puts)
        <3> SUFFICES ASSUME NEW i \in puts, NEW v \in i.vals
                     PROVE  <<i.kind, i.key, v>> \in AllExpected /\ i.kind # "caller"
            BY DEF Honest
        <3>1. CASE \E c \in base[p].classes : i = PutOf("class", c[1], {c[2]})
            <4>1. PICK c \in base[p].classes : i = PutOf("class", c[1], {c[2]})
                BY <3>1
            <4>2. i.kind = "class" /\ i.key = c[1] /\ v = c[2]
                BY <4>1 DEF PutOf
            <4> QED
                BY <4>2, <2>1
        <3>2. CASE i = PutOf("file", p, names)
            <4>1. i.kind = "file" /\ i.key = p /\ v \in names
                BY <3>2 DEF PutOf
            <4>2. PICK c \in base[p].classes : v = c[1]
                BY <4>1
            <4> QED
                BY <4>1, <4>2, <2>1
        <3> QED
            BY <3>1, <3>2, <2>2
    <2>4. Honest(rebuild.puts)'
        BY <2>3, <1>1, <1>2, SameBase DEF Honest
    <2> QED
        BY <2>4, <1>1, <1>2, SameBase DEF CleanSoFar
<1> QED
    BY <1>T, <1>M, <1>C, <1>1, <1>2, WritersRest DEF OnlyWhileReading

\* Then its calls are to be put, and the file is done.
LEMMA ReadCallsKeeps ==
    ASSUME KvInv, ReadCalls
    PROVE  KvInv'
<1> USE DEF KvInv
<1> DEFINE p == rebuild.path
           puts == CallPuts(base[p].calls)
<1>1. /\ rebuild.at = "read" /\ rebuild.puts = {} /\ p # NoSource
      /\ base' = base /\ redis' = redis /\ todo' = todo /\ lost' = lost
      /\ rebuild' = [rebuild EXCEPT !.path = NoSource, !.puts = puts]
    BY DEF ReadCalls
<1>3. p \in Sources /\ \A c \in base[p].calls : c[1] \in Symbols /\ c[2] \in Symbols
    BY <1>1 DEF KvTypeOK
<1> HIDE DEF puts
<1>2. /\ rebuild' = [f \in RebuildFields |-> rebuild'[f]]
      /\ rebuild'.at = "read" /\ rebuild'.alone = rebuild.alone
      /\ rebuild'.files = rebuild.files /\ rebuild'.path = NoSource /\ rebuild'.puts = puts
    BY <1>1 DEF KvTypeOK, RebuildFields
<1>4. puts \subseteq PutCommand
    BY <1>3, PutType DEF puts, CallPuts, KvKinds, KvWords
<1>5. \A c \in base[p].calls : Brings(puts, <<"caller", c[1], c[2]>>) /\ Brings(puts, <<"callee", c[2], c[1]>>)
    <2> SUFFICES ASSUME NEW c \in base[p].calls
                 PROVE  Brings(puts, <<"caller", c[1], c[2]>>) /\ Brings(puts, <<"callee", c[2], c[1]>>)
        OBVIOUS
    <2>1. PutOf("caller", c[1], {c[2]}) \in puts
        BY DEF puts, CallPuts
    <2> QED
        BY <2>1 DEF Brings, PutOf, Single
<1>T. KvTypeOK'
    BY <1>1, <1>2, <1>4 DEF KvTypeOK
<1>M. NothingMissing'
    <2> SUFFICES ASSUME ~lost, NEW q \in Sources, NEW e \in Expected(q), ~Known(e)
                 PROVE  ToCome(q, e)'
        BY <1>1, SameBase DEF NothingMissing, Known
    <2>1. (\E u \in Writers : WillShow(u, e)) \/ WillRead(q, e)
        BY <1>1 DEF NothingMissing, ToCome, Brings
    <2>2. CASE q = p /\ e[1] \in {"caller", "callee"}
        <3>1. \E c \in base[p].calls : e = <<"caller", c[1], c[2]>> \/ e = <<"callee", c[2], c[1]>>
            BY <2>2 DEF Expected
        <3>2. Brings(puts, e)
            BY <3>1, <1>5
        <3> QED
            BY <3>2, <1>2 DEF ToCome, Brings
    <2>3. CASE ~(q = p /\ e[1] \in {"caller", "callee"})
        BY <2>1, <2>3, <1>1, <1>2, WritersRest DEF ToCome, WillRead
    <2> QED
        BY <2>2, <2>3
<1>C. CleanSoFar'
    <2>1. \A c \in base[p].calls : <<"caller", c[1], c[2]>> \in AllExpected /\ <<"callee", c[2], c[1]>> \in AllExpected
        BY <1>3 DEF AllExpected, Expected
    <2>2. Honest(puts)
        BY <2>1 DEF Honest, puts, CallPuts, PutOf
    <2>3. Honest(rebuild.puts)'
        BY <2>2, <1>1, <1>2, SameBase DEF Honest
    <2> QED
        BY <2>3, <1>1, <1>2, SameBase DEF CleanSoFar
<1> QED
    BY <1>T, <1>M, <1>C, <1>1, <1>2, WritersRest DEF OnlyWhileReading

\* What follows a put is as honest as the put.
LEMMA RestHonest ==
    ASSUME NEW puts, Honest(puts), NEW i \in puts, NEW ok \in BOOLEAN
    PROVE  Honest(Rest(puts, i, ok))
<1> SUFFICES ASSUME NEW j \in Rest(puts, i, ok), NEW v \in j.vals
             PROVE  /\ <<j.kind, j.key, v>> \in AllExpected
                    /\ j.kind = "caller" => <<"callee", v, j.key>> \in AllExpected
    BY DEF Honest
<1>1. CASE j \in puts
    BY <1>1 DEF Honest
<1>2. CASE j \notin puts
    <2>1. i.kind = "caller" /\ \E c \in i.vals : j = PutOf("callee", c, {i.key})
        BY <1>2 DEF Rest
    <2>2. PICK c \in i.vals : j = PutOf("callee", c, {i.key})
        BY <2>1
    <2>3. <<"callee", c, i.key>> \in AllExpected
        BY <2>1 DEF Honest
    <2> QED
        BY <2>2, <2>3 DEF PutOf
<1> QED
    BY <1>1, <1>2

\* The puts of the rebuild when one is made, or fails
LEMMA RebuildPutFacts ==
    ASSUME KvInv, NEW i \in NextOf(rebuild.puts), NEW ok \in BOOLEAN,
           rebuild' = [rebuild EXCEPT !.puts = Rest(rebuild.puts, i, ok)],
           base' = base, todo' = todo
    PROVE  /\ i \in rebuild.puts /\ i \in PutCommand /\ rebuild.puts \in SUBSET PutCommand
           /\ rebuild' = [f \in RebuildFields |-> rebuild'[f]]
           /\ rebuild.at = "read" /\ rebuild'.at = "read" /\ rebuild'.alone = rebuild.alone /\ rebuild'.files = rebuild.files
           /\ rebuild'.path = rebuild.path /\ rebuild'.puts = Rest(rebuild.puts, i, ok) /\ rebuild'.puts \subseteq PutCommand
           /\ rebuild.alone => Honest(rebuild.puts)'
<1>1. i \in rebuild.puts /\ i \in PutCommand /\ rebuild.puts \in SUBSET PutCommand
    BY DEF NextOf, KvInv, KvTypeOK
<1>2. Rest(rebuild.puts, i, ok) \subseteq PutCommand
    BY <1>1, RestType
<1>3. rebuild.at = "read"
    BY <1>1 DEF KvInv, OnlyWhileReading
<1>4. /\ rebuild' = [f \in RebuildFields |-> rebuild'[f]]
      /\ rebuild'.at = rebuild.at /\ rebuild'.alone = rebuild.alone /\ rebuild'.files = rebuild.files
      /\ rebuild'.path = rebuild.path /\ rebuild'.puts = Rest(rebuild.puts, i, ok)
    BY DEF KvInv, KvTypeOK, RebuildFields
<1>5. rebuild.alone => Honest(Rest(rebuild.puts, i, ok))
    BY <1>1, <1>3, RestHonest DEF KvInv, CleanSoFar
<1>6. rebuild.alone => Honest(rebuild.puts)'
    BY <1>4, <1>5, SameBase DEF Honest
<1> QED
    BY <1>1, <1>2, <1>3, <1>4, <1>6

\* A put of the rebuild brings what it was to bring, and only what is expected.
LEMMA RebuildPutKeeps ==
    ASSUME KvInv, RebuildPut
    PROVE  KvInv'
<1> USE DEF KvInv
<1>0. PICK i \in NextOf(rebuild.puts) : redis' = After(i) /\ rebuild' = [rebuild EXCEPT !.puts = Rest(@, i, TRUE)]
    BY DEF RebuildPut
<1>1. /\ redis' = After(i) /\ rebuild' = [rebuild EXCEPT !.puts = Rest(rebuild.puts, i, TRUE)]
      /\ base' = base /\ todo' = todo /\ lost' = lost
    BY <1>0 DEF RebuildPut
<1>2. /\ i \in rebuild.puts /\ i \in PutCommand /\ rebuild.puts \in SUBSET PutCommand
      /\ rebuild' = [f \in RebuildFields |-> rebuild'[f]]
      /\ rebuild.at = "read" /\ rebuild'.at = "read" /\ rebuild'.alone = rebuild.alone /\ rebuild'.files = rebuild.files
      /\ rebuild'.path = rebuild.path /\ rebuild'.puts = Rest(rebuild.puts, i, TRUE) /\ rebuild'.puts \subseteq PutCommand
      /\ rebuild.alone => Honest(rebuild.puts)'
    BY <1>1, RebuildPutFacts
<1>T. KvTypeOK'
    BY <1>1, <1>2 DEF KvTypeOK
<1>M. NothingMissing'
    <2> SUFFICES ASSUME ~lost, NEW p \in Sources, NEW e \in Expected(p)
                 PROVE  Known(e)' \/ ToCome(p, e)'
        BY <1>1, SameBase DEF NothingMissing
    <2>1. Known(e) => Known(e)'
        BY <1>1, <1>2, AfterKnows
    <2>2. Known(e) \/ ToCome(p, e)
        BY <1>2 DEF NothingMissing
    <2>3. Brings(rebuild.puts, e) => Known(e)' \/ Brings(rebuild'.puts, e)
        BY <1>1, <1>2, PutBrings
    <2> QED
        BY <2>1, <2>2, <2>3, <1>1, <1>2, WritersRest DEF ToCome, WillRead
<1>C. CleanSoFar'
    <2>1. rebuild.alone => redis' \subseteq AllExpected
        BY <1>1, <1>2 DEF CleanSoFar, Honest, After
    <2> QED
        BY <2>1, <1>1, <1>2, SameBase DEF CleanSoFar
<1> QED
    BY <1>T, <1>M, <1>C, <1>1, <1>2, WritersRest DEF OnlyWhileReading

\* If it fails, Redis may lack it for good.
LEMMA RebuildPutFailsKeeps ==
    ASSUME KvInv, RebuildPutFails
    PROVE  KvInv'
<1> USE DEF KvInv
<1>0. PICK i \in NextOf(rebuild.puts) : rebuild' = [rebuild EXCEPT !.puts = Rest(@, i, FALSE)]
    BY DEF RebuildPutFails
<1>1. /\ rebuild' = [rebuild EXCEPT !.puts = Rest(rebuild.puts, i, FALSE)]
      /\ redis' = redis /\ base' = base /\ todo' = todo /\ lost' = TRUE
    BY <1>0 DEF RebuildPutFails
<1>2. /\ rebuild' = [f \in RebuildFields |-> rebuild'[f]]
      /\ rebuild.at = "read" /\ rebuild'.at = "read" /\ rebuild'.alone = rebuild.alone /\ rebuild'.files = rebuild.files
      /\ rebuild'.path = rebuild.path /\ rebuild'.puts \subseteq PutCommand
      /\ rebuild.alone => Honest(rebuild.puts)'
    BY <1>1, RebuildPutFacts
<1>T. KvTypeOK'
    BY <1>1, <1>2 DEF KvTypeOK
<1>C. CleanSoFar'
    BY <1>1, <1>2, SameBase DEF CleanSoFar
<1> QED
    BY <1>T, <1>C, <1>1, <1>2, WritersRest DEF NothingMissing, OnlyWhileReading

\* A rebuild that returns an error promises nothing.
LEMMA RebuildFailsKeeps ==
    ASSUME KvInv, RebuildFails
    PROVE  KvInv'
<1> USE DEF KvInv
<1>1. /\ rebuild.puts = {} /\ base' = base /\ redis' = redis /\ todo' = todo /\ lost' = lost
      /\ rebuild' = [rebuild EXCEPT !.at = "failed", !.keys = {}, !.files = {}, !.path = NoSource]
    BY DEF RebuildFails
<1>2. /\ rebuild' = [f \in RebuildFields |-> rebuild'[f]]
      /\ rebuild'.at = "failed" /\ rebuild'.alone = rebuild.alone
      /\ rebuild'.files = {} /\ rebuild'.path = NoSource /\ rebuild'.puts = {}
    BY <1>1 DEF KvTypeOK, RebuildFields
<1>T. KvTypeOK'
    BY <1>1, <1>2 DEF KvTypeOK
<1> QED
    BY <1>T, <1>1, <1>2, WritersRest DEF NothingMissing, OnlyWhileReading, CleanSoFar

\* At the end nothing is left to be read or put.
LEMMA RebuildDoneKeeps ==
    ASSUME KvInv, RebuildDone
    PROVE  KvInv'
<1> USE DEF KvInv
<1>1. /\ rebuild.at = "read" /\ rebuild.files = {} /\ rebuild.path = NoSource /\ rebuild.puts = {}
      /\ base' = base /\ redis' = redis /\ todo' = todo /\ lost' = lost
      /\ rebuild' = [rebuild EXCEPT !.at = "done"]
    BY DEF RebuildDone
<1>2. /\ rebuild' = [f \in RebuildFields |-> rebuild'[f]]
      /\ rebuild'.at = "done" /\ rebuild'.alone = rebuild.alone
      /\ rebuild'.files = {} /\ rebuild'.path = NoSource /\ rebuild'.puts = {}
    BY <1>1 DEF KvTypeOK, RebuildFields
<1>T. KvTypeOK'
    BY <1>1, <1>2 DEF KvTypeOK
<1>M. NothingMissing'
    <2> SUFFICES ASSUME ~lost, NEW p \in Sources, NEW e \in Expected(p), ~Known(e)
                 PROVE  ToCome(p, e)'
        BY <1>1, SameBase DEF NothingMissing, Known
    <2>1. ToCome(p, e)
        BY <1>1 DEF NothingMissing
    <2> QED
        BY <2>1, <1>1, <1>2, WritersRest DEF ToCome, WillRead
<1>C. CleanSoFar'
    BY <1>1, <1>2, SameBase DEF CleanSoFar, Honest
<1> QED
    BY <1>T, <1>M, <1>C, <1>1, <1>2, WritersRest DEF OnlyWhileReading

\* After rebuild-kv Redis knows what the base store holds, whatever was
\* written meanwhile; and a rebuild that meets no writer and no fault leaves
\* nothing else.  (rebuildKVCmd beside populate.)
THEOREM RebuildRestoresRedis == KvSpec => KvFollowsStore
<1>1. KvInv /\ [KvNext]_kv => KvInv'
    <2> SUFFICES ASSUME KvInv, [KvNext]_kv PROVE KvInv'
        OBVIOUS
    <2>1. CASE UNCHANGED kv
        <3>1. base' = base /\ redis' = redis /\ todo' = todo /\ rebuild' = rebuild /\ lost' = lost
            BY <2>1 DEF kv
        <3>2. KvTypeOK' /\ OnlyWhileReading'
            BY <3>1 DEF KvInv, KvTypeOK, OnlyWhileReading
        <3>3. NothingMissing'
            BY <3>1, SameBase, WritersRest DEF KvInv, NothingMissing, Known, ToCome, WillRead
        <3>4. CleanSoFar'
            BY <3>1, SameBase DEF KvInv, CleanSoFar, Honest
        <3> QED
            BY <3>1, <3>2, <3>3, <3>4, WritersRest DEF KvInv
    <2>2. ASSUME NEW w \in Writers, Writing(w) PROVE KvInv'
        BY <2>2, WriteThroughKeeps, StoreBaseKeeps, ShowNextKeeps, PutNextKeeps, PutFailsKeeps, WriterStopsKeeps DEF Writing
    <2>3. CASE Rebuilding
        BY <2>3, StartFlushKeeps, FlushKeyKeeps, ListFilesKeeps, ReadClassesKeeps, ReadCallsKeeps,
           RebuildPutKeeps, RebuildPutFailsKeeps, RebuildFailsKeeps, RebuildDoneKeeps DEF Rebuilding
    <2> QED
        BY <2>1, <2>2, <2>3, RedisForgetsKeeps DEF KvNext
<1>2. KvInv => KvComplete
    <2> SUFFICES ASSUME KvInv, rebuild.at = "done", ~lost, \A w \in Writers : todo[w] = NothingToDo,
                        NEW p \in Sources, NEW e \in Expected(p)
                 PROVE  Known(e)
        BY DEF KvComplete
    <2>1. rebuild.puts = {} /\ rebuild.files = {} /\ rebuild.path = NoSource
        BY DEF KvInv, OnlyWhileReading
    <2>2. ASSUME NEW w \in Writers PROVE ~WillShow(w, e)
        <3>1. todo[w].puts = {} /\ todo[w].show = <<>> /\ Len(<<>>) = 0
            BY DEF NothingToDo
        <3>2. 1 .. Len(todo[w].show) = {}
            BY <3>1
        <3> QED
            BY <3>1, <3>2 DEF WillShow, Brings
    <2>3. ~ToCome(p, e)
        BY <2>1, <2>2, RedisAssumption DEF ToCome, WillRead, Brings
    <2> QED
        BY <2>3 DEF KvInv, NothingMissing
<1>3. KvInv => (rebuild.at = "read" /\ rebuild.alone => redis \subseteq UNION {Expected(p) : p \in Sources})
    BY DEF KvInv, CleanSoFar, AllExpected
<1>4. KvInv /\ [KvNext]_kv => [rebuild.at = "read" /\ rebuild'.at = "done" /\ rebuild.alone /\ ~lost
                                  => redis \subseteq UNION {Expected(p) : p \in Sources}]_kv
    BY <1>3
<1> QED
    BY KvInitInv, <1>1, <1>2, <1>4, PTL DEF KvSpec, KvFollowsStore, KvCleanWhenQuiet
=============================================================================
