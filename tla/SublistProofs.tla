--------------------------- MODULE SublistProofs ---------------------------
(***************************************************************************)
(* What the proofs of several components need of numbers and sequences:    *)
(* induction, stated of a set so that no operator is a parameter of it, by *)
(* way of the library's well-founded order on Nat; and with it what Kept   *)
(* returns, for every sequence and every set.                              *)
(***************************************************************************)
EXTENDS Integers, SequencesExt, SequenceTheorems, Sublists, WellFoundedInduction, TLAPS

LEMMA NatOrder == \A m, n \in Nat : m < n => <<m, n>> \in OpToRel(<, Nat)
  BY SMT DEF OpToRel

\* A set that has 0, and with each number the next one, has all of them.
LEMMA SetInduction ==
    ASSUME NEW S, 0 \in S, \A n \in Nat : n \in S => n + 1 \in S
    PROVE  Nat \subseteq S
<1> SUFFICES ASSUME Nat \ S # {} PROVE FALSE
  OBVIOUS
<1>1. PICK n \in Nat \ S : \A m \in Nat \ S : ~(<<m, n>> \in OpToRel(<, Nat))
  BY NatLessThanWellFounded, WFMin
<1>2. \A m \in Nat \ S : ~(m < n)
  BY <1>1, NatOrder, Zenon
<1> HIDE <1>1
<1>3. n \in Nat /\ n # 0 /\ n \notin S
  OBVIOUS
<1>4. n - 1 \in Nat /\ n - 1 < n
  BY <1>3
<1> QED
  BY <1>2, <1>3, <1>4

\* Of some numbers one is the least.
LEMMA LeastNat ==
    ASSUME NEW S \in SUBSET Nat, S # {}
    PROVE  \E n \in S : \A m \in S : n <= m
<1>1. PICK n \in S : \A m \in S : ~(<<m, n>> \in OpToRel(<, Nat))
  BY NatLessThanWellFounded, WFMin
<1>2. \A m \in S : ~(m < n)
  BY <1>1, NatOrder, Zenon
<1> HIDE <1>1
<1> QED
  BY <1>2

\* Of some numbers up to a bound one is the greatest.
LEMMA GreatestNat ==
    ASSUME NEW b \in Nat, NEW S \in SUBSET (0 .. b), S # {}
    PROVE  \E n \in S : \A m \in S : m <= n
<1> DEFINE T == {k \in Nat : b - k \in S}
<1>1. \A m \in S : m \in 0 .. b /\ b - m \in T
  OBVIOUS
<1>2. T \in SUBSET Nat /\ T # {}
  BY <1>1
<1>3. PICK k \in T : \A l \in T : k <= l
  <2> HIDE DEF T
  <2> QED
    BY <1>2, LeastNat
<1>4. k \in Nat /\ b - k \in S
  OBVIOUS
<1>5. \A m \in S : m <= b - k
  BY <1>1, <1>3, <1>4
<1> QED
  BY <1>4, <1>5

\* What holds of 0, and with each number below a bound of the next one, holds up
\* to the bound.
LEMMA UpTo ==
    ASSUME NEW b \in Nat, NEW S, 0 \in S, \A n \in 0 .. b - 1 : n \in S => n + 1 \in S
    PROVE  0 .. b \subseteq S
<1> DEFINE T == {n \in Nat : n <= b => n \in S}
<1>1. 0 \in T
  OBVIOUS
<1>2. \A n \in Nat : n \in T => n + 1 \in T
  OBVIOUS
<1>3. Nat \subseteq T
  <2> HIDE DEF T
  <2> QED
    BY <1>1, <1>2, SetInduction
<1> QED
  BY <1>3

\* A loop of b rounds: what it starts from, and what each round makes of what
\* the rounds before have left.
Rounds(b, base, step, f) == f = [i \in 0 .. b |-> IF i = 0 THEN base ELSE step[i][f[i - 1]]]

LEMMA RoundsExist == ASSUME NEW b \in Nat, NEW base, NEW step PROVE \E f : Rounds(b, base, step, f)
<1> DEFINE I == {n \in Nat : \E f : Rounds(n, base, step, f)}
<1>1. 0 \in I
  <2>1. Rounds(0, base, step, [i \in 0 .. 0 |-> base])
    BY DEF Rounds
  <2> QED
    BY <2>1
<1>2. ASSUME NEW n \in Nat, n \in I PROVE n + 1 \in I
  <2>1. PICK f : Rounds(n, base, step, f)
    BY <1>2
  <2>2. \A i \in 0 .. n : f[i] = IF i = 0 THEN base ELSE step[i][f[i - 1]]
    BY <2>1, Zenon DEF Rounds
  <2> DEFINE g == [i \in 0 .. n + 1 |-> IF i <= n THEN f[i] ELSE step[i][f[i - 1]]]
  <2>3. ASSUME NEW i \in 0 .. n + 1 PROVE g[i] = IF i = 0 THEN base ELSE step[i][g[i - 1]]
    <3>1. i # 0 => i - 1 \in 0 .. n + 1 /\ g[i - 1] = f[i - 1]
      OBVIOUS
    <3>2. g[i] = IF i <= n THEN f[i] ELSE step[i][f[i - 1]]
      OBVIOUS
    <3>3. i <= n => i \in 0 .. n
      OBVIOUS
    <3>4. ~(i <= n) => i # 0
      OBVIOUS
    <3> HIDE DEF g
    <3> QED
      BY <2>2, <3>1, <3>2, <3>3, <3>4, Zenon
  <2>4. Rounds(n + 1, base, step, g)
    <3>1. g = [i \in 0 .. n + 1 |-> g[i]]
      OBVIOUS
    <3> HIDE DEF g
    <3> QED
      BY <2>3, <3>1 DEF Rounds
  <2> HIDE DEF g
  <2> QED
    BY <2>4
<1>3. Nat \subseteq I
  <2> HIDE DEF I
  <2> QED
    BY <1>1, <1>2, SetInduction
<1> QED
  BY <1>3

\* When the rounds keep to a set of values, so does the loop.
KeepsTo(b, V, step) == \A i \in 1 .. b : \A v \in V : step[i][v] \in V
IsLoop(b, V, base, step, f) == f \in [0 .. b -> V] /\ f[0] = base /\ \A i \in 1 .. b : f[i] = step[i][f[i - 1]]

LEMMA RoundsTyped ==
    ASSUME NEW b \in Nat, NEW V, NEW base \in V, NEW step, KeepsTo(b, V, step)
    PROVE  \E f : IsLoop(b, V, base, step, f)
<1>1. PICK f : Rounds(b, base, step, f)
  BY RoundsExist
<1>2. \A i \in 0 .. b : f[i] = IF i = 0 THEN base ELSE step[i][f[i - 1]]
  BY <1>1, Zenon DEF Rounds
<1>3. DOMAIN f = 0 .. b /\ f = [i \in 0 .. b |-> f[i]]
  BY <1>1 DEF Rounds
<1>4. f[0] = base /\ \A i \in 1 .. b : f[i] = step[i][f[i - 1]]
  <2>1. 0 \in 0 .. b /\ \A i \in 1 .. b : i \in 0 .. b /\ i # 0
    OBVIOUS
  <2> QED
    BY <1>2, <2>1, Zenon
<1> DEFINE S == {n \in 0 .. b : f[n] \in V}
<1>5. 0 .. b \subseteq S
  <2>1. 0 \in S
    BY <1>4
  <2>2. ASSUME NEW n \in 0 .. b - 1, n \in S PROVE n + 1 \in S
    <3>1. n + 1 \in 1 .. b /\ (n + 1) - 1 = n /\ n + 1 \in 0 .. b
      OBVIOUS
    <3>2. f[n + 1] = step[n + 1][f[n]]
      BY <1>4, <3>1
    <3> QED
      BY <2>2, <3>1, <3>2 DEF KeepsTo
  <2> HIDE DEF S
  <2> QED
    BY <2>1, <2>2, UpTo
<1>6. f \in [0 .. b -> V]
  BY <1>3, <1>5
<1> QED
  BY <1>4, <1>6 DEF IsLoop

-----------------------------------------------------------------------------
LEMMA ListFacts ==
    ASSUME NEW s, IsList(s)
    PROVE  Len(s) \in Nat /\ DOMAIN s = 1 .. Len(s) /\ s \in Seq(ToSet(s)) /\ \A T : ToSet(s) \subseteq T => s \in Seq(T)
<1>1. Len(s) \in Nat /\ s = [i \in 1 .. Len(s) |-> s[i]]
  BY DEF IsList
<1>2. DOMAIN s = 1 .. Len(s)
  BY <1>1
<1>3. ASSUME NEW T, ToSet(s) \subseteq T PROVE s \in Seq(T)
  <2>1. s \in [1 .. Len(s) -> T]
    BY <1>1, <1>2, <1>3 DEF ToSet
  <2> QED
    BY <1>1, <2>1, SeqDef
<1> QED
  BY <1>1, <1>2, <1>3

\* What a sequence holds is what it contains.
LEMMA MemberFacts == ASSUME NEW T, NEW s \in Seq(T) PROVE IsList(s) /\ \A k : k \in ToSet(s) <=> Contains(s, k)
  BY DEF IsList, ToSet, Contains

-----------------------------------------------------------------------------
Distinct(s) == \A i, j \in DOMAIN s : s[i] = s[j] => i = j

\* What a loop has kept after i members, from what it had after i - 1.
KeptNext(f, s, S, i) ==
    IF i = 0 THEN <<>>
    ELSE IF s[i] \in S THEN Append(f[i - 1], s[i]) ELSE f[i - 1]

\* append adds one member, at the end.
LEMMA AppendFacts ==
    ASSUME NEW T, NEW s \in Seq(T), NEW e \in T
    PROVE  /\ Append(s, e) \in Seq(T) /\ Len(Append(s, e)) = Len(s) + 1
           /\ \A i \in 1 .. Len(s) : Append(s, e)[i] = s[i]
           /\ Append(s, e)[Len(s) + 1] = e
           /\ \A k : Contains(Append(s, e), k) <=> Contains(s, k) \/ k = e
           /\ Distinct(s) /\ ~Contains(s, e) => Distinct(Append(s, e))
<1>1. /\ Append(s, e) \in Seq(T) /\ Len(Append(s, e)) = Len(s) + 1
      /\ \A i \in 1 .. Len(s) : Append(s, e)[i] = s[i]
      /\ Append(s, e)[Len(s) + 1] = e
      /\ Len(s) \in Nat /\ DOMAIN s = 1 .. Len(s) /\ DOMAIN Append(s, e) = 1 .. Len(s) + 1
  OBVIOUS
<1>2. \A k : Contains(Append(s, e), k) <=> Contains(s, k) \/ k = e
  BY <1>1 DEF Contains
<1>3. Distinct(s) /\ ~Contains(s, e) => Distinct(Append(s, e))
  BY <1>1 DEF Contains, Distinct
<1> QED
  BY <1>1, <1>2, <1>3

\* A concatenation has the members of both its parts.
LEMMA ConcatFacts ==
    ASSUME NEW T, NEW s \in Seq(T), NEW t \in Seq(T)
    PROVE  /\ s \o t \in Seq(T)
           /\ \A k : Contains(s \o t, k) <=> Contains(s, k) \/ Contains(t, k)
           /\ s # <<>> => s \o t # <<>> /\ Head(s \o t) = Head(s)
           /\ (/\ Distinct(s) /\ Distinct(t)
               /\ \A k : ~(Contains(s, k) /\ Contains(t, k))) => Distinct(s \o t)
<1> DEFINE m == Len(s)  n == Len(t)  u == s \o t
<1>1. /\ m \in Nat /\ n \in Nat /\ DOMAIN s = 1 .. m /\ DOMAIN t = 1 .. n
      /\ u \in Seq(T) /\ Len(u) = m + n /\ DOMAIN u = 1 .. m + n
      /\ \A i \in 1 .. m + n : u[i] = IF i <= m THEN s[i] ELSE t[i - m]
      /\ s # <<>> => u # <<>> /\ Head(u) = Head(s)
  OBVIOUS
<1> HIDE DEF u, m, n
<1>2. \A i \in 1 .. m : i \in DOMAIN u /\ u[i] = s[i]
  BY <1>1
<1>3. \A i \in 1 .. n : m + i \in DOMAIN u /\ u[m + i] = t[i]
  BY <1>1
<1>4. \A i \in DOMAIN u : i \in 1 .. m \/ \E j \in 1 .. n : i = m + j
  <2>1. m \in Nat /\ n \in Nat /\ DOMAIN u = 1 .. m + n
    BY <1>1
  <2> SUFFICES ASSUME NEW i \in 1 .. m + n, i \notin 1 .. m PROVE \E j \in 1 .. n : i = m + j
    BY <2>1
  <2>2. i - m \in 1 .. n /\ i = m + (i - m)
    BY <2>1
  <2> QED
    BY <2>2
<1>5. \A k : Contains(u, k) <=> Contains(s, k) \/ Contains(t, k)
  <2>1. /\ \A k : Contains(u, k) <=> \E i \in DOMAIN u : u[i] = k
        /\ \A k : Contains(s, k) <=> \E i \in 1 .. m : s[i] = k
        /\ \A k : Contains(t, k) <=> \E i \in 1 .. n : t[i] = k
    BY <1>1 DEF Contains, m, n
  <2> QED
    BY <1>2, <1>3, <1>4, <2>1
<1>6. ASSUME Distinct(s), Distinct(t), \A k : ~(Contains(s, k) /\ Contains(t, k)) PROVE Distinct(u)
  <2> SUFFICES ASSUME NEW i \in DOMAIN u, NEW j \in DOMAIN u, u[i] = u[j] PROVE i = j
    BY DEF Distinct
  <2>1. \A k \in 1 .. m, l \in 1 .. n : s[k] # t[l]
    BY <1>6 DEF Contains, m, n
  <2>2. /\ \A k, l \in 1 .. m : s[k] = s[l] => k = l
        /\ \A k, l \in 1 .. n : t[k] = t[l] => k = l
    BY <1>1, <1>6 DEF Distinct
  <2>3. CASE i \in 1 .. m /\ j \in 1 .. m
    BY <1>2, <2>2, <2>3
  <2>4. CASE i \in 1 .. m /\ j \notin 1 .. m
    BY <1>2, <1>3, <1>4, <2>1, <2>4
  <2>5. CASE i \notin 1 .. m /\ j \in 1 .. m
    BY <1>2, <1>3, <1>4, <2>1, <2>5
  <2>6. CASE i \notin 1 .. m /\ j \notin 1 .. m
    BY <1>3, <1>4, <2>2, <2>6
  <2> QED
    BY <2>3, <2>4, <2>5, <2>6
<1> QED
  BY <1>1, <1>5, <1>6 DEF u

\* What is left of a sequence without its first member.
LEMMA TailFacts ==
    ASSUME NEW T, NEW s \in Seq(T), s # <<>>
    PROVE  /\ Head(s) \in T /\ Tail(s) \in Seq(T)
           /\ \A k : Contains(s, k) <=> k = Head(s) \/ Contains(Tail(s), k)
<1>1. /\ Head(s) = s[1] /\ Len(s) \in Nat \ {0} /\ Tail(s) \in Seq(T)
      /\ Len(Tail(s)) = Len(s) - 1
      /\ \A i \in 1 .. Len(Tail(s)) : Tail(s)[i] = s[i + 1]
  OBVIOUS
<1>2. ASSUME NEW k, Contains(s, k) PROVE k = Head(s) \/ Contains(Tail(s), k)
  <2>1. PICK i \in 1 .. Len(s) : s[i] = k
    BY <1>2 DEF Contains
  <2>2. CASE i # 1
    <3>1. i - 1 \in 1 .. Len(Tail(s)) /\ Tail(s)[i - 1] = k
      BY <1>1, <2>1, <2>2
    <3> QED
      BY <3>1 DEF Contains
  <2> QED
    BY <1>1, <2>1, <2>2
<1>3. ASSUME NEW k, Contains(Tail(s), k) PROVE Contains(s, k)
  <2>1. PICK i \in 1 .. Len(Tail(s)) : Tail(s)[i] = k
    BY <1>3 DEF Contains
  <2>2. i + 1 \in 1 .. Len(s) /\ s[i + 1] = k
    BY <1>1, <2>1
  <2> QED
    BY <2>2 DEF Contains
<1>4. Head(s) \in T /\ Contains(s, Head(s))
  BY <1>1 DEF Contains
<1> QED
  BY <1>1, <1>2, <1>3, <1>4

\* The recursive function of Kept exists: what is kept of a prefix extends to
\* the next member.
LEMMA KeptExists ==
    ASSUME NEW s, Len(s) \in Nat, NEW S
    PROVE  \E f : f = [i \in 0 .. Len(s) |-> KeptNext(f, s, S, i)]
<1> DEFINE Upto(n, f) == f = [i \in 0 .. n |-> KeptNext(f, s, S, i)]
           I == {n \in Nat : \E f : Upto(n, f)}
<1>1. 0 \in I
  <2>1. Upto(0, [i \in 0 .. 0 |-> <<>>])
    BY DEF KeptNext
  <2> QED
    BY <2>1
<1>2. ASSUME NEW n \in I PROVE n + 1 \in I
  <2>1. PICK f : Upto(n, f)
    OBVIOUS
  <2>2. n \in Nat /\ n + 1 \in Nat /\ \A i \in 0 .. n : f[i] = KeptNext(f, s, S, i)
    BY <2>1
  <2> DEFINE g == [i \in 0 .. n + 1 |-> IF i <= n THEN f[i] ELSE KeptNext(f, s, S, i)]
  <2>3. ASSUME NEW i \in 0 .. n + 1 PROVE g[i] = KeptNext(g, s, S, i)
    <3>1. i # 0 => g[i - 1] = f[i - 1]
      BY <2>2
    <3>2. g[i] = KeptNext(f, s, S, i)
      BY <2>2
    <3> HIDE DEF g
    <3> QED
      BY <3>1, <3>2 DEF KeptNext
  <2>4. Upto(n + 1, g)
    <3>1. g = [i \in 0 .. n + 1 |-> g[i]]
      OBVIOUS
    <3> HIDE DEF g
    <3> QED
      BY <2>3, <3>1
  <2> HIDE DEF Upto, g
  <2> QED
    BY <2>2, <2>4
<1>3. Nat \subseteq I
  <2> HIDE DEF I
  <2> QED
    BY <1>1, <1>2, SetInduction
<1> QED
  BY <1>3

\* Kept, step by step.
LEMMA KeptSteps ==
    ASSUME NEW s, Len(s) \in Nat, NEW S
    PROVE  \E f : (\A i \in 0 .. Len(s) : f[i] = KeptNext(f, s, S, i)) /\ Kept(s, S) = f[Len(s)]
<1> DEFINE Is(f) == f = [i \in 0 .. Len(s) |-> KeptNext(f, s, S, i)]
           kept == CHOOSE f : Is(f)
<1>1. \E f : Is(f)
  BY KeptExists
<1>2. Is(kept)
  <2> HIDE DEF Is
  <2> QED
    BY <1>1
<1>3. Kept(s, S) = kept[Len(s)]
  BY DEF Kept, KeptNext
<1>4. \A i \in 0 .. Len(s) : kept[i] = KeptNext(kept, s, S, i)
  <2> HIDE DEF kept
  <2> QED
    BY <1>2, Zenon
<1> HIDE DEF kept
<1> QED
  BY <1>3, <1>4

\* Kept has the members of s that lie in S, each as often at most as s has it.
LEMMA KeptFacts ==
    ASSUME NEW T, NEW s \in Seq(T), NEW S
    PROVE  /\ Kept(s, S) \in Seq(T)
           /\ \A k : Contains(Kept(s, S), k) <=> Contains(s, k) /\ k \in S
           /\ Distinct(s) => Distinct(Kept(s, S))
<1>1. Len(s) \in Nat /\ \A i \in 1 .. Len(s) : s[i] \in T
  OBVIOUS
<1>2. PICK f : (\A i \in 0 .. Len(s) : f[i] = KeptNext(f, s, S, i)) /\ Kept(s, S) = f[Len(s)]
  BY <1>1, KeptSteps
<1> DEFINE Sound(n) ==
                /\ f[n] \in Seq(T)
                /\ \A k : Contains(f[n], k) <=> k \in S /\ \E i \in 1 .. n : s[i] = k
                /\ Distinct(s) => Distinct(f[n])
           I == {n \in Nat : n <= Len(s) => Sound(n)}
<1>3. 0 \in I
  <2>1. f[0] = <<>>
    BY <1>1, <1>2 DEF KeptNext
  <2>2. Sound(0)
    BY <2>1 DEF Contains, Distinct
  <2> QED
    BY <2>2
<1>4. ASSUME NEW n \in Nat, n \in I PROVE n + 1 \in I
  <2> SUFFICES ASSUME n + 1 <= Len(s) PROVE Sound(n + 1)
    BY <1>1
  <2>1. Sound(n) /\ n + 1 \in 1 .. Len(s) /\ s[n + 1] \in T
    BY <1>1, <1>4
  <2>2. f[n + 1] = IF s[n + 1] \in S THEN Append(f[n], s[n + 1]) ELSE f[n]
    <3>1. (n + 1) - 1 = n /\ n + 1 # 0 /\ n + 1 \in 0 .. Len(s)
      BY <1>1
    <3> QED
      BY <1>2, <3>1 DEF KeptNext
  <2>3. \A k : (\E i \in 1 .. n + 1 : s[i] = k) <=> (\E i \in 1 .. n : s[i] = k) \/ k = s[n + 1]
    OBVIOUS
  <2>4. CASE s[n + 1] \notin S
    BY <2>1, <2>2, <2>3, <2>4
  <2>5. CASE s[n + 1] \in S
    <3>1. f[n + 1] = Append(f[n], s[n + 1])
      BY <2>2, <2>5
    <3>2. /\ f[n + 1] \in Seq(T)
          /\ \A k : Contains(f[n + 1], k) <=> Contains(f[n], k) \/ k = s[n + 1]
          /\ Distinct(f[n]) /\ ~Contains(f[n], s[n + 1]) => Distinct(f[n + 1])
      BY <2>1, <3>1, AppendFacts
    <3>3. \A k : Contains(f[n + 1], k) <=> k \in S /\ \E i \in 1 .. n + 1 : s[i] = k
      BY <2>1, <2>3, <2>5, <3>2
    <3>4. ASSUME Distinct(s), Contains(f[n], s[n + 1]) PROVE FALSE
      <4>1. PICK i \in 1 .. n : s[i] = s[n + 1]
        BY <2>1, <3>4
      <4>2. i \in DOMAIN s /\ n + 1 \in DOMAIN s /\ i # n + 1
        BY <2>1
      <4> QED
        BY <3>4, <4>1, <4>2 DEF Distinct
    <3> QED
      BY <2>1, <3>2, <3>3, <3>4
  <2> QED
    BY <2>4, <2>5
<1>5. Sound(Len(s))
  <2>1. Nat \subseteq I
    <3> HIDE DEF I
    <3> QED
      BY <1>3, <1>4, SetInduction
  <2>2. Len(s) \in I
    BY <1>1, <2>1
  <2> QED
    BY <1>1, <2>2
<1> QED
  BY <1>2, <1>5 DEF Contains

\* What is kept of a sequence and what is not make up its length.
LEMMA KeptParts ==
    ASSUME NEW s, Len(s) \in Nat, NEW S, NEW R, \A i \in 1 .. Len(s) : s[i] \in S <=> s[i] \notin R,
           NEW T, s \in Seq(T)
    PROVE  Len(Kept(s, S)) + Len(Kept(s, R)) = Len(s)
<1>1. PICK f : (\A i \in 0 .. Len(s) : f[i] = KeptNext(f, s, S, i)) /\ Kept(s, S) = f[Len(s)]
  BY KeptSteps
<1>2. PICK g : (\A i \in 0 .. Len(s) : g[i] = KeptNext(g, s, R, i)) /\ Kept(s, R) = g[Len(s)]
  BY KeptSteps
<1> DEFINE N == Len(s)
           I == {n \in 0 .. N : f[n] \in Seq(T) /\ g[n] \in Seq(T) /\ Len(f[n]) + Len(g[n]) = n}
<1>3. N \in Nat /\ \A i \in 1 .. N : s[i] \in T
  OBVIOUS
<1>4. /\ \A i \in 0 .. N : f[i] = KeptNext(f, s, S, i) /\ g[i] = KeptNext(g, s, R, i)
      /\ \A i \in 1 .. N : s[i] \in S <=> s[i] \notin R
  BY <1>1, <1>2
<1>5. Kept(s, S) = f[N] /\ Kept(s, R) = g[N]
  BY <1>1, <1>2
<1> HIDE DEF N
<1>6. 0 .. N \subseteq I
  <2>1. 0 \in I
    <3>1. f[0] = <<>> /\ g[0] = <<>>
      BY <1>3, <1>4 DEF KeptNext
    <3>2. f[0] \in Seq(T) /\ g[0] \in Seq(T) /\ Len(f[0]) + Len(g[0]) = 0
      <4>1. <<>> \in Seq(T) /\ Len(<<>>) + Len(<<>>) = 0
        OBVIOUS
      <4> QED
        BY <3>1, <4>1
    <3>3. 0 \in 0 .. N
      BY <1>3
    <3> QED
      BY <3>2, <3>3, Zenon
  <2>2. ASSUME NEW n \in 0 .. N - 1, n \in I PROVE n + 1 \in I
    <3>1. n + 1 \in 1 .. N /\ n + 1 \in 0 .. N /\ (n + 1) - 1 = n /\ n + 1 # 0 /\ n \in Nat
      BY <1>3
    <3>2. /\ f[n + 1] = IF s[n + 1] \in S THEN Append(f[n], s[n + 1]) ELSE f[n]
          /\ g[n + 1] = IF s[n + 1] \in R THEN Append(g[n], s[n + 1]) ELSE g[n]
      BY <1>4, <3>1 DEF KeptNext
    <3>3. s[n + 1] \in T /\ (s[n + 1] \in S <=> s[n + 1] \notin R)
      BY <1>3, <1>4, <3>1
    <3> DEFINE e == s[n + 1]  v == f[n]  w == g[n]  m == n + 1
    <3>4. v \in Seq(T) /\ w \in Seq(T) /\ Len(v) + Len(w) = n
      BY <2>2
    <3>5. /\ f[m] = (IF e \in S THEN Append(v, e) ELSE v) /\ g[m] = (IF e \in R THEN Append(w, e) ELSE w)
          /\ e \in T /\ (e \in S <=> e \notin R)
      BY <3>2, <3>3
    <3> HIDE DEF e, v, w, m
    <3>6. f[m] \in Seq(T) /\ g[m] \in Seq(T) /\ Len(f[m]) + Len(g[m]) = n + 1
      <4>1. Len(v) \in Nat /\ Len(w) \in Nat
        BY <3>4
      <4>2. CASE e \in S
        <5>1. f[m] = Append(v, e) /\ g[m] = w
          BY <3>5, <4>2
        <5>2. Append(v, e) \in Seq(T) /\ Len(Append(v, e)) = Len(v) + 1
          BY <3>4, <3>5, AppendFacts
        <5>3. Len(Append(v, e)) + Len(w) = n + 1
          BY <3>1, <3>4, <4>1, <5>2
        <5> QED
          BY <3>4, <5>1, <5>2, <5>3
      <4>3. CASE e \notin S
        <5>1. f[m] = v /\ g[m] = Append(w, e)
          BY <3>5, <4>3
        <5>2. Append(w, e) \in Seq(T) /\ Len(Append(w, e)) = Len(w) + 1
          BY <3>4, <3>5, AppendFacts
        <5>3. Len(v) + Len(Append(w, e)) = n + 1
          BY <3>1, <3>4, <4>1, <5>2
        <5> QED
          BY <3>4, <5>1, <5>2, <5>3
      <4> QED
        BY <4>2, <4>3
    <3>7. m \in 0 .. N /\ m = n + 1
      BY <3>1 DEF m
    <3> QED
      BY <3>6, <3>7
  <2> HIDE DEF I
  <2> QED
    BY <1>3, <2>1, <2>2, UpTo
<1>7. N \in I
  <2> HIDE DEF I
  <2> QED
    BY <1>3, <1>6
<1> QED
  BY <1>5, <1>7 DEF N

-----------------------------------------------------------------------------
(* FlattenSeq                                                              *)

IsFlattening(f, seqs, T) ==
    /\ f \in [0 .. Len(seqs) -> Seq(T)] /\ f[0] = <<>> /\ FlattenSeq(seqs) = f[Len(seqs)]
    /\ \A i \in 1 .. Len(seqs) : f[i] = f[i - 1] \o seqs[i]

\* FlattenSeq appends one sequence after the other.
LEMMA FlattenSteps ==
    ASSUME NEW T, NEW seqs \in Seq(Seq(T))
    PROVE  \E f : IsFlattening(f, seqs, T)
<1> DEFINE N == Len(seqs)
           V == Seq(T)
           step == [i \in 1 .. N |-> [v \in V |-> v \o seqs[i]]]
           Is(f) == f = [i \in 1 .. N |-> IF i = 1 THEN seqs[i] ELSE f[i - 1] \o seqs[i]]
           flat == CHOOSE f : Is(f)
<1>1. N \in Nat /\ \A i \in 1 .. N : seqs[i] \in V
  OBVIOUS
<1>2. /\ N = 0 => FlattenSeq(seqs) = <<>>
      /\ N # 0 => FlattenSeq(seqs) = flat[N]
  BY DEF FlattenSeq
<1> HIDE DEF N
<1>3. \A v, w \in V : v \o w \in V /\ <<>> \o w = w
  OBVIOUS
<1> HIDE DEF V
<1>4. \A i \in 1 .. N : \A v \in V : step[i][v] = v \o seqs[i]
  OBVIOUS
<1> HIDE DEF step
<1>5. <<>> \in V
  BY DEF V
<1>6. PICK g : IsLoop(N, V, <<>>, step, g)
  <2>1. KeepsTo(N, V, step)
    BY <1>1, <1>3, <1>4 DEF KeepsTo
  <2> QED
    BY <1>1, <1>5, <2>1, RoundsTyped
<1>13. <<>> \o seqs[1] = seqs[1] \/ N = 0
  BY <1>1, <1>3
<1>7. g \in [0 .. N -> V] /\ g[0] = <<>> /\ \A i \in 1 .. N : g[i] = g[i - 1] \o seqs[i]
  <2>1. g \in [0 .. N -> V] /\ g[0] = <<>> /\ \A i \in 1 .. N : g[i] = step[i][g[i - 1]]
    BY <1>6 DEF IsLoop
  <2>2. \A i \in 1 .. N : i - 1 \in 0 .. N
    BY <1>1
  <2> QED
    BY <1>4, <2>1, <2>2
<1> DEFINE h == [i \in 1 .. N |-> g[i]]
<1>8. Is(h)
  <2>1. ASSUME NEW i \in 1 .. N PROVE h[i] = IF i = 1 THEN seqs[i] ELSE h[i - 1] \o seqs[i]
    <3>1. h[i] = g[i - 1] \o seqs[i]
      BY <1>7
    <3>2. CASE i = 1
      <4>1. i - 1 = 0 /\ N # 0
        BY <1>1, <3>2
      <4>2. h[i] = <<>> \o seqs[1]
        BY <1>7, <3>1, <3>2, <4>1
      <4> HIDE DEF h
      <4> QED
        BY <1>13, <3>2, <4>1, <4>2
    <3>3. CASE i # 1
      <4>1. i - 1 \in 1 .. N
        BY <1>1, <3>3
      <4>2. h[i - 1] = g[i - 1]
        BY <4>1
      <4> HIDE DEF h
      <4> QED
        BY <3>1, <3>3, <4>2
    <3> QED
      BY <3>2, <3>3
  <2> HIDE DEF h
  <2>2. h = [i \in 1 .. N |-> h[i]]
    BY DEF h
  <2> QED
    BY <2>1, <2>2
<1>9. Is(flat)
  <2> HIDE DEF Is
  <2> QED
    BY <1>8
<1> HIDE DEF flat
<1>10. \A i \in 1 .. N : flat[i] = IF i = 1 THEN seqs[i] ELSE flat[i - 1] \o seqs[i]
  BY <1>9, Zenon
<1> HIDE DEF Is
<1> DEFINE S == {n \in 0 .. N : n # 0 => flat[n] = g[n]}
<1>11. 0 .. N \subseteq S
  <2>1. 0 \in S
    BY <1>1
  <2>2. ASSUME NEW n \in 0 .. N - 1, n \in S PROVE n + 1 \in S
    <3>1. n + 1 \in 1 .. N /\ n + 1 \in 0 .. N /\ (n + 1) - 1 = n /\ (n # 0 => n + 1 # 1)
      BY <1>1
    <3>2. g[n + 1] = g[n] \o seqs[n + 1]
      BY <1>7, <3>1
    <3>3. CASE n = 0
      <4>1. n + 1 = 1 /\ N # 0 /\ 1 \in 1 .. N
        BY <1>1, <3>1, <3>3
      <4>2. g[1] = <<>> \o seqs[1]
        BY <1>7, <3>2, <3>3, <4>1
      <4>3. flat[1] = seqs[1]
        BY <1>10, <4>1
      <4> QED
        BY <1>13, <3>1, <4>1, <4>2, <4>3
    <3>4. CASE n # 0
      <4>1. flat[n + 1] = flat[n] \o seqs[n + 1]
        BY <1>10, <3>1, <3>4
      <4> QED
        BY <2>2, <3>1, <3>2, <3>4, <4>1
    <3> QED
      BY <3>3, <3>4
  <2> HIDE DEF S
  <2> QED
    BY <1>1, <2>1, <2>2, UpTo
<1>12. FlattenSeq(seqs) = g[N]
  <2>1. N \in S
    <3> HIDE DEF S
    <3> QED
      BY <1>1, <1>11
  <2> QED
    BY <1>2, <1>7, <2>1
<1> QED
  BY <1>7, <1>12 DEF IsFlattening, N, V

\* It has the members of them all.
LEMMA FlattenFacts ==
    ASSUME NEW T, NEW seqs \in Seq(Seq(T))
    PROVE  /\ FlattenSeq(seqs) \in Seq(T)
           /\ \A k : Contains(FlattenSeq(seqs), k) <=> \E i \in 1 .. Len(seqs) : Contains(seqs[i], k)
<1>0. PICK f : IsFlattening(f, seqs, T)
  BY FlattenSteps
<1> DEFINE N == Len(seqs)
<1>1. N \in Nat /\ \A i \in 1 .. N : seqs[i] \in Seq(T)
  OBVIOUS
<1>2. /\ \A n \in 0 .. N : f[n] \in Seq(T)
      /\ f[0] = <<>> /\ FlattenSeq(seqs) = f[N]
      /\ \A i \in 1 .. N : f[i] = f[i - 1] \o seqs[i]
  BY <1>0 DEF IsFlattening
<1> HIDE DEF N
<1> DEFINE S == {n \in 0 .. N : \A k : Contains(f[n], k) <=> \E i \in 1 .. n : Contains(seqs[i], k)}
<1>3. 0 .. N \subseteq S
  <2>1. 0 \in S
    <3>1. \A k : ~Contains(f[0], k)
      BY <1>2 DEF Contains
    <3> QED
      BY <1>1, <3>1
  <2>2. ASSUME NEW n \in 0 .. N - 1, n \in S PROVE n + 1 \in S
    <3>1. n + 1 \in 1 .. N /\ n + 1 \in 0 .. N /\ (n + 1) - 1 = n /\ n \in Nat /\ n \in 0 .. N
      BY <1>1
    <3>2. f[n + 1] = f[n] \o seqs[n + 1] /\ f[n] \in Seq(T) /\ seqs[n + 1] \in Seq(T)
      BY <1>1, <1>2, <3>1
    <3>3. \A k : Contains(f[n + 1], k) <=> Contains(f[n], k) \/ Contains(seqs[n + 1], k)
      BY <3>2, ConcatFacts
    <3>4. \A k : (\E i \in 1 .. n + 1 : Contains(seqs[i], k)) <=> (\E i \in 1 .. n : Contains(seqs[i], k)) \/ Contains(seqs[n + 1], k)
      <4>1. \A i : i \in 1 .. n + 1 <=> i \in 1 .. n \/ i = n + 1
        BY <3>1
      <4> QED
        BY <4>1
    <3>5. \A k : Contains(f[n], k) <=> \E i \in 1 .. n : Contains(seqs[i], k)
      BY <2>2
    <3>6. \A k : Contains(f[n + 1], k) <=> \E i \in 1 .. n + 1 : Contains(seqs[i], k)
      BY <3>3, <3>4, <3>5, Zenon
    <3> QED
      BY <3>1, <3>6
  <2> HIDE DEF S
  <2> QED
    BY <1>1, <2>1, <2>2, UpTo
<1>4. N \in S
  <2> HIDE DEF S
  <2> QED
    BY <1>1, <1>3
<1> QED
  BY <1>1, <1>2, <1>4 DEF N

\* What stands where in a concatenation.
LEMMA ConcatAt ==
    ASSUME NEW T, NEW v \in Seq(T), NEW w \in Seq(T)
    PROVE  /\ Len(v) \in Nat /\ Len(w) \in Nat /\ Len(v \o w) = Len(v) + Len(w)
           /\ \A i \in 1 .. Len(v) + Len(w) : (v \o w)[i] = IF i <= Len(v) THEN v[i] ELSE w[i - Len(v)]
  OBVIOUS

LEMMA JoinedFacts ==
    ASSUME NEW T, NEW v \in Seq(T), NEW w \in Seq(T), Len(w) = 1
    PROVE  /\ Len(v \o w) = Len(v) + 1 /\ (v \o w)[Len(v) + 1] = w[1]
           /\ \A i \in 1 .. Len(v) : (v \o w)[i] = v[i]
<1> DEFINE m == Len(v)  n == Len(w)  u == v \o w
<1>0. /\ m \in Nat /\ n \in Nat /\ Len(u) = m + n
      /\ \A i \in 1 .. m + n : u[i] = IF i <= m THEN v[i] ELSE w[i - m]
  BY ConcatAt, Zenon
<1>5. n = 1
  OBVIOUS
<1> HIDE DEF u, m, n
<1>1. /\ m \in Nat /\ Len(u) = m + 1
      /\ \A i \in 1 .. m + 1 : u[i] = IF i <= m THEN v[i] ELSE w[i - m]
  BY <1>0, <1>5
<1>2. m + 1 \in 1 .. m + 1 /\ ~(m + 1 <= m) /\ (m + 1) - m = 1
  BY <1>1
<1>3. u[m + 1] = w[1]
  BY <1>1, <1>2
<1>4. \A i \in 1 .. m : u[i] = v[i]
  BY <1>1
<1> QED
  BY <1>1, <1>3, <1>4 DEF u, m

\* Of sequences of one member each it makes one of these, in their order.
LEMMA FlattenSingles ==
    ASSUME NEW T, NEW seqs \in Seq(Seq(T)), \A i \in 1 .. Len(seqs) : Len(seqs[i]) = 1
    PROVE  /\ Len(FlattenSeq(seqs)) = Len(seqs)
           /\ \A i \in 1 .. Len(seqs) : FlattenSeq(seqs)[i] = seqs[i][1]
<1>0. PICK f : IsFlattening(f, seqs, T)
  BY FlattenSteps
<1> DEFINE N == Len(seqs)
<1>1. N \in Nat /\ \A i \in 1 .. N : seqs[i] \in Seq(T) /\ Len(seqs[i]) = 1
  OBVIOUS
<1>2. /\ \A n \in 0 .. N : f[n] \in Seq(T)
      /\ f[0] = <<>> /\ FlattenSeq(seqs) = f[N]
      /\ \A i \in 1 .. N : f[i] = f[i - 1] \o seqs[i]
  BY <1>0 DEF IsFlattening
<1> HIDE DEF N
<1> DEFINE S == {n \in 0 .. N : Len(f[n]) = n /\ \A i \in 1 .. n : f[n][i] = seqs[i][1]}
<1>3. 0 .. N \subseteq S
  <2>1. 0 \in S
    BY <1>1, <1>2
  <2>2. ASSUME NEW n \in 0 .. N - 1, n \in S PROVE n + 1 \in S
    <3>1. n + 1 \in 1 .. N /\ n + 1 \in 0 .. N /\ (n + 1) - 1 = n /\ n \in Nat /\ n \in 0 .. N
      BY <1>1
    <3>2. f[n + 1] = f[n] \o seqs[n + 1] /\ f[n] \in Seq(T) /\ seqs[n + 1] \in Seq(T) /\ Len(seqs[n + 1]) = 1
      BY <1>1, <1>2, <3>1
    <3>4. Len(f[n]) = n /\ \A i \in 1 .. n : f[n][i] = seqs[i][1]
      BY <2>2
    <3>5. Len(f[n + 1]) = n + 1 /\ f[n + 1][n + 1] = seqs[n + 1][1] /\ \A i \in 1 .. n : f[n + 1][i] = f[n][i]
      <4> DEFINE v == f[n]
                 w == seqs[n + 1]
      <4>1. v \in Seq(T) /\ w \in Seq(T) /\ Len(w) = 1 /\ Len(v) = n /\ f[n + 1] = v \o w
        BY <3>2, <3>4
      <4> HIDE DEF v, w
      <4>2. Len(v \o w) = Len(v) + 1 /\ (v \o w)[Len(v) + 1] = w[1] /\ \A i \in 1 .. Len(v) : (v \o w)[i] = v[i]
        BY <4>1, JoinedFacts
      <4>3. Len(f[n + 1]) = n + 1 /\ f[n + 1][n + 1] = w[1] /\ \A i \in 1 .. n : f[n + 1][i] = v[i]
        BY <4>1, <4>2
      <4> QED
        BY <4>3 DEF v, w
    <3>6. \A i \in 1 .. n + 1 : f[n + 1][i] = seqs[i][1]
      BY <3>1, <3>4, <3>5
    <3> QED
      BY <3>1, <3>5, <3>6
  <2> HIDE DEF S
  <2> QED
    BY <1>1, <2>1, <2>2, UpTo
<1>4. N \in S
  <2> HIDE DEF S
  <2> QED
    BY <1>1, <1>3
<1> QED
  BY <1>1, <1>2, <1>4 DEF N
=============================================================================
