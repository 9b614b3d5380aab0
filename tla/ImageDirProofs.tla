--------------------------- MODULE ImageDirProofs ---------------------------
(***************************************************************************)
(* Proofs about ImageDir::open, for every directory that a file system can *)
(* hold: what it accepts, and the list of blobs that it gives the sinks.   *)
(* The run `functions' evaluates open on a few hundred thousand small      *)
(* directories; here index.json may list any number of manifests, and each *)
(* may have any number of layers.                                          *)
(*                                                                         *)
(* open stops at the first check that fails, so that the one argument is   *)
(* about lists of checks: the first failed one is `none' if, and only if,  *)
(* none fails (NoCheckFails), with one lemma for each list of checks.  The *)
(* list of blobs is a fold that adds a digest when it is new: FoldKeeps is *)
(* induction over the list that is folded.  Induction is from a least      *)
(* counterexample: a set of naturals has a least element (MinIsLeast).     *)
(* The lemmas about lists serve FunctionProofs as well.                    *)
(***************************************************************************)
EXTENDS ImageDir, SequenceTheorems, FiniteSetTheorems, WellFoundedInduction, TLAPS

-----------------------------------------------------------------------------
(* Lists.                                                                  *)

\* A set of naturals has a least element, and Min chooses it.
LEMMA MinIsLeast ==
  ASSUME NEW S \in SUBSET Nat, S # {}
  PROVE  Min(S) \in S /\ \A k \in S : Min(S) <= k
<1>. DEFINE R == OpToRel(<, Nat)
<1>1. IsWellFoundedOn(R, Nat)
  BY NatLessThanWellFounded
<1>2. \A x, y \in Nat : <<x, y>> \in R <=> x < y
  BY DEF OpToRel
<1>. HIDE DEF R
<1>3. PICK x \in S : \A y \in S : <<y, x>> \notin R
  BY <1>1, WFMin
<1>4. \A y \in S : x <= y
  <2>1. TAKE y \in S
  <2>2. x \in Nat /\ y \in Nat /\ ~(y < x)
    BY <1>2, <1>3
  <2>. QED  BY <2>2
<1>. QED  BY <1>4 DEF Min

\* Numbers up to a bound have a greatest one, and Max chooses it.
LEMMA MaxIsGreatest ==
  ASSUME NEW n \in Nat, NEW S \in SUBSET (1..n), S # {}
  PROVE  Max(S) \in S /\ \A k \in S : k <= Max(S)
<1>. DEFINE D == {n - k : k \in S}
<1>1. D \in SUBSET Nat /\ D # {}
  <2>1. \A k \in S : n - k \in Nat
    OBVIOUS
  <2>. QED  BY <2>1
<1>2. PICK k \in S : n - k = Min(D)
  BY <1>1, MinIsLeast
<1>3. \A j \in S : n - k <= n - j
  BY <1>1, <1>2, MinIsLeast
<1>4. \A j \in S : k >= j
  <2>1. TAKE j \in S
  <2>2. j \in Int /\ k \in Int /\ n - k <= n - j
    BY <1>3
  <2>. QED  BY <2>2
<1>. QED  BY <1>4 DEF Max

\* A list has the positions from 1 to its length.
LEMMA ListDomain ==
  ASSUME NEW s, IsList(s)
  PROVE  DOMAIN s = 1..Len(s) /\ Len(s) \in Nat
BY DEF IsList

\* A list is a sequence of its elements.
LEMMA ListIsSeq ==
  ASSUME NEW s, NEW E, ToSet(s) \subseteq E
  PROVE  IsList(s) <=> s \in Seq(E)
<1>1. ASSUME IsList(s) PROVE s \in Seq(E)
  <2>1. PICK n \in Nat : s = [k \in 1..n |-> s[k]]
    BY <1>1 DEF IsList
  <2>2. DOMAIN s = 1..n
    BY <2>1
  <2>3. \A k \in 1..n : s[k] \in E
    BY <2>2 DEF ToSet
  <2>4. [k \in 1..n |-> s[k]] \in [1..n -> E]
    BY <2>3
  <2>5. s \in [1..n -> E]
    BY <2>1, <2>4
  <2>. QED  BY <2>5, SeqDef
<1>2. ASSUME s \in Seq(E) PROVE IsList(s)
  <2>1. PICK n \in Nat : s \in [1..n -> E]
    BY <1>2, SeqDef
  <2>. QED  BY <2>1 DEF IsList
<1>. QED  BY <1>1, <1>2

\* The empty list, and the list of one element.
LEMMA Empty == IsList(<<>>) /\ ToSet(<<>>) = {}
<1>1. <<>> \in Seq({}) /\ ToSet(<<>>) = {}
  BY DEF ToSet
<1>. QED  BY <1>1, ListIsSeq

LEMMA Single ==
  ASSUME NEW x
  PROVE  IsList(<<x>>) /\ ToSet(<<x>>) = {x}
<1>1. <<x>> = [k \in 1..1 |-> <<x>>[k]] /\ DOMAIN <<x>> = 1..1 /\ <<x>>[1] = x
  OBVIOUS
<1>. QED  BY <1>1 DEF IsList, ToSet

\* Two lists, one after the other.
LEMMA ConcatAt ==
  ASSUME NEW s, IsList(s), NEW t, IsList(t)
  PROVE  /\ IsList(s \o t) /\ Len(s \o t) = Len(s) + Len(t)
         /\ \A i \in 1..(Len(s) + Len(t)) :
              (s \o t)[i] = IF i <= Len(s) THEN s[i] ELSE t[i - Len(s)]
<1>. DEFINE E == ToSet(s) \cup ToSet(t)
<1>1. s \in Seq(E) /\ t \in Seq(E)
  BY ListIsSeq
<1>2. /\ s \o t \in Seq(E) /\ Len(s \o t) = Len(s) + Len(t)
      /\ \A i \in 1..(Len(s) + Len(t)) :
           (s \o t)[i] = IF i <= Len(s) THEN s[i] ELSE t[i - Len(s)]
  BY <1>1, ConcatProperties
<1>3. ToSet(s \o t) \subseteq E
  BY <1>2 DEF ToSet
<1>. QED  BY <1>2, <1>3, ListIsSeq

\* The elements of two lists, one after the other.
LEMMA Joined ==
  ASSUME NEW s, IsList(s), NEW t, IsList(t)
  PROVE  IsList(s \o t) /\ ToSet(s \o t) = ToSet(s) \cup ToSet(t)
<1>. DEFINE st == s \o t
<1>1. /\ IsList(st) /\ Len(st) = Len(s) + Len(t)
      /\ \A i \in 1..(Len(s) + Len(t)) : st[i] = IF i <= Len(s) THEN s[i] ELSE t[i - Len(s)]
  BY ConcatAt
<1>. HIDE DEF st
<1>2. /\ DOMAIN s = 1..Len(s) /\ DOMAIN t = 1..Len(t) /\ DOMAIN st = 1..(Len(s) + Len(t))
      /\ Len(s) \in Nat /\ Len(t) \in Nat
  BY <1>1, ListDomain
<1>3. ASSUME NEW x \in ToSet(st) PROVE x \in ToSet(s) \cup ToSet(t)
  <2>1. PICK i \in 1..(Len(s) + Len(t)) : x = st[i]
    BY <1>2 DEF ToSet
  <2>2. CASE i <= Len(s)
    BY <1>1, <1>2, <2>1, <2>2 DEF ToSet
  <2>3. CASE ~(i <= Len(s))
    <3>1. i - Len(s) \in 1..Len(t) /\ x = t[i - Len(s)]
      BY <1>1, <1>2, <2>1, <2>3
    <3>. QED  BY <1>2, <3>1 DEF ToSet
  <2>. QED  BY <2>2, <2>3
<1>4. ASSUME NEW x \in ToSet(s) PROVE x \in ToSet(st)
  <2>1. PICK i \in 1..Len(s) : x = s[i]
    BY <1>2 DEF ToSet
  <2>2. i \in DOMAIN st /\ st[i] = x
    BY <1>1, <1>2, <2>1
  <2>. QED  BY <2>2 DEF ToSet
<1>5. ASSUME NEW x \in ToSet(t) PROVE x \in ToSet(st)
  <2>1. PICK i \in 1..Len(t) : x = t[i]
    BY <1>2 DEF ToSet
  <2>2. Len(s) + i \in DOMAIN st /\ st[Len(s) + i] = x
    BY <1>1, <1>2, <2>1
  <2>. QED  BY <2>2 DEF ToSet
<1>. QED  BY <1>1, <1>3, <1>4, <1>5 DEF st

\* Each x of a list comes after all of D.
After(s, D, x) == \A j \in DOMAIN s : s[j] = x => \A d \in D : \E i \in 1..(j - 1) : s[i] = d

LEMMA AfterJoined ==
  ASSUME NEW s, IsList(s), NEW t, IsList(t), NEW D, NEW x, After(s, D, x),
         After(t, D, x) \/ D \subseteq ToSet(s)
  PROVE  After(s \o t, D, x)
<1>. DEFINE st == s \o t
<1>1. /\ IsList(st) /\ Len(st) = Len(s) + Len(t)
      /\ \A i \in 1..(Len(s) + Len(t)) : st[i] = IF i <= Len(s) THEN s[i] ELSE t[i - Len(s)]
  BY ConcatAt
<1>. HIDE DEF st
<1>2. /\ DOMAIN s = 1..Len(s) /\ DOMAIN t = 1..Len(t) /\ DOMAIN st = 1..(Len(s) + Len(t))
      /\ Len(s) \in Nat /\ Len(t) \in Nat
  BY <1>1, ListDomain
<1>3. ASSUME NEW j \in DOMAIN st, st[j] = x, NEW d \in D
      PROVE  \E i \in 1..(j - 1) : st[i] = d
  <2>1. CASE j <= Len(s)
    <3>1. j \in 1..Len(s) /\ s[j] = x
      BY <1>1, <1>2, <1>3, <2>1
    <3>2. PICK i \in 1..(j - 1) : s[i] = d
      BY <1>2, <3>1 DEF After
    <3>3. st[i] = d
      BY <1>1, <1>2, <2>1, <3>1, <3>2
    <3>. QED  BY <3>3
  <2>2. CASE ~(j <= Len(s)) /\ D \subseteq ToSet(s)
    <3>1. PICK i \in 1..Len(s) : s[i] = d
      BY <1>2, <2>2 DEF ToSet
    <3>2. i \in 1..(j - 1) /\ st[i] = d
      BY <1>1, <1>2, <2>2, <3>1
    <3>. QED  BY <3>2
  <2>3. CASE ~(j <= Len(s)) /\ After(t, D, x)
    <3>1. j - Len(s) \in 1..Len(t) /\ t[j - Len(s)] = x
      BY <1>1, <1>2, <1>3, <2>3
    <3>2. PICK i \in 1..((j - Len(s)) - 1) : t[i] = d
      BY <1>2, <2>3, <3>1 DEF After
    <3>3. /\ i + Len(s) \in 1..(j - 1) /\ i + Len(s) \in 1..(Len(s) + Len(t))
          /\ ~(i + Len(s) <= Len(s)) /\ (i + Len(s)) - Len(s) = i
      BY <1>2, <3>1
    <3>4. st[i + Len(s)] = d
      BY <1>1, <3>2, <3>3
    <3>. QED  BY <3>3, <3>4
  <2>. QED  BY <2>1, <2>2, <2>3
<1>. QED  BY <1>3 DEF After, st

-----------------------------------------------------------------------------
(* Lists of lists.                                                         *)

\* FlattenSeq joins its lists one by one; and what is true of each list, and is
\* kept when two are joined, is true of them all.
LEMMA FlattenSteps ==
  ASSUME NEW seqs, IsList(seqs), Len(seqs) # 0, NEW S, ToSet(seqs) \subseteq S,
         \A s, t \in S : s \o t \in S
  PROVE  \E f \in [1..Len(seqs) -> S] :
           /\ \A i \in 1..Len(seqs) : f[i] = IF i = 1 THEN seqs[i] ELSE f[i - 1] \o seqs[i]
           /\ FlattenSeq(seqs) = f[Len(seqs)]
<1>. DEFINE n == Len(seqs)
            Fix(m, f) == f = [i \in 1..m |-> IF i = 1 THEN seqs[i] ELSE f[i - 1] \o seqs[i]]
            flatten == CHOOSE f : Fix(n, f)
            Built(m) == \E f \in [1..m -> S] : Fix(m, f)
<1>1. DOMAIN seqs = 1..n /\ n \in Nat
  BY ListDomain
<1>2. FlattenSeq(seqs) = flatten[n]
  BY DEF FlattenSeq
<1>. HIDE DEF n, flatten
<1>3. ASSUME NEW s \in S, NEW t \in S PROVE s \o t \in S
  OBVIOUS
<1>4. \A i \in 1..n : seqs[i] \in S
  BY <1>1 DEF ToSet
<1>5. ASSUME 1 \in 1..n PROVE Built(1)
  <2>. DEFINE g == [i \in 1..1 |-> seqs[1]]
  <2>1. g \in [1..1 -> S]
    BY <1>4, <1>5
  <2>2. Fix(1, g)
    OBVIOUS
  <2>. QED  BY <2>1, <2>2
<1>6. ASSUME NEW m \in 1..n, NEW j \in 1..n, m = j + 1, Built(j) PROVE Built(m)
  <2>1. m \in Nat /\ j \in Nat /\ 1 <= j
    BY <1>1
  <2>2. PICK f \in [1..j -> S] : Fix(j, f)
    BY <1>6
  <2>. DEFINE g == [i \in 1..m |-> IF i = m THEN f[j] \o seqs[m] ELSE f[i]]
  <2>3. j \in 1..j
    BY <2>1
  <2>4. f[j] \in S /\ seqs[m] \in S
    BY <1>4, <2>2, <2>3
  <2>5. f[j] \o seqs[m] \in S
    BY <1>3, <2>4
  <2>6. ASSUME NEW i \in 1..m, i # m PROVE i \in 1..j /\ g[i] = f[i] /\ f[i] \in S
    <3>1. i \in 1..j
      BY <1>6, <2>1, <2>6
    <3>. QED  BY <2>2, <2>6, <3>1
  <2>7. m \in 1..m /\ j \in 1..m /\ j # m /\ m - 1 = j /\ m # 1
    BY <1>6, <2>1
  <2>8. g[m] = f[j] \o seqs[m] /\ g[j] = f[j]
    BY <2>7
  <2>9. g \in [1..m -> S]
    BY <2>5, <2>6
  <2>10. g = [i \in 1..m |-> g[i]]
    OBVIOUS
  <2>. HIDE DEF g
  <2>11. ASSUME NEW i \in 1..m
         PROVE  g[i] = IF i = 1 THEN seqs[i] ELSE g[i - 1] \o seqs[i]
    <3>1. CASE i = m
      BY <2>7, <2>8, <3>1
    <3>2. CASE i # m
      <4>1. i \in 1..j /\ g[i] = f[i]
        BY <2>6, <3>2
      <4>2. f[i] = IF i = 1 THEN seqs[i] ELSE f[i - 1] \o seqs[i]
        BY <2>2, <4>1
      <4>3. ASSUME i # 1 PROVE g[i - 1] = f[i - 1]
        <5>1. i - 1 \in 1..m /\ i - 1 # m
          BY <2>1, <4>1, <4>3
        <5>. QED  BY <2>6, <5>1
      <4>. QED  BY <4>1, <4>2, <4>3
    <3>. QED  BY <3>1, <3>2
  <2>12. Fix(m, g)
    BY <2>10, <2>11
  <2>. QED  BY <2>9, <2>12
<1>7. \A m \in 1..n : Built(m)
  <2>. DEFINE B == {m \in 1..n : ~Built(m)}
  <2>. HIDE DEF Built
  <2>. SUFFICES ASSUME B # {} PROVE FALSE
    OBVIOUS
  <2>1. B \in SUBSET Nat
    BY <1>1
  <2>2. PICK m \in B : \A j \in B : m <= j
    <3>. HIDE DEF B
    <3>. QED  BY <2>1, MinIsLeast
  <2>3. m \in 1..n /\ ~Built(m) /\ m \in Nat
    BY <1>1, <2>2
  <2>4. m # 1
    BY <1>5, <2>3
  <2>5. m - 1 \in 1..n /\ m = (m - 1) + 1 /\ ~(m <= m - 1)
    BY <1>1, <2>3, <2>4
  <2>6. Built(m - 1)
    BY <2>2, <2>5
  <2>. QED  BY <1>6, <2>3, <2>5, <2>6
<1>8. n \in 1..n
  BY <1>1 DEF n
<1>9. Fix(n, flatten)
  <2>1. PICK f \in [1..n -> S] : Fix(n, f)
    BY <1>7, <1>8
  <2>. QED  BY <2>1 DEF flatten
<1>10. \A i \in 1..n : flatten[i] = IF i = 1 THEN seqs[i] ELSE flatten[i - 1] \o seqs[i]
  BY <1>9
<1>11. \A i \in 1..n : flatten[i] \in S
  <2>. DEFINE B == {i \in 1..n : flatten[i] \notin S}
  <2>. SUFFICES ASSUME B # {} PROVE FALSE
    OBVIOUS
  <2>1. B \in SUBSET Nat
    BY <1>1
  <2>2. PICK i \in B : \A j \in B : i <= j
    <3>. HIDE DEF B
    <3>. QED  BY <2>1, MinIsLeast
  <2>3. i \in 1..n /\ flatten[i] \notin S /\ i \in Nat
    BY <1>1, <2>2
  <2>4. flatten[i] = IF i = 1 THEN seqs[i] ELSE flatten[i - 1] \o seqs[i]
    BY <1>10, <2>3
  <2>5. i # 1
    BY <1>4, <2>3, <2>4
  <2>6. i - 1 \in 1..n /\ ~(i <= i - 1)
    BY <1>1, <2>3, <2>5
  <2>7. flatten[i - 1] \in S
    BY <2>2, <2>6
  <2>. QED  BY <1>3, <1>4, <2>3, <2>4, <2>5, <2>7
<1>12. flatten \in [1..n -> S]
  <2>1. flatten = [i \in 1..n |-> flatten[i]]
    BY <1>9
  <2>. HIDE DEF Fix
  <2>. QED  BY <1>11, <2>1
<1>. HIDE DEF Fix
<1>. QED  BY <1>2, <1>10, <1>12 DEF n

\* The elements of the lists, and nothing else.
LEMMA FlattenHas ==
  ASSUME NEW seqs, IsList(seqs), \A s \in ToSet(seqs) : IsList(s)
  PROVE  /\ IsList(FlattenSeq(seqs))
         /\ ToSet(FlattenSeq(seqs)) = UNION {ToSet(s) : s \in ToSet(seqs)}
<1>. DEFINE n == Len(seqs)
            E == UNION {ToSet(s) : s \in ToSet(seqs)}
            S == {s \in Seq(E) : TRUE}
<1>1. DOMAIN seqs = 1..n /\ n \in Nat
  BY ListDomain
<1>2. CASE n = 0
  <2>1. FlattenSeq(seqs) = seqs
    BY <1>2 DEF FlattenSeq
  <2>. QED  BY <1>1, <1>2, <2>1 DEF ToSet
<1>3. CASE n # 0
  <2>. HIDE DEF E
  <2>1. ToSet(seqs) \subseteq Seq(E)
    <3>1. ASSUME NEW s \in ToSet(seqs) PROVE s \in Seq(E)
      <4>1. ToSet(s) \subseteq E /\ IsList(s)
        BY DEF E
      <4>. QED  BY <4>1, ListIsSeq
    <3>. QED  BY <3>1
  <2>2. \A s, t \in Seq(E) : s \o t \in Seq(E)
    BY ConcatProperties
  <2>3. PICK f \in [1..n -> Seq(E)] :
          /\ \A i \in 1..n : f[i] = IF i = 1 THEN seqs[i] ELSE f[i - 1] \o seqs[i]
          /\ FlattenSeq(seqs) = f[n]
    BY <1>3, <2>1, <2>2, FlattenSteps
  <2>4. n \in 1..n
    BY <1>1, <1>3
  <2>5. ToSet(f[n]) \subseteq E /\ IsList(f[n])
    <3>1. f[n] \in Seq(E)
      BY <2>3, <2>4
    <3>2. ToSet(f[n]) \subseteq E
      BY <3>1 DEF ToSet
    <3>. QED  BY <3>1, <3>2, ListIsSeq
  <2>6. ASSUME NEW k \in 1..n PROVE ToSet(seqs[k]) \subseteq ToSet(f[n])
    <3>. DEFINE B == {i \in 1..n : k <= i /\ ~(ToSet(seqs[k]) \subseteq ToSet(f[i]))}
    <3>. SUFFICES ASSUME B # {} PROVE FALSE
      BY <1>1, <2>4
    <3>1. B \in SUBSET Nat
      BY <1>1
    <3>2. PICK i \in B : \A j \in B : i <= j
      <4>. HIDE DEF B
      <4>. QED  BY <3>1, MinIsLeast
    <3>3. i \in 1..n /\ i \in Nat /\ k <= i /\ ~(ToSet(seqs[k]) \subseteq ToSet(f[i]))
      BY <1>1, <3>2
    <3>4. i # 1
      <4>1. ASSUME i = 1 PROVE k = 1 /\ f[i] = seqs[k]
        BY <1>1, <2>3, <3>3, <4>1
      <4>. QED  BY <3>3, <4>1
    <3>5. i - 1 \in 1..n /\ ~(i <= i - 1)
      BY <1>1, <3>3, <3>4
    <3>6. f[i] = f[i - 1] \o seqs[i]
      BY <2>3, <3>3, <3>4
    <3>7. IsList(f[i - 1]) /\ IsList(seqs[i])
      <4>1. f[i - 1] \in Seq(E) /\ seqs[i] \in ToSet(seqs)
        BY <1>1, <2>3, <3>3, <3>5 DEF ToSet
      <4>2. ToSet(f[i - 1]) \subseteq E
        BY <4>1 DEF ToSet
      <4>. QED  BY <4>1, <4>2, ListIsSeq
    <3>8. ToSet(f[i]) = ToSet(f[i - 1]) \cup ToSet(seqs[i])
      BY <3>6, <3>7, Joined
    <3>9. k # i /\ k <= i - 1
      BY <1>1, <3>3, <3>8
    <3>10. ToSet(seqs[k]) \subseteq ToSet(f[i - 1])
      BY <3>2, <3>5, <3>9
    <3>. QED  BY <3>3, <3>8, <3>10
  <2>7. ToSet(f[n]) = E
    <3>1. ASSUME NEW x \in E PROVE x \in ToSet(f[n])
      <4>1. PICK k \in 1..n : x \in ToSet(seqs[k])
        BY <1>1 DEF E, ToSet
      <4>. QED  BY <2>6, <4>1
    <3>. QED  BY <2>5, <3>1
  <2>. QED  BY <2>3, <2>5, <2>7 DEF E
<1>. QED  BY <1>2, <1>3

\* What comes after D in each of the lists does so in all of them.
LEMMA FlattenAfter ==
  ASSUME NEW seqs, IsList(seqs), NEW D, NEW x,
         \A s \in ToSet(seqs) : IsList(s) /\ After(s, D, x)
  PROVE  After(FlattenSeq(seqs), D, x)
<1>. DEFINE E == UNION {ToSet(s) : s \in ToSet(seqs)}
            S == {s \in Seq(E) : After(s, D, x)}
            n == Len(seqs)
<1>1. DOMAIN seqs = 1..n /\ n \in Nat
  BY ListDomain
<1>2. CASE n = 0
  <2>1. FlattenSeq(seqs) = seqs
    BY <1>2 DEF FlattenSeq
  <2>. QED  BY <1>1, <1>2, <2>1 DEF After
<1>3. CASE n # 0
  <2>. HIDE DEF E
  <2>1. \A s \in Seq(E) : IsList(s)
    <3>1. ASSUME NEW s \in Seq(E) PROVE IsList(s)
      <4>1. ToSet(s) \subseteq E
        BY DEF ToSet
      <4>. QED  BY <4>1, ListIsSeq
    <3>. QED  BY <3>1
  <2>2. \A s, t \in S : s \o t \in S
    <3>1. ASSUME NEW s \in S, NEW t \in S PROVE s \o t \in S
      <4>1. s \o t \in Seq(E)
        BY ConcatProperties
      <4>2. After(s \o t, D, x)
        BY <2>1, AfterJoined
      <4>. QED  BY <4>1, <4>2
    <3>. QED  BY <3>1
  <2>3. ToSet(seqs) \subseteq S
    <3>1. ASSUME NEW s \in ToSet(seqs) PROVE s \in S
      <4>1. ToSet(s) \subseteq E /\ IsList(s) /\ After(s, D, x)
        BY DEF E
      <4>. QED  BY <4>1, ListIsSeq
    <3>. QED  BY <3>1
  <2>. HIDE DEF S
  <2>4. PICK f \in [1..n -> S] : FlattenSeq(seqs) = f[n]
    BY <1>3, <2>2, <2>3, FlattenSteps
  <2>5. f[n] \in S
    BY <1>1, <1>3, <2>4
  <2>. QED  BY <2>4, <2>5 DEF S
<1>. QED  BY <1>2, <1>3

-----------------------------------------------------------------------------
(* Lists of checks.                                                        *)

\* The first error of a list of checks is `none' when no check fails.
LEMMA NoCheckFails ==
  ASSUME NEW checks, NEW n \in Nat, DOMAIN checks = 1..n, Len(checks) = n
  PROVE  FirstError(checks) = "none" <=> \A k \in 1..n : checks[k] = "none"
<1>. DEFINE I == {k \in 1..n : checks[k] # "none"}
            m == IF I # {} THEN Min(I) ELSE 0
<1>1. FirstError(checks) = IF m = 0 THEN "none" ELSE checks[m]
  BY DEF FirstError, SelectInSeq
<1>2. CASE I = {}
  BY <1>1, <1>2
<1>3. CASE I # {}
  <2>1. I \in SUBSET Nat /\ 0 \notin I
    OBVIOUS
  <2>2. m \in I
    BY <1>3, <2>1, MinIsLeast
  <2>. QED  BY <1>1, <2>1, <2>2
<1>. QED  BY <1>2, <1>3

\* A check before a list of checks.
LEMMA NoCheckFailsAfter ==
  ASSUME NEW first, NEW n \in Nat, NEW rest, rest = [k \in 1..n |-> rest[k]]
  PROVE  FirstError(<<first>> \o rest) = "none"
           <=> first = "none" /\ \A k \in 1..n : rest[k] = "none"
<1>. DEFINE checks == <<first>> \o rest
<1>1. Len(rest) = n /\ DOMAIN rest = 1..n
  OBVIOUS
<1>2. /\ Len(checks) = n + 1 /\ DOMAIN checks = 1..(n + 1)
      /\ checks[1] = first /\ \A k \in 1..n : checks[k + 1] = rest[k]
  BY <1>1
<1>. HIDE DEF checks
<1>3. FirstError(checks) = "none" <=> \A k \in 1..(n + 1) : checks[k] = "none"
  BY <1>2, NoCheckFails
<1>4. (\A k \in 1..(n + 1) : checks[k] = "none")
        <=> first = "none" /\ \A k \in 1..n : rest[k] = "none"
  <2>1. ASSUME \A k \in 1..(n + 1) : checks[k] = "none"
        PROVE  first = "none" /\ \A k \in 1..n : rest[k] = "none"
    <3>1. 1 \in 1..(n + 1) /\ \A k \in 1..n : k + 1 \in 1..(n + 1)
      OBVIOUS
    <3>. QED  BY <1>2, <2>1, <3>1
  <2>2. ASSUME first = "none", \A k \in 1..n : rest[k] = "none", NEW k \in 1..(n + 1)
        PROVE  checks[k] = "none"
    <3>1. CASE k = 1
      BY <1>2, <2>2, <3>1
    <3>2. CASE k # 1
      <4>1. k - 1 \in 1..n /\ (k - 1) + 1 = k
        BY <3>2
      <4>. QED  BY <1>2, <2>2, <4>1
    <3>. QED  BY <3>1, <3>2
  <2>. QED  BY <2>1, <2>2
<1>. QED  BY <1>3, <1>4 DEF checks

-----------------------------------------------------------------------------
(* What each list of checks asks for.                                      *)

\* validate_descriptor_blob_present passes for the files of blobs/sha256 only.
LEMMA ContentPasses ==
  ASSUME NEW dir, IsDirectory(dir), NEW d
  PROVE  ContentError(dir, d) = "none" <=> d \in DOMAIN dir.blobs
BY DEF IsDirectory, ContentError, Present

\* The config and the layers of a manifest.
LEMMA ManifestPasses ==
  ASSUME NEW dir, IsDirectory(dir), NEW m \in DOMAIN dir.blobs
  PROVE  FirstError(ManifestContentChecks(dir, m)) = "none"
           <=> Content(dir, m) \subseteq DOMAIN dir.blobs
<1>. DEFINE layers == dir.blobs[m].layers
            rest == [k \in DOMAIN layers |-> ContentError(dir, layers[k])]
<1>1. PICK n \in Nat : DOMAIN layers = 1..n
  BY ListDomain DEF IsDirectory
<1>2. FirstError(ManifestContentChecks(dir, m)) = "none"
        <=> /\ ContentError(dir, dir.blobs[m].config) = "none"
            /\ \A k \in 1..n : rest[k] = "none"
  BY <1>1, NoCheckFailsAfter DEF ManifestContentChecks
<1>3. \A k \in 1..n : rest[k] = "none" <=> layers[k] \in DOMAIN dir.blobs
  BY <1>1, ContentPasses
<1>4. ContentError(dir, dir.blobs[m].config) = "none"
        <=> dir.blobs[m].config \in DOMAIN dir.blobs
  BY ContentPasses
<1>5. Content(dir, m) = {layers[k] : k \in 1..n} \cup {dir.blobs[m].config}
  BY <1>1 DEF Content, ToSet
<1>. HIDE DEF rest, layers
<1>. QED  BY <1>2, <1>3, <1>4, <1>5

\* A referrer: its subject, and what it holds.
LEMMA ReferrerPasses ==
  ASSUME NEW dir, IsDirectory(dir), NEW primary, NEW r \in DOMAIN dir.blobs
  PROVE  FirstError(ReferrerChecks(dir, primary, r)) = "none"
           <=> /\ dir.blobs[r].subject = primary
               /\ Content(dir, r) \subseteq DOMAIN dir.blobs
<1>. DEFINE layers == dir.blobs[r].layers
            rest == [k \in DOMAIN layers |-> ContentError(dir, layers[k])]
            config == ContentError(dir, dir.blobs[r].config)
            checks == ManifestContentChecks(dir, r)
            subject == IF dir.blobs[r].subject # primary THEN "MissingBlob" ELSE "none"
<1>1. PICK n \in Nat : DOMAIN layers = 1..n
  BY ListDomain DEF IsDirectory
<1>2. /\ checks = <<config>> \o rest
      /\ Len(rest) = n
  BY <1>1 DEF ManifestContentChecks
<1>3. checks = [k \in 1..(n + 1) |-> checks[k]]
  BY <1>1, <1>2
<1>4. FirstError(checks) = "none" <=> Content(dir, r) \subseteq DOMAIN dir.blobs
  BY ManifestPasses
<1>5. FirstError(checks) = "none" <=> \A k \in 1..(n + 1) : checks[k] = "none"
  <2>1. DOMAIN checks = 1..(n + 1) /\ Len(checks) = n + 1
    BY <1>1, <1>2
  <2>. HIDE DEF checks
  <2>. QED  BY <2>1, NoCheckFails
<1>6. FirstError(<<subject>> \o checks) = "none"
        <=> subject = "none" /\ \A k \in 1..(n + 1) : checks[k] = "none"
  <2>. HIDE DEF checks, subject
  <2>. QED  BY <1>3, NoCheckFailsAfter
<1>7. ReferrerChecks(dir, primary, r) = <<subject>> \o checks
  BY DEF ReferrerChecks
<1>8. subject = "none" <=> dir.blobs[r].subject = primary
  OBVIOUS
<1>. HIDE DEF checks, subject
<1>. QED  BY <1>4, <1>5, <1>6, <1>7, <1>8

\* The turn of the loop over index.json's descriptors.
LEMMA ListedPasses ==
  ASSUME NEW dir, IsDirectory(dir), NEW desc
  PROVE  ListedError(dir, desc) = "none" <=> IsManifest(dir, desc)
<1>1. \A s \in DOMAIN FileError : FileError[s] = "none" <=> s = "ok"
  BY DEF FileError
<1>2. CASE desc.digest \in BadDigests \cup UpperDigests
  BY <1>2 DEF ListedError, IsManifest, IsDirectory, Present
<1>3. CASE desc.digest \notin BadDigests \cup UpperDigests
  <2>1. CASE desc.digest \notin DOMAIN dir.blobs
    BY <1>3, <2>1 DEF ListedError, IsManifest, Present
  <2>2. CASE desc.digest \in DOMAIN dir.blobs
    <3>1. dir.blobs[desc.digest].state \in DOMAIN FileError
      BY <2>2 DEF IsDirectory
    <3>. QED  BY <1>1, <1>3, <2>2, <3>1 DEF ListedError, IsManifest, Present
  <2>. QED  BY <2>1, <2>2
<1>. QED  BY <1>2, <1>3

\* There is one primary when exactly one listed manifest has no subject.
LEMMA OnePrimary ==
  ASSUME NEW dir, IsDirectory(dir)
  PROVE  PrimaryCountError(dir) = "none" <=> \E k : PrimaryCandidates(dir) = {k}
<1>. DEFINE S == PrimaryCandidates(dir)
<1>1. PICK n \in Nat : DOMAIN dir.listed = 1..n
  BY ListDomain DEF IsDirectory
<1>2. S \subseteq 1..n /\ IsFiniteSet(1..n)
  BY <1>1, FS_Interval DEF PrimaryCandidates
<1>3. IsFiniteSet(S) /\ Cardinality(S) \in Nat
  BY <1>2, FS_Subset, FS_CardinalityType
<1>4. PrimaryCountError(dir) = "none" <=> Cardinality(S) = 1
  BY <1>3 DEF PrimaryCountError
<1>. HIDE DEF S
<1>5. Cardinality(S) = 1 <=> \E k : S = {k}
  BY <1>3, FS_Singleton
<1>. QED  BY <1>4, <1>5 DEF S

\* The checks of the content, once the primary is known and all manifests parse.
LEMMA ContentsPass ==
  ASSUME NEW dir, IsDirectory(dir), NEW k \in DOMAIN dir.listed,
         PrimaryCandidates(dir) = {k},
         \A j \in DOMAIN dir.listed : dir.listed[j].digest \in DOMAIN dir.blobs
  PROVE  FirstError(ContentChecks(dir)) = "none"
           <=> /\ \A j \in DOMAIN dir.listed \ {k} :
                    dir.blobs[dir.listed[j].digest].subject = dir.listed[k].digest
               /\ \A j \in DOMAIN dir.listed :
                    Content(dir, dir.listed[j].digest) \subseteq DOMAIN dir.blobs
<1>. DEFINE primary == dir.listed[k].digest
            digest(j) == dir.listed[j].digest
            first == FirstError(ManifestContentChecks(dir, primary))
            rest == [j \in DOMAIN dir.listed |->
                       IF j \in PrimaryCandidates(dir) THEN "none"
                       ELSE FirstError(ReferrerChecks(dir, primary, dir.listed[j].digest))]
<1>1. PICK n \in Nat : DOMAIN dir.listed = 1..n
  BY ListDomain DEF IsDirectory
<1>2. PrimaryManifest(dir) = primary
  <2>1. (CHOOSE j \in PrimaryCandidates(dir) : TRUE) = k
    OBVIOUS
  <2>. QED  BY <2>1 DEF PrimaryManifest
<1>3. ContentChecks(dir) = <<first>> \o rest
  BY <1>2 DEF ContentChecks
<1>4. rest = [j \in 1..n |-> rest[j]]
  BY <1>1
<1>5. FirstError(ContentChecks(dir)) = "none"
        <=> first = "none" /\ \A j \in 1..n : rest[j] = "none"
  <2>. HIDE DEF first, rest
  <2>. QED  BY <1>3, <1>4, NoCheckFailsAfter
<1>6. first = "none" <=> Content(dir, primary) \subseteq DOMAIN dir.blobs
  BY ManifestPasses
<1>7. rest[k] = "none"
  OBVIOUS
<1>8. ASSUME NEW j \in DOMAIN dir.listed \ {k}
      PROVE  rest[j] = "none" <=> /\ dir.blobs[digest(j)].subject = primary
                                  /\ Content(dir, digest(j)) \subseteq DOMAIN dir.blobs
  <2>1. rest[j] = FirstError(ReferrerChecks(dir, primary, dir.listed[j].digest))
    OBVIOUS
  <2>. QED  BY <2>1, ReferrerPasses
<1>. HIDE DEF first, rest
<1>. QED  BY <1>1, <1>5, <1>6, <1>7, <1>8

\* The whole of open.
LEMMA OpenPasses ==
  ASSUME NEW dir, IsDirectory(dir)
  PROVE  OpenError(dir) = "none"
           <=> /\ dir.layout = "ok" /\ dir.index = "ok"
               /\ \A k \in DOMAIN dir.listed : IsManifest(dir, dir.listed[k])
               /\ \E k : PrimaryCandidates(dir) = {k}
               /\ FirstError(ContentChecks(dir)) = "none"
<1>. DEFINE files == <<FileError[dir.layout], FileError[dir.index]>>
            turns == [k \in DOMAIN dir.listed |-> ListedError(dir, dir.listed[k])]
            indexError == FirstError(files \o IF dir.layout # "ok" \/ dir.index # "ok"
                                              THEN <<>> ELSE turns)
<1>1. PICK n \in Nat : DOMAIN dir.listed = 1..n
  BY ListDomain DEF IsDirectory
<1>2. \A s \in DOMAIN FileError : FileError[s] = "none" <=> s = "ok"
  BY DEF FileError
<1>3. dir.layout \in DOMAIN FileError /\ dir.index \in DOMAIN FileError
  BY DEF IsDirectory
<1>4. OpenError(dir) = "none"
        <=> /\ indexError = "none"
            /\ PrimaryCountError(dir) = "none" /\ FirstError(ContentChecks(dir)) = "none"
  BY DEF OpenError
<1>5. CASE dir.layout # "ok" \/ dir.index # "ok"
  <2>. DEFINE checks == files \o <<>>
  <2>1. /\ DOMAIN checks = 1..2 /\ Len(checks) = 2
        /\ checks[1] = FileError[dir.layout] /\ checks[2] = FileError[dir.index]
    OBVIOUS
  <2>2. indexError = FirstError(checks)
    BY <1>5
  <2>3. indexError # "none"
    <3>. HIDE DEF checks, indexError
    <3>1. indexError = "none" <=> \A k \in 1..2 : checks[k] = "none"
      BY <2>1, <2>2, NoCheckFails
    <3>. QED  BY <1>2, <1>3, <1>5, <2>1, <3>1
  <2>. QED  BY <1>4, <1>5, <2>3
<1>6. CASE dir.layout = "ok" /\ dir.index = "ok"
  <2>. DEFINE checks == files \o turns
  <2>1. Len(turns) = n /\ DOMAIN turns = 1..n
    BY <1>1
  <2>2. /\ DOMAIN checks = 1..(n + 2) /\ Len(checks) = n + 2
        /\ checks[1] = FileError[dir.layout] /\ checks[2] = FileError[dir.index]
        /\ \A k \in 1..n : checks[k + 2] = turns[k]
    <3>. HIDE DEF turns
    <3>. QED  BY <2>1
  <2>3. indexError = FirstError(checks)
    BY <1>6
  <2>4. checks[1] = "none" /\ checks[2] = "none"
    BY <1>2, <1>3, <1>6, <2>2
  <2>. HIDE DEF checks, indexError
  <2>5. indexError = "none" <=> \A k \in 1..(n + 2) : checks[k] = "none"
    BY <2>2, <2>3, NoCheckFails
  <2>6. indexError = "none" <=> \A k \in 1..n : turns[k] = "none"
    <3>1. ASSUME \A k \in 1..(n + 2) : checks[k] = "none", NEW k \in 1..n
          PROVE  turns[k] = "none"
      <4>1. k + 2 \in 1..(n + 2)
        OBVIOUS
      <4>. QED  BY <2>2, <3>1, <4>1
    <3>2. ASSUME \A k \in 1..n : turns[k] = "none", NEW k \in 1..(n + 2)
          PROVE  checks[k] = "none"
      <4>1. CASE k \in {1, 2}
        BY <2>4, <4>1
      <4>2. CASE k \notin {1, 2}
        <5>1. k - 2 \in 1..n /\ (k - 2) + 2 = k
          BY <4>2
        <5>. QED  BY <2>2, <3>2, <5>1
      <4>. QED  BY <4>1, <4>2
    <3>. QED  BY <2>5, <3>1, <3>2
  <2>7. \A k \in 1..n : turns[k] = "none" <=> IsManifest(dir, dir.listed[k])
    BY <1>1, ListedPasses
  <2>. HIDE DEF turns
  <2>. QED  BY <1>1, <1>4, <1>6, <2>6, <2>7, OnePrimary
<1>. QED  BY <1>5, <1>6

-----------------------------------------------------------------------------
(* The theorem.                                                            *)

\* ImageDir::open accepts a directory if, and only if, it is a well-formed layout
\* that holds one artifact with its referrers, each of them whole: for any number
\* of manifests and layers.
THEOREM OpenAcceptsExactly ==
  ASSUME NEW dir, IsDirectory(dir)
  PROVE  OpensExactly(dir, Open(dir))
<1>1. Open(dir).err = "none" <=> OpenError(dir) = "none"
  BY DEF Open
<1>2. ASSUME OpenError(dir) = "none"
      PROVE  Publishable(dir)
  <2>1. /\ dir.layout = "ok" /\ dir.index = "ok"
        /\ \A k \in DOMAIN dir.listed : IsManifest(dir, dir.listed[k])
        /\ FirstError(ContentChecks(dir)) = "none"
    BY <1>2, OpenPasses
  <2>2. PICK k : PrimaryCandidates(dir) = {k}
    BY <1>2, OpenPasses
  <2>3. k \in DOMAIN dir.listed /\ dir.blobs[dir.listed[k].digest].subject = Absent
    BY <2>2 DEF PrimaryCandidates
  <2>4. \A j \in DOMAIN dir.listed : dir.listed[j].digest \in DOMAIN dir.blobs
    BY <2>1 DEF IsManifest, Present
  <2>5. /\ \A j \in DOMAIN dir.listed \ {k} :
             dir.blobs[dir.listed[j].digest].subject = dir.listed[k].digest
        /\ \A j \in DOMAIN dir.listed :
             Content(dir, dir.listed[j].digest) \subseteq DOMAIN dir.blobs
    BY <2>1, <2>2, <2>3, <2>4, ContentsPass
  <2>. QED  BY <2>1, <2>3, <2>5 DEF Publishable
<1>3. ASSUME Publishable(dir)
      PROVE  OpenError(dir) = "none"
  <2>1. /\ dir.layout = "ok" /\ dir.index = "ok"
        /\ \A k \in DOMAIN dir.listed : IsManifest(dir, dir.listed[k])
        /\ \A k \in DOMAIN dir.listed :
             Content(dir, dir.listed[k].digest) \subseteq DOMAIN dir.blobs
    BY <1>3 DEF Publishable
  <2>2. PICK k \in DOMAIN dir.listed :
          /\ dir.blobs[dir.listed[k].digest].subject = Absent
          /\ \A j \in DOMAIN dir.listed \ {k} :
               dir.blobs[dir.listed[j].digest].subject = dir.listed[k].digest
    BY <1>3 DEF Publishable
  <2>3. \A j \in DOMAIN dir.listed : dir.listed[j].digest \in DOMAIN dir.blobs
    BY <2>1 DEF IsManifest, Present
  <2>4. dir.listed[k].digest # Absent
    BY <2>3 DEF IsDirectory
  <2>5. PrimaryCandidates(dir) = {k}
    BY <2>2, <2>4 DEF PrimaryCandidates
  <2>6. FirstError(ContentChecks(dir)) = "none"
    BY <2>1, <2>2, <2>3, <2>5, ContentsPass
  <2>. QED  BY <2>1, <2>5, <2>6, OpenPasses
<1>. QED  BY <1>1, <1>2, <1>3 DEF OpensExactly

-----------------------------------------------------------------------------
(* The list of blobs.                                                      *)

\* FoldLeft pushes the digests one by one: its function of sets of positions exists,
\* and gives for the first k positions what k pushes give.
LEMMA FoldSteps ==
  ASSUME NEW seq, IsList(seq)
  PROVE  \E acc : /\ acc[0] = <<>>
                  /\ \A k \in 1..Len(seq) : acc[k] = Push(acc[k - 1], seq[k])
                  /\ FoldLeft(Push, <<>>, seq) = acc[Len(seq)]
<1>. DEFINE n == Len(seq)
            Turn(f, s) == IF s = {} THEN <<>> ELSE Push(f[s \ {Max(s)}], seq[Max(s)])
            Fix(m, f) == f = [s \in SUBSET (1..m) |-> Turn(f, s)]
            iter == CHOOSE f : Fix(n, f)
            Built(m) == \E f : Fix(m, f)
<1>1. DOMAIN seq = 1..n /\ n \in Nat
  BY ListDomain
<1>2. FoldLeft(Push, <<>>, seq) = iter[1..n]
  BY <1>1 DEF FoldLeft, MapThenFoldSet
<1>. HIDE DEF n, iter
<1>3. Built(0)
  <2>. DEFINE g == [s \in SUBSET (1..0) |-> <<>>]
  <2>1. \A s \in SUBSET (1..0) : s = {}
    OBVIOUS
  <2>2. Fix(0, g)
    BY <2>1
  <2>. QED  BY <2>2
<1>4. ASSUME NEW m \in 1..n, NEW j \in 0..n, m = j + 1, Built(j) PROVE Built(m)
  <2>1. PICK f : Fix(j, f)
    BY <1>4
  <2>. DEFINE g == [s \in SUBSET (1..m) |-> IF m \in s THEN Push(f[s \ {m}], seq[m]) ELSE f[s]]
  <2>2. m \in Nat /\ j \in Nat /\ m \notin 1..j
    BY <1>1, <1>4
  <2>3. ASSUME NEW s \in SUBSET (1..m) PROVE g[s] = Turn(g, s)
    <3>1. CASE m \in s
      <4>1. Max(s) = m
        <5>1. Max(s) \in s /\ m <= Max(s)
          BY <2>2, <3>1, MaxIsGreatest
        <5>2. Max(s) \in 1..m
          BY <5>1
        <5>. QED  BY <2>2, <5>1, <5>2
      <4>2. g[s \ {m}] = f[s \ {m}]
        OBVIOUS
      <4>3. g[s] = Push(f[s \ {m}], seq[m])
        BY <3>1
      <4>. HIDE DEF g
      <4>. QED  BY <3>1, <4>1, <4>2, <4>3
    <3>2. CASE m \notin s
      <4>1. s \in SUBSET (1..j)
        BY <1>4, <2>2, <3>2
      <4>2. g[s] = f[s] /\ f[s] = Turn(f, s)
        BY <2>1, <3>2, <4>1
      <4>3. g[s \ {Max(s)}] = f[s \ {Max(s)}]
        BY <3>2
      <4>. HIDE DEF g
      <4>. QED  BY <4>2, <4>3
    <3>. QED  BY <3>1, <3>2
  <2>4. g = [s \in SUBSET (1..m) |-> g[s]]
    OBVIOUS
  <2>. HIDE DEF g, Turn
  <2>5. Fix(m, g)
    BY <2>3, <2>4
  <2>. QED  BY <2>5
<1>5. Built(n)
  <2>. DEFINE B == {m \in 0..n : ~Built(m)}
  <2>. HIDE DEF Built
  <2>. SUFFICES ASSUME B # {} PROVE FALSE
    BY <1>1
  <2>1. B \in SUBSET Nat
    BY <1>1
  <2>2. PICK m \in B : \A j \in B : m <= j
    <3>. HIDE DEF B
    <3>. QED  BY <2>1, MinIsLeast
  <2>3. m \in 0..n /\ ~Built(m) /\ m \in Nat
    BY <1>1, <2>2
  <2>4. m # 0
    BY <1>3, <2>3
  <2>5. m \in 1..n /\ m - 1 \in 0..n /\ m = (m - 1) + 1 /\ ~(m <= m - 1)
    BY <1>1, <2>3, <2>4
  <2>6. Built(m - 1)
    BY <2>2, <2>5
  <2>. QED  BY <1>4, <2>3, <2>5, <2>6
<1>6. Fix(n, iter)
  BY <1>5 DEF iter
<1>7. \A s \in SUBSET (1..n) : iter[s] = Turn(iter, s)
  BY <1>6
<1>. DEFINE acc == [k \in 0..n |-> iter[1..k]]
<1>8. acc[0] = <<>>
  <2>1. 1..0 = {} /\ 1..0 \in SUBSET (1..n) /\ 0 \in 0..n
    BY <1>1
  <2>. QED  BY <1>7, <2>1
<1>9. ASSUME NEW k \in 1..n PROVE acc[k] = Push(acc[k - 1], seq[k])
  <2>1. k \in Nat /\ k \in 0..n /\ k - 1 \in 0..n /\ 1..k \in SUBSET (1..n) /\ k \in 1..k
    BY <1>1
  <2>2. Max(1..k) = k
    <3>1. Max(1..k) \in 1..k /\ k <= Max(1..k)
      BY <2>1, MaxIsGreatest
    <3>. QED  BY <2>1, <3>1
  <2>3. (1..k) \ {k} = 1..(k - 1)
    BY <2>1
  <2>4. iter[1..k] = Push(iter[1..(k - 1)], seq[k])
    BY <1>7, <2>1, <2>2, <2>3
  <2>. QED  BY <2>1, <2>4
<1>10. FoldLeft(Push, <<>>, seq) = acc[n]
  BY <1>1, <1>2
<1>. HIDE DEF acc
<1>. QED  BY <1>8, <1>9, <1>10 DEF n

NoRepeats(s) == \A i, j \in DOMAIN s : s[i] = s[j] => i = j

\* One push.
LEMMA PushAdds ==
  ASSUME NEW out, IsList(out), NEW d
  PROVE  /\ IsList(Push(out, d)) /\ ToSet(Push(out, d)) = ToSet(out) \cup {d}
         /\ NoRepeats(out) => NoRepeats(Push(out, d))
         /\ \A D, x : After(out, D, x) /\ (d = x => D \subseteq ToSet(out)) => After(Push(out, d), D, x)
<1>. DEFINE n == Len(out)
<1>1. DOMAIN out = 1..n /\ n \in Nat
  BY ListDomain
<1>2. Contains(out, d) <=> d \in ToSet(out)
  BY <1>1 DEF Contains, ToSet
<1>3. CASE d \in ToSet(out)
  <2>1. Push(out, d) = out
    BY <1>2, <1>3 DEF Push
  <2>. QED  BY <1>3, <2>1
<1>4. CASE d \notin ToSet(out)
  <2>. DEFINE p == Push(out, d)
  <2>1. p = Append(out, d)
    BY <1>2, <1>4 DEF Push
  <2>2. /\ Len(p) = n + 1 /\ p[n + 1] = d /\ \A i \in 1..n : p[i] = out[i]
        /\ IsList(p) /\ DOMAIN p = 1..(n + 1)
    <3>. DEFINE E == ToSet(out) \cup {d}
    <3>1. out \in Seq(E)
      BY ListIsSeq
    <3>2. /\ Append(out, d) \in Seq(E) /\ Len(Append(out, d)) = n + 1
          /\ Append(out, d)[n + 1] = d /\ \A i \in 1..n : Append(out, d)[i] = out[i]
      BY <3>1, AppendProperties
    <3>3. ToSet(Append(out, d)) \subseteq E
      BY <3>2 DEF ToSet
    <3>4. IsList(Append(out, d))
      BY <3>2, <3>3, ListIsSeq
    <3>. HIDE DEF p
    <3>. QED  BY <2>1, <3>2, <3>4, ListDomain
  <2>. HIDE DEF p, n
  <2>3. ASSUME NEW i \in 1..(n + 1) PROVE (i \in 1..n /\ p[i] = out[i]) \/ (i = n + 1 /\ p[i] = d)
    BY <1>1, <2>2
  <2>4. ToSet(p) = ToSet(out) \cup {d}
    <3>1. 1..(n + 1) = 1..n \cup {n + 1}
      BY <1>1
    <3>. QED  BY <1>1, <2>2, <3>1 DEF ToSet
  <2>5. NoRepeats(out) => NoRepeats(p)
    <3>1. \A i \in 1..n : out[i] # d
      BY <1>1, <1>4 DEF ToSet
    <3>. QED  BY <1>1, <2>2, <2>3, <3>1 DEF NoRepeats
  <2>6. ASSUME NEW D, NEW x, After(out, D, x), d = x => D \subseteq ToSet(out)
        PROVE  After(p, D, x)
    <3>1. ASSUME NEW j \in 1..(n + 1), p[j] = x, NEW e \in D
          PROVE  \E i \in 1..(j - 1) : p[i] = e
      <4>1. CASE j \in 1..n /\ out[j] = x
        <5>1. PICK i \in 1..(j - 1) : out[i] = e
          BY <1>1, <2>6, <4>1 DEF After
        <5>2. i \in 1..n
          BY <1>1, <4>1
        <5>. QED  BY <2>2, <5>1, <5>2
      <4>2. CASE j = n + 1 /\ d = x
        <5>1. PICK i \in 1..n : out[i] = e
          BY <1>1, <2>6, <4>2 DEF ToSet
        <5>2. i \in 1..(j - 1)
          BY <1>1, <4>2
        <5>. QED  BY <2>2, <5>1, <5>2
      <4>. QED  BY <2>3, <3>1, <4>1, <4>2
    <3>. QED  BY <2>2, <3>1 DEF After
  <2>. QED  BY <2>2, <2>4, <2>5, <2>6 DEF p
<1>. QED  BY <1>3, <1>4

\* All of them: the elements of the list, once each, and in its order.
LEMMA FoldKeeps ==
  ASSUME NEW seq, IsList(seq)
  PROVE  LET out == FoldLeft(Push, <<>>, seq)
         IN /\ IsList(out) /\ ToSet(out) = ToSet(seq) /\ NoRepeats(out)
            /\ \A D, x : After(seq, D, x) => After(out, D, x)
<1>. DEFINE n == Len(seq)
            first(k) == {seq[j] : j \in 1..k}
<1>1. DOMAIN seq = 1..n /\ n \in Nat
  BY ListDomain
<1>2. PICK acc : /\ acc[0] = <<>>
                 /\ \A k \in 1..n : acc[k] = Push(acc[k - 1], seq[k])
                 /\ FoldLeft(Push, <<>>, seq) = acc[n]
  BY FoldSteps
<1>. DEFINE Kept(k) == /\ IsList(acc[k]) /\ ToSet(acc[k]) = first(k) /\ NoRepeats(acc[k])
                       /\ \A D, x : After(seq, D, x) => After(acc[k], D, x)
<1>. HIDE DEF n
<1>3. Kept(0)
  <2>1. IsList(<<>>) /\ ToSet(<<>>) = {} /\ NoRepeats(<<>>) /\ \A D, x : After(<<>>, D, x)
    <3>1. DOMAIN <<>> = {}
      OBVIOUS
    <3>. QED  BY <3>1, Empty DEF NoRepeats, After
  <2>2. first(0) = {}
    OBVIOUS
  <2>. QED  BY <1>2, <2>1, <2>2
<1>4. ASSUME NEW k \in 1..n, Kept(k - 1) PROVE Kept(k)
  <2>1. acc[k] = Push(acc[k - 1], seq[k])
    BY <1>2
  <2>2. first(k) = first(k - 1) \cup {seq[k]}
    <3>1. 1..k = 1..(k - 1) \cup {k}
      BY <1>1
    <3>. QED  BY <3>1
  <2>. HIDE DEF first
  <2>3. /\ IsList(acc[k]) /\ ToSet(acc[k]) = first(k) /\ NoRepeats(acc[k])
    BY <1>4, <2>1, <2>2, PushAdds
  <2>4. ASSUME NEW D, NEW x, After(seq, D, x) PROVE After(acc[k], D, x)
    <3>1. ASSUME seq[k] = x PROVE D \subseteq ToSet(acc[k - 1])
      <4>1. \A d \in D : \E i \in 1..(k - 1) : seq[i] = d
        BY <1>1, <2>4, <3>1 DEF After
      <4>2. ToSet(acc[k - 1]) = first(k - 1)
        BY <1>4
      <4>. QED  BY <4>1, <4>2 DEF first
    <3>. QED  BY <1>4, <2>1, <2>4, <3>1, PushAdds
  <2>. QED  BY <2>3, <2>4
<1>5. Kept(n)
  <2>. DEFINE B == {m \in 0..n : ~Kept(m)}
  <2>. HIDE DEF Kept
  <2>. SUFFICES ASSUME B # {} PROVE FALSE
    BY <1>1
  <2>1. B \in SUBSET Nat
    BY <1>1
  <2>2. PICK m \in B : \A j \in B : m <= j
    <3>. HIDE DEF B
    <3>. QED  BY <2>1, MinIsLeast
  <2>3. m \in 0..n /\ ~Kept(m) /\ m \in Nat
    BY <1>1, <2>2
  <2>4. m # 0
    BY <1>3, <2>3
  <2>5. m \in 1..n /\ m - 1 \in 0..n /\ ~(m <= m - 1)
    BY <1>1, <2>3, <2>4
  <2>6. Kept(m - 1)
    BY <2>2, <2>5
  <2>. QED  BY <1>4, <2>3, <2>5, <2>6
<1>6. first(n) = ToSet(seq)
  BY <1>1 DEF ToSet
<1>. HIDE DEF first
<1>. QED  BY <1>2, <1>5, <1>6

-----------------------------------------------------------------------------
(* The closure.                                                            *)

\* Where x is not, it is after anything.
LEMMA AfterAnything ==
  ASSUME NEW s, NEW D, NEW x, x \notin ToSet(s)
  PROVE  After(s, D, x)
BY DEF After, ToSet

\* The referrers are the listed manifests that have a subject.
LEMMA ReferrersAre ==
  ASSUME NEW dir, IsDirectory(dir)
  PROVE  /\ IsList(ReferrerManifests(dir))
         /\ ToSet(ReferrerManifests(dir)) =
              {d \in ToSet(ListedDigests(dir)) : dir.blobs[d].subject # Absent}
<1>. DEFINE one(k) == IF dir.blobs[dir.listed[k].digest].subject = Absent THEN <<>>
                      ELSE <<dir.listed[k].digest>>
            seqs == [k \in DOMAIN dir.listed |-> one(k)]
<1>1. ReferrerManifests(dir) = FlattenSeq(seqs)
  BY DEF ReferrerManifests
<1>2. IsList(seqs)
  BY DEF IsDirectory, IsList
<1>3. ASSUME NEW k \in DOMAIN dir.listed
      PROVE  /\ IsList(one(k))
             /\ ToSet(one(k)) = {d \in {dir.listed[k].digest} : dir.blobs[d].subject # Absent}
  BY Empty, Single
<1>. HIDE DEF one
<1>4. ToSet(seqs) = {one(k) : k \in DOMAIN dir.listed}
  BY DEF ToSet
<1>. HIDE DEF seqs
<1>5. /\ IsList(FlattenSeq(seqs))
      /\ ToSet(FlattenSeq(seqs)) = UNION {ToSet(s) : s \in ToSet(seqs)}
  BY <1>2, <1>3, <1>4, FlattenHas
<1>6. ToSet(ListedDigests(dir)) = {dir.listed[k].digest : k \in DOMAIN dir.listed}
  BY DEF ListedDigests, ToSet
<1>7. UNION {ToSet(s) : s \in ToSet(seqs)} = UNION {ToSet(one(k)) : k \in DOMAIN dir.listed}
  BY <1>4
<1>8. UNION {ToSet(one(k)) : k \in DOMAIN dir.listed}
        = {d \in ToSet(ListedDigests(dir)) : dir.blobs[d].subject # Absent}
  BY <1>3, <1>6
<1>. QED  BY <1>1, <1>5, <1>7, <1>8

\* What is copied of a manifest before it.
LEMMA ContentList ==
  ASSUME NEW dir, IsDirectory(dir), NEW m \in DOMAIN dir.blobs
  PROVE  IsList(ManifestContent(dir, m)) /\ ToSet(ManifestContent(dir, m)) = Content(dir, m)
<1>1. IsList(dir.blobs[m].layers)
  BY DEF IsDirectory
<1>. QED  BY <1>1, Single, Joined DEF ManifestContent, Content

\* The order of the copy.
LEMMA OrderIs ==
  ASSUME NEW dir, IsDirectory(dir),
         NEW primary \in DOMAIN dir.blobs, primary = PrimaryManifest(dir),
         NEW R, R = ToSet(ReferrerManifests(dir)), R \subseteq DOMAIN dir.blobs, primary \notin R
  PROVE  LET order == ReferencedOrder(dir)
             listed == {primary} \cup R
             content == UNION {Content(dir, m) : m \in listed}
         IN /\ IsList(order) /\ ToSet(order) = content \cup listed
            /\ content \cap listed = {} =>
                 /\ After(order, ToSet(order) \ {primary}, primary)
                 /\ \A r \in R : After(order, Content(dir, r), r)
<1>. DEFINE refs == ReferrerManifests(dir)
            own(m) == ManifestContent(dir, m)
            one(r) == own(r) \o <<r>>
            seqs == [k \in DOMAIN refs |-> one(refs[k])]
            flat == FlattenSeq(seqs)
            before == own(primary) \o flat
            order == ReferencedOrder(dir)
            content == UNION {Content(dir, m) : m \in {primary} \cup R}
<1>1. order = before \o <<primary>>
  BY DEF ReferencedOrder
<1>2. IsList(refs) /\ IsList(own(primary)) /\ ToSet(own(primary)) = Content(dir, primary)
  BY ReferrersAre, ContentList
<1>3. ASSUME NEW r \in R
      PROVE  /\ IsList(own(r)) /\ ToSet(own(r)) = Content(dir, r)
             /\ IsList(one(r)) /\ ToSet(one(r)) = Content(dir, r) \cup {r}
  <2>1. IsList(own(r)) /\ ToSet(own(r)) = Content(dir, r)
    BY ContentList
  <2>. HIDE DEF own
  <2>. QED  BY <2>1, Single, Joined
<1>. HIDE DEF own, refs
<1>4. IsList(seqs) /\ ToSet(seqs) = {one(r) : r \in R}
  <2>1. R = {refs[k] : k \in DOMAIN refs}
    BY DEF refs, ToSet
  <2>. HIDE DEF one
  <2>2. DOMAIN seqs = DOMAIN refs /\ \A k \in DOMAIN refs : seqs[k] = one(refs[k])
    OBVIOUS
  <2>3. IsList(seqs)
    BY <1>2, ListDomain DEF IsList
  <2>. HIDE DEF seqs
  <2>4. ToSet(seqs) = {one(refs[k]) : k \in DOMAIN refs}
    BY <2>2 DEF ToSet
  <2>5. {one(refs[k]) : k \in DOMAIN refs} = {one(r) : r \in R}
    BY <2>1
  <2>. QED  BY <2>3, <2>4, <2>5
<1>5. IsList(flat) /\ ToSet(flat) = UNION {Content(dir, r) \cup {r} : r \in R}
  <2>. HIDE DEF seqs, one
  <2>1. \A s \in ToSet(seqs) : IsList(s)
    BY <1>3, <1>4
  <2>2. IsList(flat) /\ ToSet(flat) = UNION {ToSet(s) : s \in ToSet(seqs)}
    BY <1>4, <2>1, FlattenHas
  <2>3. UNION {ToSet(s) : s \in ToSet(seqs)} = UNION {ToSet(one(r)) : r \in R}
    BY <1>4
  <2>. QED  BY <1>3, <2>2, <2>3
<1>6. ASSUME content \cap ({primary} \cup R) = {}, NEW r \in R
      PROVE  After(flat, Content(dir, r), r)
  <2>1. ASSUME NEW q \in R PROVE IsList(one(q)) /\ After(one(q), Content(dir, r), r)
    <3>1. r \notin Content(dir, q)
      BY <1>6
    <3>2. After(own(q), Content(dir, r), r)
      BY <1>3, <3>1, AfterAnything
    <3>3. IsList(own(q)) /\ IsList(<<q>>)
      BY <1>3, Single
    <3>4. CASE q = r
      <4>1. Content(dir, r) \subseteq ToSet(own(q))
        BY <1>3, <3>4
      <4>. QED  BY <1>3, <3>2, <3>3, <4>1, AfterJoined
    <3>5. CASE q # r
      <4>1. After(<<q>>, Content(dir, r), r)
        BY <3>5, Single, AfterAnything
      <4>. QED  BY <1>3, <3>2, <3>3, <4>1, AfterJoined
    <3>. QED  BY <3>4, <3>5
  <2>. HIDE DEF seqs, one
  <2>2. \A s \in ToSet(seqs) : IsList(s) /\ After(s, Content(dir, r), r)
    BY <1>4, <2>1
  <2>. QED  BY <1>4, <2>2, FlattenAfter
<1>. HIDE DEF flat
<1>7. /\ IsList(before)
      /\ ToSet(before) = Content(dir, primary) \cup UNION {Content(dir, r) \cup {r} : r \in R}
  BY <1>2, <1>5, Joined
<1>8. IsList(order) /\ ToSet(order) = ToSet(before) \cup {primary}
  <2>. HIDE DEF before, order
  <2>. QED  BY <1>1, <1>7, Single, Joined
<1>9. ToSet(order) = content \cup ({primary} \cup R)
  BY <1>7, <1>8
<1>10. ASSUME content \cap ({primary} \cup R) = {}
       PROVE  After(order, ToSet(order) \ {primary}, primary)
  <2>1. primary \notin ToSet(before)
    BY <1>7, <1>10
  <2>. HIDE DEF before, order, content
  <2>2. ToSet(order) \ {primary} = ToSet(before)
    BY <1>8, <2>1
  <2>3. After(before, ToSet(before), primary)
    BY <2>1, AfterAnything
  <2>. QED  BY <1>1, <1>7, <2>2, <2>3, Single, AfterJoined
<1>11. ASSUME content \cap ({primary} \cup R) = {}, NEW r \in R
       PROVE  After(order, Content(dir, r), r)
  <2>1. r \notin Content(dir, primary) /\ r # primary
    BY <1>11
  <2>2. After(own(primary), Content(dir, r), r)
    BY <1>2, <2>1, AfterAnything
  <2>3. After(flat, Content(dir, r), r)
    BY <1>6, <1>11
  <2>4. After(before, Content(dir, r), r)
    BY <1>2, <1>5, <2>2, <2>3, AfterJoined
  <2>5. IsList(<<primary>>) /\ After(<<primary>>, Content(dir, r), r)
    BY <2>1, Single, AfterAnything
  <2>. HIDE DEF before, order
  <2>. QED  BY <1>1, <1>7, <2>4, <2>5, AfterJoined
<1>. HIDE DEF order, content
<1>12. /\ IsList(order) /\ ToSet(order) = content \cup ({primary} \cup R)
       /\ content \cap ({primary} \cup R) = {} =>
                 /\ After(order, ToSet(order) \ {primary}, primary)
                 /\ \A r \in R : After(order, Content(dir, r), r)
  BY <1>8, <1>9, <1>10, <1>11
<1>. QED  BY <1>12 DEF order, content

\* In the list that open gives the sinks is every blob that index.json can reach, once
\* (`push'), and each of them is on disk; the content of a manifest comes before it,
\* and the primary last, unless a manifest is itself content of another: for any
\* number of manifests and layers.
THEOREM OpenListsClosure ==
  ASSUME NEW dir, IsDirectory(dir)
  PROVE  OrderedClosure(dir, Open(dir))
<1>. DEFINE result == Open(dir)
            primary == PrimaryManifest(dir)
            R == ToSet(ReferrerManifests(dir))
            listed == ToSet(ListedDigests(dir))
            content == UNION {Content(dir, m) : m \in listed}
            order == ReferencedOrder(dir)
            blobs == ReferencedBlobs(dir)
<1>. SUFFICES ASSUME result.err = "none" PROVE OrderedClosure(dir, result)
  BY DEF OrderedClosure, ReferencedIsClosure, ManifestsFollowContent
<1>1. /\ result.primary = primary /\ result.referrers = ReferrerManifests(dir)
      /\ result.blobs = blobs
      /\ result.content = UNION {ToSet(ManifestContent(dir, m)) : m \in {primary} \cup R}
  BY DEF Open
<1>2. Publishable(dir)
  BY OpenAcceptsExactly DEF OpensExactly
<1>3. listed = {dir.listed[k].digest : k \in DOMAIN dir.listed}
  BY DEF ListedDigests, ToSet
<1>4. listed \subseteq DOMAIN dir.blobs /\ content \subseteq DOMAIN dir.blobs
  BY <1>2, <1>3 DEF Publishable, IsManifest, Present
<1>5. PICK k \in DOMAIN dir.listed :
        /\ dir.blobs[dir.listed[k].digest].subject = Absent
        /\ \A j \in DOMAIN dir.listed \ {k} :
             dir.blobs[dir.listed[j].digest].subject = dir.listed[k].digest
  BY <1>2 DEF Publishable
<1>6. primary = dir.listed[k].digest
  <2>1. dir.listed[k].digest # Absent
    BY <1>3, <1>4 DEF IsDirectory
  <2>2. PrimaryCandidates(dir) = {k}
    BY <1>5, <2>1 DEF PrimaryCandidates
  <2>3. (CHOOSE j \in PrimaryCandidates(dir) : TRUE) = k
    BY <2>2
  <2>. QED  BY <2>3 DEF PrimaryManifest
<1>7. R = {d \in listed : dir.blobs[d].subject # Absent}
  BY ReferrersAre
<1>8. primary \in listed /\ primary \notin R /\ listed = {primary} \cup R
  <2>1. primary \in listed /\ dir.blobs[primary].subject = Absent
    BY <1>3, <1>5, <1>6
  <2>2. ASSUME NEW d \in listed, d # primary PROVE dir.blobs[d].subject # Absent
    <3>1. PICK j \in DOMAIN dir.listed : d = dir.listed[j].digest
      BY <1>3
    <3>2. dir.blobs[d].subject = primary
      BY <1>5, <1>6, <2>2, <3>1
    <3>3. primary # Absent
      BY <1>4, <2>1 DEF IsDirectory
    <3>. QED  BY <3>2, <3>3
  <2>. HIDE DEF primary, listed, R
  <2>. QED  BY <1>7, <2>1, <2>2
<1>9. result.content = content
  <2>1. \A m \in listed : ToSet(ManifestContent(dir, m)) = Content(dir, m)
    BY <1>4, ContentList
  <2>. HIDE DEF listed, primary, R, result
  <2>. QED  BY <1>1, <1>8, <2>1
<1>10. /\ IsList(order) /\ ToSet(order) = content \cup listed
       /\ content \cap listed = {} =>
            /\ After(order, ToSet(order) \ {primary}, primary)
            /\ \A r \in R : After(order, Content(dir, r), r)
  <2>1. primary \in DOMAIN dir.blobs /\ R \subseteq DOMAIN dir.blobs
    BY <1>4, <1>8
  <2>. HIDE DEF order
  <2>. QED  BY <1>8, <2>1, OrderIs DEF order
<1>11. /\ IsList(blobs) /\ ToSet(blobs) = ToSet(order) /\ NoRepeats(blobs)
       /\ \A D, x : After(order, D, x) => After(blobs, D, x)
  BY <1>10, FoldKeeps DEF ReferencedBlobs
<1>12. DOMAIN blobs = 1..Len(blobs) /\ Len(blobs) \in Nat
  BY <1>11, ListDomain
<1>. HIDE DEF blobs, order, content, listed, primary, R, result
<1>13. ReferencedIsClosure(dir, result)
  BY <1>1, <1>4, <1>10, <1>11 DEF ReferencedIsClosure, NoRepeats, listed, content
<1>14. ASSUME content \cap listed = {}
       PROVE  /\ Last(blobs) = primary
              /\ \A j \in DOMAIN blobs : blobs[j] \in R =>
                   Content(dir, blobs[j]) \subseteq ToSet(SubSeq(blobs, 1, j - 1))
  <2>. DEFINE n == Len(blobs)
  <2>1. After(blobs, ToSet(order) \ {primary}, primary)
    BY <1>10, <1>11, <1>14
  <2>2. PICK j \in 1..n : blobs[j] = primary
    BY <1>8, <1>10, <1>11, <1>12 DEF ToSet
  <2>3. j = n
    <3>. SUFFICES ASSUME j # n PROVE FALSE
      OBVIOUS
    <3>1. n \in 1..n /\ n \in Nat /\ j <= n
      <4>1. n \in Nat
        BY <1>12
      <4>. HIDE DEF n
      <4>. QED  BY <2>2, <4>1
    <3>2. blobs[n] # primary
      BY <1>11, <1>12, <2>2, <3>1 DEF NoRepeats
    <3>3. blobs[n] \in ToSet(order) \ {primary}
      BY <1>11, <1>12, <3>1, <3>2 DEF ToSet
    <3>4. PICK i \in 1..(j - 1) : blobs[i] = blobs[n]
      BY <1>12, <2>1, <2>2, <3>3 DEF After
    <3>5. i \in 1..n /\ i # n
      BY <2>2, <3>1, <3>4
    <3>. QED  BY <1>11, <1>12, <3>1, <3>4, <3>5 DEF NoRepeats
  <2>4. ASSUME NEW i \in DOMAIN blobs, blobs[i] \in R, NEW d \in Content(dir, blobs[i])
        PROVE  d \in ToSet(SubSeq(blobs, 1, i - 1))
    <3>1. After(blobs, Content(dir, blobs[i]), blobs[i])
      BY <1>10, <1>11, <1>14, <2>4
    <3>2. PICK q \in 1..(i - 1) : blobs[q] = d
      BY <2>4, <3>1 DEF After
    <3>3. blobs \in Seq(ToSet(blobs))
      BY <1>11, ListIsSeq
    <3>4. q \in 1..Len(SubSeq(blobs, 1, i - 1)) /\ SubSeq(blobs, 1, i - 1)[q] = blobs[q]
      BY <1>12, <2>4, <3>2, <3>3, SubSeqProperties
    <3>. QED  BY <3>2, <3>4 DEF ToSet
  <2>. QED  BY <2>2, <2>3, <2>4 DEF Last
<1>15. ManifestsFollowContent(dir, result)
  BY <1>1, <1>9, <1>14 DEF ManifestsFollowContent, listed, R
<1>. QED  BY <1>13, <1>15 DEF OrderedClosure
=============================================================================
