----------------------------- MODULE ListFacts -----------------------------
(***************************************************************************)
(* Facts about the lists and dictionaries of the module Lists, which the   *)
(* proofs about single components cite.  A recursive function is the one   *)
(* its definition asks for only when there is such a function: every       *)
(* recursion below is first shown to have a solution.                      *)
(***************************************************************************)
EXTENDS Lists, FiniteSetTheorems, WellFoundedInduction, TLAPS

-----------------------------------------------------------------------------
(* Lists, and recursive functions over the numbers of their places.        *)

\* The order of the numbers, as a relation.
Lesser == {p \in Nat \X Nat : p[1] < p[2]}

\* A set that has 0 and with every number its successor has all of them.
LEMMA InductionOverNat ==
  ASSUME NEW S, 0 \in S, \A n \in Nat : n \in S => n + 1 \in S
  PROVE  \A n \in Nat : n \in S
<1>1. SUFFICES ASSUME Nat \ S # {} PROVE FALSE
  OBVIOUS
<1>2. IsWellFoundedOn(Lesser, Nat)
  BY NatLessThanWellFounded DEF Lesser, OpToRel
<1>3. PICK x \in Nat \ S : \A y \in Nat \ S : ~(<<y, x>> \in Lesser)
  BY <1>1, <1>2, WFMin
<1>4. x # 0 /\ x - 1 \in Nat /\ (x - 1) + 1 = x
  BY <1>3
<1>5. <<x - 1, x>> \in Lesser
  BY <1>4, x \in Nat DEF Lesser
<1>6. x - 1 \in S
  BY <1>3, <1>4, <1>5
<1> QED
  BY <1>3, <1>4, <1>6

\* f begins with base and goes on as g says, up to N.
Iterates(f, T, base, g, N) ==
  /\ f \in [0 .. N -> T]
  /\ f[0] = base
  /\ \A n \in 1 .. N : f[n] = g[<<f[n - 1], n>>]

\* There is such a function: what a recursive definition over 0 .. N needs.
LEMMA Iteration ==
  ASSUME NEW T, NEW base \in T, NEW g \in [T \X Nat -> T], NEW N \in Nat
  PROVE  \E f : Iterates(f, T, base, g, N)
<1> DEFINE Upto(m, f) == f[0] = base /\ \A n \in 1 .. m : f[n] = g[<<f[n - 1], n>>]
           S == {m \in Nat : \E f \in [0 .. m -> T] : Upto(m, f)}
<1>1. 0 \in S
  <2>1. Upto(0, [i \in 0 .. 0 |-> base]) /\ [i \in 0 .. 0 |-> base] \in [0 .. 0 -> T]
    OBVIOUS
  <2> QED BY <2>1
<1>2. ASSUME NEW m \in Nat, m \in S
      PROVE  m + 1 \in S
  <2>1. PICK f \in [0 .. m -> T] : Upto(m, f)
    BY <1>2
  <2> DEFINE h == [i \in 0 .. m + 1 |-> IF i = m + 1 THEN g[<<f[m], m + 1>>] ELSE f[i]]
  <2>2. h \in [0 .. m + 1 -> T]
    OBVIOUS
  <2>3. \A i \in 0 .. m : h[i] = f[i]
    OBVIOUS
  <2>4. h[m + 1] = g[<<h[m], m + 1>>]
    <3>1. h[m + 1] = g[<<f[m], m + 1>>] /\ h[m] = f[m]
      BY <2>3, m + 1 # m, m \in 0 .. m
    <3> HIDE DEF h
    <3> QED BY <3>1
  <2> HIDE DEF h
  <2>5. ASSUME NEW n \in 1 .. m + 1 PROVE h[n] = g[<<h[n - 1], n>>]
    <3>1. CASE n = m + 1
      BY <3>1, <2>4
    <3>2. CASE n \in 1 .. m
      <4>1. h[n] = f[n] /\ h[n - 1] = f[n - 1]
        BY <3>2, <2>3
      <4>2. f[n] = g[<<f[n - 1], n>>]
        BY <2>1, <3>2
      <4> QED BY <4>1, <4>2
    <3> QED BY <3>1, <3>2
  <2>6. h[0] = base
    BY <2>1, <2>3
  <2> QED BY <2>2, <2>5, <2>6
<1>3. N \in S
  <2> HIDE DEF S
  <2> QED BY <1>1, <1>2, InductionOverNat
<1> QED BY <1>3 DEF Iterates

\* A list has a length, and its members are the items at its places.
LEMMA ListShape ==
  ASSUME NEW s, IsList(s)
  PROVE  Len(s) \in Nat /\ DOMAIN s = 1 .. Len(s) /\ \A i \in DOMAIN s : s[i] \in ToSet(s)
  BY DEF IsList, ToSet

\* A sequence is a list, and its members are of its type.
LEMMA SeqIsList ==
  ASSUME NEW T, NEW s \in Seq(T)
  PROVE  IsList(s) /\ \A x \in ToSet(s) : x \in T
  BY DEF IsList, ToSet

\* What is appended is one member more.
LEMMA AppendToSet ==
  ASSUME NEW T, NEW s \in Seq(T), NEW x \in T
  PROVE  ToSet(Append(s, x)) = ToSet(s) \cup {x}
<1>1. /\ DOMAIN Append(s, x) = 1 .. Len(s) + 1 /\ DOMAIN s = 1 .. Len(s) /\ Len(s) \in Nat
      /\ Append(s, x)[Len(s) + 1] = x
      /\ \A i \in 1 .. Len(s) : Append(s, x)[i] = s[i]
  OBVIOUS
<1>2. \A i : i \in 1 .. Len(s) + 1 <=> i \in 1 .. Len(s) \/ i = Len(s) + 1
  BY <1>1
<1> HIDE DEF ToSet
<1>3. \A y : y \in ToSet(Append(s, x)) <=> \E i \in 1 .. Len(s) + 1 : y = Append(s, x)[i]
  BY <1>1 DEF ToSet
<1>4. \A y : y \in ToSet(s) <=> \E i \in 1 .. Len(s) : y = s[i]
  BY <1>1 DEF ToSet
<1> QED BY <1>1, <1>2, <1>3, <1>4

\* A function over 1 .. n is a list of n items.
LEMMA ListOf ==
  ASSUME NEW n \in Nat, NEW s, s = [i \in 1 .. n |-> s[i]]
  PROVE  IsList(s) /\ Len(s) = n
<1>1. s \in Seq(ToSet(s))
  BY DEF ToSet
<1> QED BY <1>1 DEF IsList

\* k[n] is what is sifted out of the first n items of s.
Sifted(k, s, W) ==
  /\ k[0] = <<>>
  /\ \A n \in 1 .. Len(s) :
       k[n] = IF s[n] \in W THEN Append(k[n - 1], s[n]) ELSE k[n - 1]

\* Sift is the last step of such a k: its recursive definition has a solution.
LEMMA SiftUnfolds ==
  ASSUME NEW s, IsList(s), NEW W
  PROVE  \E k : Sifted(k, s, W) /\ Sift(s, W) = k[Len(s)]
<1> DEFINE T == Seq(ToSet(s) \cap W)
           Def(k) == [n \in 0 .. Len(s) |->
             IF n = 0 THEN <<>>
             ELSE IF s[n] \in W THEN Append(k[n - 1], s[n]) ELSE k[n - 1]]
           k == CHOOSE k : k = Def(k)
           g == [p \in T \X Nat |->
                   IF p[2] \in 1 .. Len(s) /\ s[p[2]] \in W THEN Append(p[1], s[p[2]]) ELSE p[1]]
<1>1. Len(s) \in Nat /\ DOMAIN s = 1 .. Len(s) /\ \A i \in 1 .. Len(s) : s[i] \in ToSet(s)
  BY ListShape
<1>2. \E f : f = Def(f)
  <2>1. g \in [T \X Nat -> T]
    BY <1>1
  <2>2. PICK f : Iterates(f, T, <<>>, g, Len(s))
    <3>1. <<>> \in T
      OBVIOUS
    <3> HIDE DEF g, T, k, Def
    <3> QED BY <1>1, <2>1, <3>1, Iteration
  <2>3. f \in [0 .. Len(s) -> T] /\ f[0] = <<>>
    BY <2>2 DEF Iterates
  <2>4. ASSUME NEW n \in 1 .. Len(s)
        PROVE  f[n] = IF s[n] \in W THEN Append(f[n - 1], s[n]) ELSE f[n - 1]
    <3>1. n - 1 \in 0 .. Len(s) /\ n \in Nat
      BY <1>1
    <3>2. <<f[n - 1], n>> \in T \X Nat
      BY <3>1, <2>3
    <3> QED BY <2>2, <3>2 DEF Iterates
  <2>5. f = Def(f)
    <3>1. \A n \in 0 .. Len(s) : n = 0 \/ n \in 1 .. Len(s)
      BY <1>1
    <3> HIDE DEF g, T
    <3> QED BY <2>3, <2>4, <3>1, <1>1
  <2> QED BY <2>5
<1>3. k = Def(k)
  <2> HIDE DEF Def
  <2> QED BY <1>2
<1>4. Sift(s, W) = k[Len(s)]
  BY DEF Sift
<1>5. Sifted(k, s, W)
  <2> HIDE DEF k
  <2>1. k[0] = <<>>
    BY <1>1, <1>3, 0 \in 0 .. Len(s)
  <2>2. ASSUME NEW n \in 1 .. Len(s)
        PROVE  k[n] = IF s[n] \in W THEN Append(k[n - 1], s[n]) ELSE k[n - 1]
    <3>1. n \in 0 .. Len(s) /\ n # 0
      BY <1>1
    <3> QED BY <1>3, <3>1
  <2> QED BY <2>1, <2>2 DEF Sifted
<1> QED
  BY <1>4, <1>5

\* Sift (publishable_claims and the like) gives a list of the very items of the
\* list that are wanted.
LEMMA SiftList ==
  ASSUME NEW s, IsList(s), NEW W
  PROVE  IsList(Sift(s, W)) /\ ToSet(Sift(s, W)) = ToSet(s) \cap W
<1>1. Len(s) \in Nat /\ DOMAIN s = 1 .. Len(s) /\ \A i \in 1 .. Len(s) : s[i] \in ToSet(s)
  BY ListShape
<1>2. PICK k : Sifted(k, s, W) /\ Sift(s, W) = k[Len(s)]
  BY SiftUnfolds
<1> DEFINE Seen(n) == {s[i] : i \in 1 .. n}
           S == {n \in Nat : n <= Len(s) =>
                   k[n] \in Seq(ToSet(s)) /\ ToSet(k[n]) = Seen(n) \cap W}
<1>3. 0 \in S
  <2>1. k[0] = <<>> /\ <<>> \in Seq(ToSet(s))
    BY <1>2 DEF Sifted
  <2>2. ToSet(<<>>) = {} /\ Seen(0) = {}
    BY DEF ToSet
  <2> QED BY <2>1, <2>2
<1>4. ASSUME NEW n \in Nat, n \in S PROVE n + 1 \in S
  <2> SUFFICES ASSUME n + 1 <= Len(s)
               PROVE  k[n + 1] \in Seq(ToSet(s)) /\ ToSet(k[n + 1]) = Seen(n + 1) \cap W
    OBVIOUS
  <2>1. k[n] \in Seq(ToSet(s)) /\ ToSet(k[n]) = Seen(n) \cap W
    BY <1>4, <1>1
  <2>2. n + 1 \in 1 .. Len(s) /\ (n + 1) - 1 = n
    BY <1>1
  <2>3. k[n + 1] = IF s[n + 1] \in W THEN Append(k[n], s[n + 1]) ELSE k[n]
    BY <1>2, <2>2 DEF Sifted
  <2>4. Seen(n + 1) = Seen(n) \cup {s[n + 1]}
    OBVIOUS
  <2>5. s[n + 1] \in ToSet(s)
    BY <1>1, <2>2
  <2>6. CASE s[n + 1] \in W
    <3>1. ToSet(Append(k[n], s[n + 1])) = ToSet(k[n]) \cup {s[n + 1]}
      BY <2>1, <2>5, AppendToSet
    <3> QED BY <2>1, <2>3, <2>4, <2>5, <2>6, <3>1
  <2>7. CASE s[n + 1] \notin W
    BY <2>1, <2>3, <2>4, <2>7
  <2> QED BY <2>6, <2>7
<1>5. Len(s) \in S
  <2> HIDE DEF S
  <2> QED BY <1>1, <1>3, <1>4, InductionOverNat
<1>6. Sift(s, W) \in Seq(ToSet(s)) /\ ToSet(Sift(s, W)) = Seen(Len(s)) \cap W
  BY <1>1, <1>2, <1>5
<1>7. Seen(Len(s)) = ToSet(s)
  BY <1>1 DEF ToSet
<1>8. IsList(Sift(s, W))
  BY <1>6, SeqIsList
<1> QED
  BY <1>6, <1>7, <1>8

\* Two lists that are wanted at the same places keep the same number of items.
LEMMA SiftLength ==
  ASSUME NEW s, IsList(s), NEW V, NEW t, IsList(t), NEW W, Len(s) = Len(t),
         \A i \in 1 .. Len(s) : s[i] \in V <=> t[i] \in W
  PROVE  Len(Sift(s, V)) = Len(Sift(t, W))
<1>1. Len(s) \in Nat /\ \A i \in 1 .. Len(s) : s[i] \in ToSet(s) /\ t[i] \in ToSet(t)
  BY ListShape
<1>2. PICK k : Sifted(k, s, V) /\ Sift(s, V) = k[Len(s)]
  BY SiftUnfolds
<1>3. PICK l : Sifted(l, t, W) /\ Sift(t, W) = l[Len(t)]
  BY SiftUnfolds
<1> DEFINE S == {n \in Nat : n <= Len(s) =>
                   k[n] \in Seq(ToSet(s)) /\ l[n] \in Seq(ToSet(t)) /\ Len(k[n]) = Len(l[n])}
<1>4. 0 \in S
  <2>1. k[0] = <<>> /\ l[0] = <<>>
    BY <1>2, <1>3 DEF Sifted
  <2>2. <<>> \in Seq(ToSet(s)) /\ <<>> \in Seq(ToSet(t)) /\ Len(<<>>) = Len(<<>>)
    OBVIOUS
  <2> QED BY <2>1, <2>2
<1>5. ASSUME NEW n \in Nat, n \in S PROVE n + 1 \in S
  <2> SUFFICES ASSUME n + 1 <= Len(s)
               PROVE  /\ k[n + 1] \in Seq(ToSet(s)) /\ l[n + 1] \in Seq(ToSet(t))
                      /\ Len(k[n + 1]) = Len(l[n + 1])
    OBVIOUS
  <2>1. k[n] \in Seq(ToSet(s)) /\ l[n] \in Seq(ToSet(t)) /\ Len(k[n]) = Len(l[n])
    BY <1>5, <1>1
  <2>2. n + 1 \in 1 .. Len(s) /\ (n + 1) - 1 = n
    BY <1>1
  <2>3. k[n + 1] = IF s[n + 1] \in V THEN Append(k[n], s[n + 1]) ELSE k[n]
    BY <1>2, <2>2 DEF Sifted
  <2>4. l[n + 1] = IF t[n + 1] \in W THEN Append(l[n], t[n + 1]) ELSE l[n]
    BY <1>3, <2>2 DEF Sifted
  <2> QED BY <1>1, <2>1, <2>2, <2>3, <2>4
<1>6. Len(s) \in S
  <2> HIDE DEF S
  <2> QED BY <1>1, <1>4, <1>5, InductionOverNat
<1> QED
  BY <1>1, <1>2, <1>3, <1>6

\* A function over the places of a list is a list.
LEMMA ListOver ==
  ASSUME NEW cs, IsList(cs), NEW ds, ds = [i \in DOMAIN cs |-> ds[i]]
  PROVE  IsList(ds) /\ DOMAIN ds = DOMAIN cs
<1>1. Len(cs) \in Nat /\ DOMAIN cs = 1 .. Len(cs)
  BY ListShape
<1> QED
  BY <1>1, ListOf


\* k[n] has every one of the first n items of s once.
Kept(k, s) ==
  /\ k[0] = <<>>
  /\ \A n \in 1 .. Len(s) :
       k[n] = IF s[n] \in ToSet(k[n - 1]) THEN k[n - 1] ELSE Append(k[n - 1], s[n])

\* Unrepeated is the last step of such a k.
LEMMA UnrepeatedUnfolds ==
  ASSUME NEW s, IsList(s)
  PROVE  \E k : Kept(k, s) /\ Unrepeated(s) = k[Len(s)]
<1> DEFINE T == Seq(ToSet(s))
           Def(k) == [n \in 0 .. Len(s) |->
             IF n = 0 THEN <<>>
             ELSE IF s[n] \in ToSet(k[n - 1]) THEN k[n - 1] ELSE Append(k[n - 1], s[n])]
           k == CHOOSE k : k = Def(k)
           g == [p \in T \X Nat |->
                   IF p[2] \in 1 .. Len(s) /\ s[p[2]] \notin ToSet(p[1])
                   THEN Append(p[1], s[p[2]]) ELSE p[1]]
<1>1. Len(s) \in Nat /\ DOMAIN s = 1 .. Len(s) /\ \A i \in 1 .. Len(s) : s[i] \in ToSet(s)
  BY ListShape
<1>2. \E f : f = Def(f)
  <2>1. g \in [T \X Nat -> T]
    BY <1>1
  <2>2. PICK f : Iterates(f, T, <<>>, g, Len(s))
    <3>1. <<>> \in T
      OBVIOUS
    <3> HIDE DEF g, T, k, Def
    <3> QED BY <1>1, <2>1, <3>1, Iteration
  <2>3. f \in [0 .. Len(s) -> T] /\ f[0] = <<>>
    BY <2>2 DEF Iterates
  <2>4. ASSUME NEW n \in 1 .. Len(s)
        PROVE  f[n] = IF s[n] \in ToSet(f[n - 1]) THEN f[n - 1] ELSE Append(f[n - 1], s[n])
    <3>1. n - 1 \in 0 .. Len(s) /\ n \in Nat
      BY <1>1
    <3>2. <<f[n - 1], n>> \in T \X Nat
      BY <3>1, <2>3
    <3> QED BY <2>2, <3>2 DEF Iterates
  <2>5. f = Def(f)
    <3>1. \A n \in 0 .. Len(s) : n = 0 \/ n \in 1 .. Len(s)
      BY <1>1
    <3> HIDE DEF g, T
    <3> QED BY <2>3, <2>4, <3>1, <1>1
  <2> QED BY <2>5
<1>3. k = Def(k)
  <2> HIDE DEF Def
  <2> QED BY <1>2
<1>4. Unrepeated(s) = k[Len(s)]
  BY DEF Unrepeated
<1>5. Kept(k, s)
  <2> HIDE DEF k
  <2>1. k[0] = <<>>
    BY <1>1, <1>3, 0 \in 0 .. Len(s)
  <2>2. ASSUME NEW n \in 1 .. Len(s)
        PROVE  k[n] = IF s[n] \in ToSet(k[n - 1]) THEN k[n - 1] ELSE Append(k[n - 1], s[n])
    <3>1. n \in 0 .. Len(s) /\ n # 0
      BY <1>1
    <3> QED BY <1>3, <3>1
  <2> QED BY <2>1, <2>2 DEF Kept
<1> QED
  BY <1>4, <1>5

\* No key is lost and none is added when repeated keys are dropped.
LEMMA UnrepeatedList ==
  ASSUME NEW s, IsList(s)
  PROVE  IsList(Unrepeated(s)) /\ ToSet(Unrepeated(s)) = ToSet(s)
<1>1. Len(s) \in Nat /\ DOMAIN s = 1 .. Len(s) /\ \A i \in 1 .. Len(s) : s[i] \in ToSet(s)
  BY ListShape
<1>2. PICK k : Kept(k, s) /\ Unrepeated(s) = k[Len(s)]
  BY UnrepeatedUnfolds
<1> DEFINE Seen(n) == {s[i] : i \in 1 .. n}
           S == {n \in Nat : n <= Len(s) => k[n] \in Seq(ToSet(s)) /\ ToSet(k[n]) = Seen(n)}
<1>3. 0 \in S
  <2>1. k[0] = <<>> /\ <<>> \in Seq(ToSet(s))
    BY <1>2 DEF Kept
  <2>2. ToSet(<<>>) = {} /\ Seen(0) = {}
    BY DEF ToSet
  <2> QED BY <2>1, <2>2
<1>4. ASSUME NEW n \in Nat, n \in S PROVE n + 1 \in S
  <2> SUFFICES ASSUME n + 1 <= Len(s)
               PROVE  k[n + 1] \in Seq(ToSet(s)) /\ ToSet(k[n + 1]) = Seen(n + 1)
    OBVIOUS
  <2>1. k[n] \in Seq(ToSet(s)) /\ ToSet(k[n]) = Seen(n)
    BY <1>4, <1>1
  <2>2. n + 1 \in 1 .. Len(s) /\ (n + 1) - 1 = n
    BY <1>1
  <2>3. k[n + 1] = IF s[n + 1] \in ToSet(k[n]) THEN k[n] ELSE Append(k[n], s[n + 1])
    BY <1>2, <2>2 DEF Kept
  <2>4. Seen(n + 1) = Seen(n) \cup {s[n + 1]}
    OBVIOUS
  <2>5. s[n + 1] \in ToSet(s)
    BY <1>1, <2>2
  <2>6. ToSet(Append(k[n], s[n + 1])) = ToSet(k[n]) \cup {s[n + 1]}
    BY <2>1, <2>5, AppendToSet
  <2>7. Append(k[n], s[n + 1]) \in Seq(ToSet(s))
    BY <2>1, <2>5
  <2> HIDE DEF Seen
  <2> QED BY <2>1, <2>3, <2>4, <2>6, <2>7
<1>5. Len(s) \in S
  <2> HIDE DEF S
  <2> QED BY <1>1, <1>3, <1>4, InductionOverNat
<1>6. Unrepeated(s) \in Seq(ToSet(s)) /\ ToSet(Unrepeated(s)) = Seen(Len(s))
  BY <1>1, <1>2, <1>5
<1>7. Seen(Len(s)) = ToSet(s)
  BY <1>1 DEF ToSet
<1> QED
  BY <1>6, <1>7, SeqIsList

\* The places of n items in some order.
Order(o, n) ==
  /\ o \in [1 .. n -> 1 .. n]
  /\ \A i \in 1 .. n : \E m \in 1 .. n : o[m] = i

\* One item more has its place among those of the others.
LEMMA PlacedOrder ==
  ASSUME NEW n \in Nat, NEW o, Order(o, n), NEW keys
  PROVE  Order(Placed(o, keys, n + 1), n + 1)
<1> DEFINE A == {m \in DOMAIN o : ~KeyAbove(keys[n + 1], keys[o[m]])}
           ahead == Cardinality(A)
           p == Placed(o, keys, n + 1)
<1>1. o \in [1 .. n -> 1 .. n] /\ \A i \in 1 .. n : \E m \in 1 .. n : o[m] = i
  BY DEF Order
<1>2. ahead \in Nat /\ ahead <= n
  <2>1. A \subseteq 1 .. n
    BY <1>1
  <2>2. IsFiniteSet(1 .. n) /\ Cardinality(1 .. n) = n
    BY FS_Interval
  <2> HIDE DEF A
  <2>3. IsFiniteSet(A) /\ Cardinality(A) <= n
    BY <2>1, <2>2, FS_Subset
  <2> QED BY <2>3, FS_CardinalityType
<1>3. p = [m \in 1 .. n + 1 |-> IF m <= ahead THEN o[m]
                                ELSE IF m = ahead + 1 THEN n + 1 ELSE o[m - 1]]
  BY DEF Placed
<1> HIDE DEF ahead, p, A
<1>4. p \in [1 .. n + 1 -> 1 .. n + 1]
  <2>1. ASSUME NEW m \in 1 .. n + 1
        PROVE  (IF m <= ahead THEN o[m] ELSE IF m = ahead + 1 THEN n + 1 ELSE o[m - 1])
                 \in 1 .. n + 1
    <3>1. CASE m <= ahead
      BY <1>1, <1>2, <3>1
    <3>2. CASE m = ahead + 1
      BY <1>2, <3>2
    <3>3. CASE m > ahead + 1
      <4>1. m - 1 \in 1 .. n
        BY <1>2, <3>3
      <4> QED BY <1>1, <1>2, <3>3, <4>1
    <3> QED BY <1>2, <3>1, <3>2, <3>3
  <2> QED BY <1>3, <2>1
<1>5. ASSUME NEW i \in 1 .. n + 1 PROVE \E m \in 1 .. n + 1 : p[m] = i
  <2>1. CASE i = n + 1
    <3>1. ahead + 1 \in 1 .. n + 1 /\ p[ahead + 1] = n + 1
      BY <1>2, <1>3
    <3> QED BY <2>1, <3>1
  <2>2. CASE i \in 1 .. n
    <3>1. PICK m \in 1 .. n : o[m] = i
      BY <1>1, <2>2
    <3>2. CASE m <= ahead
      <4>1. m \in 1 .. n + 1 /\ p[m] = i
        BY <1>3, <3>1, <3>2
      <4> QED BY <4>1
    <3>3. CASE m > ahead
      <4>1. m + 1 \in 1 .. n + 1 /\ ~(m + 1 <= ahead) /\ m + 1 # ahead + 1 /\ (m + 1) - 1 = m
        BY <1>2, <3>3
      <4>2. p[m + 1] = i
        BY <1>3, <3>1, <4>1
      <4> QED BY <4>1, <4>2
    <3> QED BY <1>2, <3>2, <3>3
  <2> QED BY <2>1, <2>2
<1> QED
  BY <1>4, <1>5 DEF Order, p

\* r[n] has the places of the first n items of s in their order.
RankingOf(r, N, keys) ==
  /\ r[0] = <<>>
  /\ \A n \in 1 .. N : r[n] = Placed(r[n - 1], keys, n)

\* RankedBy puts the items at the places that the last step of such an r has.
LEMMA RankedUnfolds ==
  ASSUME NEW s, IsList(s), NEW keys
  PROVE  \E r : RankingOf(r, Len(s), keys) /\ RankedBy(s, keys) = [m \in DOMAIN s |-> s[r[Len(s)][m]]]
<1> DEFINE T == Seq(Nat)
           N == Len(s)
           Def(k) == [n \in 0 .. N |-> IF n = 0 THEN <<>> ELSE Placed(k[n - 1], keys, n)]
           k == CHOOSE k : k = Def(k)
           fits(p) == p[2] \in 1 .. N /\ Order(p[1], p[2] - 1)
           g == [p \in T \X Nat |-> IF fits(p) THEN Placed(p[1], keys, p[2]) ELSE p[1]]
<1>1. N \in Nat /\ DOMAIN s = 1 .. N
  BY ListShape
<1>2. ASSUME NEW n \in Nat, NEW o, Order(o, n) PROVE o \in Seq(Nat)
  <2>1. o \in [1 .. n -> 1 .. n]
    BY <1>2 DEF Order
  <2>2. o \in [1 .. n -> Nat]
    BY <2>1
  <2> QED BY <2>2
<1>3. g \in [T \X Nat -> T]
  <2>1. ASSUME NEW p \in T \X Nat
        PROVE  (IF fits(p) THEN Placed(p[1], keys, p[2]) ELSE p[1]) \in T
    <3>1. CASE fits(p)
      <4>1. p[2] - 1 \in Nat /\ (p[2] - 1) + 1 = p[2] /\ p[2] \in Nat
        BY <1>1, <3>1
      <4>2. Order(Placed(p[1], keys, p[2]), p[2])
        BY <3>1, <4>1, PlacedOrder
      <4>3. Placed(p[1], keys, p[2]) \in Seq(Nat)
        BY <4>1, <4>2, <1>2
      <4> QED BY <3>1, <4>3
    <3>2. CASE ~fits(p)
      BY <3>2
    <3> QED BY <3>1, <3>2
  <2> HIDE DEF T, fits
  <2> QED BY <2>1
<1>4. PICK f : Iterates(f, T, <<>>, g, N)
  <2>1. <<>> \in T
    OBVIOUS
  <2> HIDE DEF g, T, k, Def, N
  <2> QED BY <1>1, <1>3, <2>1, Iteration
<1>5. f \in [0 .. N -> T] /\ f[0] = <<>>
  BY <1>4 DEF Iterates
<1>6. ASSUME NEW n \in 1 .. N
      PROVE  f[n] = IF fits(<<f[n - 1], n>>) THEN Placed(f[n - 1], keys, n) ELSE f[n - 1]
  <2>1. n - 1 \in 0 .. N /\ n \in Nat
    BY <1>1
  <2>2. <<f[n - 1], n>> \in T \X Nat
    BY <2>1, <1>5
  <2> QED BY <1>4, <2>2 DEF Iterates
<1> DEFINE S == {n \in Nat : n <= N => Order(f[n], n)}
<1>7. \A n \in 0 .. N : Order(f[n], n)
  <2>1. 0 \in S
    BY <1>5 DEF Order
  <2>2. ASSUME NEW n \in Nat, n \in S PROVE n + 1 \in S
    <3> SUFFICES ASSUME n + 1 <= N PROVE Order(f[n + 1], n + 1)
      OBVIOUS
    <3>1. n + 1 \in 1 .. N /\ (n + 1) - 1 = n /\ Order(f[n], n)
      BY <1>1, <2>2
    <3>2. f[n + 1] = Placed(f[n], keys, n + 1)
      BY <1>6, <3>1
    <3> QED BY <3>1, <3>2, PlacedOrder
  <2>3. \A n \in Nat : n \in S
    <3> HIDE DEF S
    <3> QED BY <2>1, <2>2, InductionOverNat
  <2> QED BY <1>1, <2>3
<1>8. ASSUME NEW n \in 1 .. N PROVE f[n] = Placed(f[n - 1], keys, n)
  <2>1. Order(f[n - 1], n - 1)
    BY <1>1, <1>7
  <2> QED BY <1>6, <2>1
<1>9. f = Def(f)
  <2>1. \A n \in 0 .. N : n = 0 \/ n \in 1 .. N
    BY <1>1
  <2> HIDE DEF g, T, N
  <2> QED BY <1>5, <1>8, <2>1
<1>10. k = Def(k)
  <2> HIDE DEF Def
  <2> QED BY <1>9
<1>11. RankedBy(s, keys) = [m \in DOMAIN s |-> s[k[N][m]]]
  BY DEF RankedBy
<1>12. RankingOf(k, N, keys)
  <2> HIDE DEF k
  <2>1. k[0] = <<>>
    BY <1>1, <1>10, 0 \in 0 .. N
  <2>2. ASSUME NEW n \in 1 .. N PROVE k[n] = Placed(k[n - 1], keys, n)
    <3>1. n \in 0 .. N /\ n # 0
      BY <1>1
    <3> QED BY <1>10, <3>1
  <2> QED BY <2>1, <2>2 DEF RankingOf
<1> QED
  BY <1>11, <1>12

\* RankedBy (sorted) only changes the order of a list.
LEMMA RankedList ==
  ASSUME NEW s, IsList(s), NEW keys
  PROVE  /\ IsList(RankedBy(s, keys)) /\ Len(RankedBy(s, keys)) = Len(s)
         /\ ToSet(RankedBy(s, keys)) = ToSet(s)
<1> DEFINE N == Len(s)
           t == RankedBy(s, keys)
<1>1. N \in Nat /\ DOMAIN s = 1 .. N
  BY ListShape
<1>2. PICK k : RankingOf(k, N, keys) /\ t = [m \in DOMAIN s |-> s[k[N][m]]]
  BY RankedUnfolds
<1> DEFINE S == {n \in Nat : n <= N => Order(k[n], n)}
<1>3. 0 \in S
  <2>1. k[0] = <<>>
    BY <1>2 DEF RankingOf
  <2>2. Order(<<>>, 0)
    BY DEF Order
  <2> QED BY <2>1, <2>2
<1>4. ASSUME NEW n \in Nat, n \in S PROVE n + 1 \in S
  <2> SUFFICES ASSUME n + 1 <= N PROVE Order(k[n + 1], n + 1)
    OBVIOUS
  <2>1. n + 1 \in 1 .. N /\ (n + 1) - 1 = n /\ Order(k[n], n)
    BY <1>1, <1>4
  <2>2. k[n + 1] = Placed(k[n], keys, n + 1)
    BY <1>2, <2>1 DEF RankingOf
  <2> QED BY <2>1, <2>2, PlacedOrder
<1>5. N \in S
  <2> HIDE DEF S, N
  <2> QED BY <1>1, <1>3, <1>4, InductionOverNat
<1>6. k[N] \in [1 .. N -> 1 .. N] /\ \A i \in 1 .. N : \E m \in 1 .. N : k[N][m] = i
  <2>1. Order(k[N], N)
    BY <1>1, <1>5
  <2> HIDE DEF N
  <2> QED BY <2>1 DEF Order
<1>7. /\ t = [m \in 1 .. N |-> t[m]] /\ DOMAIN t = 1 .. N
      /\ \A m \in 1 .. N : t[m] = s[k[N][m]]
  BY <1>1, <1>2
<1> HIDE DEF t
<1>8. IsList(t) /\ Len(t) = N
  BY <1>1, <1>7, ListOf
<1>9. ToSet(t) = ToSet(s)
  <2>1. ToSet(t) = {t[m] : m \in 1 .. N} /\ ToSet(s) = {s[i] : i \in 1 .. N}
    BY <1>1, <1>7 DEF ToSet
  <2>2. ASSUME NEW m \in 1 .. N PROVE t[m] \in ToSet(s)
    <3>1. k[N][m] \in 1 .. N
      BY <1>6
    <3> QED BY <1>7, <2>1, <3>1
  <2>3. ASSUME NEW i \in 1 .. N PROVE s[i] \in ToSet(t)
    <3>1. PICK m \in 1 .. N : k[N][m] = i
      BY <1>6
    <3>2. t[m] = s[i]
      BY <1>7, <3>1
    <3> QED BY <2>1, <3>2
  <2> HIDE DEF N
  <2> QED BY <2>1, <2>2, <2>3
<1> QED
  BY <1>8, <1>9 DEF t

-----------------------------------------------------------------------------
(* Numbers.                                                                *)

\* A set of numbers has a least one.
LEMMA LeastExists ==
  ASSUME NEW T \in SUBSET Nat, T # {}
  PROVE  \E m \in T : \A n \in T : m <= n
<1>1. PICK m \in T : \A n \in T : ~(<<n, m>> \in Lesser)
  <2>1. IsWellFoundedOn(Lesser, Nat)
    BY NatLessThanWellFounded DEF Lesser, OpToRel
  <2> QED BY <2>1, WFMin
<1>2. \A n \in T : n \in Nat /\ m \in Nat /\ ~(n < m)
  BY <1>1 DEF Lesser
<1> QED
  BY <1>2

\* Max of a non-empty bounded set of numbers is the largest of them.
LEMMA MaxIsLargest ==
  ASSUME NEW S \in SUBSET Nat, S # {}, NEW b \in Nat, \A x \in S : x <= b
  PROVE  Max(S) \in S /\ \A x \in S : x <= Max(S)
<1> DEFINE U == {u \in Nat : \A x \in S : x <= u}
<1>1. PICK m \in U : \A u \in U : m <= u
  <2>1. U \in SUBSET Nat /\ b \in U
    OBVIOUS
  <2> QED
    BY <2>1, LeastExists
<1>2. m \in S
  <2> SUFFICES ASSUME m \notin S PROVE FALSE
    OBVIOUS
  <2>1. \A x \in S : x <= m /\ x # m
    BY <1>1
  <2>2. PICK y \in S : TRUE
    OBVIOUS
  <2>3. m - 1 \in Nat /\ \A x \in S : x <= m - 1
    BY <1>1, <2>1, <2>2
  <2>4. m <= m - 1
    BY <1>1, <2>3
  <2> QED
    BY <1>1, <2>4
<1>3. \E x \in S : \A y \in S : x >= y
  BY <1>1, <1>2
<1> QED
  BY <1>3 DEF Max

\* Min of a non-empty set of numbers is the least of them.
LEMMA MinIsLeast ==
  ASSUME NEW S \in SUBSET Nat, S # {}
  PROVE  Min(S) \in S /\ \A x \in S : Min(S) <= x
<1>1. \E x \in S : \A y \in S : x <= y
  BY LeastExists
<1> QED
  BY <1>1 DEF Min

-----------------------------------------------------------------------------
(* Taking lists apart and putting them together.                           *)

\* Nothing is in the empty list.
LEMMA EmptyList == IsList(<<>>) /\ ToSet(<<>>) = {}
  BY DEF IsList, ToSet

\* The items of a concatenation are those of its parts, in their places.
LEMMA ConcatPlaces ==
  ASSUME NEW s, IsList(s), NEW t, IsList(t)
  PROVE  /\ IsList(s \o t) /\ Len(s \o t) = Len(s) + Len(t)
         /\ \A i \in 1 .. Len(s) : (s \o t)[i] = s[i]
         /\ \A i \in 1 .. Len(t) : (s \o t)[Len(s) + i] = t[i]
<1> DEFINE T == ToSet(s) \cup ToSet(t)
<1>1. s \in Seq(T) /\ t \in Seq(T)
  <2>1. s \in Seq(ToSet(s)) /\ t \in Seq(ToSet(t))
    BY DEF IsList
  <2> HIDE DEF ToSet
  <2> QED BY <2>1
<1> HIDE DEF T
<1>2. s \o t \in Seq(T)
  BY <1>1
<1>3. IsList(s \o t)
  BY <1>2, SeqIsList
<1> QED
  BY <1>1, <1>3

\* The members of a concatenation are those of its parts.
LEMMA ConcatList ==
  ASSUME NEW s, IsList(s), NEW t, IsList(t)
  PROVE  IsList(s \o t) /\ ToSet(s \o t) = ToSet(s) \cup ToSet(t)
<1> DEFINE c == s \o t
<1>1. /\ IsList(c) /\ Len(c) = Len(s) + Len(t)
      /\ \A i \in 1 .. Len(s) : c[i] = s[i]
      /\ \A i \in 1 .. Len(t) : c[Len(s) + i] = t[i]
  BY ConcatPlaces
<1> HIDE DEF c
<1>2. /\ Len(s) \in Nat /\ DOMAIN s = 1 .. Len(s)
      /\ Len(t) \in Nat /\ DOMAIN t = 1 .. Len(t)
      /\ Len(c) \in Nat /\ DOMAIN c = 1 .. Len(c)
  BY <1>1, ListShape
<1>3. ASSUME NEW i \in 1 .. Len(c) PROVE c[i] \in ToSet(s) \cup ToSet(t)
  <2>1. CASE i <= Len(s)
    <3>1. i \in DOMAIN s /\ c[i] = s[i]
      BY <1>1, <1>2, <2>1
    <3> QED BY <3>1, ListShape
  <2>2. CASE i > Len(s)
    <3>1. i - Len(s) \in 1 .. Len(t) /\ Len(s) + (i - Len(s)) = i
      BY <1>1, <1>2, <2>2
    <3>2. c[i] = t[i - Len(s)]
      BY <1>1, <3>1
    <3>3. t[i - Len(s)] \in ToSet(t)
      BY <1>2, <3>1, ListShape
    <3> QED BY <3>2, <3>3
  <2> QED BY <1>2, <2>1, <2>2
<1>4. ASSUME NEW x \in ToSet(s) PROVE x \in ToSet(c)
  <2>1. PICK i \in 1 .. Len(s) : x = s[i]
    BY <1>2 DEF ToSet
  <2>2. i \in DOMAIN c /\ c[i] = x
    BY <1>1, <1>2, <2>1
  <2> QED BY <2>2 DEF ToSet
<1>5. ASSUME NEW x \in ToSet(t) PROVE x \in ToSet(c)
  <2>1. PICK i \in 1 .. Len(t) : x = t[i]
    BY <1>2 DEF ToSet
  <2>2. Len(s) + i \in DOMAIN c /\ c[Len(s) + i] = x
    BY <1>1, <1>2, <2>1
  <2> QED BY <2>2 DEF ToSet
<1>6. ASSUME NEW x \in ToSet(c) PROVE x \in ToSet(s) \cup ToSet(t)
  <2>1. PICK i \in 1 .. Len(c) : x = c[i]
    BY <1>2 DEF ToSet
  <2> HIDE DEF ToSet
  <2> QED BY <1>3, <2>1
<1> HIDE DEF ToSet
<1>7. IsList(c) /\ ToSet(c) = ToSet(s) \cup ToSet(t)
  BY <1>1, <1>4, <1>5, <1>6
<1> QED
  BY <1>7 DEF c

\* An item that is appended is the last one.
LEMMA AppendList ==
  ASSUME NEW s, IsList(s), NEW x
  PROVE  /\ IsList(Append(s, x)) /\ ToSet(Append(s, x)) = ToSet(s) \cup {x}
         /\ Len(Append(s, x)) = Len(s) + 1 /\ Append(s, x)[Len(s) + 1] = x
         /\ \A i \in 1 .. Len(s) : Append(s, x)[i] = s[i]
<1> DEFINE T == ToSet(s) \cup {x}
<1>1. s \in Seq(T) /\ x \in T
  <2>1. s \in Seq(ToSet(s))
    BY DEF IsList
  <2> HIDE DEF ToSet
  <2> QED BY <2>1
<1> HIDE DEF T
<1>2. ToSet(Append(s, x)) = ToSet(s) \cup {x}
  BY <1>1, AppendToSet
<1>3. Append(s, x) \in Seq(T)
  BY <1>1
<1>4. IsList(Append(s, x))
  BY <1>3, SeqIsList
<1> QED
  BY <1>1, <1>2, <1>4

\* The rest of a list has only items of it.
LEMMA TailList ==
  ASSUME NEW s, IsList(s), s # <<>>
  PROVE  /\ Head(s) \in ToSet(s) /\ IsList(Tail(s)) /\ ToSet(Tail(s)) \subseteq ToSet(s)
<1>1. s \in Seq(ToSet(s))
  BY DEF IsList
<1>2. Head(s) \in ToSet(s) /\ Tail(s) \in Seq(ToSet(s))
  <2> HIDE DEF ToSet
  <2> QED BY <1>1
<1> HIDE DEF ToSet
<1>3. IsList(Tail(s)) /\ \A x \in ToSet(Tail(s)) : x \in ToSet(s)
  BY <1>2, SeqIsList
<1> QED
  BY <1>2, <1>3

\* The list of one item.
LEMMA Single ==
  ASSUME NEW x
  PROVE  IsList(<<x>>) /\ ToSet(<<x>>) = {x} /\ <<x>> # <<>> /\ <<x>>[1] = x
<1>1. <<x>> \in Seq({x}) /\ <<x>> # <<>> /\ <<x>>[1] = x
  OBVIOUS
<1>2. DOMAIN <<x>> = {1}
  OBVIOUS
<1>3. ToSet(<<x>>) = {x}
  BY <1>1, <1>2 DEF ToSet
<1>4. IsList(<<x>>)
  BY <1>1, SeqIsList
<1> QED
  BY <1>1, <1>3, <1>4

\* A list that is not empty has a first item; a list with a member is not empty.
LEMMA FirstPlace ==
  ASSUME NEW s, IsList(s)
  PROVE  /\ s # <<>> => Len(s) >= 1 /\ 1 \in DOMAIN s
         /\ ToSet(s) # {} => s # <<>>
<1>1. s \in Seq(ToSet(s))
  BY DEF IsList
<1>2. s # <<>> => Len(s) >= 1 /\ 1 \in DOMAIN s
  <2> HIDE DEF ToSet
  <2> QED BY <1>1
<1>3. s = <<>> => ToSet(s) = {}
  BY DEF ToSet
<1> HIDE DEF ToSet
<1> QED
  BY <1>2, <1>3

\* What comes first in a concatenation.
LEMMA ConcatFirst ==
  ASSUME NEW s, IsList(s), s # <<>>, NEW t, IsList(t)
  PROVE  IsList(s \o t) /\ s \o t # <<>> /\ (s \o t)[1] = s[1]
<1>1. Len(s) >= 1 /\ Len(s) \in Nat /\ Len(t) \in Nat
  BY FirstPlace, ListShape
<1>2. /\ IsList(s \o t) /\ Len(s \o t) = Len(s) + Len(t)
      /\ \A i \in 1 .. Len(s) : (s \o t)[i] = s[i]
  BY ConcatPlaces
<1>3. Len(s \o t) >= 1
  BY <1>1, <1>2
<1>4. s \o t # <<>>
  BY <1>3
<1> QED
  BY <1>1, <1>2, <1>4

\* The first so many items of a list.
LEMMA Prefix ==
  ASSUME NEW s, IsList(s), NEW n \in Nat
  PROVE  LET t == [i \in 1 .. Min({n, Len(s)}) |-> s[i]]
         IN /\ IsList(t) /\ Len(t) \in Nat /\ Len(t) <= n /\ Len(t) <= Len(s)
            /\ ToSet(t) \subseteq ToSet(s)
            /\ n >= 1 /\ s # <<>> => Len(t) >= 1 /\ t[1] = s[1] /\ s[1] \in ToSet(s)
<1> DEFINE l == Len(s)
           m == Min({n, l})
           t == [i \in 1 .. m |-> s[i]]
<1>1. l \in Nat /\ DOMAIN s = 1 .. l /\ \A i \in 1 .. l : s[i] \in ToSet(s)
  BY ListShape
<1>2. m \in {n, l} /\ m <= n /\ m <= l
  <2> HIDE DEF l
  <2>1. {n, l} \in SUBSET Nat /\ {n, l} # {}
    BY <1>1
  <2> QED BY <2>1, MinIsLeast
<1> HIDE DEF m
<1>3. m \in Nat
  BY <1>1, <1>2
<1>4. IsList(t) /\ Len(t) = m
  <2>1. t = [i \in 1 .. m |-> t[i]]
    OBVIOUS
  <2> HIDE DEF t
  <2> QED BY <1>3, <2>1, ListOf
<1>5. ToSet(t) \subseteq ToSet(s)
  <2>1. \A i \in 1 .. m : t[i] = s[i]
    OBVIOUS
  <2>3. \A i \in 1 .. m : s[i] \in ToSet(s)
    <3> HIDE DEF l
    <3>1. \A i \in 1 .. m : i \in 1 .. l
      BY <1>1, <1>2, <1>3
    <3> QED BY <1>1, <3>1
  <2>2. DOMAIN t = 1 .. m
    OBVIOUS
  <2> HIDE DEF t, l
  <2> QED BY <2>1, <2>2, <2>3 DEF ToSet
<1>6. n >= 1 /\ s # <<>> => m >= 1 /\ t[1] = s[1] /\ s[1] \in ToSet(s)
  <2>1. s # <<>> => l >= 1
    BY FirstPlace
  <2>2. s # <<>> => s[1] \in ToSet(s)
    <3> HIDE DEF l
    <3> QED BY <1>1, <2>1
  <2>3. n >= 1 /\ s # <<>> => m >= 1
    <3> HIDE DEF l
    <3> QED BY <1>1, <1>2, <2>1
  <2>4. m >= 1 => t[1] = s[1]
    BY <1>3
  <2> HIDE DEF t, l
  <2> QED BY <2>2, <2>3, <2>4
<1> QED
  BY <1>1, <1>2, <1>3, <1>4, <1>5, <1>6 DEF m

\* f[n] is what the first n lists come to.
Flattened(f, seqs) ==
  /\ f[1] = seqs[1]
  /\ \A n \in 2 .. Len(seqs) : f[n] = f[n - 1] \o seqs[n]

\* FlattenSeq is the last step of such an f.
LEMMA FlattenUnfolds ==
  ASSUME NEW seqs, IsList(seqs), seqs # <<>>
  PROVE  \E f : Flattened(f, seqs) /\ FlattenSeq(seqs) = f[Len(seqs)]
<1> DEFINE N == Len(seqs)
           Def(n, f) == [i \in 1 .. n |-> IF i = 1 THEN seqs[i] ELSE f[i - 1] \o seqs[i]]
           k == CHOOSE k : k = Def(N, k)
           S == {n \in Nat : \E f : f = Def(n, f)}
<1>1. N \in Nat /\ N >= 1
  BY ListShape, FirstPlace
<1>2. 0 \in S
  <2> DEFINE f == [i \in 1 .. 0 |-> 0]
  <2>1. f = Def(0, f)
    OBVIOUS
  <2> QED BY <2>1
<1>3. ASSUME NEW n \in Nat, n \in S PROVE n + 1 \in S
  <2>1. PICK f : f = Def(n, f)
    BY <1>3
  <2> DEFINE last == IF n + 1 = 1 THEN seqs[n + 1] ELSE f[n] \o seqs[n + 1]
             h == [i \in 1 .. n + 1 |-> IF i = n + 1 THEN last ELSE f[i]]
  <2>2. h[n + 1] = last /\ \A i \in 1 .. n : h[i] = f[i]
    <3> HIDE DEF last
    <3> QED OBVIOUS
  <2>3. ASSUME NEW i \in 1 .. n + 1
        PROVE  h[i] = IF i = 1 THEN seqs[i] ELSE h[i - 1] \o seqs[i]
    <3>1. CASE i = n + 1
      <4>1. i = 1 \/ (i - 1 = n /\ n \in 1 .. n /\ h[n] = f[n])
        BY <2>2, <3>1
      <4> HIDE DEF h
      <4> QED BY <2>2, <3>1, <4>1
    <3>2. CASE i \in 1 .. n
      <4>1. f[i] = IF i = 1 THEN seqs[i] ELSE f[i - 1] \o seqs[i]
        BY <2>1, <3>2
      <4>2. i = 1 \/ i - 1 \in 1 .. n
        BY <3>2
      <4> HIDE DEF h
      <4> QED BY <2>2, <3>2, <4>1, <4>2
    <3> QED BY <3>1, <3>2
  <2>4. h = Def(n + 1, h)
    BY <2>3
  <2> HIDE DEF h, Def
  <2> QED BY <2>4
<1>4. \E f : f = Def(N, f)
  <2> HIDE DEF Def, N
  <2>1. \A n \in Nat : n \in S
    <3> HIDE DEF S
    <3> QED BY <1>2, <1>3, InductionOverNat
  <2> QED BY <1>1, <2>1
<1>5. k = Def(N, k)
  <2> HIDE DEF Def
  <2> QED BY <1>4
<1>6. FlattenSeq(seqs) = k[N]
  <2>1. Len(seqs) # 0
    BY <1>1
  <2>2. FlattenSeq(seqs) = IF Len(seqs) = 0 THEN seqs ELSE k[N]
    BY DEF FlattenSeq
  <2> HIDE DEF k, N
  <2> QED BY <2>1, <2>2
<1>7. Flattened(k, seqs)
  <2> HIDE DEF k
  <2>1. k[1] = seqs[1]
    BY <1>1, <1>5, 1 \in 1 .. N
  <2>2. ASSUME NEW n \in 2 .. N PROVE k[n] = k[n - 1] \o seqs[n]
    <3>1. n \in 1 .. N /\ n # 1
      BY <1>1
    <3> QED BY <1>5, <3>1
  <2> QED BY <2>1, <2>2 DEF Flattened
<1> HIDE DEF k
<1> QED
  BY <1>6, <1>7

\* A list of lists comes to a list of their items.
LEMMA FlattenList ==
  ASSUME NEW seqs, IsList(seqs), \A s \in ToSet(seqs) : IsList(s)
  PROVE  /\ IsList(FlattenSeq(seqs))
         /\ \A x \in ToSet(FlattenSeq(seqs)) : \E s \in ToSet(seqs) : x \in ToSet(s)
<1>1. CASE seqs = <<>>
  <2>1. FlattenSeq(<<>>) = <<>>
    <3>1. Len(<<>>) = 0
      OBVIOUS
    <3> QED BY <3>1 DEF FlattenSeq
  <2>2. IsList(FlattenSeq(seqs)) /\ ToSet(FlattenSeq(seqs)) = {}
    BY <1>1, <2>1, EmptyList
  <2> QED BY <2>2
<1>2. CASE seqs # <<>>
  <2> DEFINE Items == UNION {ToSet(s) : s \in ToSet(seqs)}
  <2>1. PICK f : Flattened(f, seqs) /\ FlattenSeq(seqs) = f[Len(seqs)]
    BY <1>2, FlattenUnfolds
  <2>2. Len(seqs) \in Nat /\ Len(seqs) >= 1 /\ \A i \in 1 .. Len(seqs) : seqs[i] \in ToSet(seqs)
    BY <1>2, ListShape, FirstPlace
  <2> DEFINE Good(n) == IsList(f[n]) /\ ToSet(f[n]) \subseteq Items
             S == {n \in Nat : n >= 1 /\ n <= Len(seqs) => Good(n)}
  <2>3. \A i \in 1 .. Len(seqs) : IsList(seqs[i]) /\ ToSet(seqs[i]) \subseteq Items
    BY <2>2
  <2> HIDE DEF Items
  <2>4. 0 \in S
    OBVIOUS
  <2>5. ASSUME NEW n \in Nat, n \in S PROVE n + 1 \in S
    <3>1. SUFFICES ASSUME n + 1 <= Len(seqs) PROVE Good(n + 1)
      OBVIOUS
    <3>2. n + 1 \in 1 .. Len(seqs)
      BY <2>2, <3>1
    <3>3. CASE n = 0
      <4>1. f[1] = seqs[1]
        BY <2>1 DEF Flattened
      <4> QED BY <2>3, <3>2, <3>3, <4>1
    <3>4. CASE n # 0
      <4>1. Good(n)
        BY <2>2, <2>5, <3>1, <3>4
      <4>2. f[n + 1] = f[n] \o seqs[n + 1]
        <5>1. n + 1 \in 2 .. Len(seqs) /\ (n + 1) - 1 = n
          BY <2>2, <3>1, <3>4
        <5> QED BY <2>1, <5>1 DEF Flattened
      <4>3. IsList(seqs[n + 1]) /\ ToSet(seqs[n + 1]) \subseteq Items
        BY <2>3, <3>2
      <4> QED BY <4>1, <4>2, <4>3, ConcatList
    <3> QED BY <3>3, <3>4
  <2>6. Good(Len(seqs))
    <3>1. \A n \in Nat : n \in S
      <4> HIDE DEF S
      <4> QED BY <2>4, <2>5, InductionOverNat
    <3> QED BY <2>2, <3>1
  <2> QED BY <2>1, <2>6 DEF Items
<1> QED
  BY <1>1, <1>2

\* What a list is numbered with.
LEMMA Numbered ==
  ASSUME NEW s, IsList(s), NEW W
  PROVE  LET t == Sift([i \in DOMAIN s |-> i], W)
         IN IsList(t) /\ \A i \in ToSet(t) : i \in DOMAIN s /\ i \in W
<1> DEFINE numbers == [i \in DOMAIN s |-> i]
<1>1. IsList(numbers) /\ ToSet(numbers) \subseteq DOMAIN s
  <2>1. numbers = [i \in DOMAIN s |-> numbers[i]] /\ ToSet(numbers) \subseteq DOMAIN s
    BY DEF ToSet
  <2> HIDE DEF numbers
  <2> QED BY <2>1, ListOver
<1> HIDE DEF numbers
<1>2. IsList(Sift(numbers, W)) /\ ToSet(Sift(numbers, W)) = ToSet(numbers) \cap W
  BY <1>1, SiftList
<1> QED
  BY <1>1, <1>2 DEF numbers

\* No more is sifted out than there is.
LEMMA SiftShort ==
  ASSUME NEW s, IsList(s), NEW W
  PROVE  Len(Sift(s, W)) <= Len(s)
<1>1. Len(s) \in Nat
  BY ListShape
<1>2. PICK k : Sifted(k, s, W) /\ Sift(s, W) = k[Len(s)]
  BY SiftUnfolds
<1> DEFINE S == {n \in Nat : n <= Len(s) => IsList(k[n]) /\ Len(k[n]) <= n}
<1>3. 0 \in S
  <2>1. k[0] = <<>> /\ Len(<<>>) = 0
    BY <1>2 DEF Sifted
  <2> QED BY <2>1, EmptyList
<1>4. ASSUME NEW n \in Nat, n \in S PROVE n + 1 \in S
  <2>1. SUFFICES ASSUME n + 1 <= Len(s) PROVE IsList(k[n + 1]) /\ Len(k[n + 1]) <= n + 1
    OBVIOUS
  <2>2. IsList(k[n]) /\ Len(k[n]) <= n /\ Len(k[n]) \in Nat
    BY <1>1, <1>4, <2>1, ListShape
  <2>3. k[n + 1] = k[n] \/ k[n + 1] = Append(k[n], s[n + 1])
    <3>1. n + 1 \in 1 .. Len(s) /\ (n + 1) - 1 = n
      BY <1>1, <2>1
    <3> QED BY <1>2, <3>1 DEF Sifted
  <2>4. CASE k[n + 1] = k[n]
    BY <2>2, <2>4
  <2>5. CASE k[n + 1] = Append(k[n], s[n + 1])
    <3>1. IsList(k[n + 1]) /\ Len(k[n + 1]) = Len(k[n]) + 1
      BY <2>2, <2>5, AppendList
    <3> QED BY <2>2, <3>1
  <2> QED BY <2>3, <2>4, <2>5
<1>5. \A n \in Nat : n \in S
  <2> HIDE DEF S
  <2> QED BY <1>3, <1>4, InductionOverNat
<1> QED
  BY <1>1, <1>2, <1>5
=============================================================================
