--------------------------- MODULE DailyRunProofs ---------------------------
(***************************************************************************)
(* Theorems about DailyRun, for every set of runs, every topic, everything *)
(* that servers and models may answer and every place where a run or a     *)
(* write may break off.                                                    *)
(*                                                                         *)
(* The argument about the history: however rows are folded into records,   *)
(* all keys of a record lead to it, and merging loses neither a key nor a  *)
(* version that was read.  So a row that tells of a reading is found again *)
(* under every key it has, and a row that the daily run appends has those  *)
(* of its source.  The argument about a run follows its sources from what  *)
(* it found to what it reads, lists and tells of.                          *)
(***************************************************************************)
EXTENDS DailyRun, ListFacts

-----------------------------------------------------------------------------
(* The history: rows, and the records they fold into.                      *)

\* What merging needs to know of a record.
IsRecord(rec) ==
  /\ rec = [keys |-> rec.keys, version |-> rec.version, at |-> rec.at, outcome |-> rec.outcome,
            successes |-> rec.successes]
  /\ IsList(rec.keys)

\* Every record is found under all of its keys, and only there.
Coherent(records) ==
  \A k \in DOMAIN records :
    /\ IsRecord(records[k])
    /\ k \in ToSet(records[k].keys)
    /\ \A l \in ToSet(records[k].keys) : l \in DOMAIN records /\ records[l] = records[k]

\* Merging two records loses no key and no version that was read.
LEMMA MergedRecord ==
  ASSUME NEW p, IsRecord(p), NEW c, IsRecord(c)
  PROVE  /\ IsRecord(MergeOutcomeRecord(p, c))
         /\ MergeOutcomeRecord(p, c).successes = c.successes \cup p.successes
         /\ ToSet(MergeOutcomeRecord(p, c).keys) = ToSet(p.keys) \cup ToSet(c.keys)
<1> DEFINE m == MergeOutcomeRecord(p, c)
           u == Unrepeated(p.keys \o c.keys)
<1>1. IsList(u) /\ ToSet(u) = ToSet(p.keys) \cup ToSet(c.keys)
  <2>1. IsList(p.keys \o c.keys) /\ ToSet(p.keys \o c.keys) = ToSet(p.keys) \cup ToSet(c.keys)
    BY ConcatList DEF IsRecord
  <2> QED BY <2>1, UnrepeatedList
<1>2. /\ m = [keys |-> m.keys, version |-> m.version, at |-> m.at, outcome |-> m.outcome,
              successes |-> m.successes]
      /\ m.successes = c.successes \cup p.successes /\ m.keys = u
  <2> HIDE DEF u
  <2>1. c = [keys |-> c.keys, version |-> c.version, at |-> c.at, outcome |-> c.outcome,
             successes |-> c.successes]
    BY DEF IsRecord
  <2>2. m = [c EXCEPT !.successes = @ \cup p.successes, !.version = IF @ # 0 THEN @ ELSE p.version,
               !.keys = u, !.outcome = Over(@, p.outcome)]
    BY DEF MergeOutcomeRecord, u
  <2> HIDE DEF m
  <2> QED BY <2>1, <2>2
<1> HIDE DEF m, u
<1> QED
  BY <1>1, <1>2 DEF IsRecord, m

\* m[n] is what the first n records come to.
Merged(m, steps) ==
  /\ m[1] = steps[1]
  /\ \A n \in 2 .. Len(steps) : m[n] = MergeOutcomeRecord(m[n - 1], steps[n])

\* MergeAll is the last step of such an m.
LEMMA MergeAllUnfolds ==
  ASSUME NEW steps, IsList(steps), steps # <<>>
  PROVE  \E m : Merged(m, steps) /\ MergeAll(steps) = m[Len(steps)]
<1> DEFINE N == Len(steps)
           Def(n, f) == [i \in 1 .. n |->
             IF i = 1 THEN steps[1] ELSE MergeOutcomeRecord(f[i - 1], steps[i])]
           k == CHOOSE k : k = Def(N, k)
           S == {n \in Nat : \E f : f = Def(n, f)}
<1>1. N \in Nat /\ N # 0
  <2>1. steps \in Seq(ToSet(steps))
    BY DEF IsList
  <2> HIDE DEF ToSet
  <2> QED BY <2>1
<1>2. 0 \in S
  <2> DEFINE f == [i \in 1 .. 0 |-> 0]
  <2>1. f = Def(0, f)
    OBVIOUS
  <2> QED BY <2>1
<1>3. ASSUME NEW n \in Nat, n \in S PROVE n + 1 \in S
  <2>1. PICK f : f = Def(n, f)
    BY <1>3
  <2> DEFINE last == IF n + 1 = 1 THEN steps[1] ELSE MergeOutcomeRecord(f[n], steps[n + 1])
             h == [i \in 1 .. n + 1 |-> IF i = n + 1 THEN last ELSE f[i]]
  <2>2. h[n + 1] = last /\ \A i \in 1 .. n : h[i] = f[i]
    OBVIOUS
  <2>3. ASSUME NEW i \in 1 .. n + 1
        PROVE  h[i] = IF i = 1 THEN steps[1] ELSE MergeOutcomeRecord(h[i - 1], steps[i])
    <3>1. CASE i = n + 1 /\ i = 1
      BY <3>1
    <3>2. CASE i = n + 1 /\ i # 1
      <4>1. i - 1 = n /\ n \in 1 .. n /\ h[n] = f[n]
        BY <2>2, <3>2
      <4>2. last = MergeOutcomeRecord(f[n], steps[n + 1])
        BY <3>2
      <4> HIDE DEF last, h
      <4> QED BY <2>2, <3>2, <4>1, <4>2
    <3>3. CASE i \in 1 .. n /\ i = 1
      <4>1. f[i] = steps[1]
        BY <2>1, <3>3
      <4> HIDE DEF h
      <4> QED BY <2>2, <3>3, <4>1
    <3>4. CASE i \in 1 .. n /\ i # 1
      <4>1. f[i] = MergeOutcomeRecord(f[i - 1], steps[i])
        BY <2>1, <3>4
      <4>2. h[i] = f[i] /\ h[i - 1] = f[i - 1]
        BY <2>2, <3>4
      <4> HIDE DEF h
      <4> QED BY <3>4, <4>1, <4>2
    <3> QED BY <3>1, <3>2, <3>3, <3>4
  <2>4. h = Def(n + 1, h)
    BY <2>3
  <2> HIDE DEF h, Def
  <2> QED BY <2>4
<1>4. \E f : f = Def(N, f)
  <2> HIDE DEF Def, N
  <2>1. \A n \in Nat : n \in S
    <3> HIDE DEF S
    <3> QED BY <1>2, <1>3, InductionOverNat
  <2> QED BY <1>1, <2>1
<1>5. k = Def(N, k)
  <2> HIDE DEF Def
  <2> QED BY <1>4
<1>6. MergeAll(steps) = k[N]
  BY DEF MergeAll
<1>7. Merged(k, steps)
  <2> HIDE DEF k
  <2>1. k[1] = steps[1]
    BY <1>1, <1>5, 1 \in 1 .. N
  <2>2. ASSUME NEW n \in 2 .. N PROVE k[n] = MergeOutcomeRecord(k[n - 1], steps[n])
    <3>1. n \in 1 .. N /\ n # 1
      BY <1>1
    <3> QED BY <1>5, <3>1
  <2> QED BY <2>1, <2>2 DEF Merged
<1> QED
  BY <1>6, <1>7

\* The record that many come to has the keys and the readings of all of them.
LEMMA MergedAll ==
  ASSUME NEW steps, IsList(steps), steps # <<>>, \A x \in ToSet(steps) : IsRecord(x)
  PROVE  /\ IsRecord(MergeAll(steps))
         /\ \A x \in ToSet(steps) : x.successes \subseteq MergeAll(steps).successes
         /\ \A l : l \in ToSet(MergeAll(steps).keys) <=> \E x \in ToSet(steps) : l \in ToSet(x.keys)
<1> DEFINE N == Len(steps)
<1>1. N \in Nat /\ DOMAIN steps = 1 .. N /\ N # 0 /\ \A i \in 1 .. N : steps[i] \in ToSet(steps)
  <2>1. steps \in Seq(ToSet(steps))
    BY DEF IsList
  <2>2. N \in Nat /\ N # 0
    <3> HIDE DEF ToSet
    <3> QED BY <2>1
  <2> QED BY <2>2, ListShape
<1>2. PICK m : Merged(m, steps) /\ MergeAll(steps) = m[N]
  BY MergeAllUnfolds
<1> DEFINE Upto(n) ==
             /\ IsRecord(m[n])
             /\ \A i \in 1 .. n : steps[i].successes \subseteq m[n].successes
             /\ \A l : l \in ToSet(m[n].keys) <=> \E i \in 1 .. n : l \in ToSet(steps[i].keys)
           S == {n \in Nat : n + 1 <= N => Upto(n + 1)}
<1>3. 0 \in S
  <2>1. m[1] = steps[1] /\ IsRecord(m[1])
    BY <1>1, <1>2 DEF Merged
  <2>2. \A i \in 1 .. 1 : i = 1
    OBVIOUS
  <2>3. Upto(1)
    BY <2>1, <2>2
  <2> QED BY <2>3
<1>4. ASSUME NEW n \in Nat, n \in S PROVE n + 1 \in S
  <2> SUFFICES ASSUME n + 2 <= N PROVE Upto(n + 2)
    BY (n + 1) + 1 = n + 2
  <2>1. n + 2 \in 2 .. N /\ (n + 2) - 1 = n + 1 /\ n + 2 \in 1 .. N
    BY <1>1
  <2>2. Upto(n + 1)
    BY <1>1, <1>4
  <2>3. m[n + 2] = MergeOutcomeRecord(m[n + 1], steps[n + 2])
    BY <1>2, <2>1 DEF Merged
  <2>4. /\ IsRecord(m[n + 2])
        /\ m[n + 2].successes = steps[n + 2].successes \cup m[n + 1].successes
        /\ ToSet(m[n + 2].keys) = ToSet(m[n + 1].keys) \cup ToSet(steps[n + 2].keys)
    BY <1>1, <2>1, <2>2, <2>3, MergedRecord
  <2>5. \A i : i \in 1 .. n + 2 <=> i \in 1 .. n + 1 \/ i = n + 2
    OBVIOUS
  <2> HIDE DEF ToSet
  <2> QED BY <2>2, <2>4, <2>5
<1>5. Upto(N)
  <2>1. \A n \in Nat : n \in S
    <3> HIDE DEF S
    <3> QED BY <1>3, <1>4, InductionOverNat
  <2>2. N - 1 \in Nat /\ (N - 1) + 1 = N
    BY <1>1
  <2> HIDE DEF Upto
  <2> QED BY <1>1, <2>1, <2>2
<1>6. \A x : x \in ToSet(steps) <=> \E i \in 1 .. N : x = steps[i]
  BY <1>1 DEF ToSet
<1> HIDE DEF ToSet, N
<1> QED
  BY <1>2, <1>5, <1>6

\* A successful row: its keys lead to a record that has its reading, and no
\* record loses a reading.
LEMMA AddRowKeeps ==
  ASSUME NEW records, Coherent(records), NEW row, IsList(row.keys)
  PROVE  /\ Coherent(AddRow(records, row))
         /\ \A k \in DOMAIN records : /\ k \in DOMAIN AddRow(records, row)
                                      /\ records[k].successes \subseteq AddRow(records, row)[k].successes
         /\ \A k \in ToSet(row.keys) :
              /\ k \in DOMAIN AddRow(records, row)
              /\ DeepSuccessVersions(row) \subseteq AddRow(records, row)[k].successes
<1> DEFINE known    == Sift(Unrepeated(row.keys), DOMAIN records)
           touched  == Unrepeated([i \in DOMAIN known |-> records[known[i]]])
           oldFirst == RankedBy(touched, [i \in DOMAIN touched |-> <<-touched[i].at>>])
           own      == RecordOf(row)
           steps    == Append(oldFirst, own)
           res      == MergeAll(steps)
           a        == AddRow(records, row)
<1>1. IsList(known) /\ ToSet(known) = ToSet(row.keys) \cap DOMAIN records
  BY UnrepeatedList, SiftList
<1>2. IsList(touched) /\ ToSet(touched) = {records[k] : k \in ToSet(row.keys) \cap DOMAIN records}
  <2> DEFINE under == [i \in DOMAIN known |-> records[known[i]]]
  <2>1. IsList(under) /\ DOMAIN under = DOMAIN known
    <3> HIDE DEF known
    <3>1. under = [i \in DOMAIN known |-> under[i]]
      OBVIOUS
    <3> HIDE DEF under
    <3> QED BY <1>1, <3>1, ListOver
  <2>2. ToSet(under) = {records[k] : k \in ToSet(known)}
    <3> HIDE DEF known
    <3> QED BY DEF ToSet
  <2> HIDE DEF under, known
  <2> QED BY <1>1, <2>1, <2>2, UnrepeatedList DEF under
<1> HIDE DEF known
<1>3. IsList(oldFirst) /\ ToSet(oldFirst) = ToSet(touched)
  <2> HIDE DEF touched
  <2> QED BY <1>2, RankedList
<1> HIDE DEF touched
<1>4. /\ IsRecord(own) /\ ToSet(own.keys) = ToSet(row.keys)
      /\ own.successes = DeepSuccessVersions(row)
  <2>1. IsList(Unrepeated(row.keys)) /\ ToSet(Unrepeated(row.keys)) = ToSet(row.keys)
    BY UnrepeatedList
  <2> HIDE DEF ToSet
  <2> QED BY <2>1 DEF IsRecord, RecordOf
<1> HIDE DEF own, oldFirst
<1>5. IsList(steps) /\ ToSet(steps) = ToSet(touched) \cup {own} /\ steps # <<>>
  <2>1. IsList(steps) /\ ToSet(steps) = ToSet(oldFirst) \cup {own}
    BY <1>3, AppendList
  <2>2. steps # <<>>
    BY <2>1 DEF ToSet
  <2> HIDE DEF steps
  <2> QED BY <1>3, <2>1, <2>2
<1>6. \A x \in ToSet(steps) : IsRecord(x)
  <2> HIDE DEF steps, ToSet
  <2> QED BY <1>2, <1>4, <1>5 DEF Coherent
<1>7. /\ IsRecord(res)
      /\ \A x \in ToSet(steps) : x.successes \subseteq res.successes
      /\ \A l : l \in ToSet(res.keys) <=> \E x \in ToSet(steps) : l \in ToSet(x.keys)
  <2> HIDE DEF steps
  <2> QED BY <1>5, <1>6, MergedAll
<1>8. a = Over([k \in ToSet(res.keys) |-> res], records)
  BY DEF AddRow, known, touched, oldFirst, own
<1> HIDE DEF res, steps, a, ToSet
<1>9. /\ DOMAIN a = ToSet(res.keys) \cup DOMAIN records
      /\ \A k \in ToSet(res.keys) : a[k] = res
      /\ \A k \in DOMAIN records : k \notin ToSet(res.keys) => a[k] = records[k]
  BY <1>8 DEF Over
<1>10. own \in ToSet(steps) /\ \A k \in ToSet(row.keys) \cap DOMAIN records : records[k] \in ToSet(steps)
  BY <1>2, <1>5
<1>11. \A k \in ToSet(row.keys) : k \in ToSet(res.keys)
  BY <1>4, <1>7, <1>10
<1>12. ASSUME NEW k \in DOMAIN records, k \in ToSet(res.keys)
       PROVE  /\ records[k].successes \subseteq res.successes
              /\ \A l \in ToSet(records[k].keys) : l \in ToSet(res.keys)
  <2>1. PICK x \in ToSet(steps) : k \in ToSet(x.keys)
    BY <1>7, <1>12
  <2>2. records[k] \in ToSet(steps)
    <3>1. CASE x = own
      BY <1>4, <1>10, <2>1, <3>1
    <3>2. CASE x \in ToSet(touched)
      <4>1. PICK l \in ToSet(row.keys) \cap DOMAIN records : x = records[l]
        BY <1>2, <3>2
      <4>2. records[k] = x
        BY <2>1, <4>1 DEF Coherent
      <4> QED BY <2>1, <4>2
    <3> QED BY <1>5, <3>1, <3>2
  <2> QED BY <1>7, <2>2
<1>13. Coherent(a)
  <2> SUFFICES ASSUME NEW k \in DOMAIN a
               PROVE  /\ IsRecord(a[k]) /\ k \in ToSet(a[k].keys)
                      /\ \A l \in ToSet(a[k].keys) : l \in DOMAIN a /\ a[l] = a[k]
    BY DEF Coherent
  <2>1. CASE k \in ToSet(res.keys)
    BY <1>7, <1>9, <2>1
  <2>2. CASE k \notin ToSet(res.keys)
    <3>1. k \in DOMAIN records /\ a[k] = records[k]
      BY <1>9, <2>2
    <3>2. IsRecord(records[k]) /\ k \in ToSet(records[k].keys)
      BY <3>1 DEF Coherent
    <3>3. ASSUME NEW l \in ToSet(records[k].keys) PROVE l \in DOMAIN a /\ a[l] = records[k]
      <4>1. l \in DOMAIN records /\ records[l] = records[k]
        BY <3>1 DEF Coherent
      <4>2. l \notin ToSet(res.keys)
        BY <1>12, <2>2, <3>2, <4>1
      <4> QED BY <1>9, <4>1, <4>2
    <3> QED BY <3>1, <3>2, <3>3
  <2> QED BY <2>1, <2>2
<1>14. \A k \in DOMAIN records : k \in DOMAIN a /\ records[k].successes \subseteq a[k].successes
  BY <1>9, <1>12
<1>15. \A k \in ToSet(row.keys) : k \in DOMAIN a /\ DeepSuccessVersions(row) \subseteq a[k].successes
  BY <1>4, <1>7, <1>9, <1>10, <1>11
<1> QED
  BY <1>13, <1>14, <1>15 DEF a

\* f[n] has the records that the first n rows come to.
Latest(f, rows) ==
  /\ f[0] = <<>>
  /\ \A n \in 1 .. Len(rows) :
       f[n] = IF IsSuccessfulOutcome(rows[n]) THEN AddRow(f[n - 1], rows[n]) ELSE f[n - 1]

\* LatestRecords is the last step of such an f.
LEMMA LatestUnfolds ==
  ASSUME NEW rows, Len(rows) \in Nat
  PROVE  \E f : Latest(f, rows) /\ LatestRecords(rows) = f[Len(rows)]
<1> DEFINE N == Len(rows)
           Def(n, f) == [i \in 0 .. n |->
             IF i = 0 THEN <<>>
             ELSE IF IsSuccessfulOutcome(rows[i]) THEN AddRow(f[i - 1], rows[i]) ELSE f[i - 1]]
           k == CHOOSE k : k = Def(N, k)
           S == {n \in Nat : \E f : f = Def(n, f)}
<1>1. 0 \in S
  <2> DEFINE f == [i \in 0 .. 0 |-> <<>>]
  <2>1. f = Def(0, f)
    OBVIOUS
  <2> QED BY <2>1
<1>2. ASSUME NEW n \in Nat, n \in S PROVE n + 1 \in S
  <2>1. PICK f : f = Def(n, f)
    BY <1>2
  <2> DEFINE last == IF IsSuccessfulOutcome(rows[n + 1]) THEN AddRow(f[n], rows[n + 1]) ELSE f[n]
             h == [i \in 0 .. n + 1 |-> IF i = n + 1 THEN last ELSE f[i]]
  <2>2. h[n + 1] = last /\ \A i \in 0 .. n : h[i] = f[i]
    OBVIOUS
  <2>3. ASSUME NEW i \in 0 .. n + 1
        PROVE  h[i] = IF i = 0 THEN <<>>
                      ELSE IF IsSuccessfulOutcome(rows[i]) THEN AddRow(h[i - 1], rows[i]) ELSE h[i - 1]
    <3>1. CASE i = n + 1
      <4>1. i # 0 /\ i - 1 = n /\ h[n] = f[n]
        BY <2>2, <3>1
      <4> HIDE DEF h
      <4> QED BY <2>2, <3>1, <4>1
    <3>2. CASE i = 0
      <4>1. f[0] = <<>> /\ h[0] = f[0]
        BY <2>1, <2>2
      <4> HIDE DEF h
      <4> QED BY <3>2, <4>1
    <3>3. CASE i \in 1 .. n
      <4>1. f[i] = IF IsSuccessfulOutcome(rows[i]) THEN AddRow(f[i - 1], rows[i]) ELSE f[i - 1]
        BY <2>1, <3>3
      <4>2. h[i] = f[i] /\ h[i - 1] = f[i - 1] /\ i # 0
        BY <2>2, <3>3
      <4> HIDE DEF h
      <4> QED BY <4>1, <4>2
    <3> QED BY <3>1, <3>2, <3>3
  <2>4. h = Def(n + 1, h)
    BY <2>3
  <2> HIDE DEF h, Def
  <2> QED BY <2>4
<1>3. \E f : f = Def(N, f)
  <2> HIDE DEF Def, N
  <2>1. \A n \in Nat : n \in S
    <3> HIDE DEF S
    <3> QED BY <1>1, <1>2, InductionOverNat
  <2> QED BY <2>1 DEF N
<1>4. k = Def(N, k)
  <2> HIDE DEF Def
  <2> QED BY <1>3
<1>5. LatestRecords(rows) = k[N]
  BY DEF LatestRecords
<1>6. Latest(k, rows)
  <2> HIDE DEF k
  <2>1. k[0] = <<>>
    BY <1>4, 0 \in 0 .. N
  <2>2. ASSUME NEW n \in 1 .. N
        PROVE  k[n] = IF IsSuccessfulOutcome(rows[n]) THEN AddRow(k[n - 1], rows[n]) ELSE k[n - 1]
    <3>1. n \in 0 .. N /\ n # 0
      OBVIOUS
    <3> QED BY <1>4, <3>1
  <2> QED BY <2>1, <2>2 DEF Latest
<1> QED
  BY <1>5, <1>6

\* What a successful row tells is found under every key it has, whatever was
\* merged into its record since.
LEMMA HistoryKnows ==
  ASSUME NEW rows, Len(rows) \in Nat, \A i \in 1 .. Len(rows) : IsList(rows[i].keys)
  PROVE  /\ Coherent(LatestRecords(rows))
         /\ \A i \in 1 .. Len(rows) : IsSuccessfulOutcome(rows[i]) =>
              \A k \in ToSet(rows[i].keys) :
                /\ k \in DOMAIN LatestRecords(rows)
                /\ DeepSuccessVersions(rows[i]) \subseteq LatestRecords(rows)[k].successes
<1>1. PICK f : Latest(f, rows) /\ LatestRecords(rows) = f[Len(rows)]
  BY LatestUnfolds
<1> DEFINE Knows(n) ==
             /\ Coherent(f[n])
             /\ \A i \in 1 .. n : IsSuccessfulOutcome(rows[i]) =>
                  \A k \in ToSet(rows[i].keys) :
                    /\ k \in DOMAIN f[n]
                    /\ DeepSuccessVersions(rows[i]) \subseteq f[n][k].successes
           S == {n \in Nat : n <= Len(rows) => Knows(n)}
<1>2. 0 \in S
  <2>1. f[0] = <<>> /\ DOMAIN <<>> = {}
    BY <1>1 DEF Latest
  <2>2. Coherent(f[0])
    BY <2>1 DEF Coherent
  <2> QED BY <2>2
<1>3. ASSUME NEW n \in Nat, n \in S PROVE n + 1 \in S
  <2> SUFFICES ASSUME n + 1 <= Len(rows) PROVE Knows(n + 1)
    OBVIOUS
  <2>1. Knows(n) /\ n + 1 \in 1 .. Len(rows) /\ (n + 1) - 1 = n
    BY <1>3
  <2>2. f[n + 1] = IF IsSuccessfulOutcome(rows[n + 1]) THEN AddRow(f[n], rows[n + 1]) ELSE f[n]
    BY <1>1, <2>1 DEF Latest
  <2>3. \A i \in 1 .. n + 1 : i \in 1 .. n \/ i = n + 1
    OBVIOUS
  <2>4. CASE ~IsSuccessfulOutcome(rows[n + 1])
    BY <2>1, <2>2, <2>3, <2>4
  <2>5. CASE IsSuccessfulOutcome(rows[n + 1])
    <3>1. f[n + 1] = AddRow(f[n], rows[n + 1]) /\ IsList(rows[n + 1].keys)
      BY <2>1, <2>2, <2>5
    <3>2. /\ Coherent(f[n + 1])
          /\ \A k \in DOMAIN f[n] : k \in DOMAIN f[n + 1] /\ f[n][k].successes \subseteq f[n + 1][k].successes
          /\ \A k \in ToSet(rows[n + 1].keys) :
               k \in DOMAIN f[n + 1] /\ DeepSuccessVersions(rows[n + 1]) \subseteq f[n + 1][k].successes
      BY <2>1, <3>1, AddRowKeeps
    <3>3. ASSUME NEW i \in 1 .. n + 1, IsSuccessfulOutcome(rows[i]), NEW k \in ToSet(rows[i].keys)
          PROVE  k \in DOMAIN f[n + 1] /\ DeepSuccessVersions(rows[i]) \subseteq f[n + 1][k].successes
      <4>1. CASE i = n + 1
        BY <3>2, <3>3, <4>1
      <4>2. CASE i \in 1 .. n
        <5>1. k \in DOMAIN f[n] /\ DeepSuccessVersions(rows[i]) \subseteq f[n][k].successes
          BY <2>1, <3>3, <4>2
        <5> QED BY <3>2, <5>1
      <4> QED BY <2>3, <4>1, <4>2
    <3> QED BY <3>2, <3>3
  <2> QED BY <2>4, <2>5
<1>4. Knows(Len(rows))
  <2>1. Len(rows) \in S
    <3> HIDE DEF S
    <3> QED BY <1>2, <1>3, InductionOverNat
  <2> QED BY <2>1
<1> QED
  BY <1>1, <1>4

-----------------------------------------------------------------------------
(* Sources: what selecting, replacing and ranking makes of a list of them. *)

\* The last source of an address that some source has is of that address.
LEMMA LastAtPlace ==
  ASSUME NEW s, IsList(s), NEW url \in Urls(s)
  PROVE  LastAt(s, url) \in DOMAIN s /\ s[LastAt(s, url)].url = url
<1> DEFINE P == {i \in DOMAIN s : s[i].url = url}
<1>1. Len(s) \in Nat /\ DOMAIN s = 1 .. Len(s)
  BY ListShape
<1>2. P \in SUBSET Nat /\ P # {} /\ \A x \in P : x <= Len(s)
  BY <1>1 DEF Urls, ToSet
<1>3. Max(P) \in P
  <2> HIDE DEF P
  <2> QED BY <1>1, <1>2, MaxIsLargest
<1> QED
  BY <1>3 DEF LastAt

\* _replace_candidates adds no source but the replacements.
LEMMA ReplacedList ==
  ASSUME NEW c, IsList(c), NEW t, IsList(t)
  PROVE  /\ IsList(ReplaceCandidates(c, t))
         /\ ToSet(ReplaceCandidates(c, t)) \subseteq ToSet(c) \cup ToSet(t)
<1> DEFINE d == ReplaceCandidates(c, t)
<1>1. d = [i \in DOMAIN c |-> IF c[i].url \in Urls(t) THEN t[LastAt(t, c[i].url)] ELSE c[i]]
  BY DEF ReplaceCandidates
<1>2. d = [i \in DOMAIN c |-> d[i]] /\ DOMAIN d = DOMAIN c
  BY <1>1
<1> HIDE DEF d
<1>3. IsList(d)
  BY <1>2, ListOver
<1>4. ASSUME NEW i \in DOMAIN c PROVE d[i] \in ToSet(c) \cup ToSet(t)
  <2>1. CASE c[i].url \in Urls(t)
    <3>1. LastAt(t, c[i].url) \in DOMAIN t
      BY <2>1, LastAtPlace
    <3>2. t[LastAt(t, c[i].url)] \in ToSet(t)
      BY <3>1, ListShape
    <3> QED BY <1>1, <2>1, <3>2
  <2>2. CASE c[i].url \notin Urls(t)
    <3>1. c[i] \in ToSet(c)
      BY ListShape
    <3> QED BY <1>1, <2>2, <3>1
  <2> QED BY <2>1, <2>2
<1>5. \A x \in ToSet(d) : \E i \in DOMAIN c : x = d[i]
  BY <1>2 DEF ToSet
<1> HIDE DEF ToSet
<1>6. ToSet(d) \subseteq ToSet(c) \cup ToSet(t)
  BY <1>4, <1>5
<1> QED
  BY <1>3, <1>6 DEF d

\* list({url: source}.values()) has sources of the list only.
LEMMA OnePerUrlList ==
  ASSUME NEW s, IsList(s)
  PROVE  IsList(OnePerUrl(s)) /\ ToSet(OnePerUrl(s)) \subseteq ToSet(s)
<1> DEFINE places == [i \in DOMAIN s |-> i]
           first  == {i \in DOMAIN s : \A j \in 1 .. i - 1 : s[j].url # s[i].url}
           chosen == Sift(places, first)
           d      == OnePerUrl(s)
<1>1. IsList(places) /\ ToSet(places) = DOMAIN s
  <2>1. places = [i \in DOMAIN s |-> places[i]]
    OBVIOUS
  <2>2. ToSet(places) = DOMAIN s
    BY DEF ToSet
  <2> HIDE DEF places
  <2> QED BY <2>1, <2>2, ListOver
<1>2. IsList(chosen) /\ ToSet(chosen) \subseteq DOMAIN s
  <2> HIDE DEF places, first, ToSet
  <2> QED BY <1>1, SiftList
<1>3. d = [k \in DOMAIN chosen |-> s[LastAt(s, s[chosen[k]].url)]]
  BY DEF OnePerUrl
<1> HIDE DEF d, chosen, first, places
<1>4. IsList(d) /\ DOMAIN d = DOMAIN chosen
  <2>1. d = [k \in DOMAIN chosen |-> d[k]]
    BY <1>3
  <2> QED BY <1>2, <2>1, ListOver
<1>5. ASSUME NEW k \in DOMAIN chosen PROVE d[k] \in ToSet(s)
  <2>1. chosen[k] \in DOMAIN s
    BY <1>2, ListShape
  <2>2. s[chosen[k]].url \in Urls(s)
    BY <2>1, ListShape DEF Urls
  <2>3. LastAt(s, s[chosen[k]].url) \in DOMAIN s
    BY <2>2, LastAtPlace
  <2> QED BY <1>3, <2>3, ListShape
<1>6. \A x \in ToSet(d) : \E k \in DOMAIN chosen : x = d[k]
  BY <1>4 DEF ToSet
<1> HIDE DEF ToSet
<1>7. IsList(d) /\ ToSet(d) \subseteq ToSet(s)
  BY <1>4, <1>5, <1>6
<1> QED
  BY <1>7 DEF d

\* The candidates for a reading are candidates.
LEMMA PoolList ==
  ASSUME NEW s, IsList(s), NEW intent
  PROVE  IsList(CandidatePool(s, intent)) /\ ToSet(CandidatePool(s, intent)) \subseteq ToSet(s)
<1> DEFINE noLists == Sift(s, {x \in ToSet(s) : x.role # "survey_or_list"})
           papers  == Sift(s, {x \in ToSet(s) : /\ x.role \in {"primary_paper", "benchmark_paper"}
                                                /\ x.relevance >= 6000})
<1>1. IsList(noLists) /\ ToSet(noLists) \subseteq ToSet(s)
  <2>1. IsList(noLists) /\ ToSet(noLists) = ToSet(s) \cap {x \in ToSet(s) : x.role # "survey_or_list"}
    BY SiftList
  <2> HIDE DEF ToSet, noLists
  <2> QED BY <2>1
<1>2. IsList(papers) /\ ToSet(papers) \subseteq ToSet(s)
  <2> DEFINE W == {x \in ToSet(s) : /\ x.role \in {"primary_paper", "benchmark_paper"}
                                    /\ x.relevance >= 6000}
  <2>1. IsList(papers) /\ ToSet(papers) = ToSet(s) \cap W
    BY SiftList
  <2> HIDE DEF ToSet, papers
  <2> QED BY <2>1
<1>3. CandidatePool(s, intent) \in {s, noLists, papers}
  BY DEF CandidatePool
<1> HIDE DEF noLists, papers, ToSet
<1> QED
  BY <1>1, <1>2, <1>3

\* Ranking them only changes their order.
LEMMA RankedPool ==
  ASSUME NEW s, IsList(s), NEW intent
  PROVE  /\ IsList(RankedDeepCandidates(s, intent))
         /\ ToSet(RankedDeepCandidates(s, intent)) = ToSet(CandidatePool(s, intent))
  BY PoolList, RankedList DEF RankedDeepCandidates

\* A candidate for a reading stays one when others are taken out; or, in a
\* scan, something else is one.
LEMMA PoolOfSome ==
  ASSUME NEW s, IsList(s), NEW t, IsList(t), NEW intent,
         NEW x \in ToSet(CandidatePool(s, intent)), x \in ToSet(t)
  PROVE  ToSet(CandidatePool(t, intent)) # {}
<1> DEFINE noLists(u) == Sift(u, {y \in ToSet(u) : y.role # "survey_or_list"})
           W(u) == {y \in ToSet(u) : /\ y.role \in {"primary_paper", "benchmark_paper"}
                                     /\ y.relevance >= 6000}
<1>1. CASE intent = "research_brief"
  <2>1. CandidatePool(s, intent) = Sift(s, W(s)) /\ CandidatePool(t, intent) = Sift(t, W(t))
    BY <1>1 DEF CandidatePool
  <2>2. ToSet(Sift(s, W(s))) = ToSet(s) \cap W(s) /\ ToSet(Sift(t, W(t))) = ToSet(t) \cap W(t)
    BY SiftList
  <2> HIDE DEF ToSet
  <2>3. x \in W(t)
    BY <2>1, <2>2
  <2> QED BY <2>1, <2>2, <2>3
<1>2. CASE intent # "research_brief" /\ noLists(t) # <<>>
  <2>1. CandidatePool(t, intent) = noLists(t)
    BY <1>2 DEF CandidatePool
  <2>2. IsList(noLists(t))
    BY SiftList
  <2>3. Head(noLists(t)) \in ToSet(noLists(t))
    <3> HIDE DEF noLists
    <3> QED BY <1>2, <2>2, TailList
  <2> QED BY <2>1, <2>3
<1>3. CASE intent # "research_brief" /\ noLists(t) = <<>>
  <2>1. CandidatePool(t, intent) = t
    BY <1>3 DEF CandidatePool
  <2> QED BY <2>1
<1> QED
  BY <1>1, <1>2, <1>3

\* k[n] is what is listed of the first n of the ranked.
Listing(k, ranked, readUrls, dedupe) ==
  /\ k[0] = <<>>
  /\ \A n \in 1 .. Len(ranked) :
       k[n] = IF JoinsList(k[n - 1], ranked[n], readUrls, dedupe)
              THEN Append(k[n - 1], ranked[n]) ELSE k[n - 1]

\* There is such a k.
LEMMA ListingExists ==
  ASSUME NEW s, IsList(s), NEW readUrls, NEW dedupe
  PROVE  \E f \in [0 .. Len(s) -> Seq(ToSet(s))] : Listing(f, s, readUrls, dedupe)
<1> DEFINE T == Seq(ToSet(s))
           g == [p \in T \X Nat |->
                   IF p[2] \in 1 .. Len(s) /\ JoinsList(p[1], s[p[2]], readUrls, dedupe)
                   THEN Append(p[1], s[p[2]]) ELSE p[1]]
<1>1. Len(s) \in Nat /\ DOMAIN s = 1 .. Len(s) /\ \A i \in 1 .. Len(s) : s[i] \in ToSet(s)
  BY ListShape
<1>2. g \in [T \X Nat -> T]
  BY <1>1
<1>3. PICK f : Iterates(f, T, <<>>, g, Len(s))
  <2>1. <<>> \in T
    OBVIOUS
  <2> HIDE DEF g, T
  <2> QED BY <1>1, <1>2, <2>1, Iteration
<1>4. f \in [0 .. Len(s) -> T] /\ f[0] = <<>>
  BY <1>3 DEF Iterates
<1>5. ASSUME NEW n \in 1 .. Len(s)
      PROVE  f[n] = IF JoinsList(f[n - 1], s[n], readUrls, dedupe)
                    THEN Append(f[n - 1], s[n]) ELSE f[n - 1]
  <2>1. n - 1 \in 0 .. Len(s) /\ n \in Nat
    BY <1>1
  <2>2. <<f[n - 1], n>> \in T \X Nat
    BY <2>1, <1>4
  <2> QED BY <1>3, <2>2 DEF Iterates
<1> QED
  BY <1>4, <1>5 DEF Listing

\* select_public_report_sources lists nothing but what it is given.
LEMMA PublicSources ==
  ASSUME NEW s, IsList(s), NEW readUrls, NEW dedupe, NEW intent
  PROVE  /\ IsList(SelectPublicReportSources(s, readUrls, dedupe, intent))
         /\ ToSet(SelectPublicReportSources(s, readUrls, dedupe, intent)) \subseteq ToSet(s)
<1>1. CASE intent # "research_brief"
  BY <1>1 DEF SelectPublicReportSources
<1>2. CASE intent = "research_brief"
  <2> DEFINE keys == [i \in DOMAIN s |-> <<IF s[i].url \in readUrls THEN 1 ELSE 0>>
                                           \o SelectionKey(s[i], intent)]
             t == RankedBy(s, keys)
             Def(k) == [n \in 0 .. Len(t) |->
                        IF n = 0 THEN <<>>
                        ELSE IF JoinsList(k[n - 1], t[n], readUrls, dedupe)
                             THEN Append(k[n - 1], t[n]) ELSE k[n - 1]]
             k == CHOOSE k : k = Def(k)
  <2>1. SelectPublicReportSources(s, readUrls, dedupe, intent) = k[Len(t)]
    BY <1>2 DEF SelectPublicReportSources
  <2>2. IsList(t) /\ ToSet(t) = ToSet(s)
    <3> HIDE DEF keys
    <3> QED BY RankedList
  <2> HIDE DEF t, keys
  <2>3. Len(t) \in Nat /\ DOMAIN t = 1 .. Len(t) /\ \A i \in 1 .. Len(t) : t[i] \in ToSet(t)
    BY <2>2, ListShape
  <2>4. k = Def(k)
    <3>1. PICK f \in [0 .. Len(t) -> Seq(ToSet(t))] : Listing(f, t, readUrls, dedupe)
      BY <2>2, ListingExists
    <3>2. \A n \in 0 .. Len(t) : n = 0 \/ n \in 1 .. Len(t)
      BY <2>3
    <3>3. f = Def(f)
      <4> HIDE DEF ToSet
      <4> QED BY <3>1, <3>2, <2>3 DEF Listing
    <3> HIDE DEF Def
    <3> QED BY <3>3
  <2> HIDE DEF k
  <2> DEFINE S == {n \in Nat : n <= Len(t) => k[n] \in Seq(ToSet(t))}
  <2>5. 0 \in S
    <3>1. k[0] = <<>> /\ <<>> \in Seq(ToSet(t))
      BY <2>3, <2>4, 0 \in 0 .. Len(t)
    <3> QED BY <3>1
  <2>6. ASSUME NEW n \in Nat, n \in S PROVE n + 1 \in S
    <3> SUFFICES ASSUME n + 1 <= Len(t) PROVE k[n + 1] \in Seq(ToSet(t))
      OBVIOUS
    <3>1. k[n] \in Seq(ToSet(t)) /\ n + 1 \in 0 .. Len(t) /\ n + 1 # 0 /\ (n + 1) - 1 = n
      BY <2>3, <2>6
    <3>2. t[n + 1] \in ToSet(t)
      BY <2>3
    <3>3. k[n + 1] = IF JoinsList(k[n], t[n + 1], readUrls, dedupe)
                     THEN Append(k[n], t[n + 1]) ELSE k[n]
      BY <2>4, <3>1
    <3> HIDE DEF ToSet
    <3> QED BY <3>1, <3>2, <3>3
  <2>7. k[Len(t)] \in Seq(ToSet(t))
    <3>1. Len(t) \in S
      <4> HIDE DEF S
      <4> QED BY <2>3, <2>5, <2>6, InductionOverNat
    <3> QED BY <2>3, <3>1
  <2>8. IsList(k[Len(t)]) /\ \A x \in ToSet(k[Len(t)]) : x \in ToSet(t)
    BY <2>7, SeqIsList
  <2> HIDE DEF ToSet
  <2> QED BY <2>1, <2>2, <2>8
<1> QED
  BY <1>1, <1>2

-----------------------------------------------------------------------------
(* The names of a source, and what the history makes of it.                *)

\* An identifier is one key at the most.
LEMMA NamedList ==
  ASSUME NEW kind, NEW value
  PROVE  IsList(Named(kind, value))
  BY Single, EmptyList DEF Named

\* The primary key of a source is one key at the most; its arXiv key, if it has one.
LEMMA PrimaryKey ==
  ASSUME NEW s
  PROVE  /\ IsList(PrimaryFamilyKey(s))
         /\ s.arxiv # "" => PrimaryFamilyKey(s) = << <<"arxiv", s.arxiv>> >>
<1> DEFINE a == Named("arxiv", s.arxiv)
           d == Named("doi", s.doi)
           c == IF s.canonical = <<>> THEN <<>> ELSE <<s.canonical>>
           g == Named("github", s.repo)
           u == Named("url", s.address)
           keys == a \o d \o c \o g \o u
<1>1. IsList(a) /\ IsList(d) /\ IsList(c) /\ IsList(g) /\ IsList(u)
  BY NamedList, Single, EmptyList
<1>2. PrimaryFamilyKey(s) = IF keys = <<>> THEN <<>> ELSE <<keys[1]>>
  BY DEF PrimaryFamilyKey
<1>3. ASSUME s.arxiv # "" PROVE keys # <<>> /\ keys[1] = <<"arxiv", s.arxiv>>
  <2>1. a = << <<"arxiv", s.arxiv>> >>
    BY <1>3 DEF Named
  <2>2. a # <<>> /\ a[1] = <<"arxiv", s.arxiv>>
    BY <2>1, Single
  <2> HIDE DEF a, d, c, g, u
  <2>3. IsList(a \o d) /\ a \o d # <<>> /\ (a \o d)[1] = a[1]
    BY <1>1, <2>2, ConcatFirst
  <2>4. IsList(a \o d \o c) /\ a \o d \o c # <<>> /\ (a \o d \o c)[1] = a[1]
    BY <1>1, <2>3, ConcatFirst
  <2>5. IsList(a \o d \o c \o g) /\ a \o d \o c \o g # <<>> /\ (a \o d \o c \o g)[1] = a[1]
    BY <1>1, <2>4, ConcatFirst
  <2>6. keys # <<>> /\ keys[1] = a[1]
    BY <1>1, <2>5, ConcatFirst
  <2> QED BY <2>2, <2>6
<1> HIDE DEF keys
<1>4. IsList(PrimaryFamilyKey(s))
  BY <1>2, Single, EmptyList
<1> QED
  BY <1>2, <1>3, <1>4

\* source_family_keys: a list, with the arXiv key in front if there is one.
LEMMA FamilyKeysOf ==
  ASSUME NEW s
  PROVE  /\ IsList(FamilyKeys(s))
         /\ s.arxiv # "" => /\ FamilyKeys(s) # <<>> /\ FamilyKeys(s)[1] = <<"arxiv", s.arxiv>>
                            /\ <<"arxiv", s.arxiv>> \in ToSet(FamilyKeys(s))
         /\ s.type = "paper" /\ s.title # "" => <<"title", s.title>> \in ToSet(FamilyKeys(s))
<1> DEFINE own    == PrimaryFamilyKey(s)
           title  == Named("title", s.title)
           strong == Sift(own, {k \in ToSet(own) : ~WeakKey(k)})
           weak   == Sift(own, {k \in ToSet(own) : WeakKey(k)})
<1>1. IsList(own) /\ IsList(title)
  BY PrimaryKey, NamedList
<1>2. IsList(strong) /\ ToSet(strong) = {k \in ToSet(own) : ~WeakKey(k)} /\ IsList(weak)
  <2>1. /\ IsList(strong) /\ ToSet(strong) = ToSet(own) \cap {k \in ToSet(own) : ~WeakKey(k)}
        /\ IsList(weak)
    <3> HIDE DEF own
    <3> QED BY <1>1, SiftList
  <2> HIDE DEF own, strong, ToSet
  <2> QED BY <2>1
<1>3. FamilyKeys(s) = IF s.type # "paper" THEN own ELSE strong \o title \o weak
  BY DEF FamilyKeys
<1> HIDE DEF strong, weak
<1>4. /\ IsList(strong \o title) /\ ToSet(strong \o title) = ToSet(strong) \cup ToSet(title)
      /\ IsList(strong \o title \o weak)
      /\ ToSet(strong \o title \o weak) = ToSet(strong \o title) \cup ToSet(weak)
  <2> HIDE DEF own, title
  <2>1. IsList(strong \o title) /\ ToSet(strong \o title) = ToSet(strong) \cup ToSet(title)
    BY <1>1, <1>2, ConcatList
  <2> QED BY <1>2, <2>1, ConcatList
<1>5. ASSUME s.arxiv # ""
      PROVE  FamilyKeys(s) # <<>> /\ FamilyKeys(s)[1] = <<"arxiv", s.arxiv>>
  <2>1. own = << <<"arxiv", s.arxiv>> >> /\ ~WeakKey(<<"arxiv", s.arxiv>>)
    BY <1>5, PrimaryKey DEF WeakKey
  <2>2. CASE s.type # "paper"
    BY <1>3, <2>1, <2>2
  <2>3. CASE s.type = "paper"
    <3>1. ToSet(own) = {<<"arxiv", s.arxiv>>}
      BY <2>1, Single
    <3>2. ToSet(strong) = {<<"arxiv", s.arxiv>>}
      <4> HIDE DEF ToSet, own
      <4> QED BY <1>2, <2>1, <3>1
    <3>3. strong # <<>> /\ strong[1] \in ToSet(strong)
      BY <1>2, <3>2, FirstPlace, ListShape
    <3>4. strong[1] = <<"arxiv", s.arxiv>>
      <4> HIDE DEF ToSet
      <4> QED BY <3>2, <3>3
    <3> HIDE DEF title, own
    <3>5. IsList(strong \o title) /\ strong \o title # <<>> /\ (strong \o title)[1] = strong[1]
      BY <1>1, <1>2, <3>3, ConcatFirst
    <3>6. strong \o title \o weak # <<>> /\ (strong \o title \o weak)[1] = strong[1]
      BY <1>2, <3>5, ConcatFirst
    <3> QED BY <1>3, <2>3, <3>4, <3>6
  <2> QED BY <2>2, <2>3
<1>6. IsList(FamilyKeys(s))
  <2> HIDE DEF own, title
  <2> QED BY <1>1, <1>3, <1>4
<1>7. ASSUME s.arxiv # "" PROVE <<"arxiv", s.arxiv>> \in ToSet(FamilyKeys(s))
  <2>1. FamilyKeys(s) # <<>> /\ FamilyKeys(s)[1] = <<"arxiv", s.arxiv>>
    BY <1>5, <1>7
  <2> DEFINE keys == FamilyKeys(s)
  <2>2. keys \in Seq(ToSet(keys))
    BY <1>6 DEF IsList
  <2>3. 1 \in DOMAIN keys
    <3> HIDE DEF ToSet, keys
    <3>1. keys # <<>>
      BY <2>1 DEF keys
    <3> QED BY <2>2, <3>1
  <2> QED BY <1>6, <2>1, <2>3, ListShape
<1>8. ASSUME s.type = "paper", s.title # "" PROVE <<"title", s.title>> \in ToSet(FamilyKeys(s))
  <2>1. title = << <<"title", s.title>> >>
    BY <1>8 DEF Named
  <2>2. ToSet(title) = {<<"title", s.title>>}
    BY <2>1, Single
  <2> HIDE DEF title, own, ToSet
  <2> QED BY <1>3, <1>4, <1>8, <2>2
<1> QED
  BY <1>5, <1>6, <1>7, <1>8

\* _annotate_candidate: what is relevant and was not read is eligible, and
\* what was seen has a key.
LEMMA Annotation ==
  ASSUME NEW s, NEW records
  PROVE  LET n == AnnotateSource(s, records)
         IN /\ n.keys = FamilyKeys(s)
            /\ s.relevant /\ ~n.succeeded => IsDeepReadEligible(n)
            /\ n.status = "seen" => FamilyKeys(s) # <<>> /\ ~IsReportable(n)
<1> DEFINE found    == PreviousRecord(records, FamilyKeys(s))
           previous == IF found = {} THEN 0 ELSE (CHOOSE r \in found : TRUE).version
           success  == \E r \in found :
             (IF SourceVersion(s) # 0 THEN SourceVersion(s) ELSE previous) \in r.successes
           plain    == [NoHistory EXCEPT !.keys = FamilyKeys(s), !.version = SourceVersion(s)]
           newer    == IsNewerVersion(SourceVersion(s), previous)
           n        == AnnotateSource(s, records)
<1>1. /\ DOMAIN plain = {"status", "keys", "version", "previous", "succeeded"}
      /\ plain.keys = FamilyKeys(s) /\ plain.status = "not_tracked" /\ plain.succeeded = FALSE
  BY DEF NoHistory
<1>2. n = CASE ~s.relevant -> [plain EXCEPT !.status = "not_reported"]
            [] s.relevant /\ FamilyKeys(s) = <<>> -> plain
            [] s.relevant /\ FamilyKeys(s) # <<>> /\ found = {} -> [plain EXCEPT !.status = "new"]
            [] OTHER -> [plain EXCEPT !.status = IF newer THEN "version_update" ELSE "seen",
                                      !.previous = previous, !.succeeded = success]
  BY DEF AnnotateSource
<1> HIDE DEF n, found, previous, success, plain, newer
<1>3. CASE ~s.relevant
  <2>1. n = [plain EXCEPT !.status = "not_reported"]
    BY <1>2, <1>3
  <2>2. n.keys = FamilyKeys(s) /\ n.status = "not_reported"
    BY <1>1, <2>1
  <2> QED BY <1>3, <2>2 DEF n
<1>4. CASE s.relevant /\ FamilyKeys(s) = <<>>
  <2>1. n = plain
    BY <1>2, <1>4
  <2>2. n.keys = FamilyKeys(s) /\ n.status = "not_tracked"
    BY <1>1, <2>1
  <2> QED BY <2>2 DEF n, IsDeepReadEligible, IsReportable
<1>5. CASE s.relevant /\ FamilyKeys(s) # <<>> /\ found = {}
  <2>1. n = [plain EXCEPT !.status = "new"]
    BY <1>2, <1>5
  <2>2. n.keys = FamilyKeys(s) /\ n.status = "new"
    BY <1>1, <2>1
  <2> QED BY <2>2 DEF n, IsDeepReadEligible, IsReportable
<1>6. CASE s.relevant /\ FamilyKeys(s) # <<>> /\ found # {}
  <2>1. n = [plain EXCEPT !.status = IF newer THEN "version_update" ELSE "seen",
                          !.previous = previous, !.succeeded = success]
    BY <1>2, <1>6
  <2>2. n.keys = FamilyKeys(s) /\ n.status \in {"version_update", "seen"}
    BY <1>1, <2>1
  <2> QED BY <1>6, <2>2 DEF n, IsDeepReadEligible, IsReportable
<1> QED
  BY <1>3, <1>4, <1>5, <1>6

\* A relevant source whose first key leads to a record that has its version
\* among those read is told to have been read.
LEMMA Remembered ==
  ASSUME NEW s, s.relevant, SourceVersion(s) # 0, NEW records,
         <<"arxiv", s.arxiv>> \in DOMAIN records,
         SourceVersion(s) \in records[<<"arxiv", s.arxiv>>].successes
  PROVE  AnnotateSource(s, records).succeeded
<1> DEFINE keys     == FamilyKeys(s)
           key      == <<"arxiv", s.arxiv>>
           hits     == {i \in DOMAIN keys : keys[i] \in DOMAIN records}
           found    == PreviousRecord(records, keys)
           previous == IF found = {} THEN 0 ELSE (CHOOSE r \in found : TRUE).version
           success  == \E r \in found :
             (IF SourceVersion(s) # 0 THEN SourceVersion(s) ELSE previous) \in r.successes
           plain    == [NoHistory EXCEPT !.keys = keys, !.version = SourceVersion(s)]
           newer    == IsNewerVersion(SourceVersion(s), previous)
<1>1. IsList(keys) /\ keys # <<>> /\ keys[1] = key
  BY FamilyKeysOf DEF SourceVersion
<1>2. Len(keys) \in Nat /\ DOMAIN keys = 1 .. Len(keys) /\ 1 \in DOMAIN keys
  <2>1. keys \in Seq(ToSet(keys)) /\ Len(keys) \in Nat /\ DOMAIN keys = 1 .. Len(keys)
    BY <1>1, ListShape DEF IsList
  <2> HIDE DEF ToSet, keys
  <2> QED BY <1>1, <2>1
<1> HIDE DEF keys
<1>3. hits \in SUBSET Nat /\ 1 \in hits
  BY <1>1, <1>2
<1>4. Min(hits) = 1
  <2>1. Min(hits) \in hits /\ Min(hits) <= 1
    <3> HIDE DEF hits
    <3> QED BY <1>3, MinIsLeast
  <2> HIDE DEF hits
  <2> QED BY <1>2, <2>1 DEF hits
<1>5. found = {records[key]}
  <2>1. found = IF hits = {} THEN {} ELSE {records[keys[Min(hits)]]}
    BY DEF PreviousRecord
  <2> HIDE DEF found, hits
  <2> QED BY <1>1, <1>3, <1>4, <2>1
<1>6. AnnotateSource(s, records) =
        [plain EXCEPT !.status = IF newer THEN "version_update" ELSE "seen",
                      !.previous = previous, !.succeeded = success]
  <2>1. AnnotateSource(s, records) =
          CASE ~s.relevant -> [plain EXCEPT !.status = "not_reported"]
            [] s.relevant /\ keys = <<>> -> plain
            [] s.relevant /\ keys # <<>> /\ found = {} -> [plain EXCEPT !.status = "new"]
            [] OTHER -> [plain EXCEPT !.status = IF newer THEN "version_update" ELSE "seen",
                                      !.previous = previous, !.succeeded = success]
    BY DEF AnnotateSource, keys
  <2>2. keys # <<>> /\ found # {}
    BY <1>1, <1>5
  <2> HIDE DEF found, previous, success, plain, newer
  <2> QED BY <2>1, <2>2
<1>7. "succeeded" \in DOMAIN plain
  BY DEF NoHistory
<1>8. success
  <2> HIDE DEF found, previous
  <2> QED BY <1>5
<1> HIDE DEF success, plain, newer, previous, found
<1> QED
  BY <1>6, <1>7, <1>8

-----------------------------------------------------------------------------
(* The candidates of a run.                                                *)

\* What discovery may ever bring.
All == UNION {ToSet(FoundSources(w)) : w \in Worlds}

\* In a brief only papers are read: the roles of papers are given to papers.
LEMMA PapersOnly ==
  ASSUME NEW s \in All, s.role \in {"primary_paper", "benchmark_paper"}
  PROVE  s.type = "paper"
<1>1. PICK w \in Worlds : s \in ToSet(FoundSources(w))
  BY DEF All
<1> DEFINE kept == DedupeCandidates(AllFound(w))
<1>2. FoundSources(w) = [i \in DOMAIN kept |-> Judged(kept[i])]
  BY DEF FoundSources
<1> HIDE DEF kept
<1>3. PICK i \in DOMAIN kept : s = Judged(kept[i])
  BY <1>1, <1>2 DEF ToSet
<1>4. s.type = kept[i].type /\ s.role = SourceRole(kept[i]).role
  BY <1>3 DEF Judged
<1>5. SourceRole(kept[i]).role \in {"primary_paper", "benchmark_paper"} => kept[i].type = "paper"
  BY DEF SourceRole
<1> QED
  BY <1>4, <1>5

\* What a run makes of its candidates rests on what it found and noted.
LEMMA SameCandidates ==
  ASSUME NEW h, NEW g, g.found = h.found, g.notes = h.notes
  PROVE  /\ Candidates(g) = Candidates(h) /\ Reportable(g) = Reportable(h)
         /\ SelectionCandidates(g) = SelectionCandidates(h)
         /\ ToldCandidates(g) = ToldCandidates(h) /\ DeepCandidatePool(g) = DeepCandidatePool(h)
<1>1. \A sources : ReportableAmong(g, sources) = ReportableAmong(h, sources)
  BY DEF ReportableAmong
<1>2. Candidates(g) = Candidates(h)
  BY <1>1 DEF Candidates
<1>3. Reportable(g) = Reportable(h)
  BY <1>1, <1>2 DEF Reportable
<1>4. SelectionCandidates(g) = SelectionCandidates(h)
  BY <1>2 DEF SelectionCandidates
<1>5. ToldCandidates(g) = ToldCandidates(h)
  BY <1>2, <1>4 DEF ToldCandidates
<1>6. DeepCandidatePool(g) = DeepCandidatePool(h)
  BY <1>4 DEF DeepCandidatePool
<1> QED
  BY <1>2, <1>3, <1>4, <1>5, <1>6

\* Every candidate was found.
LEMMA CandidateLists ==
  ASSUME NEW h, IsList(h.found)
  PROVE  /\ IsList(Candidates(h)) /\ ToSet(Candidates(h)) \subseteq ToSet(h.found)
         /\ IsList(SelectionCandidates(h))
         /\ ToSet(SelectionCandidates(h)) =
              {s \in ToSet(Candidates(h)) :
                 /\ s.relevant /\ PassesReportGate(s, Intent)
                 /\ IsReportable(h.notes[s]) \/ IsDeepReadEligible(h.notes[s])}
         /\ IsList(Reportable(h))
         /\ ToSet(Reportable(h)) =
              {s \in ToSet(Candidates(h)) :
                 s.relevant /\ IsReportable(h.notes[s]) /\ PassesReportGate(s, Intent)}
         /\ IsList(ToldCandidates(h)) /\ ToSet(ToldCandidates(h)) \subseteq ToSet(h.found)
<1> DEFINE chosen(sources) == {s \in ToSet(sources) :
             s.relevant /\ IsReportable(h.notes[s]) /\ PassesReportGate(s, Intent)}
           wanted == {s \in ToSet(Candidates(h)) :
             /\ s.relevant /\ PassesReportGate(s, Intent)
             /\ IsReportable(h.notes[s]) \/ IsDeepReadEligible(h.notes[s])}
<1>1. ASSUME NEW sources, IsList(sources)
      PROVE  /\ IsList(ReportableAmong(h, sources))
             /\ ToSet(ReportableAmong(h, sources)) = chosen(sources)
  <2>1. ReportableAmong(h, sources) = Sift(sources, chosen(sources))
    BY DEF ReportableAmong
  <2>2. chosen(sources) \subseteq ToSet(sources)
    OBVIOUS
  <2> HIDE DEF chosen, ToSet
  <2>3. IsList(Sift(sources, chosen(sources)))
        /\ ToSet(Sift(sources, chosen(sources))) = ToSet(sources) \cap chosen(sources)
    BY <1>1, SiftList
  <2> QED BY <2>1, <2>2, <2>3
<1>2. IsList(Candidates(h)) /\ ToSet(Candidates(h)) \subseteq ToSet(h.found)
  <2>1. /\ IsList(ReportableAmong(h, h.found))
        /\ ToSet(ReportableAmong(h, h.found)) \subseteq ToSet(h.found)
    <3>1. chosen(h.found) \subseteq ToSet(h.found)
      OBVIOUS
    <3> HIDE DEF chosen, ToSet
    <3> QED BY <1>1, <3>1
  <2>2. /\ IsList(Candidates(h))
        /\ ToSet(Candidates(h)) \subseteq ToSet(h.found) \cup ToSet(ReportableAmong(h, h.found))
    BY <2>1, ReplacedList DEF Candidates
  <2> HIDE DEF ToSet
  <2> QED BY <2>1, <2>2
<1>3. IsList(Reportable(h)) /\ ToSet(Reportable(h)) = chosen(Candidates(h))
  <2> HIDE DEF chosen
  <2> QED BY <1>1, <1>2 DEF Reportable
<1>4. IsList(SelectionCandidates(h)) /\ ToSet(SelectionCandidates(h)) = wanted
  <2>1. SelectionCandidates(h) = Sift(Candidates(h), wanted)
    BY DEF SelectionCandidates
  <2>2. wanted \subseteq ToSet(Candidates(h))
    OBVIOUS
  <2> HIDE DEF wanted, ToSet
  <2>3. IsList(Sift(Candidates(h), wanted))
        /\ ToSet(Sift(Candidates(h), wanted)) = ToSet(Candidates(h)) \cap wanted
    BY <1>2, SiftList
  <2> QED BY <2>1, <2>2, <2>3
<1>5. IsList(ToldCandidates(h)) /\ ToSet(ToldCandidates(h)) \subseteq ToSet(h.found)
  <2>1. /\ IsList(ToldCandidates(h))
        /\ ToSet(ToldCandidates(h)) \subseteq ToSet(Candidates(h)) \cup ToSet(SelectionCandidates(h))
    BY <1>2, <1>4, ReplacedList DEF ToldCandidates
  <2>2. wanted \subseteq ToSet(Candidates(h))
    OBVIOUS
  <2> HIDE DEF ToSet, wanted
  <2> QED BY <1>2, <1>4, <2>1, <2>2
<1> QED
  BY <1>2, <1>3, <1>4, <1>5

\* What may be read of the candidates that are selected.
Eligible(h) == {s \in ToSet(SelectionCandidates(h)) : IsDeepReadEligible(h.notes[s])}
EligibleList(h) == Sift(SelectionCandidates(h), Eligible(h))

\* The pool has the ranked candidates, those to be listed first.
LEMMA DeepPool ==
  ASSUME NEW h, IsList(h.found)
  PROVE  /\ IsList(EligibleList(h)) /\ ToSet(EligibleList(h)) = Eligible(h)
         /\ IsList(DeepCandidatePool(h))
         /\ ToSet(DeepCandidatePool(h)) = ToSet(CandidatePool(EligibleList(h), Intent))
         /\ ToSet(DeepCandidatePool(h)) \subseteq Eligible(h)
<1> DEFINE ranked == RankedDeepCandidates(EligibleList(h), Intent)
           new    == {s \in ToSet(ranked) : IsReportable(h.notes[s])}
           old    == ToSet(ranked) \ new
<1>1. IsList(EligibleList(h)) /\ ToSet(EligibleList(h)) = Eligible(h)
  <2>1. IsList(SelectionCandidates(h))
    BY CandidateLists
  <2>2. Eligible(h) \subseteq ToSet(SelectionCandidates(h))
    BY DEF Eligible
  <2>3. /\ IsList(EligibleList(h))
        /\ ToSet(EligibleList(h)) = ToSet(SelectionCandidates(h)) \cap Eligible(h)
    BY <2>1, SiftList DEF EligibleList
  <2> HIDE DEF ToSet
  <2> QED BY <2>2, <2>3
<1>2. IsList(ranked) /\ ToSet(ranked) = ToSet(CandidatePool(EligibleList(h), Intent))
  BY <1>1, RankedPool
<1>3. DeepCandidatePool(h) = Sift(ranked, new) \o Sift(ranked, old)
  BY DEF DeepCandidatePool, EligibleList, Eligible
<1>4. new \subseteq ToSet(ranked) /\ old \subseteq ToSet(ranked) /\ new \cup old = ToSet(ranked)
  <2> HIDE DEF ranked, ToSet
  <2> QED OBVIOUS
<1>5. /\ IsList(Sift(ranked, new)) /\ ToSet(Sift(ranked, new)) = ToSet(ranked) \cap new
      /\ IsList(Sift(ranked, old)) /\ ToSet(Sift(ranked, old)) = ToSet(ranked) \cap old
  <2> HIDE DEF ranked, new, old
  <2> QED BY <1>2, SiftList
<1>6. /\ IsList(DeepCandidatePool(h))
      /\ ToSet(DeepCandidatePool(h)) = ToSet(Sift(ranked, new)) \cup ToSet(Sift(ranked, old))
  <2> HIDE DEF ranked, new, old
  <2> QED BY <1>3, <1>5, ConcatList
<1>7. ToSet(CandidatePool(EligibleList(h), Intent)) \subseteq Eligible(h)
  <2>1. ToSet(CandidatePool(EligibleList(h), Intent)) \subseteq ToSet(EligibleList(h))
    BY <1>1, PoolList
  <2> HIDE DEF ToSet
  <2> QED BY <1>1, <2>1
<1> HIDE DEF ranked, new, old, ToSet
<1> QED
  BY <1>1, <1>2, <1>4, <1>5, <1>6, <1>7

\* Where addresses are told apart, a source is known by its address.
LEMMA ByAddress ==
  ASSUME NEW h, Distinguished(h), NEW s \in ToSet(h.found), NEW t \in ToSet(h.found), s.url = t.url
  PROVE  s = t
<1>1. PICK i \in DOMAIN h.found : s = h.found[i]
  BY DEF ToSet
<1>2. PICK j \in DOMAIN h.found : t = h.found[j]
  BY DEF ToSet
<1> QED
  BY <1>1, <1>2 DEF Distinguished

-----------------------------------------------------------------------------
(* What a run holds, from its discovery to its report.                     *)

\* A run has every field, whatever it went through.
IsRun(h) == DOMAIN h = DOMAIN Idle

\* What is read and listed was found, and nothing is read before the selection.
KeepsSources(h) ==
  /\ h.stage \in {"idle", "discovered"} => h.read = <<>>
  /\ IsList(h.found) /\ ToSet(h.found) \subseteq All
  /\ IsList(h.pool) /\ ToSet(h.pool) \subseteq ToSet(h.found)
  /\ IsList(h.read) /\ ToSet(h.read) \subseteq ToSet(h.found)
  /\ IsList(h.listed) /\ ToSet(h.listed) \subseteq ToSet(h.found)

\* A brief reads papers only.
ReadsPapers(h) ==
  Intent = "research_brief" =>
    \A s \in ToSet(h.found) : s \in ToSet(h.pool) \/ s \in ToSet(h.read) => s.type = "paper"

\* There is no article before the report; then it has what is listed, and
\* later whatever is still told of the run.
KeepsArticle(h) ==
  /\ h.stage \in {"idle", "discovered", "selecting", "reviewed"} => h.article = {}
  /\ h.stage \in {"reviewed", "written"} => h.counts \in [Urls(h.read) -> 0 .. 1]
  /\ h.stage = "written" => h.entries = DeepEntries(h) /\ Urls(h.listed) \subseteq h.article
  /\ h.stage \in {"recorded", "done"} => \A s \in ToSet(h.found) : s.url \in h.article

\* What was seen has a key, and the keys noted of a source are its own.
Annotated(h) ==
  h.stage \in {"selecting", "reviewed", "written", "recorded", "done"} =>
    \A s \in ToSet(h.found) : /\ h.notes[s].keys = FamilyKeys(s)
                              /\ h.notes[s].status = "seen" => FamilyKeys(s) # <<>>

\* Every relevant paper that may be read was read before.
NothingToRead(h) ==
  \A s \in ToSet(CandidatePool(Relevant(Candidates(h)), Intent)) :
    h.notes[s].succeeded \/ ~PassesReportGate(s, Intent)

AllAnswered(h) == ~\E c \in h.unanswered : CountsFailures(c)

HonestRun(h) ==
  /\ h.verdict = "ready" => \E url \in Urls(h.read) : h.counts[url] > 0
  /\ h.verdict = "no_new_content" => AllAnswered(h) /\ NothingToRead(h)

\* The verdict is passed on a run that is read, and what it rests on is there
\* before.
Judgeable(h) ==
  /\ ~h.warned => AllAnswered(h)
  /\ h.stage = "selecting" /\ DeepLimit > 0 /\ h.eligible = 0 => NothingToRead(h)
  /\ h.stage \notin {"reviewed", "written"} => h.verdict = "none"

OnceTold(h) ==
  h.stage = "written" =>
    /\ Distinguished(h) => h.entries \cap h.seen = {}
    /\ \A s \in ToSet(h.listed) : h.notes[s].status = "seen" => s.url \in h.entries

RunInv(h) ==
  /\ IsRun(h) /\ KeepsSources(h) /\ ReadsPapers(h) /\ KeepsArticle(h)
  /\ Annotated(h) /\ HonestRun(h) /\ Judgeable(h) /\ OnceTold(h)

\* What a run is to read, or has read, was not read before the history was.
Unread(h, rows) ==
  /\ h.base \in 0 .. Len(rows)
  /\ \A s \in ToSet(h.pool) \cup ToSet(h.read) : SourceVersion(s) # 0 =>
       ~\E i \in 1 .. h.base : ReadBefore(rows[i], s)

(***************************************************************************)
(* The history and the runs together.                                      *)
(***************************************************************************)
\* A row of which a run's article tells.
Backed(row, h) ==
  /\ row.url \in h.article
  /\ DeepSuccessVersions(row) # {} => row.url \in h.entries

\* A row that tells of a reading has all keys of a source with its address.
Identified(row) ==
  /\ IsList(row.keys)
  /\ DeepSuccessVersions(row) # {} =>
       /\ IsSuccessfulOutcome(row)
       /\ \E t \in All : t.url = row.url /\ ToSet(FamilyKeys(t)) \subseteq ToSet(row.keys)

DailyInv ==
  /\ history = [rows |-> history.rows, torn |-> history.torn] /\ IsList(history.rows)
  /\ \A i \in 1 .. Len(history.rows) :
       Identified(history.rows[i]) /\ \E r \in Run : Backed(history.rows[i], run[r])
  /\ run = [r \in Run |-> run[r]]
  /\ \A r \in Run : RunInv(run[r]) /\ Unread(run[r], history.rows)

-----------------------------------------------------------------------------
(* The steps of a run.                                                     *)

\* A run that has not begun, or of which nothing but its article is left.
LEMMA LaidDown ==
  ASSUME NEW g, IsRun(g), g.stage \in {"idle", "failed", "drafted"},
         g.stage = "idle" => g.article = {},
         g.found = <<>>, g.pool = <<>>, g.read = <<>>, g.listed = <<>>, g.warned = FALSE,
         g.unanswered = {}, g.base = 0, g.verdict = "none",
         NEW rows, Len(rows) \in Nat
  PROVE  RunInv(g) /\ Unread(g, rows)
<1>1. IsList(<<>>) /\ ToSet(<<>>) = {}
  BY EmptyList
<1> HIDE DEF ToSet
<1>2. KeepsSources(g) /\ ReadsPapers(g) /\ Annotated(g)
  BY <1>1 DEF KeepsSources, ReadsPapers, Annotated
<1>3. KeepsArticle(g) /\ HonestRun(g) /\ OnceTold(g)
  BY DEF KeepsArticle, HonestRun, OnceTold
<1>4. Judgeable(g)
  BY DEF Judgeable, AllAnswered
<1>5. Unread(g, rows)
  BY <1>1 DEF Unread
<1> QED
  BY <1>2, <1>3, <1>4, <1>5 DEF RunInv

\* Idle itself, a run that fails, and one that leaves its article.
LEMMA Leftover ==
  ASSUME NEW rows, Len(rows) \in Nat
  PROVE  /\ RunInv(Idle) /\ Unread(Idle, rows)
         /\ RunInv([Idle EXCEPT !.stage = "failed"])
         /\ Unread([Idle EXCEPT !.stage = "failed"], rows)
         /\ \A h, stage : stage \in {"failed", "drafted"} =>
              RunInv(Article(h, stage)) /\ Unread(Article(h, stage), rows)
<1>1. RunInv(Idle) /\ Unread(Idle, rows)
  <2>1. /\ Idle.stage = "idle" /\ Idle.article = {} /\ Idle.found = <<>> /\ Idle.pool = <<>>
        /\ Idle.read = <<>> /\ Idle.listed = <<>> /\ Idle.warned = FALSE
        /\ Idle.unanswered = {} /\ Idle.base = 0 /\ Idle.verdict = "none"
    BY DEF Idle
  <2> QED BY <2>1, LaidDown DEF IsRun
<1>2. RunInv([Idle EXCEPT !.stage = "failed"]) /\ Unread([Idle EXCEPT !.stage = "failed"], rows)
  <2> DEFINE g == [Idle EXCEPT !.stage = "failed"]
  <2>1. /\ DOMAIN g = DOMAIN Idle
        /\ g.stage = "failed" /\ g.found = <<>> /\ g.pool = <<>>
        /\ g.read = <<>> /\ g.listed = <<>> /\ g.warned = FALSE
        /\ g.unanswered = {} /\ g.base = 0 /\ g.verdict = "none"
    BY DEF Idle
  <2> HIDE DEF g
  <2>2. RunInv(g) /\ Unread(g, rows)
    BY <2>1, LaidDown DEF IsRun
  <2> QED BY <2>2 DEF g
<1>3. ASSUME NEW h, NEW stage, stage \in {"failed", "drafted"}
      PROVE  RunInv(Article(h, stage)) /\ Unread(Article(h, stage), rows)
  <2> DEFINE g == Article(h, stage)
  <2>1. /\ DOMAIN g = DOMAIN Idle
        /\ g.stage = stage /\ g.found = <<>> /\ g.pool = <<>>
        /\ g.read = <<>> /\ g.listed = <<>> /\ g.warned = FALSE
        /\ g.unanswered = {} /\ g.base = 0 /\ g.verdict = "none"
    BY DEF Idle, Article
  <2> HIDE DEF g
  <2>2. RunInv(g) /\ Unread(g, rows)
    BY <1>3, <2>1, LaidDown DEF IsRun
  <2> QED BY <2>2 DEF g
<1> QED
  BY <1>1, <1>2, <1>3

\* Discovery: what a connector did not answer and counts is a warning.
LEMMA Discovered ==
  ASSUME NEW d \in Discoveries, NEW g, NEW rows, Len(rows) \in Nat,
         g = [Idle EXCEPT !.stage = "discovered", !.found = d.sources, !.warned = d.failed,
                          !.unanswered = d.unanswered]
  PROVE  RunInv(g) /\ Unread(g, rows)
<1>1. PICK w \in Worlds : d = DiscoverSources(w)
  BY DEF Discoveries
<1>2. /\ d.sources = FoundSources(w) /\ d.failed = DiscoveryFailed(w)
      /\ d.unanswered = {c \in ToSet(Connectors) : Unanswered(w, c) # {}}
  <2> HIDE DEF ToSet
  <2> QED BY <1>1 DEF DiscoverSources
<1>3. /\ IsRun(g)
      /\ g.stage = "discovered" /\ g.found = d.sources /\ g.pool = <<>> /\ g.read = <<>>
      /\ g.listed = <<>> /\ g.warned = d.failed /\ g.unanswered = d.unanswered /\ g.base = 0
      /\ g.article = {} /\ g.verdict = "none"
  BY DEF Idle, IsRun
<1>4. IsList(<<>>) /\ ToSet(<<>>) = {}
  BY EmptyList
<1>5. IsList(g.found) /\ ToSet(g.found) \subseteq All
  BY <1>2, <1>3, WorldsAssumption DEF All
<1> HIDE DEF ToSet
<1>6. KeepsSources(g) /\ ReadsPapers(g)
  BY <1>3, <1>4, <1>5 DEF KeepsSources, ReadsPapers
<1>7. KeepsArticle(g) /\ HonestRun(g) /\ OnceTold(g) /\ Annotated(g)
  BY <1>3 DEF KeepsArticle, HonestRun, OnceTold, Annotated
<1>8. Judgeable(g)
  <2>1. ~g.warned => AllAnswered(g)
    BY <1>2, <1>3 DEF AllAnswered, DiscoveryFailed
  <2> QED BY <1>3, <2>1 DEF Judgeable
<1>9. Unread(g, rows)
  BY <1>3, <1>4 DEF Unread
<1> QED
  BY <1>3, <1>6, <1>7, <1>8, <1>9 DEF RunInv

\* What a source that passes as unread tells of the history: no row about its
\* version and address is known to have been there.
LEMMA NotYetRead ==
  ASSUME NEW rows, Len(rows) \in Nat, \A i \in 1 .. Len(rows) : Identified(rows[i]),
         NEW s \in All, s.relevant, SourceVersion(s) # 0,
         ~AnnotateSource(s, LatestRecords(rows)).succeeded,
         NEW i \in 1 .. Len(rows)
  PROVE  ~ReadBefore(rows[i], s)
<1> SUFFICES ASSUME ReadBefore(rows[i], s) PROVE FALSE
  OBVIOUS
<1>1. rows[i].url = s.url /\ DeepSuccessVersions(rows[i]) = {SourceVersion(s)}
  BY DEF ReadBefore
<1>2. PICK t \in All : t.url = rows[i].url /\ ToSet(FamilyKeys(t)) \subseteq ToSet(rows[i].keys)
  BY <1>1 DEF Identified
<1>3. t.arxiv = s.arxiv /\ s.arxiv # ""
  <2>1. PICK v \in Worlds : s \in ToSet(FoundSources(v))
    BY DEF All
  <2>2. PICK w \in Worlds : t \in ToSet(FoundSources(w))
    BY DEF All
  <2>3. t.arxiv = s.arxiv
    <3> HIDE DEF ToSet
    <3> QED BY <1>1, <1>2, <2>1, <2>2, AddressAssumption
  <2>4. s.arxiv # ""
    BY DEF SourceVersion
  <2> QED BY <2>3, <2>4
<1>4. <<"arxiv", s.arxiv>> \in ToSet(rows[i].keys)
  <2>1. <<"arxiv", t.arxiv>> \in ToSet(FamilyKeys(t))
    BY <1>3, FamilyKeysOf
  <2> HIDE DEF ToSet
  <2> QED BY <1>2, <1>3, <2>1
<1>5. \A j \in 1 .. Len(rows) : IsList(rows[j].keys)
  BY DEF Identified
<1>6. IsSuccessfulOutcome(rows[i])
  BY <1>1 DEF Identified
<1>7. /\ <<"arxiv", s.arxiv>> \in DOMAIN LatestRecords(rows)
      /\ DeepSuccessVersions(rows[i]) \subseteq LatestRecords(rows)[<<"arxiv", s.arxiv>>].successes
  <2> HIDE DEF ToSet
  <2> QED BY <1>4, <1>5, <1>6, HistoryKnows
<1>8. SourceVersion(s) \in LatestRecords(rows)[<<"arxiv", s.arxiv>>].successes
  BY <1>1, <1>7
<1> QED
  BY <1>7, <1>8, Remembered

\* When nothing is left to be read, all that is relevant was read before.
LEMMA NothingLeft ==
  ASSUME NEW h, IsList(h.found), NEW records,
         \A s \in ToSet(h.found) : h.notes[s] = AnnotateSource(s, records),
         DeepCandidatePool(h) = <<>>
  PROVE  NothingToRead(h)
<1> SUFFICES ASSUME NEW s \in ToSet(CandidatePool(Relevant(Candidates(h)), Intent)),
                    ~h.notes[s].succeeded, PassesReportGate(s, Intent)
             PROVE  FALSE
  BY DEF NothingToRead
<1> DEFINE wanted == {t \in ToSet(Candidates(h)) : t.relevant}
<1>1. IsList(Candidates(h)) /\ ToSet(Candidates(h)) \subseteq ToSet(h.found)
  BY CandidateLists
<1>2. /\ IsList(Relevant(Candidates(h)))
      /\ ToSet(Relevant(Candidates(h))) = ToSet(Candidates(h)) \cap wanted
  <2> HIDE DEF wanted
  <2> QED BY <1>1, SiftList DEF Relevant, wanted
<1>3. s \in ToSet(Candidates(h)) /\ s.relevant /\ s \in ToSet(h.found)
  <2>1. s \in ToSet(Relevant(Candidates(h)))
    <3>1. ToSet(CandidatePool(Relevant(Candidates(h)), Intent)) \subseteq ToSet(Relevant(Candidates(h)))
      BY <1>2, PoolList
    <3> HIDE DEF ToSet
    <3> QED BY <3>1
  <2> HIDE DEF ToSet
  <2> QED BY <1>1, <1>2, <2>1
<1>4. IsDeepReadEligible(h.notes[s])
  BY <1>3, Annotation
<1>5. s \in ToSet(EligibleList(h)) /\ IsList(EligibleList(h))
  <2>1. s \in ToSet(SelectionCandidates(h))
    <3> HIDE DEF ToSet
    <3> QED BY <1>3, <1>4, CandidateLists
  <2>2. s \in Eligible(h)
    BY <1>4, <2>1 DEF Eligible
  <2> HIDE DEF ToSet
  <2> QED BY <2>2, DeepPool
<1>6. ToSet(CandidatePool(EligibleList(h), Intent)) # {}
  <2> HIDE DEF ToSet
  <2> QED BY <1>2, <1>5, PoolOfSome
<1>7. ToSet(CandidatePool(EligibleList(h), Intent)) = ToSet(<<>>)
  <2> HIDE DEF ToSet
  <2> QED BY DeepPool
<1> HIDE DEF ToSet
<1> QED
  BY <1>6, <1>7, EmptyList

\* What may be read of a brief are papers, and all of it is relevant and
\* eligible.
LEMMA PoolOfPapers ==
  ASSUME NEW h, IsList(h.found), ToSet(h.found) \subseteq All, NEW s \in ToSet(DeepCandidatePool(h))
  PROVE  /\ s \in ToSet(h.found) /\ s.relevant /\ IsDeepReadEligible(h.notes[s])
         /\ Intent = "research_brief" => s.type = "paper"
<1>1. s \in Eligible(h)
  <2> HIDE DEF ToSet
  <2> QED BY DeepPool
<1>2. s \in ToSet(h.found) /\ s.relevant /\ IsDeepReadEligible(h.notes[s])
  <2>1. s \in ToSet(SelectionCandidates(h)) /\ IsDeepReadEligible(h.notes[s])
    BY <1>1 DEF Eligible
  <2> HIDE DEF ToSet
  <2> QED BY <2>1, CandidateLists
<1>3. ASSUME Intent = "research_brief" PROVE s.type = "paper"
  <2> DEFINE list   == EligibleList(h)
             wanted == {t \in ToSet(list) :
               t.role \in {"primary_paper", "benchmark_paper"} /\ t.relevance >= 6000}
  <2>1. s \in ToSet(CandidatePool(list, Intent)) /\ IsList(list)
    <3> HIDE DEF ToSet
    <3> QED BY DeepPool
  <2>2. CandidatePool(list, Intent) = Sift(list, wanted)
    <3> HIDE DEF list
    <3> QED BY <1>3 DEF CandidatePool
  <2>3. s \in wanted
    <3> HIDE DEF ToSet, wanted, list
    <3> QED BY <2>1, <2>2, SiftList
  <2>4. s.role \in {"primary_paper", "benchmark_paper"}
    BY <2>3
  <2>5. s \in All
    <3> HIDE DEF ToSet
    <3> QED BY <1>2
  <2> QED BY <2>4, <2>5, PapersOnly
<1> QED
  BY <1>2, <1>3

\* The selection.
LEMMA Selected ==
  ASSUME NEW h, RunInv(h), h.stage = "discovered",
         NEW rows, Len(rows) \in Nat, \A i \in 1 .. Len(rows) : Identified(rows[i])
  PROVE  RunInv(Selecting(h, rows)) /\ Unread(Selecting(h, rows), rows)
<1> DEFINE g       == Selecting(h, rows)
           records == LatestRecords(rows)
           noted   == [h EXCEPT !.stage = "selecting", !.base = Len(rows),
                         !.notes = [s \in ToSet(h.found) |-> AnnotateSource(s, records)]]
           dedupe  == DedupeMetadata(RankedDeepCandidates(ReportableAmong(noted, noted.found), Intent))
           again   == DedupeMetadata(RankedDeepCandidates(SelectionCandidates(noted), Intent))
           pool    == IF DeepLimit > 0 THEN DeepCandidatePool(noted) ELSE <<>>
<1>1. /\ IsRun(noted) /\ noted.found = h.found /\ noted.base = Len(rows)
      /\ noted.notes = [s \in ToSet(h.found) |-> AnnotateSource(s, records)]
      /\ noted.stage = "selecting" /\ noted.read = h.read /\ noted.listed = h.listed
      /\ noted.article = h.article /\ noted.unanswered = h.unanswered
      /\ noted.warned = h.warned /\ noted.verdict = h.verdict
  <2> HIDE DEF ToSet, records
  <2> QED BY DEF RunInv, IsRun, Idle
<1>2. g = [noted EXCEPT !.dedupe = dedupe, !.families = Over(again, dedupe), !.pool = pool,
                        !.eligible = Len(pool)]
  BY DEF Selecting
<1> HIDE DEF noted, g
<1>3. /\ IsRun(g) /\ g.found = h.found /\ g.base = Len(rows) /\ g.notes = noted.notes
      /\ g.stage = "selecting" /\ g.read = h.read /\ g.listed = h.listed
      /\ g.article = h.article /\ g.unanswered = h.unanswered
      /\ g.warned = h.warned /\ g.verdict = h.verdict /\ g.pool = pool /\ g.eligible = Len(pool)
  <2> HIDE DEF pool, dedupe, again
  <2> QED BY <1>1, <1>2 DEF IsRun, Idle
<1>4. /\ IsList(h.found) /\ ToSet(h.found) \subseteq All /\ h.read = <<>> /\ h.article = {}
      /\ h.verdict = "none" /\ IsList(h.listed) /\ ToSet(h.listed) \subseteq ToSet(h.found)
      /\ ~h.warned => AllAnswered(h)
  <2> HIDE DEF ToSet
  <2> QED BY DEF RunInv, KeepsSources, KeepsArticle, Judgeable
<1>5. IsList(<<>>) /\ ToSet(<<>>) = {} /\ Len(<<>>) = 0
  BY EmptyList
<1>6. \A s \in ToSet(h.found) : noted.notes[s] = AnnotateSource(s, records)
  <2> HIDE DEF ToSet, records
  <2> QED BY <1>1
<1>7. /\ IsList(pool)
      /\ \A s \in ToSet(pool) : /\ s \in ToSet(h.found) /\ s.relevant
                                /\ IsDeepReadEligible(noted.notes[s])
                                /\ Intent = "research_brief" => s.type = "paper"
  <2>1. CASE DeepLimit > 0
    <3>1. pool = DeepCandidatePool(noted)
      BY <2>1
    <3> HIDE DEF ToSet, pool
    <3> QED BY <1>1, <1>4, <3>1, PoolOfPapers, DeepPool
  <2>2. CASE ~(DeepLimit > 0)
    <3>1. pool = <<>>
      BY <2>2
    <3> HIDE DEF ToSet, pool
    <3> QED BY <1>5, <3>1
  <2> QED BY <2>1, <2>2
<1>8. ASSUME DeepLimit > 0, Len(pool) = 0 PROVE NothingToRead(g)
  <2>1. DeepCandidatePool(noted) = <<>>
    <3>1. pool = DeepCandidatePool(noted)
      BY <1>8
    <3>2. pool \in Seq(ToSet(pool))
      BY <1>7 DEF IsList
    <3> HIDE DEF pool, ToSet
    <3> QED BY <1>8, <3>1, <3>2
  <2>2. DeepCandidatePool(g) = <<>>
    BY <1>1, <1>3, <2>1, SameCandidates
  <2> HIDE DEF ToSet, pool, records
  <2>3. IsList(g.found) /\ \A s \in ToSet(g.found) : g.notes[s] = AnnotateSource(s, records)
    BY <1>3, <1>4, <1>6
  <2> QED BY <2>2, <2>3, NothingLeft
<1> HIDE DEF pool
<1>9. KeepsSources(g) /\ ReadsPapers(g)
  <2> HIDE DEF ToSet
  <2> QED BY <1>3, <1>4, <1>5, <1>7 DEF KeepsSources, ReadsPapers
<1>10. KeepsArticle(g) /\ HonestRun(g) /\ OnceTold(g)
  BY <1>3, <1>4 DEF KeepsArticle, HonestRun, OnceTold
<1>11. Annotated(g)
  <2>1. \A s \in ToSet(g.found) : g.notes[s].keys = FamilyKeys(s)
          /\ (g.notes[s].status = "seen" => FamilyKeys(s) # <<>>)
    <3> HIDE DEF ToSet, records
    <3> QED BY <1>3, <1>6, Annotation
  <2> QED BY <2>1 DEF Annotated
<1>12. Judgeable(g)
  BY <1>3, <1>4, <1>8 DEF Judgeable, AllAnswered
<1>13. Unread(g, rows)
  <2>1. ASSUME NEW s \in ToSet(pool), SourceVersion(s) # 0, NEW i \in 1 .. Len(rows)
        PROVE  ~ReadBefore(rows[i], s)
    <3>1. s \in ToSet(h.found) /\ s.relevant /\ ~AnnotateSource(s, records).succeeded
      <4> HIDE DEF ToSet, records
      <4> QED BY <1>6, <1>7, <2>1 DEF IsDeepReadEligible
    <3>2. s \in All
      <4> HIDE DEF ToSet
      <4> QED BY <1>4, <3>1
    <3> QED BY <2>1, <3>1, <3>2, NotYetRead
  <2> HIDE DEF ToSet
  <2>2. ToSet(g.pool) = ToSet(pool) /\ ToSet(g.read) = {}
    BY <1>3, <1>4, <1>5
  <2> QED BY <1>3, <2>1, <2>2 DEF Unread
<1> QED
  BY <1>3, <1>9, <1>10, <1>11, <1>12, <1>13 DEF RunInv, g

\* One candidate after the other: what is read was to be read.
LEMMA GoesOn ==
  ASSUME NEW h, RunInv(h), h.stage = "selecting", NEW rows, Unread(h, rows), NEW g, IsRun(g),
         g.stage = h.stage, g.found = h.found, g.listed = h.listed, g.article = h.article,
         g.notes = h.notes, g.warned = h.warned, g.unanswered = h.unanswered, g.base = h.base,
         g.verdict = h.verdict, g.eligible = h.eligible,
         IsList(g.pool), ToSet(g.pool) \subseteq ToSet(h.pool),
         IsList(g.read), ToSet(g.read) \subseteq ToSet(h.read) \cup ToSet(h.pool)
  PROVE  RunInv(g) /\ Unread(g, rows)
<1> HIDE DEF ToSet
<1>1. KeepsSources(g) /\ ReadsPapers(g)
  BY DEF RunInv, KeepsSources, ReadsPapers
<1>2. KeepsArticle(g) /\ OnceTold(g) /\ Annotated(g)
  BY DEF RunInv, KeepsArticle, OnceTold, Annotated
<1>3. HonestRun(g) /\ Judgeable(g)
  <2>1. NothingToRead(h) => NothingToRead(g)
    BY SameCandidates DEF NothingToRead
  <2> QED BY <2>1 DEF RunInv, HonestRun, Judgeable, AllAnswered
<1>4. Unread(g, rows)
  BY DEF Unread
<1> QED
  BY <1>1, <1>2, <1>3, <1>4 DEF RunInv

\* A candidate that is passed over, whatever is noted of it.
LEMMA Passed ==
  ASSUME NEW h, RunInv(h), h.stage = "selecting", h.pool # <<>>, NEW rows, Unread(h, rows),
         NEW statuses, NEW g, g = [h EXCEPT !.pool = Tail(@), !.statuses = statuses]
  PROVE  RunInv(g) /\ Unread(g, rows)
<1>1. /\ IsRun(g) /\ g.pool = Tail(h.pool) /\ g.read = h.read
      /\ g.stage = h.stage /\ g.found = h.found /\ g.listed = h.listed /\ g.article = h.article
      /\ g.notes = h.notes /\ g.warned = h.warned /\ g.unanswered = h.unanswered
      /\ g.base = h.base /\ g.verdict = h.verdict /\ g.eligible = h.eligible
  BY DEF RunInv, IsRun, Idle
<1>2. IsList(h.pool) /\ IsList(h.read)
  BY DEF RunInv, KeepsSources
<1>3. IsList(g.pool) /\ ToSet(g.pool) \subseteq ToSet(h.pool)
  <2> HIDE DEF ToSet
  <2> QED BY <1>1, <1>2, TailList
<1> HIDE DEF ToSet
<1> QED
  BY <1>1, <1>2, <1>3, GoesOn

\* A candidate that is read.
LEMMA WasRead ==
  ASSUME NEW h, RunInv(h), h.stage = "selecting", h.pool # <<>>, NEW rows, Unread(h, rows),
         NEW statuses, NEW g,
         g = [h EXCEPT !.pool = Tail(@), !.read = Append(@, Head(h.pool)), !.statuses = statuses]
  PROVE  RunInv(g) /\ Unread(g, rows)
<1>1. /\ IsRun(g) /\ g.pool = Tail(h.pool) /\ g.read = Append(h.read, Head(h.pool))
      /\ g.stage = h.stage /\ g.found = h.found /\ g.listed = h.listed /\ g.article = h.article
      /\ g.notes = h.notes /\ g.warned = h.warned /\ g.unanswered = h.unanswered
      /\ g.base = h.base /\ g.verdict = h.verdict /\ g.eligible = h.eligible
  BY DEF RunInv, IsRun, Idle
<1>2. IsList(h.pool) /\ IsList(h.read)
  BY DEF RunInv, KeepsSources
<1>3. IsList(g.pool) /\ ToSet(g.pool) \subseteq ToSet(h.pool) /\ Head(h.pool) \in ToSet(h.pool)
  <2> HIDE DEF ToSet
  <2> QED BY <1>1, <1>2, TailList
<1>4. IsList(g.read) /\ ToSet(g.read) = ToSet(h.read) \cup {Head(h.pool)}
  <2> HIDE DEF ToSet
  <2> QED BY <1>1, <1>2, AppendList
<1> HIDE DEF ToSet
<1> QED
  BY <1>1, <1>3, <1>4, GoesOn

\* assess_research_outcome: what the two verdicts stand for.
LEMMA Assessed ==
  ASSUME NEW a
  PROVE  LET status == AssessResearchOutcome(a).status
         IN /\ status = "ready" => a.deepRead > 0 /\ a.publishable > 0
            /\ status = "no_new_content" => a.eligible = 0 /\ ~a.discoveryFailed
<1> DEFINE ready  == a.deepRead > 0 /\ a.publishable > 0
           judged == CASE "succeeded" \notin a.statuses -> {}
                       [] "succeeded" \in a.statuses /\ a.reviewed > 0
                                                      -> {"verification_no_public_claims"}
                       [] OTHER                       -> {"evidence_insufficient"}
           why    == ReasonsOf(a) \cup judged
           others == IF why = {} THEN {"evidence_insufficient"} ELSE why
           quiet  == a.eligible = 0 /\ ~a.discoveryFailed
<1>1. AssessResearchOutcome(a) =
        CASE ready -> [status |-> "ready", reasons |-> ReasonsOf(a)]
          [] ~ready /\ a.eligible = 0 /\ ~a.discoveryFailed
               -> [status |-> "no_new_content", reasons |-> why]
          [] OTHER -> [status |-> "incomplete", reasons |-> others]
  BY DEF AssessResearchOutcome
<1> HIDE DEF why, judged, others
<1>2. CASE ready
  BY <1>1, <1>2
<1>3. CASE ~ready /\ quiet
  BY <1>1, <1>3
<1>4. CASE ~ready /\ ~quiet
  BY <1>1, <1>4
<1> QED
  BY <1>2, <1>3, <1>4

\* The papers that have a claim to show.
Shown(counts) == {url \in DOMAIN counts : counts[url] > 0}

\* The review: what is called ready has a publishable claim, and what is
\* called quiet had nothing to read and every answer.
LEMMA Reviewed ==
  ASSUME NEW h, RunInv(h), h.stage = "selecting", NEW rows, Unread(h, rows),
         NEW counts \in [Urls(h.read) -> 0 .. 1], NEW a,
         a.eligible = h.eligible, a.discoveryFailed = h.warned,
         a.publishable = Cardinality(Shown(counts)),
         NEW verdict,
         verdict = IF DeepLimit > 0 THEN AssessResearchOutcome(a).status ELSE "not_deep",
         NEW g, IsRun(g), g.stage = "reviewed", g.pool = <<>>, g.counts = counts,
         g.verdict = verdict, g.read = h.read, g.found = h.found, g.listed = h.listed,
         g.article = h.article, g.notes = h.notes, g.warned = h.warned,
         g.unanswered = h.unanswered, g.base = h.base
  PROVE  RunInv(g) /\ Unread(g, rows)
<1>1. verdict = "ready" => \E url \in Urls(h.read) : counts[url] > 0
  <2> SUFFICES ASSUME verdict = "ready" PROVE Shown(counts) # {}
    BY DEF Shown
  <2>1. verdict = AssessResearchOutcome(a).status
    OBVIOUS
  <2>2. Cardinality(Shown(counts)) > 0
    BY <2>1, Assessed
  <2>3. Cardinality({}) = 0
    BY FS_EmptySet
  <2>4. ASSUME Shown(counts) = {} PROVE FALSE
    <3>1. Cardinality({}) > 0
      BY <2>2, <2>4
    <3> QED BY <2>3, <3>1
  <2> QED BY <2>4
<1>2. verdict = "no_new_content" => AllAnswered(h) /\ NothingToRead(h)
  <2> SUFFICES ASSUME verdict = "no_new_content" PROVE AllAnswered(h) /\ NothingToRead(h)
    OBVIOUS
  <2>1. DeepLimit > 0 /\ verdict = AssessResearchOutcome(a).status
    OBVIOUS
  <2>2. a.eligible = 0 /\ ~a.discoveryFailed
    BY <2>1, Assessed
  <2> QED BY <2>1, <2>2 DEF RunInv, Judgeable
<1> HIDE DEF ToSet
<1>3. KeepsSources(g) /\ ReadsPapers(g)
  <2>1. IsList(<<>>) /\ ToSet(<<>>) = {}
    BY EmptyList
  <2> QED BY <2>1 DEF RunInv, KeepsSources, ReadsPapers
<1>4. KeepsArticle(g) /\ OnceTold(g) /\ Annotated(g)
  BY DEF RunInv, KeepsArticle, OnceTold, Annotated
<1>5. HonestRun(g)
  <2>1. NothingToRead(h) => NothingToRead(g)
    BY SameCandidates DEF NothingToRead
  <2> QED BY <1>1, <1>2, <2>1 DEF HonestRun, AllAnswered
<1>6. Judgeable(g)
  BY DEF RunInv, Judgeable, AllAnswered
<1>7. Unread(g, rows)
  <2>1. ToSet(g.pool) = {}
    BY EmptyList
  <2> QED BY <2>1 DEF Unread
<1> QED
  BY <1>3, <1>4, <1>5, <1>6, <1>7 DEF RunInv

\* What a report lists is new, or read today with a claim to show.
LEMMA ListedToday ==
  ASSUME NEW h, RunInv(h)
  PROVE  /\ IsList(PublicDeep(h))
         /\ ToSet(PublicDeep(h)) = {s \in ToSet(h.read) : h.counts[s.url] > 0}
         /\ IsList(ListedSources(h))
         /\ \A s \in ToSet(ListedSources(h)) :
              /\ s \in ToSet(h.found)
              /\ \/ IsReportable(h.notes[s])
                 \/ s \in ToSet(h.read) /\ h.counts[s.url] > 0
<1> DEFINE wanted == {s \in ToSet(h.read) : h.counts[s.url] > 0}
           both   == Reportable(h) \o PublicDeep(h)
<1>1. /\ IsList(h.found) /\ IsList(h.read) /\ ToSet(h.read) \subseteq ToSet(h.found)
  BY DEF RunInv, KeepsSources
<1>2. IsList(PublicDeep(h)) /\ ToSet(PublicDeep(h)) = wanted
  <2>1. wanted \subseteq ToSet(h.read)
    OBVIOUS
  <2> HIDE DEF wanted, ToSet
  <2> QED BY <1>1, <2>1, SiftList DEF PublicDeep, wanted
<1>3. /\ IsList(Reportable(h))
      /\ \A s \in ToSet(Reportable(h)) : s \in ToSet(h.found) /\ IsReportable(h.notes[s])
  <2> HIDE DEF ToSet
  <2> QED BY <1>1, CandidateLists
<1>4. IsList(both) /\ ToSet(both) = ToSet(Reportable(h)) \cup wanted
  <2> HIDE DEF ToSet, wanted
  <2> QED BY <1>2, <1>3, ConcatList
<1>5. IsList(OnePerUrl(both)) /\ ToSet(OnePerUrl(both)) \subseteq ToSet(both)
  <2> HIDE DEF both, ToSet
  <2> QED BY <1>4, OnePerUrlList
<1>6. IsList(ListedSources(h)) /\ ToSet(ListedSources(h)) \subseteq ToSet(OnePerUrl(both))
  <2> HIDE DEF ToSet
  <2> QED BY <1>5, PublicSources DEF ListedSources
<1>7. \A s \in wanted : s \in ToSet(h.read) /\ h.counts[s.url] > 0
  OBVIOUS
<1> HIDE DEF ToSet, both, wanted
<1> QED
  BY <1>1, <1>2, <1>3, <1>4, <1>5, <1>6, <1>7 DEF wanted

\* Two papers of one title are of one family, and so is a paper with itself.
LEMMA OneFamily ==
  ASSUME NEW s, NEW t, s.type = "paper", t.type = "paper", s.title = t.title, s.title # ""
  PROVE  ToSet(FamilyKeys(s)) \cap ToSet(FamilyKeys(t)) # {}
<1>1. <<"title", s.title>> \in ToSet(FamilyKeys(s))
  BY FamilyKeysOf
<1>2. <<"title", t.title>> \in ToSet(FamilyKeys(t))
  BY FamilyKeysOf
<1>3. <<"title", s.title>> \in ToSet(FamilyKeys(t))
  BY <1>2
<1> HIDE DEF ToSet
<1> QED
  BY <1>1, <1>3

\* No address is read in depth and seen before in one report.
LEMMA ReadNotSeen ==
  ASSUME NEW h, RunInv(h), h.stage = "reviewed", Distinguished(h)
  PROVE  DeepEntries(h) \cap {s.url : s \in SeenSources(h)} = {}
<1> SUFFICES ASSUME NEW t \in ToSet(h.read), NEW u \in ToSet(h.read),
                    h.counts[u.url] > 0, u.url = t.url \/ u.title = t.title,
                    NEW s \in SeenSources(h), s.url = t.url
             PROVE  FALSE
  BY DEF DeepEntries
<1>1. /\ s \in ToSet(h.found) /\ h.notes[s].status = "seen"
      /\ ~\E x \in ToSet(PublicDeep(h)) : ToSet(FamilyKeys(x)) \cap ToSet(FamilyKeys(s)) # {}
  <2> HIDE DEF ToSet
  <2> QED BY DEF SeenSources
<1>2. t \in ToSet(h.found) /\ u \in ToSet(h.found)
  <2> HIDE DEF ToSet
  <2> QED BY DEF RunInv, KeepsSources
<1>3. s = t
  <2> HIDE DEF ToSet
  <2> QED BY <1>1, <1>2, ByAddress
<1>4. u \in ToSet(PublicDeep(h))
  <2>1. u \in {x \in ToSet(h.read) : h.counts[x.url] > 0}
    OBVIOUS
  <2> HIDE DEF ToSet
  <2> QED BY <2>1, ListedToday
<1>5. ToSet(FamilyKeys(u)) \cap ToSet(FamilyKeys(s)) = {}
  <2> HIDE DEF ToSet
  <2> QED BY <1>1, <1>4
<1>6. CASE u.url = t.url
  <2>1. u = s
    <3> HIDE DEF ToSet
    <3> QED BY <1>2, <1>3, <1>6, ByAddress
  <2>2. FamilyKeys(s) # <<>>
    <3> HIDE DEF ToSet
    <3> QED BY <1>1 DEF RunInv, Annotated
  <2>3. IsList(FamilyKeys(s))
    BY FamilyKeysOf
  <2>4. FamilyKeys(s)[1] \in ToSet(FamilyKeys(s))
    <3> DEFINE keys == FamilyKeys(s)
    <3>1. 1 \in DOMAIN keys
      <4> HIDE DEF keys
      <4> QED BY <2>2, <2>3, FirstPlace DEF keys
    <3> QED BY <2>3, <3>1, ListShape
  <2> HIDE DEF ToSet
  <2> QED BY <1>5, <2>1, <2>4
<1>7. CASE u.title = t.title
  <2>1. s.type = "paper" /\ u.type = "paper"
    <3> HIDE DEF ToSet
    <3> QED BY <1>2, <1>3 DEF RunInv, ReadsPapers, Distinguished
  <2>2. u.title # ""
    BY <1>2, <2>1 DEF Distinguished
  <2> QED BY <1>3, <1>5, <1>7, <2>1, <2>2, OneFamily
<1> QED
  BY <1>6, <1>7

\* The report.
LEMMA Reported ==
  ASSUME NEW h, RunInv(h), h.stage = "reviewed", NEW rows, Unread(h, rows)
  PROVE  RunInv(Written(h)) /\ Unread(Written(h), rows)
<1> DEFINE g      == Written(h)
           listed == ListedSources(h)
           seen   == {s.url : s \in SeenSources(h)}
<1>1. /\ IsRun(g) /\ g.stage = "written" /\ g.listed = listed /\ g.entries = DeepEntries(h)
      /\ g.seen = seen /\ g.article = Urls(listed) \cup DeepEntries(h) \cup seen
      /\ g.read = h.read /\ g.found = h.found /\ g.pool = h.pool
      /\ g.notes = h.notes /\ g.warned = h.warned /\ g.unanswered = h.unanswered
      /\ g.base = h.base /\ g.counts = h.counts /\ g.verdict = h.verdict
  <2>1. g = [h EXCEPT !.stage = "written", !.dedupe = <<>>, !.listed = listed,
               !.entries = DeepEntries(h), !.seen = seen,
               !.article = Urls(listed) \cup DeepEntries(h) \cup seen]
    BY DEF Written
  <2> HIDE DEF g, listed, seen
  <2> QED BY <2>1 DEF RunInv, IsRun, Idle
<1> HIDE DEF g, listed, ToSet
<1>2. /\ IsList(listed)
      /\ \A s \in ToSet(listed) : /\ s \in ToSet(h.found)
                                  /\ \/ IsReportable(h.notes[s])
                                     \/ s \in ToSet(h.read) /\ h.counts[s.url] > 0
  BY ListedToday DEF listed
<1>3. KeepsSources(g) /\ ReadsPapers(g)
  BY <1>1, <1>2 DEF RunInv, KeepsSources, ReadsPapers
<1>4. DeepEntries(g) = DeepEntries(h)
  BY <1>1 DEF DeepEntries
<1>5. KeepsArticle(g)
  BY <1>1, <1>4 DEF RunInv, KeepsArticle
<1>6. Annotated(g)
  BY <1>1 DEF RunInv, Annotated
<1>7. HonestRun(g) /\ Judgeable(g)
  <2>1. NothingToRead(h) => NothingToRead(g)
    BY <1>1, SameCandidates DEF NothingToRead
  <2> QED BY <1>1, <2>1 DEF RunInv, HonestRun, Judgeable, AllAnswered
<1>8. OnceTold(g)
  <2>1. Distinguished(g) => g.entries \cap g.seen = {}
    <3>1. Distinguished(g) => Distinguished(h)
      BY <1>1 DEF Distinguished
    <3> QED BY <1>1, <3>1, ReadNotSeen
  <2>2. ASSUME NEW s \in ToSet(g.listed), g.notes[s].status = "seen"
        PROVE  s.url \in g.entries
    <3>1. s \in ToSet(h.read) /\ h.counts[s.url] > 0
      BY <1>1, <1>2, <2>2 DEF IsReportable
    <3>2. s.url \in DeepEntries(h)
      BY <3>1 DEF DeepEntries
    <3> QED BY <1>1, <3>2
  <2> QED BY <2>1, <2>2 DEF OnceTold
<1>9. Unread(g, rows)
  BY <1>1 DEF Unread
<1> QED
  BY <1>1, <1>3, <1>5, <1>6, <1>7, <1>8, <1>9 DEF RunInv, g

\* What is left once the report is there.
LEMMA Recorded ==
  ASSUME NEW h, RunInv(h), h.stage = "written", NEW rows, Len(rows) \in Nat
  PROVE  RunInv(Report(h, "recorded")) /\ Unread(Report(h, "recorded"), rows)
<1> DEFINE wanted == {s \in ToSet(ToldCandidates(h)) : s.url \in h.article}
           told   == Sift(ToldCandidates(h), wanted)
           g      == Report(h, "recorded")
<1>1. /\ IsRun(g) /\ g.stage = "recorded" /\ g.found = told /\ g.notes = [s \in ToSet(told) |-> h.notes[s]]
      /\ g.article = h.article /\ g.pool = <<>> /\ g.read = <<>> /\ g.listed = <<>>
      /\ g.warned = FALSE /\ g.unanswered = {} /\ g.base = 0 /\ g.verdict = "none"
  <2>1. g = [[Idle EXCEPT !.stage = "recorded", !.entries = h.entries, !.article = h.article]
             EXCEPT !.found = told, !.notes = [s \in ToSet(told) |-> h.notes[s]]]
    BY DEF Report, Article
  <2> HIDE DEF g, told, ToSet
  <2> QED BY <2>1 DEF IsRun, Idle
<1> HIDE DEF g
<1>2. IsList(h.found) /\ ToSet(h.found) \subseteq All
      /\ \A s \in ToSet(h.found) : /\ h.notes[s].keys = FamilyKeys(s)
                                   /\ h.notes[s].status = "seen" => FamilyKeys(s) # <<>>
  <2> HIDE DEF ToSet
  <2> QED BY DEF RunInv, KeepsSources, Annotated
<1>3. IsList(told) /\ \A s \in ToSet(told) : s \in ToSet(h.found) /\ s.url \in h.article
  <2>1. IsList(told) /\ ToSet(told) = ToSet(ToldCandidates(h)) \cap wanted
    <3> HIDE DEF wanted
    <3> QED BY <1>2, CandidateLists, SiftList
  <2>2. \A s \in wanted : s \in ToSet(ToldCandidates(h)) /\ s.url \in h.article
    OBVIOUS
  <2> HIDE DEF ToSet, told, wanted
  <2> QED BY <1>2, <2>1, <2>2, CandidateLists
<1> HIDE DEF told, ToSet
<1>4. IsList(<<>>) /\ ToSet(<<>>) = {}
  BY EmptyList
<1>5. KeepsSources(g) /\ ReadsPapers(g)
  BY <1>1, <1>2, <1>3, <1>4 DEF KeepsSources, ReadsPapers
<1>6. KeepsArticle(g) /\ Annotated(g)
  BY <1>1, <1>2, <1>3 DEF KeepsArticle, Annotated
<1>7. HonestRun(g) /\ Judgeable(g) /\ OnceTold(g)
  BY <1>1 DEF HonestRun, Judgeable, OnceTold, AllAnswered
<1>8. Unread(g, rows)
  BY <1>1, <1>4 DEF Unread
<1> QED
  BY <1>1, <1>5, <1>6, <1>7, <1>8 DEF RunInv, g

\* The end of a run.
LEMMA Finished ==
  ASSUME NEW h, RunInv(h), h.stage = "recorded", NEW rows, Unread(h, rows),
         NEW g, g = [h EXCEPT !.stage = "done"]
  PROVE  RunInv(g) /\ Unread(g, rows) /\ g.article = h.article /\ g.entries = h.entries
<1>1. /\ IsRun(g) /\ g.stage = "done" /\ g.listed = h.listed /\ g.entries = h.entries
      /\ g.article = h.article /\ g.read = h.read /\ g.found = h.found /\ g.pool = h.pool
      /\ g.notes = h.notes /\ g.warned = h.warned /\ g.unanswered = h.unanswered
      /\ g.base = h.base /\ g.verdict = h.verdict
  BY DEF RunInv, IsRun, Idle
<1>2. h.verdict = "none"
  BY DEF RunInv, Judgeable
<1> HIDE DEF ToSet
<1>3. KeepsSources(g) /\ ReadsPapers(g)
  BY <1>1 DEF RunInv, KeepsSources, ReadsPapers
<1>4. KeepsArticle(g) /\ Annotated(g)
  BY <1>1 DEF RunInv, KeepsArticle, Annotated
<1>5. HonestRun(g) /\ Judgeable(g) /\ OnceTold(g)
  BY <1>1, <1>2 DEF RunInv, HonestRun, Judgeable, OnceTold, AllAnswered
<1>6. Unread(g, rows)
  BY <1>1 DEF Unread
<1> QED
  BY <1>1, <1>3, <1>4, <1>5, <1>6 DEF RunInv

-----------------------------------------------------------------------------
(* What is appended to the history.                                        *)

\* A reading is told with the claims that are publishable.
LEMMA ReadingCounts ==
  ASSUME NEW row, DeepSuccessVersions(row) # {}
  PROVE  Field(row.outcome, "publishable_claim_count", 0) > 0
BY DEF DeepSuccessVersions

\* _outcome_row: the keys of the source, and those of its record.
LEMMA OutcomeKeys ==
  ASSUME NEW records, Coherent(records), NEW s, NEW at, NEW outcome,
         NEW row, row = OutcomeRow(s, records, at, outcome)
  PROVE  /\ IsList(row.keys) /\ ToSet(FamilyKeys(s)) \subseteq ToSet(row.keys)
         /\ row.event = "daily_outcome" /\ row.url = s.url /\ row.outcome = outcome
<1> DEFINE keys     == FamilyKeys(s)
           hits     == {i \in DOMAIN keys : keys[i] \in DOMAIN records}
           found    == PreviousRecord(records, keys)
           previous == IF found = {} THEN 0 ELSE (CHOOSE r \in found : TRUE).version
           known    == IF found = {} THEN <<>> ELSE (CHOOSE r \in found : TRUE).keys
<1>1. IsList(keys) /\ hits \in SUBSET Nat
  <2>1. IsList(keys)
    BY FamilyKeysOf
  <2>2. Len(keys) \in Nat /\ DOMAIN keys = 1 .. Len(keys)
    BY <2>1, ListShape
  <2> HIDE DEF keys
  <2> QED BY <2>1, <2>2
<1>2. found = IF hits = {} THEN {} ELSE {records[keys[Min(hits)]]}
  BY DEF PreviousRecord
<1>3. hits # {} => keys[Min(hits)] \in DOMAIN records
  <2> SUFFICES ASSUME hits # {} PROVE keys[Min(hits)] \in DOMAIN records
    OBVIOUS
  <2>1. Min(hits) \in hits
    <3> HIDE DEF hits
    <3> QED BY <1>1, MinIsLeast
  <2> HIDE DEF keys
  <2> QED BY <2>1
<1> HIDE DEF found, hits, ToSet
<1>4. IsList(known)
  <2>1. CASE found = {}
    BY <2>1, EmptyList
  <2>2. CASE found # {}
    <3>1. (CHOOSE r \in found : TRUE) = records[keys[Min(hits)]] /\ hits # {}
      <4> HIDE DEF keys
      <4> QED BY <1>2, <2>2
    <3>2. IsRecord(records[keys[Min(hits)]])
      <4> HIDE DEF keys
      <4> QED BY <1>3, <3>1 DEF Coherent
    <3> HIDE DEF keys
    <3> QED BY <2>2, <3>1, <3>2 DEF IsRecord
  <2> QED BY <2>1, <2>2
<1>5. row = [event |-> "daily_outcome", keys |-> Unrepeated(keys \o known), url |-> s.url,
             version |-> IF SourceVersion(s) # 0 THEN SourceVersion(s) ELSE previous,
             at |-> at, outcome |-> outcome]
  BY DEF OutcomeRow, found
<1> HIDE DEF keys, known, previous
<1>6. IsList(keys \o known) /\ ToSet(keys \o known) = ToSet(keys) \cup ToSet(known)
  BY <1>1, <1>4, ConcatList
<1>7. IsList(Unrepeated(keys \o known))
      /\ ToSet(Unrepeated(keys \o known)) = ToSet(keys) \cup ToSet(known)
  BY <1>6, UnrepeatedList
<1> QED
  BY <1>5, <1>7 DEF keys

\* The rows of a daily run tell of what its article lists, and of a reading
\* only when the article has it.
LEMMA DailyRowsFine ==
  ASSUME Len(history.rows) \in Nat,
         \A i \in 1 .. Len(history.rows) : Identified(history.rows[i]),
         NEW h, RunInv(h), h.stage = "written"
  PROVE  /\ IsList(DailyRows(h))
         /\ \A row \in ToSet(DailyRows(h)) : Identified(row) /\ Backed(row, h)
<1> DEFINE wanted  == {s \in ToSet(h.listed) : FamilyKeys(s) # <<>>}
           tracked == Sift(h.listed, wanted)
           records == LatestRecords(history.rows)
           rows    == [i \in DOMAIN tracked |->
                         OutcomeRow(tracked[i], records, Len(history.rows) + i,
                                    Outcome(h, tracked[i].url))]
<1>1. DailyRows(h) = rows
  BY DEF DailyRows, RowsOf
<1>2. IsList(h.listed) /\ ToSet(h.listed) \subseteq All /\ Urls(h.listed) \subseteq h.article
      /\ h.entries = DeepEntries(h) /\ h.counts \in [Urls(h.read) -> 0 .. 1]
  <2> HIDE DEF ToSet
  <2> QED BY DEF RunInv, KeepsSources, KeepsArticle
<1>3. IsList(tracked) /\ \A s \in ToSet(tracked) : s \in ToSet(h.listed)
  <2>1. IsList(tracked) /\ ToSet(tracked) = ToSet(h.listed) \cap wanted
    <3> HIDE DEF wanted
    <3> QED BY <1>2, SiftList
  <2> HIDE DEF tracked, ToSet
  <2> QED BY <2>1
<1>4. Coherent(records)
  <2>1. \A j \in 1 .. Len(history.rows) : IsList(history.rows[j].keys)
    BY DEF Identified
  <2> QED BY <2>1, HistoryKnows
<1>5. IsList(rows) /\ DOMAIN rows = DOMAIN tracked
  <2>1. rows = [i \in DOMAIN tracked |-> rows[i]]
    OBVIOUS
  <2> HIDE DEF rows
  <2> QED BY <1>3, <2>1, ListOver
<1>6. ASSUME NEW row \in ToSet(rows) PROVE Identified(row) /\ Backed(row, h)
  <2>1. PICK i \in DOMAIN tracked : row = rows[i]
    BY <1>5 DEF ToSet
  <2> DEFINE s == tracked[i]
  <2>2. s \in ToSet(h.listed)
    BY <1>3, ListShape
  <2>3. row = OutcomeRow(s, records, Len(history.rows) + i, Outcome(h, s.url))
    BY <2>1
  <2> HIDE DEF s, rows, tracked, records
  <2>4. /\ IsList(row.keys) /\ ToSet(FamilyKeys(s)) \subseteq ToSet(row.keys)
        /\ row.event = "daily_outcome" /\ row.url = s.url /\ row.outcome = Outcome(h, s.url)
    BY <1>4, <2>3, OutcomeKeys
  <2>5. IsSuccessfulOutcome(row)
    <3>1. Field(row.outcome, "daily_included", FALSE) = TRUE
      BY <2>4 DEF Outcome, Field
    <3> QED BY <2>4, <3>1 DEF IsSuccessfulOutcome
  <2>6. s \in All /\ s.url \in h.article
    <3>1. s.url \in Urls(h.listed)
      BY <2>2 DEF Urls
    <3> HIDE DEF ToSet
    <3> QED BY <1>2, <2>2, <3>1
  <2>7. ASSUME DeepSuccessVersions(row) # {} PROVE s.url \in h.entries
    <3>1. Field(h.counts, s.url, 0) > 0
      <4>1. Field(row.outcome, "publishable_claim_count", 0) = Field(h.counts, s.url, 0)
        BY <2>4 DEF Outcome, Field
      <4> QED BY <2>7, <4>1, ReadingCounts
    <3>2. s.url \in Urls(h.read) /\ h.counts[s.url] > 0
      BY <1>2, <3>1 DEF Field
    <3>3. PICK t \in ToSet(h.read) : t.url = s.url
      BY <3>2 DEF Urls
    <3>4. s.url \in DeepEntries(h)
      BY <3>2, <3>3 DEF DeepEntries
    <3> QED BY <1>2, <3>4
  <2> HIDE DEF ToSet
  <2>8. Identified(row)
    BY <2>4, <2>5, <2>6 DEF Identified
  <2>9. Backed(row, h)
    BY <2>4, <2>6, <2>7 DEF Backed
  <2> QED BY <2>8, <2>9
<1> HIDE DEF rows
<1> QED
  BY <1>1, <1>5, <1>6

\* The rows of a draft tell of no reading.
LEMMA DraftRowsFine ==
  ASSUME NEW h, RunInv(h), h.stage = "done"
  PROVE  /\ IsList(DraftRows(h))
         /\ \A row \in ToSet(DraftRows(h)) : Identified(row) /\ Backed(row, h)
<1> DEFINE wanted  == {s \in ToSet(h.found) : h.notes[s].keys # <<>>}
           tracked == Sift(h.found, wanted)
           rows    == [i \in DOMAIN tracked |->
                         OutcomeRecord(tracked[i], h.notes[tracked[i]], Len(history.rows) + i,
                                       [wechat_draft_status |-> "created"])]
<1>1. DraftRows(h) = rows
  BY DEF DraftRows
<1>2. /\ IsList(h.found)
      /\ \A s \in ToSet(h.found) : s.url \in h.article /\ h.notes[s].keys = FamilyKeys(s)
  <2> HIDE DEF ToSet
  <2> QED BY DEF RunInv, KeepsSources, KeepsArticle, Annotated
<1>3. IsList(tracked) /\ \A s \in ToSet(tracked) : s \in ToSet(h.found)
  <2>1. IsList(tracked) /\ ToSet(tracked) = ToSet(h.found) \cap wanted
    <3> HIDE DEF wanted
    <3> QED BY <1>2, SiftList
  <2> HIDE DEF tracked, ToSet
  <2> QED BY <2>1
<1>4. IsList(rows) /\ DOMAIN rows = DOMAIN tracked
  <2>1. rows = [i \in DOMAIN tracked |-> rows[i]]
    OBVIOUS
  <2> HIDE DEF rows
  <2> QED BY <1>3, <2>1, ListOver
<1>5. ASSUME NEW row \in ToSet(rows) PROVE Identified(row) /\ Backed(row, h)
  <2>1. PICK i \in DOMAIN tracked : row = rows[i]
    BY <1>4 DEF ToSet
  <2> DEFINE s == tracked[i]
  <2>2. s \in ToSet(h.found)
    BY <1>3, ListShape
  <2>3. /\ row.keys = h.notes[s].keys /\ row.url = s.url
        /\ row.outcome = [wechat_draft_status |-> "created"]
    BY <2>1 DEF OutcomeRecord
  <2> HIDE DEF s, rows, tracked
  <2>4. DeepSuccessVersions(row) = {}
    <3>1. Field(row.outcome, "publishable_claim_count", 0) = 0
      BY <2>3 DEF Field
    <3> QED BY <3>1, ReadingCounts
  <2> HIDE DEF ToSet
  <2>5. IsList(row.keys) /\ row.url \in h.article
    BY <1>2, <2>2, <2>3, FamilyKeysOf
  <2> QED BY <2>4, <2>5 DEF Identified, Backed
<1> HIDE DEF rows
<1> QED
  BY <1>1, <1>4, <1>5

-----------------------------------------------------------------------------
(* Every step keeps the invariant.                                         *)

\* The first rows of a list, and nothing more than its rows.
LEMMA FirstRows ==
  ASSUME NEW s, IsList(s), NEW n \in 0 .. Len(s) - 1
  PROVE  IsList(SubSeq(s, 1, n)) /\ \A x \in ToSet(SubSeq(s, 1, n)) : x \in ToSet(s)
<1> DEFINE T == ToSet(s)
<1>1. s \in Seq(T) /\ Len(s) \in Nat
  BY ListShape DEF IsList
<1> HIDE DEF T
<1>2. SubSeq(s, 1, n) \in Seq(T)
  BY <1>1
<1> QED
  BY <1>2, SeqIsList DEF T

\* A run moves: its rows are behind those that were there, and its article
\* loses nothing.
LEMMA OneRunMoves ==
  ASSUME DailyInv, NEW r \in Run, NEW g, Set(r, g), RunInv(g), Unread(g, history.rows),
         run[r].article # {} => run[r].article \subseteq g.article /\ run[r].entries \subseteq g.entries,
         history' = [rows |-> history'.rows, torn |-> history'.torn], IsList(history'.rows),
         Len(history.rows) <= Len(history'.rows),
         \A i \in 1 .. Len(history.rows) : history'.rows[i] = history.rows[i],
         \A i \in Len(history.rows) + 1 .. Len(history'.rows) :
           Identified(history'.rows[i]) /\ Backed(history'.rows[i], g)
  PROVE  DailyInv'
<1>1. /\ run' = [q \in Run |-> run'[q]] /\ run'[r] = g
      /\ \A q \in Run : q # r => run'[q] = run[q]
  <2>1. run = [q \in Run |-> run[q]] /\ run' = [run EXCEPT ![r] = g]
    BY DEF DailyInv, Set
  <2> QED BY <2>1
<1>2. Len(history.rows) \in Nat /\ Len(history'.rows) \in Nat
  <2>1. IsList(history.rows)
    BY DEF DailyInv
  <2> QED BY <2>1, ListShape
<1>3. ASSUME NEW q \in Run PROVE RunInv(run'[q]) /\ Unread(run'[q], history'.rows)
  <2>1. RunInv(run'[q]) /\ Unread(run'[q], history.rows)
    BY <1>1 DEF DailyInv
  <2>2. \A i \in 1 .. run'[q].base : history'.rows[i] = history.rows[i]
    BY <1>2, <2>1 DEF Unread
  <2>3. run'[q].base \in 0 .. Len(history'.rows)
    BY <1>2, <2>1 DEF Unread
  <2>4. Unread(run'[q], history'.rows)
    <3> HIDE DEF ToSet
    <3> QED BY <2>1, <2>2, <2>3 DEF Unread
  <2> QED BY <2>1, <2>4
<1>4. ASSUME NEW i \in 1 .. Len(history'.rows)
      PROVE  Identified(history'.rows[i]) /\ \E q \in Run : Backed(history'.rows[i], run'[q])
  <2>1. CASE i \in 1 .. Len(history.rows)
    <3>1. history'.rows[i] = history.rows[i] /\ Identified(history.rows[i])
      BY <2>1 DEF DailyInv
    <3>2. PICK q \in Run : Backed(history.rows[i], run[q])
      BY <2>1 DEF DailyInv
    <3>3. Backed(history.rows[i], run'[q])
      <4>1. CASE q # r
        BY <1>1, <3>2, <4>1
      <4>2. CASE q = r
        BY <1>1, <3>2, <4>2 DEF Backed
      <4> QED BY <4>1, <4>2
    <3> QED BY <3>1, <3>3
  <2>2. CASE i \in Len(history.rows) + 1 .. Len(history'.rows)
    BY <1>1, <2>2
  <2> QED BY <1>2, <2>1, <2>2
<1> QED
  BY <1>1, <1>3, <1>4 DEF DailyInv

\* A step that leaves the rows alone.
LEMMA QuietStep ==
  ASSUME DailyInv, NEW r \in Run, NEW g, Set(r, g), RunInv(g), Unread(g, history.rows),
         run[r].article # {} => run[r].article \subseteq g.article /\ run[r].entries \subseteq g.entries,
         NEW torn, history' = [history EXCEPT !.torn = torn]
  PROVE  DailyInv'
<1>1. /\ history' = [rows |-> history'.rows, torn |-> history'.torn]
      /\ history'.rows = history.rows
  BY DEF DailyInv
<1>2. IsList(history.rows) /\ Len(history.rows) \in Nat
  BY ListShape DEF DailyInv
<1>3. /\ Len(history.rows) <= Len(history'.rows)
      /\ \A i \in Len(history.rows) + 1 .. Len(history'.rows) : FALSE
  BY <1>1, <1>2
<1> QED
  BY <1>1, <1>2, <1>3, OneRunMoves

\* A step that appends rows its own article tells of.
LEMMA AppendStep ==
  ASSUME DailyInv, NEW r \in Run, NEW g, Set(r, g), RunInv(g), Unread(g, history.rows),
         run[r].article # {} => run[r].article \subseteq g.article /\ run[r].entries \subseteq g.entries,
         NEW more, IsList(more), \A row \in ToSet(more) : Identified(row) /\ Backed(row, g),
         NEW torn, history' = [rows |-> history.rows \o more, torn |-> torn]
  PROVE  DailyInv'
<1>1. IsList(history.rows)
  BY DEF DailyInv
<1>2. /\ history' = [rows |-> history'.rows, torn |-> history'.torn]
      /\ history'.rows = history.rows \o more
  OBVIOUS
<1>3. /\ IsList(history'.rows) /\ Len(history'.rows) = Len(history.rows) + Len(more)
      /\ \A i \in 1 .. Len(history.rows) : history'.rows[i] = history.rows[i]
      /\ \A i \in 1 .. Len(more) : history'.rows[Len(history.rows) + i] = more[i]
  BY <1>1, <1>2, ConcatPlaces
<1>4. Len(history.rows) \in Nat /\ Len(more) \in Nat
      /\ \A i \in 1 .. Len(more) : more[i] \in ToSet(more)
  BY <1>1, ListShape
<1>5. ASSUME NEW i \in Len(history.rows) + 1 .. Len(history'.rows)
      PROVE  Identified(history'.rows[i]) /\ Backed(history'.rows[i], g)
  <2> DEFINE j == i - Len(history.rows)
  <2>1. j \in 1 .. Len(more) /\ Len(history.rows) + j = i
    BY <1>3, <1>4
  <2>2. history'.rows[i] = more[j]
    <3> HIDE DEF j
    <3> QED BY <1>3, <2>1
  <2> HIDE DEF j, ToSet
  <2> QED BY <1>4, <2>1, <2>2
<1> HIDE DEF ToSet
<1>6. Len(history.rows) <= Len(history'.rows)
  BY <1>3, <1>4
<1> QED
  BY <1>2, <1>3, <1>5, <1>6, OneRunMoves

LEMMA DailyInit == Init => DailyInv
<1> SUFFICES ASSUME Init PROVE DailyInv
  OBVIOUS
<1>1. history.rows = <<>> /\ history = [rows |-> history.rows, torn |-> history.torn]
  BY DEF Init
<1>2. run = [r \in Run |-> run[r]] /\ \A r \in Run : run[r] = Idle
  BY DEF Init
<1>3. IsList(<<>>) /\ Len(<<>>) = 0
  BY EmptyList
<1>4. \A r \in Run : RunInv(run[r]) /\ Unread(run[r], history.rows)
  BY <1>1, <1>2, <1>3, Leftover
<1>5. \A i \in 1 .. Len(history.rows) : FALSE
  BY <1>1, <1>3
<1> QED
  BY <1>1, <1>2, <1>3, <1>4, <1>5 DEF DailyInv

\* A run that fails before its report.
LEMMA FailStep ==
  ASSUME DailyInv, NEW r \in Run, run[r].stage \in {"idle", "discovered", "selecting", "reviewed"},
         Fail(r), UNCHANGED history
  PROVE  DailyInv'
<1> DEFINE g == [Idle EXCEPT !.stage = "failed"]
<1>1. Len(history.rows) \in Nat
  BY ListShape DEF DailyInv
<1>2. Set(r, g) /\ RunInv(g) /\ Unread(g, history.rows)
  BY <1>1, Leftover DEF Fail
<1>3. run[r].article = {}
  BY DEF DailyInv, RunInv, KeepsArticle
<1>4. history' = [history EXCEPT !.torn = history.torn]
  BY DEF DailyInv
<1> HIDE DEF g
<1> QED
  BY <1>2, <1>3, <1>4, QuietStep

\* A run of which its article is left, with the rows as they were.
LEMMA LeftStep ==
  ASSUME DailyInv, NEW r \in Run, NEW stage, stage \in {"failed", "drafted"},
         Set(r, Article(run[r], stage)), NEW torn, history' = [history EXCEPT !.torn = torn]
  PROVE  DailyInv'
<1> DEFINE g == Article(run[r], stage)
<1>1. Len(history.rows) \in Nat
  BY ListShape DEF DailyInv
<1>2. RunInv(g) /\ Unread(g, history.rows)
  BY <1>1, Leftover
<1>3. g.article = run[r].article /\ g.entries = run[r].entries
  BY DEF Article, Idle
<1> HIDE DEF g
<1> QED
  BY <1>2, <1>3, QuietStep DEF g

LEMMA DailyStep == DailyInv /\ [Next]_vars => DailyInv'
<1> SUFFICES ASSUME DailyInv, [Next]_vars PROVE DailyInv'
  OBVIOUS
<1>1. Len(history.rows) \in Nat /\ \A i \in 1 .. Len(history.rows) : Identified(history.rows[i])
  BY ListShape DEF DailyInv
<1>2. \A r \in Run : RunInv(run[r]) /\ Unread(run[r], history.rows)
  BY DEF DailyInv
<1>3. UNCHANGED history => history' = [history EXCEPT !.torn = history.torn]
  BY DEF DailyInv
<1>4. CASE UNCHANGED vars
  BY <1>4 DEF vars, DailyInv
<1>5. ASSUME NEW r \in Run, NEW d \in Discoveries, Discover(r, d) PROVE DailyInv'
  <2> DEFINE g == [Idle EXCEPT !.stage = "discovered", !.found = d.sources, !.warned = d.failed,
                               !.unanswered = d.unanswered]
  <2>1. Set(r, g) /\ run[r].stage = "idle" /\ UNCHANGED history
    BY <1>5 DEF Discover
  <2>2. RunInv(g) /\ Unread(g, history.rows)
    BY <1>1, Discovered
  <2>3. run[r].article = {}
    BY <1>2, <2>1 DEF RunInv, KeepsArticle
  <2> HIDE DEF g
  <2> QED BY <1>3, <2>1, <2>2, <2>3, QuietStep
<1>6. ASSUME NEW r \in Run,
             \/ DiscoveryRaises(r) \/ SelectionRaises(r) \/ VerifierFails(r)
             \/ LocalizationFails(r) \/ ReportCut(r) \/ (Annotate(r) /\ history.torn)
      PROVE  DailyInv'
  <2>1. /\ run[r].stage \in {"idle", "discovered", "selecting", "reviewed"}
        /\ Fail(r) /\ UNCHANGED history
    BY <1>6 DEF DiscoveryRaises, SelectionRaises, VerifierFails, LocalizationFails, ReportCut,
                Annotate, SelectionOver
  <2> QED BY <2>1, FailStep
<1>7. ASSUME NEW r \in Run, Annotate(r), ~history.torn PROVE DailyInv'
  <2> DEFINE g == Selecting(run[r], history.rows)
  <2>1. Set(r, g) /\ run[r].stage = "discovered" /\ UNCHANGED history
    BY <1>7 DEF Annotate
  <2>2. RunInv(g) /\ Unread(g, history.rows)
    BY <1>1, <1>2, <2>1, Selected
  <2>3. run[r].article = {}
    BY <1>2, <2>1 DEF RunInv, KeepsArticle
  <2> HIDE DEF g
  <2> QED BY <1>3, <2>1, <2>2, <2>3, QuietStep
<1>8. ASSUME NEW r \in Run, NEW statuses, ReadsOn(run[r]), UNCHANGED history,
             Set(r, [run[r] EXCEPT !.pool = Tail(@), !.statuses = statuses])
      PROVE  DailyInv'
  <2> DEFINE g == [run[r] EXCEPT !.pool = Tail(@), !.statuses = statuses]
  <2>1. run[r].stage = "selecting" /\ run[r].pool # <<>>
    BY <1>8 DEF ReadsOn
  <2>2. RunInv(g) /\ Unread(g, history.rows)
    BY <1>2, <2>1, Passed
  <2>3. run[r].article = {}
    BY <1>2, <2>1 DEF RunInv, KeepsArticle
  <2>4. Set(r, g)
    BY <1>8
  <2> HIDE DEF g
  <2> QED BY <1>3, <1>8, <2>2, <2>3, <2>4, QuietStep
<1>9. ASSUME NEW r \in Run, SkipDuplicate(r) PROVE DailyInv'
  BY <1>8, <1>9 DEF SkipDuplicate
<1>10. ASSUME NEW r \in Run, NEW doc, NEW reads, ReadFails(r, doc, reads) PROVE DailyInv'
  BY <1>8, <1>10 DEF ReadFails
<1>11. ASSUME NEW r \in Run, NEW doc, ReadSucceeds(r, doc) PROVE DailyInv'
  <2> DEFINE statuses == WithStatus(run[r], Head(run[r].pool).url, "succeeded")
             g == [run[r] EXCEPT !.pool = Tail(@), !.read = Append(@, Head(run[r].pool)),
                                 !.statuses = statuses]
  <2>1. run[r].stage = "selecting" /\ run[r].pool # <<>> /\ UNCHANGED history /\ Set(r, g)
    BY <1>11 DEF ReadSucceeds, ReadsOn
  <2> HIDE DEF statuses
  <2>2. RunInv(g) /\ Unread(g, history.rows)
    BY <1>2, <2>1, WasRead
  <2>3. run[r].article = {}
    BY <1>2, <2>1 DEF RunInv, KeepsArticle
  <2> HIDE DEF g
  <2> QED BY <1>3, <2>1, <2>2, <2>3, QuietStep
<1>12. ASSUME NEW r \in Run, NEW counts, NEW reviewed, Review(r, counts, reviewed) PROVE DailyInv'
  <2> DEFINE q == [run[r] EXCEPT !.stage = "reviewed", !.pool = <<>>, !.families = <<>>,
                                 !.counts = counts, !.statuses = MarkedStatuses(run[r])]
             a == [eligible |-> q.eligible, deepRead |-> Cardinality(DeepEntries(q)),
                   publishable |-> Cardinality({url \in DOMAIN counts : counts[url] > 0}),
                   discoveryFailed |-> q.warned,
                   statuses |-> {q.statuses[u] : u \in DOMAIN q.statuses},
                   reviewed |-> IF reviewed THEN 1 ELSE 0]
             verdict == IF DeepLimit > 0 THEN AssessResearchOutcome(a).status ELSE "not_deep"
             g == [q EXCEPT !.verdict = verdict]
  <2>1. /\ run[r].stage = "selecting" /\ UNCHANGED history /\ Set(r, g)
        /\ counts \in [Urls(run[r].read) -> 0 .. 1]
    BY <1>12 DEF Review, SelectionOver
  <2>2. q.eligible = run[r].eligible /\ q.warned = run[r].warned
    BY <1>2 DEF RunInv, IsRun, Idle
  <2>3. /\ a.eligible = run[r].eligible /\ a.discoveryFailed = run[r].warned
        /\ a.publishable = Cardinality(Shown(counts))
    <3> HIDE DEF q
    <3> QED BY <2>2 DEF Shown
  <2> HIDE DEF a
  <2>4. RunInv(g) /\ Unread(g, history.rows)
    <3>1. verdict = IF DeepLimit > 0 THEN AssessResearchOutcome(a).status ELSE "not_deep"
      OBVIOUS
    <3> HIDE DEF verdict
    <3>2. /\ IsRun(g) /\ g.stage = "reviewed" /\ g.pool = <<>> /\ g.counts = counts
          /\ g.verdict = verdict /\ g.read = run[r].read /\ g.found = run[r].found
          /\ g.listed = run[r].listed /\ g.article = run[r].article /\ g.notes = run[r].notes
          /\ g.warned = run[r].warned /\ g.unanswered = run[r].unanswered
          /\ g.base = run[r].base
      BY <1>2 DEF RunInv, IsRun, Idle
    <3>3. RunInv(run[r]) /\ Unread(run[r], history.rows)
      BY <1>2
    <3> HIDE DEF g, q
    <3> QED BY <2>1, <2>3, <3>1, <3>2, <3>3, Reviewed
  <2>5. run[r].article = {}
    BY <1>2, <2>1 DEF RunInv, KeepsArticle
  <2> HIDE DEF g
  <2> QED BY <1>3, <2>1, <2>4, <2>5, QuietStep
<1>13. ASSUME NEW r \in Run, WriteReport(r) PROVE DailyInv'
  <2> DEFINE g == Written(run[r])
  <2>1. run[r].stage = "reviewed" /\ UNCHANGED history /\ Set(r, g)
    BY <1>13 DEF WriteReport
  <2>2. RunInv(g) /\ Unread(g, history.rows)
    BY <1>2, <2>1, Reported
  <2>3. run[r].article = {}
    BY <1>2, <2>1 DEF RunInv, KeepsArticle
  <2> HIDE DEF g
  <2> QED BY <1>3, <2>1, <2>2, <2>3, QuietStep
<1>14. ASSUME NEW r \in Run, run[r].stage = "written", NEW g, Set(r, g),
              \/ g = Report(run[r], "recorded") \/ g = Article(run[r], "failed"),
              NEW more, IsList(more), \A row \in ToSet(more) : row \in ToSet(DailyRows(run[r])),
              NEW torn, history' = [rows |-> history.rows \o more, torn |-> torn]
       PROVE  DailyInv'
  <2>1. RunInv(g) /\ Unread(g, history.rows)
    BY <1>1, <1>2, <1>14, Leftover, Recorded
  <2>2. g.article = run[r].article /\ g.entries = run[r].entries
    <3>1. CASE g = Article(run[r], "failed")
      BY <3>1 DEF Article, Idle
    <3>2. CASE g = Report(run[r], "recorded")
      <4> DEFINE told  == Sift(ToldCandidates(run[r]),
                               {s \in ToSet(ToldCandidates(run[r])) : s.url \in run[r].article})
                 notes == [s \in ToSet(told) |-> run[r].notes[s]]
      <4>1. g = [Article(run[r], "recorded") EXCEPT !.found = told, !.notes = notes]
        BY <3>2 DEF Report
      <4> HIDE DEF told, notes
      <4> QED BY <4>1 DEF Article, Idle
    <3> QED BY <1>14, <3>1, <3>2
  <2>3. \A row \in ToSet(more) : Identified(row) /\ Backed(row, g)
    <3>1. \A row \in ToSet(DailyRows(run[r])) : Identified(row) /\ Backed(row, run[r])
      BY <1>1, <1>2, <1>14, DailyRowsFine
    <3> HIDE DEF ToSet
    <3> QED BY <1>14, <2>2, <3>1 DEF Backed
  <2> HIDE DEF ToSet
  <2> QED BY <1>14, <2>1, <2>2, <2>3, AppendStep
<1>15. ASSUME NEW r \in Run, AppendHistory(r) PROVE DailyInv'
  <2>1. /\ run[r].stage = "written" /\ Set(r, Report(run[r], "recorded"))
        /\ history' = [rows |-> history.rows \o DailyRows(run[r]), torn |-> history.torn]
    <3>1. history = [rows |-> history.rows, torn |-> history.torn]
      BY DEF DailyInv
    <3> QED BY <1>15, <3>1 DEF AppendHistory
  <2>2. IsList(DailyRows(run[r]))
    BY <1>1, <1>2, <2>1, DailyRowsFine
  <2> QED BY <1>14, <2>1, <2>2
<1>16. ASSUME NEW r \in Run, NEW i \in DOMAIN run[r].listed,
              AppendWarned(r, i - 1) \/ AppendCut(r, i - 1)
       PROVE  DailyInv'
  <2> DEFINE rows == DailyRows(run[r])
             n    == i - 1
             more == SubSeq(rows, 1, n)
  <2>1. run[r].stage = "written" /\ n \in 0 .. Len(rows) - 1
    BY <1>16 DEF AppendWarned, AppendCut
  <2>2. IsList(rows)
    BY <1>1, <1>2, <2>1, DailyRowsFine
  <2>3. IsList(more) /\ \A row \in ToSet(more) : row \in ToSet(rows)
    <3> HIDE DEF rows, n, ToSet
    <3> QED BY <2>1, <2>2, FirstRows
  <2>4. PICK torn, g : /\ Set(r, g) /\ history' = [rows |-> history.rows \o more, torn |-> torn]
                       /\ g = Report(run[r], "recorded") \/ g = Article(run[r], "failed")
    BY <1>16 DEF AppendWarned, AppendCut
  <2> HIDE DEF more
  <2> QED BY <1>14, <2>1, <2>3, <2>4
<1>17. ASSUME NEW r \in Run, AppendRaises(r) PROVE DailyInv'
  BY <1>3, <1>17, LeftStep DEF AppendRaises
<1>18. ASSUME NEW r \in Run, Finish(r) PROVE DailyInv'
  <2>1. CASE Set(r, Article(run[r], "failed"))
    BY <1>3, <1>18, <2>1, LeftStep DEF Finish
  <2>2. CASE Set(r, [run[r] EXCEPT !.stage = "done"])
    <3> DEFINE g == [run[r] EXCEPT !.stage = "done"]
    <3>1. RunInv(g) /\ Unread(g, history.rows) /\ g.article = run[r].article
            /\ g.entries = run[r].entries
      BY <1>2, <1>18, Finished DEF Finish
    <3>2. Set(r, g) /\ UNCHANGED history
      BY <1>18, <2>2 DEF Finish
    <3> HIDE DEF g
    <3> QED BY <1>3, <3>1, <3>2, QuietStep
  <2> QED BY <1>18, <2>1, <2>2 DEF Finish
<1>19. ASSUME NEW r \in Run, CreateDraft(r) PROVE DailyInv'
  <2>1. Set(r, Article(run[r], "drafted")) /\ run[r].stage = "done"
    BY <1>19 DEF CreateDraft, Drafted, HasReport
  <2>2. CASE history.torn
    BY <1>3, <1>19, <2>1, <2>2, LeftStep DEF CreateDraft
  <2>3. CASE ~history.torn
    <3> DEFINE g == Article(run[r], "drafted")
    <3>1. history' = [rows |-> history.rows \o DraftRows(run[r]), torn |-> history.torn]
      <4>1. history = [rows |-> history.rows, torn |-> history.torn]
        BY DEF DailyInv
      <4> QED BY <1>19, <2>3, <4>1 DEF CreateDraft
    <3>2. g.article = run[r].article /\ g.entries = run[r].entries
      BY DEF Article, Idle
    <3>3. RunInv(g) /\ Unread(g, history.rows)
      BY <1>1, Leftover
    <3>4. /\ IsList(DraftRows(run[r]))
          /\ \A row \in ToSet(DraftRows(run[r])) : Identified(row) /\ Backed(row, g)
      BY <1>2, <2>1, <3>2, DraftRowsFine DEF Backed
    <3>5. Set(r, g)
      BY <2>1
    <3> HIDE DEF g, ToSet
    <3> QED BY <3>1, <3>2, <3>3, <3>4, <3>5, AppendStep
  <2> QED BY <2>2, <2>3
<1>20. ASSUME NEW r \in Run, DraftUnrecorded(r) PROVE DailyInv'
  <2>1. PICK cut \in BOOLEAN : history' = [history EXCEPT !.torn = @ \/ cut]
    BY <1>20 DEF DraftUnrecorded
  <2>2. \E torn : history' = [history EXCEPT !.torn = torn]
    BY <2>1
  <2>3. Set(r, Article(run[r], "drafted"))
    BY <1>20 DEF DraftUnrecorded, Drafted
  <2> QED BY <2>2, <2>3, LeftStep
<1> QED
  BY <1>4, <1>5, <1>6, <1>7, <1>9, <1>10, <1>11, <1>12, <1>13, <1>15, <1>16, <1>17, <1>18, <1>19,
     <1>20 DEF Next

-----------------------------------------------------------------------------
(* The theorems.                                                           *)

\* What a run holds fits together, and every row of the history belongs to a
\* report, whatever fails, breaks off or overlaps.
THEOREM DailyInvariant == Spec => []DailyInv
BY DailyInit, DailyStep, PTL DEF Spec

\* A version that the history tells was read and published is not read again.
THEOREM DailyNotReadTwice == Spec => []NotReadTwice
<1>1. DailyInv => NotReadTwice
  BY DEF DailyInv, Unread, NotReadTwice
<1> QED
  BY <1>1, DailyInvariant, PTL

\* Every row of the history speaks of a report that was written.
THEOREM DailyHistoryBacked == Spec => []HistoryBacked
<1>1. DailyInv => HistoryBacked
  <2> SUFFICES ASSUME DailyInv, NEW i \in DOMAIN history.rows
               PROVE  \E r \in Run : /\ history.rows[i].url \in run[r].article
                                     /\ DeepSuccessVersions(history.rows[i]) # {} =>
                                          history.rows[i].url \in run[r].entries
    BY DEF HistoryBacked
  <2>1. i \in 1 .. Len(history.rows)
    BY ListShape DEF DailyInv
  <2> QED BY <2>1 DEF DailyInv, Backed
<1> QED
  BY <1>1, DailyInvariant, PTL

\* A report is called ready, or said to have nothing new, only when it is so.
THEOREM DailyVerdictHonest == Spec => []VerdictHonest
<1>1. DailyInv => VerdictHonest
  BY DEF DailyInv, RunInv, HonestRun, AllAnswered, NothingToRead, VerdictHonest
<1> QED
  BY <1>1, DailyInvariant, PTL

\* No report shows a paper as read and as seen before, or lists as news what
\* was seen and is not published today.
THEOREM DailyOncePerReport == Spec => []OncePerReport
<1>1. DailyInv => OncePerReport
  BY DEF DailyInv, RunInv, OnceTold, OncePerReport
<1> QED
  BY <1>1, DailyInvariant, PTL
=============================================================================
