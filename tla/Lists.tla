------------------------------- MODULE Lists -------------------------------
(***************************************************************************)
(* Lists and dictionaries as the program goes through them.  The recursive *)
(* functions compute what SelectSeq, FoldLeft and SortSeq would, in a form *)
(* that the provers can unfold.                                            *)
(***************************************************************************)
EXTENDS Integers, SequencesExt

IsList(s) == s \in Seq(ToSet(s))

\* The items of a list that are in a set, in their order.
Sift(items, wanted) ==
  LET sifted[n \in 0 .. Len(items)] ==
        IF n = 0 THEN <<>>
        ELSE IF items[n] \in wanted THEN Append(sifted[n - 1], items[n]) ELSE sifted[n - 1]
  IN sifted[Len(items)]

\* list(dict.fromkeys(items)): every item once, where it comes first.
Unrepeated(items) ==
  LET kept[n \in 0 .. Len(items)] ==
        IF n = 0 THEN <<>>
        ELSE LET before == kept[n - 1]
             IN IF items[n] \in ToSet(before) THEN before ELSE Append(before, items[n])
  IN kept[Len(items)]

\* {**g, **f}
Over(f, g) == [x \in DOMAIN f \cup DOMAIN g |-> IF x \in DOMAIN f THEN f[x] ELSE g[x]]

\* Tuples of numbers are compared at the first place where they differ.
KeyAbove(k, l) ==
  \E i \in DOMAIN k : k[i] > l[i] /\ \A j \in 1 .. i - 1 : k[j] = l[j]

\* The places of the first n - 1 items, best first, with that of the n-th: it
\* goes behind all that are not below it.
Placed(before, keys, n) ==
  LET ahead == Cardinality({m \in DOMAIN before : ~KeyAbove(keys[n], keys[before[m]])})
  IN [m \in 1 .. n |-> IF m <= ahead THEN before[m]
                       ELSE IF m = ahead + 1 THEN n ELSE before[m - 1]]

\* sorted(..., reverse=True) with the keys of the items: what ties keeps its order.
RankedBy(items, keys) ==
  LET ranking[n \in 0 .. Len(items)] ==
        IF n = 0 THEN <<>> ELSE Placed(ranking[n - 1], keys, n)
  IN [m \in DOMAIN items |-> items[ranking[Len(items)][m]]]
=============================================================================
