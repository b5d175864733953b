------------------------- MODULE TraceBundleProofs -------------------------
(***************************************************************************)
(* The safety properties of TraceBundle, for every limit, every recording  *)
(* and every bundle that something else left at the path.                  *)
(*                                                                         *)
(* A reader goes over a file by recursion over its entries or lines.  Each *)
(* recursive function is unfolded once, by induction over their number;    *)
(* what it computes is proved by induction from the unfolding.             *)
(***************************************************************************)
EXTENDS TraceBundle, TLAPS, WellFoundedInduction, SequenceTheorems

-----------------------------------------------------------------------------
(* Induction over the natural numbers, for sets.                            *)

LEMMA LeastNat ==
  ASSUME NEW T, T \subseteq Nat, T # {}
  PROVE  \E n \in T : \A m \in T : n <= m
<1> DEFINE R == OpToRel(<, Nat)
<1>1. IsWellFoundedOn(R, Nat)
  BY NatLessThanWellFounded
<1>2. PICK n \in T : \A m \in T : <<m, n>> \notin R
  <2> HIDE DEF R
  <2>1. QED
    BY <1>1, WFMin
<1>3. \A m \in T : ~(m < n)
  BY <1>2 DEF OpToRel
<1>4. QED
  BY <1>3

LEMMA Induct ==
  ASSUME NEW P, 0 \in P, \A n \in Nat : n \in P => n + 1 \in P
  PROVE  Nat \subseteq P
<1> SUFFICES ASSUME Nat \ P # {} PROVE FALSE
  OBVIOUS
<1>1. PICK n \in Nat \ P : \A m \in Nat \ P : n <= m
  BY LeastNat
<1>2. n # 0 /\ n - 1 \in Nat /\ n - 1 \in P
  BY <1>1
<1>3. QED
  BY <1>2

(* Up to a bound.                                                           *)
LEMMA InductTo ==
  ASSUME NEW a \in Nat, NEW b \in Nat, NEW P, a \in P,
         \A i \in a..b : i \in P /\ i < b => i + 1 \in P
  PROVE  a..b \subseteq P
<1> DEFINE Q == {n \in Nat : a + n <= b => a + n \in P}
<1>1. 0 \in Q
  OBVIOUS
<1>2. \A n \in Nat : n \in Q => n + 1 \in Q
  <2> TAKE n \in Nat
  <2> HAVE n \in Q
  <2>1. CASE a + n < b
    <3>1. a + n \in a..b /\ a + n \in P
      BY <2>1
    <3>2. QED
      BY <2>1, <3>1
  <2>2. QED
    BY <2>1
<1> HIDE DEF Q
<1>3. Nat \subseteq Q
  BY <1>1, <1>2, Induct
<1>4. ASSUME NEW i \in a..b PROVE i \in P
  <2>1. i - a \in Nat /\ a + (i - a) = i
    OBVIOUS
  <2>2. i - a \in Q
    BY <1>3, <2>1
  <2>3. QED
    BY <2>1, <2>2 DEF Q
<1>5. QED
  BY <1>4

-----------------------------------------------------------------------------
(* The recursive functions of the model, unfolded.                          *)

LEMMA TotalsUnfold ==
  ASSUME NEW sizes, Len(sizes) \in Nat
  PROVE  Totals(sizes) =
           [n \in 0..Len(sizes) |->
              IF n = 0 THEN 0 ELSE Totals(sizes)[n - 1] + sizes[n]]
<1> DEFINE Next1(x, n) == x + sizes[n]
           Solves(f, m) == f = [n \in 0..m |-> IF n = 0 THEN 0 ELSE Next1(f[n - 1], n)]
           P == {m \in Nat : \E f : Solves(f, m)}
<1> HIDE DEF Next1, Solves
<1>1. 0 \in P
  <2>1. Solves([n \in {0} |-> 0], 0)
    BY DEF Solves
  <2>2. QED
    BY <2>1
<1>2. \A m \in Nat : m \in P => m + 1 \in P
  <2> SUFFICES ASSUME NEW m \in Nat, m \in P
               PROVE  \E f : Solves(f, m + 1)
    OBVIOUS
  <2> DEFINE k == m
  <2>1. PICK f : Solves(f, k)
    OBVIOUS
  <2> DEFINE g == [n \in 0..(k + 1) |-> IF n <= k THEN f[n] ELSE Next1(f[k], n)]
  <2>2. \A n \in 0..(k + 1) : g[n] = IF n = 0 THEN 0 ELSE Next1(g[n - 1], n)
    <3> TAKE n \in 0..(k + 1)
    <3>1. CASE n = 0
      BY <2>1, <3>1 DEF Solves
    <3>2. CASE n \in 1..k
      BY <2>1, <3>2 DEF Solves
    <3>3. CASE n = k + 1
      BY <3>3
    <3>4. QED
      BY <3>1, <3>2, <3>3
  <2>3. Solves(g, k + 1)
    BY <2>2 DEF Solves
  <2>4. QED
    BY <2>3
<1>3. \E f : Solves(f, Len(sizes))
  <2> HIDE DEF P
  <2>1. Len(sizes) \in P
    BY <1>1, <1>2, Induct
  <2>2. QED
    BY <2>1 DEF P
<1>4. Totals(sizes) = CHOOSE f : Solves(f, Len(sizes))
  BY DEF Totals, Solves, Next1
<1>5. Solves(Totals(sizes), Len(sizes))
  BY <1>3, <1>4, Zenon
<1>6. QED
  BY <1>5, Zenon DEF Solves, Next1

LEMMA DeclaredUnfold ==
  ASSUME NEW entries, NEW names, Len(entries) \in Nat
  PROVE  DeclaredTo(entries, names) =
           [n \in 0..Len(entries) |->
              IF n = 0 THEN 0 ELSE IF entries[n].name \in names THEN SaturatingAdd(DeclaredTo(entries, names)[n - 1], entries[n].size)
              ELSE DeclaredTo(entries, names)[n - 1]]
<1> DEFINE Next1(x, n) == IF entries[n].name \in names THEN SaturatingAdd(x, entries[n].size)
              ELSE x
           Solves(f, m) == f = [n \in 0..m |-> IF n = 0 THEN 0 ELSE Next1(f[n - 1], n)]
           P == {m \in Nat : \E f : Solves(f, m)}
<1> HIDE DEF Next1, Solves
<1>1. 0 \in P
  <2>1. Solves([n \in {0} |-> 0], 0)
    BY DEF Solves
  <2>2. QED
    BY <2>1
<1>2. \A m \in Nat : m \in P => m + 1 \in P
  <2> SUFFICES ASSUME NEW m \in Nat, m \in P
               PROVE  \E f : Solves(f, m + 1)
    OBVIOUS
  <2> DEFINE k == m
  <2>1. PICK f : Solves(f, k)
    OBVIOUS
  <2> DEFINE g == [n \in 0..(k + 1) |-> IF n <= k THEN f[n] ELSE Next1(f[k], n)]
  <2>2. \A n \in 0..(k + 1) : g[n] = IF n = 0 THEN 0 ELSE Next1(g[n - 1], n)
    <3> TAKE n \in 0..(k + 1)
    <3>1. CASE n = 0
      BY <2>1, <3>1 DEF Solves
    <3>2. CASE n \in 1..k
      BY <2>1, <3>2 DEF Solves
    <3>3. CASE n = k + 1
      BY <3>3
    <3>4. QED
      BY <3>1, <3>2, <3>3
  <2>3. Solves(g, k + 1)
    BY <2>2 DEF Solves
  <2>4. QED
    BY <2>3
<1>3. \E f : Solves(f, Len(entries))
  <2> HIDE DEF P
  <2>1. Len(entries) \in P
    BY <1>1, <1>2, Induct
  <2>2. QED
    BY <2>1 DEF P
<1>4. DeclaredTo(entries, names) = CHOOSE f : Solves(f, Len(entries))
  BY DEF DeclaredTo, Solves, Next1
<1>5. Solves(DeclaredTo(entries, names), Len(entries))
  BY <1>3, <1>4, Zenon
<1>6. QED
  BY <1>5, Zenon DEF Solves, Next1

LEMMA SeenUnfold ==
  ASSUME NEW ls, Len(ls) \in Nat
  PROVE  SeenIn(ls) =
           [n \in 0..Len(ls) |->
              IF n = 0 THEN Unread ELSE Inspected(ls[n], SeenIn(ls)[n - 1])]
<1> DEFINE Next1(x, n) == Inspected(ls[n], x)
           Solves(f, m) == f = [n \in 0..m |-> IF n = 0 THEN Unread ELSE Next1(f[n - 1], n)]
           P == {m \in Nat : \E f : Solves(f, m)}
<1> HIDE DEF Next1, Solves
<1>1. 0 \in P
  <2>1. Solves([n \in {0} |-> Unread], 0)
    BY DEF Solves
  <2>2. QED
    BY <2>1
<1>2. \A m \in Nat : m \in P => m + 1 \in P
  <2> SUFFICES ASSUME NEW m \in Nat, m \in P
               PROVE  \E f : Solves(f, m + 1)
    OBVIOUS
  <2> DEFINE k == m
  <2>1. PICK f : Solves(f, k)
    OBVIOUS
  <2> DEFINE g == [n \in 0..(k + 1) |-> IF n <= k THEN f[n] ELSE Next1(f[k], n)]
  <2>2. \A n \in 0..(k + 1) : g[n] = IF n = 0 THEN Unread ELSE Next1(g[n - 1], n)
    <3> TAKE n \in 0..(k + 1)
    <3>1. CASE n = 0
      BY <2>1, <3>1 DEF Solves
    <3>2. CASE n \in 1..k
      BY <2>1, <3>2 DEF Solves
    <3>3. CASE n = k + 1
      BY <3>3
    <3>4. QED
      BY <3>1, <3>2, <3>3
  <2>3. Solves(g, k + 1)
    BY <2>2 DEF Solves
  <2>4. QED
    BY <2>3
<1>3. \E f : Solves(f, Len(ls))
  <2> HIDE DEF P
  <2>1. Len(ls) \in P
    BY <1>1, <1>2, Induct
  <2>2. QED
    BY <2>1 DEF P
<1>4. SeenIn(ls) = CHOOSE f : Solves(f, Len(ls))
  BY DEF SeenIn, Solves, Next1
<1>5. Solves(SeenIn(ls), Len(ls))
  BY <1>3, <1>4, Zenon
<1>6. QED
  BY <1>5, Zenon DEF Solves, Next1

-----------------------------------------------------------------------------
(* Sums of sizes.                                                           *)

LEMMA SeqOver ==
  ASSUME NEW S, NEW T, NEW s \in Seq(S), \A i \in 1..Len(s) : s[i] \in T
  PROVE  s \in Seq(T)
<1>1. Len(s) \in Nat /\ s = [i \in 1..Len(s) |-> s[i]]
  OBVIOUS
<1>2. s \in [1..Len(s) -> T]
  BY <1>1
<1>3. QED
  BY <1>1, <1>2

LEMMA TotalsAt ==
  ASSUME NEW sizes \in Seq(Nat)
  PROVE  /\ Len(sizes) \in Nat /\ Totals(sizes)[0] = 0
         /\ \A i \in 1..Len(sizes) : Totals(sizes)[i] = Totals(sizes)[i - 1] + sizes[i]
<1>1. Len(sizes) \in Nat
  OBVIOUS
<1> DEFINE T == Totals(sizes)
<1>2. T = [n \in 0..Len(sizes) |-> IF n = 0 THEN 0 ELSE T[n - 1] + sizes[n]]
  BY <1>1, TotalsUnfold
<1> HIDE DEF T
<1>3. T[0] = 0 /\ \A i \in 1..Len(sizes) : T[i] = T[i - 1] + sizes[i]
  BY <1>1, <1>2
<1>4. QED
  BY <1>1, <1>3 DEF T

LEMMA TotalsNat ==
  ASSUME NEW sizes \in Seq(Nat)
  PROVE  \A i \in 0..Len(sizes) : Totals(sizes)[i] \in Nat
<1> DEFINE P == {i \in 0..Len(sizes) : Totals(sizes)[i] \in Nat}
<1>1. Len(sizes) \in Nat /\ 0 \in P
  BY TotalsAt
<1>2. ASSUME NEW i \in 0..Len(sizes), i \in P, i < Len(sizes)
      PROVE  i + 1 \in P
  <2>1. i + 1 \in 1..Len(sizes) /\ (i + 1) - 1 = i
    BY <1>1, <1>2
  <2>2. Totals(sizes)[i + 1] = Totals(sizes)[i] + sizes[i + 1]
    BY <2>1, TotalsAt
  <2>3. sizes[i + 1] \in Nat
    BY <2>1
  <2>4. QED
    BY <1>2, <2>1, <2>2, <2>3
<1> HIDE DEF P
<1>3. 0..Len(sizes) \subseteq P
  BY <1>1, <1>2, InductTo
<1>4. QED
  BY <1>3 DEF P

(* A part is never more than the whole.                                     *)
LEMMA TotalsGrow ==
  ASSUME NEW sizes \in Seq(Nat), NEW a \in 0..Len(sizes)
  PROVE  Totals(sizes)[a] <= Total(sizes)
<1> DEFINE P == {i \in a..Len(sizes) : Totals(sizes)[a] <= Totals(sizes)[i]}
<1>1. Len(sizes) \in Nat /\ a \in Nat /\ a \in P
  BY TotalsAt, TotalsNat
<1>2. ASSUME NEW i \in a..Len(sizes), i \in P, i < Len(sizes)
      PROVE  i + 1 \in P
  <2>1. i + 1 \in 1..Len(sizes) /\ (i + 1) - 1 = i /\ i \in 0..Len(sizes)
    BY <1>1, <1>2
  <2>2. Totals(sizes)[i + 1] = Totals(sizes)[i] + sizes[i + 1]
    BY <2>1, TotalsAt
  <2>3. sizes[i + 1] \in Nat
    BY <2>1
  <2>4. Totals(sizes)[a] \in Nat /\ Totals(sizes)[i] \in Nat
    BY <2>1, TotalsNat
  <2>5. QED
    BY <1>1, <1>2, <2>1, <2>2, <2>3, <2>4
<1> HIDE DEF P
<1>3. a..Len(sizes) \subseteq P
  BY <1>1, <1>2, InductTo
<1>4. Len(sizes) \in a..Len(sizes)
  BY <1>1
<1>5. QED
  BY <1>3, <1>4 DEF P, Total

LEMMA TotalNat ==
  ASSUME NEW sizes \in Seq(Nat)
  PROVE  Total(sizes) \in Nat
<1>1. Len(sizes) \in 0..Len(sizes)
  BY TotalsAt
<1>2. QED
  BY <1>1, TotalsNat DEF Total

LEMMA TotalAppend ==
  ASSUME NEW sizes \in Seq(Nat), NEW size \in Nat
  PROVE  Total(Append(sizes, size)) = Total(sizes) + size
<1> DEFINE more == Append(sizes, size)
           P == {i \in 0..Len(sizes) : Totals(more)[i] = Totals(sizes)[i]}
<1>1. /\ more \in Seq(Nat) /\ Len(more) = Len(sizes) + 1 /\ Len(sizes) \in Nat
      /\ \A i \in 1..Len(sizes) : more[i] = sizes[i]
      /\ more[Len(sizes) + 1] = size
  OBVIOUS
<1> HIDE DEF more
<1>2. 0 \in P
  BY <1>1, TotalsAt
<1>3. ASSUME NEW i \in 0..Len(sizes), i \in P, i < Len(sizes)
      PROVE  i + 1 \in P
  <2>1. i + 1 \in 1..Len(sizes) /\ i + 1 \in 1..Len(more) /\ (i + 1) - 1 = i
    BY <1>1, <1>3
  <2>2. Totals(sizes)[i + 1] = Totals(sizes)[i] + sizes[i + 1]
    BY <2>1, TotalsAt
  <2>3. Totals(more)[i + 1] = Totals(more)[i] + more[i + 1]
    BY <1>1, <2>1, TotalsAt
  <2>4. QED
    BY <1>1, <1>3, <2>1, <2>2, <2>3
<1>4. Totals(more)[Len(sizes)] = Totals(sizes)[Len(sizes)]
  <2> HIDE DEF P
  <2>1. 0..Len(sizes) \subseteq P
    BY <1>1, <1>2, <1>3, InductTo
  <2>2. QED
    BY <1>1, <2>1 DEF P
<1>5. Len(more) \in 1..Len(more) /\ Len(more) - 1 = Len(sizes)
  BY <1>1
<1>6. Totals(more)[Len(more)] = Totals(more)[Len(sizes)] + size
  BY <1>1, <1>5, TotalsAt
<1>7. QED
  BY <1>4, <1>6 DEF Total, more

LEMMA EmptyTotal == Total(<<>>) = 0
<1>1. <<>> \in Seq(Nat) /\ Len(<<>>) = 0
  OBVIOUS
<1>2. QED
  BY <1>1, TotalsAt DEF Total

(* The sizes of items, and of one more.                                     *)
LEMMA SizesSeq ==
  ASSUME NEW S, NEW items \in Seq(S), \A x \in S : x.size \in Nat
  PROVE  /\ SizesOf(items) \in Seq(Nat) /\ Len(SizesOf(items)) = Len(items)
         /\ \A i \in 1..Len(items) : SizesOf(items)[i] = items[i].size
<1>1. DOMAIN items = 1..Len(items) /\ Len(items) \in Nat
  OBVIOUS
<1>2. \A i \in 1..Len(items) : items[i].size \in Nat
  BY <1>1
<1>3. SizesOf(items) = [i \in 1..Len(items) |-> items[i].size]
  BY <1>1 DEF SizesOf
<1>4. SizesOf(items) \in [1..Len(items) -> Nat]
  BY <1>2, <1>3
<1>5. QED
  BY <1>1, <1>3, <1>4

LEMMA SizesAppend ==
  ASSUME NEW S, NEW items \in Seq(S), NEW item \in S, \A x \in S : x.size \in Nat
  PROVE  SizesOf(Append(items, item)) = Append(SizesOf(items), item.size)
<1> DEFINE more == Append(items, item)
           all == Append(SizesOf(items), item.size)
<1>1. SizesOf(items) \in Seq(Nat) /\ Len(SizesOf(items)) = Len(items) /\ Len(items) \in Nat
      /\ \A i \in 1..Len(items) : SizesOf(items)[i] = items[i].size
  BY SizesSeq
<1>2. more \in Seq(S) /\ Len(more) = Len(items) + 1
      /\ (\A i \in 1..Len(items) : more[i] = items[i]) /\ more[Len(items) + 1] = item
  OBVIOUS
<1>3. all \in Seq(Nat) /\ Len(all) = Len(items) + 1
      /\ (\A i \in 1..Len(items) : all[i] = items[i].size) /\ all[Len(items) + 1] = item.size
  BY <1>1
<1> HIDE DEF more, all
<1>4. /\ SizesOf(more) \in Seq(Nat) /\ Len(SizesOf(more)) = Len(more)
      /\ \A i \in 1..Len(more) : SizesOf(more)[i] = more[i].size
  BY <1>2, SizesSeq
<1>5. \A i \in 1..Len(more) : SizesOf(more)[i] = all[i]
  <2> TAKE i \in 1..Len(more)
  <2>1. i \in 1..Len(items) \/ i = Len(items) + 1
    BY <1>1, <1>2
  <2>2. QED
    BY <1>2, <1>3, <1>4, <2>1
<1>6. SizesOf(more) = all
  BY <1>2, <1>3, <1>4, <1>5, SeqEqual
<1>7. QED
  BY <1>6 DEF more, all

-----------------------------------------------------------------------------
(* The archive.                                                             *)

LEMMA Limits ==
  /\ {MaxNow, MaxLines, MaxLineBytes, MaxEventsBytes, MaxEventCount, MaxDecodedPayloadBytes,
      MaxNetworkCaptureBytes, MaxUint64, MaxManifestBytes, MaxTerminalCells, MaxDimension,
      MaxArchiveEntries, MaxArchiveUncompressedBytes} \subseteq Nat
  /\ MaxManifestBytes >= 1 /\ MaxTerminalCells >= 1 /\ MaxDimension >= 1 /\ MaxArchiveEntries >= 3
  /\ MaxArchiveUncompressedBytes = MaxManifestBytes + MaxEventsBytes + MaxNetworkCaptureBytes
  /\ MaxArchiveUncompressedBytes < MaxUint64
<1>1. /\ {MaxNow, MaxLines, MaxLineBytes, MaxEventsBytes, MaxEventCount, MaxDecodedPayloadBytes,
          MaxNetworkCaptureBytes, MaxUint64} \subseteq Nat
      /\ {MaxManifestBytes, MaxTerminalCells, MaxDimension} \subseteq Nat \ {0}
      /\ MaxArchiveEntries \in Nat /\ MaxArchiveEntries >= 3
      /\ MaxArchiveUncompressedBytes < MaxUint64
  BY BundleAssumption
<1>2. MaxArchiveUncompressedBytes = MaxManifestBytes + MaxEventsBytes + MaxNetworkCaptureBytes
  BY DEF MaxArchiveUncompressedBytes
<1>3. QED
  BY <1>1, <1>2

LEMMA NumbersAre ==
  /\ MaxNow \in Nat /\ MaxUint64 \in Nat /\ MaxNetworkCaptureBytes \in Nat
  /\ MaxArchiveUncompressedBytes \in Nat /\ MaxArchiveUncompressedBytes < MaxUint64
BY Limits

LEMMA EntriesAre ==
  ASSUME NEW entries \in Seq(Entries)
  PROVE  /\ Len(entries) \in Nat /\ DOMAIN entries = 1..Len(entries)
         /\ \A i \in 1..Len(entries) : entries[i] \in Entries
OBVIOUS

NamesOf(entries) == {entries[i].name : i \in DOMAIN entries}

LEMMA CheckIs ==
  ASSUME NEW entries
  PROVE  Check(entries) = {} <=>
           /\ ~(Len(entries) > MaxArchiveEntries)
           /\ "unsafe" \notin NamesOf(entries)
           /\ \A i \in DOMAIN entries : entries[i].regular
           /\ \A i \in DOMAIN entries :
                entries[i].name \in Owned => ~(entries[i].size > Limit(entries[i].name))
           /\ ~(Declared(entries, NamesOf(entries)) > MaxArchiveUncompressedBytes)
           /\ ~(Declared(entries, NamesOf(entries) \ {Stream}) > MaxManifestBytes + MaxEventsBytes)
           /\ {Manifest, Events} \subseteq NamesOf(entries)
           /\ \A n \in Owned : \A i, j \in Named(entries, n) : i = j
  BY Zenon DEF Check, NamesOf

(* What is declared, added up without wrapping, is what the sizes are, or   *)
(* the largest number.                                                      *)
LEMMA DeclaredIs ==
  ASSUME NEW entries \in Seq(Entries)
  PROVE  LET total == Total(SizesOf(entries))
         IN  Declared(entries, NamesOf(entries)) = IF total <= MaxUint64 THEN total ELSE MaxUint64
<1> DEFINE names == NamesOf(entries)
           s == SizesOf(entries)
           D == DeclaredTo(entries, names)
           P == {i \in 0..Len(entries) :
                   D[i] = IF Totals(s)[i] <= MaxUint64 THEN Totals(s)[i] ELSE MaxUint64}
<1>1. /\ Len(entries) \in Nat /\ DOMAIN entries = 1..Len(entries) /\ MaxUint64 \in Nat
      /\ \A i \in 1..Len(entries) : entries[i] \in Entries
  BY NumbersAre, EntriesAre
<1>2. \A i \in 1..Len(entries) : entries[i].size \in Nat /\ entries[i].name \in names
  BY <1>1 DEF Entries, NamesOf
<1>3. /\ s \in Seq(Nat) /\ Len(s) = Len(entries)
      /\ \A i \in 1..Len(entries) : s[i] = entries[i].size
  <2>1. \A x \in Entries : x.size \in Nat
    BY <1>1 DEF Entries
  <2>2. QED
    BY <2>1, SizesSeq
<1>4. D = [n \in 0..Len(entries) |->
             IF n = 0 THEN 0
             ELSE IF entries[n].name \in names THEN SaturatingAdd(D[n - 1], entries[n].size)
             ELSE D[n - 1]]
  BY <1>1, DeclaredUnfold
<1> HIDE DEF D, s, names
<1>5. D[0] = 0 /\ \A i \in 1..Len(entries) : D[i] = SaturatingAdd(D[i - 1], s[i])
  <2>1. D[0] = 0
    BY <1>1, <1>4
  <2>2. ASSUME NEW i \in 1..Len(entries)
        PROVE  D[i] = SaturatingAdd(D[i - 1], s[i])
    <3>1. i \in 0..Len(entries) /\ i # 0
      BY <1>1
    <3>2. D[i] = SaturatingAdd(D[i - 1], entries[i].size)
      BY <1>2, <1>4, <3>1
    <3>3. QED
      BY <1>3, <3>2
  <2>3. QED
    BY <2>1, <2>2
<1>6. 0 \in P
  <2>1. Totals(s)[0] = 0
    BY <1>3, TotalsAt
  <2>2. QED
    BY <1>1, <1>5, <2>1
<1>7. ASSUME NEW i \in 0..Len(entries), i \in P, i < Len(entries)
      PROVE  i + 1 \in P
  <2>1. i + 1 \in 1..Len(entries) /\ (i + 1) - 1 = i
    BY <1>1, <1>7
  <2>2. D[i + 1] = SaturatingAdd(D[i], s[i + 1])
    BY <1>5, <2>1
  <2>3. Totals(s)[i + 1] = Totals(s)[i] + s[i + 1]
    BY <1>3, <2>1, TotalsAt
  <2>4. s[i + 1] \in Nat /\ Totals(s)[i] \in Nat
    BY <1>2, <1>3, <2>1, TotalsNat
  <2>5. D[i + 1] = IF Totals(s)[i + 1] <= MaxUint64 THEN Totals(s)[i + 1] ELSE MaxUint64
    BY <1>1, <1>7, <2>2, <2>3, <2>4 DEF SaturatingAdd
  <2>6. QED
    BY <1>1, <2>1, <2>5
<1>8. Len(entries) \in P
  <2> HIDE DEF P
  <2>1. 0..Len(entries) \subseteq P
    BY <1>1, <1>6, <1>7, InductTo
  <2>2. QED
    BY <1>1, <2>1
<1>9. QED
  BY <1>3, <1>8 DEF Declared, D, Total, s, names

LEMMA AcceptedArchives ==
  ASSUME NEW entries \in Seq(Entries), Check(entries) = {}
  PROVE  /\ Total(SizesOf(entries)) <= MaxArchiveUncompressedBytes
         /\ Readable(entries, Manifest) /\ Readable(entries, Events)
<1>1. Total(SizesOf(entries)) <= MaxArchiveUncompressedBytes
  <2>1. \A x \in Entries : x.size \in Nat
    BY Limits DEF Entries
  <2>2. Total(SizesOf(entries)) \in Nat
    BY <2>1, SizesSeq, TotalNat
  <2>3. ~(Declared(entries, NamesOf(entries)) > MaxArchiveUncompressedBytes)
    BY CheckIs
  <2>4. QED
    BY <2>2, <2>3, DeclaredIs, NumbersAre
<1>2. ASSUME NEW name \in {Manifest, Events}
      PROVE  Readable(entries, name)
  <2>1. name \in NamesOf(entries) /\ name \in Owned
    BY CheckIs DEF Owned
  <2>2. PICK i \in DOMAIN entries : entries[i].name = name
    BY <2>1 DEF NamesOf
  <2>3. Named(entries, name) = {i}
    <3>1. \A j, k \in Named(entries, name) : j = k
      BY <2>1, CheckIs
    <3>2. i \in Named(entries, name)
      BY <2>2 DEF Named
    <3>3. QED
      BY <3>1, <3>2
  <2>4. QED
    BY <2>2, <2>3, CheckIs DEF Readable
<1>3. QED
  BY <1>1, <1>2

-----------------------------------------------------------------------------
(* The events.                                                              *)

LEMMA EventIssuesAre ==
  ASSUME NEW l, NEW seen
  PROVE  /\ EventIssues(l, seen) = {} <=>
              /\ l.type \in Types /\ ~(l.t < 0) /\ ~(seen.last # NoTMS /\ l.t < seen.last)
              /\ ~(l.type = "resize" /\ TerminalSizeIssue(l.cols, l.rows))
              /\ ~(l.type = "marker" /\ l.label = 0)
              /\ ~(l.size > MaxDecodedPayloadBytes - seen.decoded)
         /\ "payload" \in EventIssues(l, seen) <=>
              l.size > MaxDecodedPayloadBytes - seen.decoded
<1>1. EventIssues(l, seen) = {} <=>
        /\ l.type \in Types /\ ~(l.t < 0) /\ ~(seen.last # NoTMS /\ l.t < seen.last)
        /\ ~(l.type = "resize" /\ TerminalSizeIssue(l.cols, l.rows))
        /\ ~(l.type = "marker" /\ l.label = 0)
        /\ ~(l.size > MaxDecodedPayloadBytes - seen.decoded)
  BY Zenon DEF EventIssues
<1>2. "payload" \in EventIssues(l, seen) <=> l.size > MaxDecodedPayloadBytes - seen.decoded
  BY DEF EventIssues
<1>3. QED
  BY <1>1, <1>2

(* What reading has found so far, if no issue: all of it can be replayed.   *)
IsSeen(seen) ==
  /\ seen = [over |-> seen.over, count |-> seen.count, last |-> seen.last,
             decoded |-> seen.decoded, issues |-> seen.issues, events |-> seen.events]
  /\ seen.over \in BOOLEAN

InOrder(es) == \A i, j \in 1..Len(es) : i < j => es[i].t <= es[j].t

CanBeReplayed(l) ==
  /\ l.t >= 0 /\ l.type \in Types
  /\ l.type = "resize" => ~TerminalSizeIssue(l.cols, l.rows)

Sound(seen) ==
  seen.issues = {} =>
    /\ seen.events \in Seq(Lines) /\ seen.count = Len(seen.events) /\ seen.count <= MaxEventCount
    /\ seen.decoded = Payload(seen.events) /\ seen.decoded <= MaxDecodedPayloadBytes
    /\ IF seen.events = <<>> THEN seen.last = NoTMS
       ELSE seen.last = seen.events[Len(seen.events)].t
    /\ InOrder(seen.events) /\ \A i \in 1..Len(seen.events) : CanBeReplayed(seen.events[i])

(* The state after a line that nothing is wrong with.                       *)
Taken(seen, l) ==
  [over |-> seen.over, count |-> seen.count + 1, last |-> l.t, decoded |-> seen.decoded + l.size,
   issues |-> seen.issues, events |-> Append(seen.events, l)]

LEMMA LinesHaveSizes == \A l \in Lines : l.size \in Nat
BY DEF Lines

LEMMA TakenIsSound ==
  ASSUME NEW seen, IsSeen(seen), Sound(seen), seen.issues = {}, NEW l \in Lines,
         EventIssues(l, seen) = {}, ~(seen.count >= MaxEventCount)
  PROVE  Sound(Taken(seen, l))
<1> DEFINE es == seen.events
           more == Append(es, l)
<1>1. /\ es \in Seq(Lines) /\ seen.count = Len(es) /\ Len(es) \in Nat
      /\ seen.decoded = Payload(es)
      /\ IF es = <<>> THEN seen.last = NoTMS ELSE seen.last = es[Len(es)].t
      /\ InOrder(es) /\ \A i \in 1..Len(es) : CanBeReplayed(es[i])
  BY DEF Sound
<1>2. /\ more \in Seq(Lines) /\ Len(more) = Len(es) + 1 /\ more[Len(es) + 1] = l
      /\ (\A i \in 1..Len(es) : more[i] = es[i]) /\ more # <<>>
  BY <1>1, AppendProperties
<1>3. /\ l.type \in Types /\ ~(l.t < 0) /\ ~(seen.last # NoTMS /\ l.t < seen.last)
      /\ ~(l.type = "resize" /\ TerminalSizeIssue(l.cols, l.rows))
      /\ ~(l.size > MaxDecodedPayloadBytes - seen.decoded)
  BY EventIssuesAre
<1>4. l.t \in Int /\ l.size \in Nat /\ MaxEventCount \in Nat /\ MaxDecodedPayloadBytes \in Nat
  BY Limits DEF Lines
<1>5. Payload(more) = Payload(es) + l.size /\ Payload(es) \in Nat
  <2>1. SizesOf(more) = Append(SizesOf(es), l.size) /\ SizesOf(es) \in Seq(Nat)
    BY <1>1, LinesHaveSizes, SizesAppend, SizesSeq
  <2>2. QED
    BY <1>4, <2>1, TotalAppend, TotalNat DEF Payload
<1> HIDE DEF more, es
<1>6. CanBeReplayed(l)
  BY <1>3, <1>4 DEF CanBeReplayed
<1>7. \A i \in 1..Len(more) : CanBeReplayed(more[i])
  <2> TAKE i \in 1..Len(more)
  <2>1. i \in 1..Len(es) \/ i = Len(es) + 1
    BY <1>1, <1>2
  <2>2. QED
    BY <1>1, <1>2, <1>6, <2>1
<1>8. \A i \in 1..Len(es) : es[i].t <= l.t
  <2> TAKE i \in 1..Len(es)
  <2>1. es # <<>> /\ Len(es) \in 1..Len(es)
    BY <1>1
  <2>2. es[i] \in Lines /\ es[Len(es)] \in Lines
    BY <1>1, <2>1
  <2>3. es[i].t \in Int /\ es[Len(es)].t \in Int
    BY <2>2 DEF Lines
  <2>4. es[Len(es)].t >= 0
    BY <1>1, <2>1 DEF CanBeReplayed
  <2>5. es[Len(es)].t <= l.t
    BY <1>1, <1>3, <1>4, <2>1, <2>3, <2>4 DEF NoTMS
  <2>6. es[i].t <= es[Len(es)].t
    <3>1. CASE i = Len(es)
      BY <2>3, <3>1
    <3>2. CASE i # Len(es)
      <4>1. i < Len(es)
        BY <1>1, <3>2
      <4>2. QED
        BY <1>1, <2>1, <4>1 DEF InOrder
    <3>3. QED
      BY <3>1, <3>2
  <2>7. QED
    BY <1>4, <2>3, <2>5, <2>6
<1>9. InOrder(more)
  <2> SUFFICES ASSUME NEW i \in 1..Len(more), NEW j \in 1..Len(more), i < j
               PROVE  more[i].t <= more[j].t
    BY DEF InOrder
  <2>1. i \in 1..Len(es) /\ (j \in 1..Len(es) \/ j = Len(es) + 1)
    BY <1>1, <1>2
  <2>2. CASE j \in 1..Len(es)
    BY <1>1, <1>2, <2>1, <2>2 DEF InOrder
  <2>3. CASE j = Len(es) + 1
    BY <1>2, <1>8, <2>1, <2>3
  <2>4. QED
    BY <2>1, <2>2, <2>3
<1> DEFINE next == Taken(seen, l)
<1>10. /\ next.events = more /\ next.count = Len(more) /\ next.last = l.t
       /\ next.decoded = Payload(more)
  BY <1>1, <1>2, <1>5 DEF Taken, more, es
<1>11. next.count <= MaxEventCount /\ next.decoded <= MaxDecodedPayloadBytes
  BY <1>1, <1>2, <1>3, <1>4, <1>5, <1>10
<1> HIDE DEF next
<1>12. Len(more) = Len(es) + 1 /\ next.last = next.events[Len(next.events)].t
  BY <1>2, <1>10
<1>13. Sound(next)
  BY <1>2, <1>7, <1>9, <1>10, <1>11, <1>12 DEF Sound
<1>14. QED
  BY <1>13 DEF next

(* What reading one line does to what it has found.                         *)
LEMMA InspectedIs ==
  ASSUME NEW seen, IsSeen(seen), NEW l
  PROVE  /\ IsSeen(Inspected(l, seen)) /\ seen.issues \subseteq Inspected(l, seen).issues
         /\ \/ Inspected(l, seen).issues # {}
            \/ Inspected(l, seen) = seen
            \/ /\ Inspected(l, seen) = Taken(seen, l)
               /\ EventIssues(l, seen) = {} /\ ~(seen.count >= MaxEventCount)
<1> DEFINE next == Inspected(l, seen)
<1>1. CASE seen.over
  BY <1>1 DEF Inspected
<1>2. CASE ~seen.over /\ LineBytes(l) > MaxLineBytes
  <2>1. next = [seen EXCEPT !.over = TRUE, !.issues = @ \cup {"line"}]
    BY <1>2 DEF Inspected
  <2>2. QED
    BY <2>1 DEF IsSeen
<1>3. CASE ~seen.over /\ ~(LineBytes(l) > MaxLineBytes) /\ l.form = "blank"
  BY <1>3 DEF Inspected
<1>4. CASE ~seen.over /\ ~(LineBytes(l) > MaxLineBytes) /\ l.form = "headless"
  <2>1. next = [seen EXCEPT !.issues = @ \cup {"json"}]
    BY <1>4 DEF Inspected
  <2>2. QED
    BY <2>1 DEF IsSeen
<1> DEFINE Looked == ~seen.over /\ ~(LineBytes(l) > MaxLineBytes)
                       /\ l.form \notin {"blank", "headless"}
<1>5. CASE Looked /\ seen.count >= MaxEventCount
  <2>1. next = [seen EXCEPT !.over = TRUE, !.issues = @ \cup {"count"}]
    BY <1>5 DEF Inspected
  <2>2. QED
    BY <2>1 DEF IsSeen
<1>6. CASE Looked /\ ~(seen.count >= MaxEventCount) /\ l.form = "unparsed"
  <2>1. next = [seen EXCEPT !.count = @ + 1, !.last = l.t,
                  !.issues = @ \cup {"json"} \cup (EventIssues(l, seen) \cap {"type", "time", "order"})]
    BY <1>6 DEF Inspected
  <2>2. QED
    BY <2>1 DEF IsSeen
<1>7. CASE Looked /\ ~(seen.count >= MaxEventCount) /\ l.form = "undecoded"
  <2>1. next = [seen EXCEPT !.count = @ + 1, !.last = l.t,
                  !.issues = @ \cup {"base64"} \cup (EventIssues(l, seen) \ {"payload"})]
    BY <1>7 DEF Inspected
  <2>2. QED
    BY <2>1 DEF IsSeen
<1>8. CASE Looked /\ ~(seen.count >= MaxEventCount) /\ l.form \notin {"unparsed", "undecoded"}
  <2>1. next = [seen EXCEPT !.count = @ + 1, !.last = l.t, !.decoded = Decoded(seen, l),
                  !.issues = @ \cup EventIssues(l, seen),
                  !.events = IF "payload" \in EventIssues(l, seen) THEN @ ELSE Append(@, l)]
    BY <1>8 DEF Inspected
  <2>2. IsSeen(next) /\ next.issues = seen.issues \cup EventIssues(l, seen)
    BY <2>1 DEF IsSeen
  <2>3. CASE EventIssues(l, seen) = {}
    <3>1. next = [over |-> seen.over, count |-> seen.count + 1, last |-> l.t,
                  decoded |-> Decoded(seen, l), issues |-> seen.issues \cup EventIssues(l, seen),
                  events |-> Append(seen.events, l)]
      BY <2>1, <2>3 DEF IsSeen
    <3>2. Decoded(seen, l) = seen.decoded + l.size
      BY <2>3 DEF Decoded, DecodedAfter
    <3>3. seen.issues \cup EventIssues(l, seen) = seen.issues
      BY <2>3
    <3>4. next = Taken(seen, l)
      BY <3>1, <3>2, <3>3 DEF Taken
    <3>5. QED
      BY <1>8, <2>2, <2>3, <3>4
  <2>4. CASE EventIssues(l, seen) # {}
    BY <2>2, <2>4
  <2>5. QED
    BY <2>3, <2>4
<1>9. QED
  BY <1>1, <1>2, <1>3, <1>4, <1>5, <1>6, <1>7, <1>8

LEMMA NothingRead == IsSeen(Unread) /\ Sound(Unread) /\ Unread.issues = {}
<1>1. IsSeen(Unread)
  BY DEF Unread, IsSeen
<1>2. Unread.events = <<>> /\ Unread.count = 0 /\ Unread.last = NoTMS /\ Unread.decoded = 0
      /\ Unread.issues = {}
  BY DEF Unread
<1>3. Payload(<<>>) = 0
  <2>1. SizesOf(<<>>) = <<>>
    BY DEF SizesOf
  <2>2. QED
    BY <2>1, EmptyTotal DEF Payload
<1>4. <<>> \in Seq(Lines) /\ Len(<<>>) = 0
  OBVIOUS
<1>5. Sound(Unread)
  BY <1>2, <1>3, <1>4, Limits DEF Sound, InOrder
<1>6. QED
  BY <1>1, <1>2, <1>5

(* All that has been read and accepted can be replayed.                     *)
LEMMA InspectIsSound ==
  ASSUME NEW ls \in Seq(Lines)
  PROVE  IsSeen(Inspect(ls)) /\ Sound(Inspect(ls))
<1> DEFINE S == SeenIn(ls)
           P == {i \in 0..Len(ls) : IsSeen(S[i]) /\ Sound(S[i])}
<1>1. Len(ls) \in Nat /\ \A i \in 1..Len(ls) : ls[i] \in Lines
  OBVIOUS
<1>2. S = [n \in 0..Len(ls) |-> IF n = 0 THEN Unread ELSE Inspected(ls[n], S[n - 1])]
  BY <1>1, SeenUnfold
<1> HIDE DEF S
<1>3. S[0] = Unread /\ \A i \in 1..Len(ls) : S[i] = Inspected(ls[i], S[i - 1])
  BY <1>1, <1>2
<1>4. 0 \in P
  BY <1>1, <1>3, NothingRead
<1>5. ASSUME NEW i \in 0..Len(ls), i \in P, i < Len(ls)
      PROVE  i + 1 \in P
  <2> DEFINE l == ls[i + 1]
  <2>1. i + 1 \in 1..Len(ls) /\ (i + 1) - 1 = i
    BY <1>1, <1>5
  <2>2. S[i + 1] = Inspected(l, S[i]) /\ l \in Lines
    BY <1>1, <1>3, <2>1
  <2>3. IsSeen(S[i]) /\ Sound(S[i])
    BY <1>5
  <2> HIDE DEF l
  <2>4. IsSeen(Inspected(l, S[i])) /\ S[i].issues \subseteq Inspected(l, S[i]).issues
    BY <2>3, InspectedIs
  <2>5. Sound(Inspected(l, S[i]))
    <3>1. CASE Inspected(l, S[i]).issues # {}
      BY <3>1 DEF Sound
    <3>2. CASE Inspected(l, S[i]) = S[i]
      BY <2>3, <3>2
    <3>3. CASE /\ Inspected(l, S[i]).issues = {} /\ Inspected(l, S[i]) = Taken(S[i], l)
               /\ EventIssues(l, S[i]) = {} /\ ~(S[i].count >= MaxEventCount)
      <4>1. S[i].issues = {}
        BY <2>4, <3>3
      <4>2. QED
        BY <2>2, <2>3, <3>3, <4>1, TakenIsSound
    <3>4. QED
      BY <2>3, <3>1, <3>2, <3>3, InspectedIs
  <2>6. QED
    BY <1>1, <2>1, <2>2, <2>4, <2>5
<1>6. Len(ls) \in P
  <2> HIDE DEF P
  <2>1. 0..Len(ls) \subseteq P
    BY <1>1, <1>4, <1>5, InductTo
  <2>2. QED
    BY <1>1, <2>1
<1>7. QED
  BY <1>6 DEF Inspect, S

-----------------------------------------------------------------------------
(* What a reader accepts.                                                   *)

LEMMA ProductFits ==
  ASSUME NEW m \in Nat, NEW r \in Nat \ {0}, NEW c \in Nat, c <= m \div r
  PROVE  c * r <= m
<1> DEFINE q == m \div r
<1>1. q \in Nat /\ r * q <= m /\ c <= q
  OBVIOUS
<1> HIDE DEF q
<1>2. q - c \in Nat /\ q = c + (q - c)
  BY <1>1
<1>3. PICK k \in Nat : q = c + k
  BY <1>2
<1>4. r * q = r * c + r * k /\ r * k \in Nat /\ r * c \in Nat
  BY <1>3
<1>5. c * r = r * c
  OBVIOUS
<1>6. QED
  BY <1>1, <1>4, <1>5

LEMMA SizesFit ==
  ASSUME NEW cols \in Int, NEW rows \in Int, ~TerminalSizeIssue(cols, rows)
  PROVE  rows > 0 /\ cols * rows <= MaxTerminalCells
<1>1. MaxTerminalCells \in Nat
  BY Limits
<1>2. cols >= 1 /\ rows >= 1 /\ ~(cols > MaxTerminalCells \div rows)
  BY DEF TerminalSizeIssue
<1>3. MaxTerminalCells \div rows \in Int
  BY <1>1, <1>2
<1>4. cols <= MaxTerminalCells \div rows
  BY <1>2, <1>3
<1>5. cols \in Nat /\ rows \in Nat \ {0}
  BY <1>2
<1>6. QED
  BY <1>1, <1>2, <1>4, <1>5, ProductFits

LEMMA OpenIs ==
  ASSUME NEW b
  PROVE  /\ Open(b).valid <=>
              /\ Check(b.entries) = {}
              /\ Readable(b.entries, Manifest) =>
                   ManifestIssues(b.manifest, Readable(b.entries, Stream), b.pcap) = {}
              /\ Readable(b.entries, Events) =>
                   Inspect(b.lines).issues = {} /\ ~(TotalBytes(b.lines) > MaxEventsBytes)
         /\ Open(b).valid => Open(b).events = Inspect(b.lines).events
<1> DEFINE events ==
             IF ~Readable(b.entries, Events) THEN {}
             ELSE Inspect(b.lines).issues
                    \cup (IF TotalBytes(b.lines) > MaxEventsBytes THEN {"content"} ELSE {})
           manifest ==
             IF ~Readable(b.entries, Manifest) THEN {}
             ELSE ManifestIssues(b.manifest, Readable(b.entries, Stream), b.pcap)
           issues == Check(b.entries) \cup manifest \cup events
<1>1. /\ Open(b).valid <=> issues = {}
      /\ issues = {} => Open(b).events = Inspect(b.lines).events
  BY DEF Open
<1>2. events = {} <=> (Readable(b.entries, Events) =>
                         Inspect(b.lines).issues = {} /\ ~(TotalBytes(b.lines) > MaxEventsBytes))
  OBVIOUS
<1>3. manifest = {} <=>
        (Readable(b.entries, Manifest) =>
           ManifestIssues(b.manifest, Readable(b.entries, Stream), b.pcap) = {})
  OBVIOUS
<1>4. issues = {} <=> Check(b.entries) = {} /\ manifest = {} /\ events = {}
  <2> HIDE DEF events, manifest
  <2>1. QED
    OBVIOUS
<1>5. QED
  BY <1>1, <1>2, <1>3, <1>4

IsBundle(b) ==
  /\ b.entries \in Seq(Entries) /\ b.lines \in Seq(Lines)
  /\ {b.manifest.cols, b.manifest.rows} \subseteq Int

LEMMA ValidBundlesAreSafe ==
  ASSUME NEW b, IsBundle(b), Open(b).valid
  PROVE  LET es == Open(b).events
         IN /\ Payload(es) <= MaxDecodedPayloadBytes /\ Len(es) <= MaxEventCount
            /\ \A i \in DOMAIN es :
                 /\ es[i].t >= 0 /\ es[i].type \in Types
                 /\ \A j \in DOMAIN es : i < j => es[i].t <= es[j].t
                 /\ es[i].type = "resize" =>
                      es[i].rows > 0 /\ es[i].cols * es[i].rows <= MaxTerminalCells
            /\ b.manifest.cols * b.manifest.rows <= MaxTerminalCells
<1> DEFINE es == Open(b).events
<1>1. Readable(b.entries, Manifest) /\ Readable(b.entries, Events)
  BY OpenIs, AcceptedArchives DEF IsBundle
<1>2. es = Inspect(b.lines).events /\ Inspect(b.lines).issues = {}
  BY <1>1, OpenIs
<1>3. Sound(Inspect(b.lines))
  BY InspectIsSound DEF IsBundle
<1> HIDE DEF es
<1>4. /\ es \in Seq(Lines) /\ Len(es) <= MaxEventCount /\ Payload(es) <= MaxDecodedPayloadBytes
      /\ InOrder(es) /\ \A i \in 1..Len(es) : CanBeReplayed(es[i])
  BY <1>2, <1>3 DEF Sound
<1>5. DOMAIN es = 1..Len(es)
  BY <1>4
<1>6. ASSUME NEW i \in 1..Len(es)
      PROVE  /\ es[i].t >= 0 /\ es[i].type \in Types
             /\ \A j \in 1..Len(es) : i < j => es[i].t <= es[j].t
             /\ es[i].type = "resize" =>
                  es[i].rows > 0 /\ es[i].cols * es[i].rows <= MaxTerminalCells
  <2>1. CanBeReplayed(es[i])
    BY <1>4
  <2>2. es[i].cols \in Int /\ es[i].rows \in Int
    <3>1. es[i] \in Lines
      BY <1>4
    <3>2. QED
      BY <3>1 DEF Lines
  <2>3. es[i].type = "resize" =>
          es[i].rows > 0 /\ es[i].cols * es[i].rows <= MaxTerminalCells
    BY <2>1, <2>2, SizesFit DEF CanBeReplayed
  <2>4. \A j \in 1..Len(es) : i < j => es[i].t <= es[j].t
    BY <1>4 DEF InOrder
  <2>5. QED
    BY <2>1, <2>3, <2>4 DEF CanBeReplayed
<1>7. b.manifest.cols * b.manifest.rows <= MaxTerminalCells
  <2> DEFINE m == b.manifest
             stream == Readable(b.entries, Stream)
  <2>1. ManifestIssues(m, stream, b.pcap) = {}
    BY <1>1, OpenIs
  <2> HIDE DEF m, stream
  <2>2. ~TerminalSizeIssue(m.cols, m.rows)
    <3>1. CASE ~m.known
      BY <2>1, <3>1 DEF ManifestIssues
    <3>2. CASE m.known
      BY <2>1, <3>2 DEF ManifestIssues
    <3>3. QED
      BY <3>1, <3>2
  <2>3. QED
    BY <2>2, SizesFit DEF IsBundle, m
<1>8. QED
  BY <1>4, <1>5, <1>6, <1>7 DEF es

-----------------------------------------------------------------------------
(* What the writer writes, its readers accept.                              *)

Written(l) ==
  /\ l.form = "good" /\ CanBeReplayed(l)
  /\ l.type = "marker" => l.label # 0 /\ LineBytes(l) <= MaxLineBytes

LEMMA LineBytesNat ==
  ASSUME NEW l, l.size \in Nat, l.label \in Nat
  PROVE  LineBytes(l) \in Nat
BY DEF LineBytes

LEMMA GoodLineTaken ==
  ASSUME NEW seen, IsSeen(seen), ~seen.over, NEW l, ~(LineBytes(l) > MaxLineBytes),
         l.form = "good", ~(seen.count >= MaxEventCount), EventIssues(l, seen) = {}
  PROVE  Inspected(l, seen) = Taken(seen, l)
<1>1. Inspected(l, seen) =
        [seen EXCEPT !.count = @ + 1, !.last = l.t, !.decoded = Decoded(seen, l),
                     !.issues = @ \cup EventIssues(l, seen),
                     !.events = IF "payload" \in EventIssues(l, seen) THEN @ ELSE Append(@, l)]
  BY DEF Inspected
<1>2. Inspected(l, seen) =
        [over |-> seen.over, count |-> seen.count + 1, last |-> l.t,
         decoded |-> Decoded(seen, l), issues |-> seen.issues \cup EventIssues(l, seen),
         events |-> Append(seen.events, l)]
  BY <1>1 DEF IsSeen
<1>3. Decoded(seen, l) = seen.decoded + l.size
  BY DEF Decoded, DecodedAfter
<1>4. seen.issues \cup EventIssues(l, seen) = seen.issues
  OBVIOUS
<1>5. QED
  BY <1>2, <1>3, <1>4 DEF Taken

LEMMA WrittenIsRead ==
  ASSUME NEW ls \in Seq(Lines), InOrder(ls), \A i \in 1..Len(ls) : Written(ls[i]),
         Payload(ls) <= MaxDecodedPayloadBytes, Len(ls) <= MaxEventCount,
         \A i \in 1..Len(ls) : ls[i].type # "marker" => LineBytes(ls[i]) <= MaxLineBytes
  PROVE  Inspect(ls).issues = {} /\ Inspect(ls).events = ls
<1> DEFINE S == SeenIn(ls)
           sums == Totals(SizesOf(ls))
           So(i) == [over |-> FALSE, count |-> i, last |-> IF i = 0 THEN NoTMS ELSE ls[i].t,
                     decoded |-> sums[i], issues |-> {}, events |-> SubSeq(ls, 1, i)]
           P == {i \in 0..Len(ls) : S[i] = So(i)}
<1>1. /\ Len(ls) \in Nat /\ \A i \in 1..Len(ls) : ls[i] \in Lines
      /\ {MaxEventCount, MaxLineBytes, MaxDecodedPayloadBytes} \subseteq Nat
  <2>1. Len(ls) \in Nat /\ \A i \in 1..Len(ls) : ls[i] \in Lines
    OBVIOUS
  <2>2. QED
    BY <2>1, Limits
<1>2. S = [n \in 0..Len(ls) |-> IF n = 0 THEN Unread ELSE Inspected(ls[n], S[n - 1])]
  BY <1>1, SeenUnfold
<1>3. /\ SizesOf(ls) \in Seq(Nat) /\ Len(SizesOf(ls)) = Len(ls)
      /\ \A i \in 1..Len(ls) : SizesOf(ls)[i] = ls[i].size
  BY LinesHaveSizes, SizesSeq
<1>4. /\ sums[0] = 0
      /\ \A i \in 1..Len(ls) : sums[i] = sums[i - 1] + ls[i].size
      /\ \A i \in 0..Len(ls) : sums[i] \in Nat /\ sums[i] <= MaxDecodedPayloadBytes
  <2>1. /\ sums[0] = 0
        /\ \A i \in 1..Len(ls) : sums[i] = sums[i - 1] + ls[i].size
        /\ \A i \in 0..Len(ls) : sums[i] \in Nat /\ sums[i] <= Payload(ls)
    BY <1>3, TotalsAt, TotalsNat, TotalsGrow DEF Payload
  <2>2. Payload(ls) \in Nat
    BY <1>3, TotalNat DEF Payload
  <2>3. QED
    BY <1>1, <2>1, <2>2
<1> HIDE DEF S, sums
<1>5. S[0] = Unread /\ \A i \in 1..Len(ls) : S[i] = Inspected(ls[i], S[i - 1])
  BY <1>1, <1>2
<1>6. 0 \in P
  <2>1. SubSeq(ls, 1, 0) = <<>>
    BY SubSeqEmpty
  <2>2. So(0) = Unread
    BY <1>4, <2>1 DEF Unread
  <2>3. S[0] = So(0) /\ 0 \in 0..Len(ls)
    BY <1>1, <1>5, <2>2
  <2>4. QED
    BY <2>3, Zenon
<1>7. ASSUME NEW i \in 0..Len(ls), i \in P, i < Len(ls)
      PROVE  i + 1 \in P
  <2> DEFINE l == ls[i + 1]
             seen == So(i)
  <2>1. i + 1 \in 1..Len(ls) /\ (i + 1) - 1 = i /\ S[i + 1] = Inspected(l, seen)
    BY <1>1, <1>5, <1>7
  <2>2. l \in Lines /\ Written(l)
    BY <1>1, <2>1
  <2>3. l.t \in Int /\ l.size \in Nat /\ l.label \in Nat
    BY <2>2 DEF Lines
  <2>4. LineBytes(l) <= MaxLineBytes
    BY <2>1, <2>2 DEF Written
  <2>5. ~(LineBytes(l) > MaxLineBytes)
    BY <1>1, <2>3, <2>4, LineBytesNat
  <2>6. /\ IsSeen(seen) /\ ~seen.over /\ seen.count = i /\ seen.decoded = sums[i]
        /\ seen.last = IF i = 0 THEN NoTMS ELSE ls[i].t
        /\ seen.events = SubSeq(ls, 1, i) /\ seen.issues = {} /\ seen.over = FALSE
    BY DEF IsSeen
  <2>7. ~(seen.count >= MaxEventCount)
    BY <1>1, <1>7, <2>6
  <2>8. sums[i + 1] = sums[i] + l.size /\ sums[i] \in Nat /\ sums[i + 1] <= MaxDecodedPayloadBytes
    BY <1>1, <1>4, <2>1
  <2>9. ~(l.size > MaxDecodedPayloadBytes - sums[i])
    BY <1>1, <2>3, <2>8
  <2>10. ~(seen.last # NoTMS /\ l.t < seen.last)
    <3>1. CASE i = 0
      BY <2>6, <3>1
    <3>2. CASE i # 0
      <4>1. i \in 1..Len(ls) /\ i < i + 1
        BY <1>1, <3>2
      <4>2. ls[i].t <= l.t
        BY <2>1, <4>1 DEF InOrder
      <4>3. ls[i].t \in Int
        BY <1>1, <4>1 DEF Lines
      <4>4. QED
        BY <2>3, <2>6, <3>2, <4>2, <4>3
    <3>3. QED
      BY <3>1, <3>2
  <2> HIDE DEF l, seen
  <2>11. EventIssues(l, seen) = {}
    <3>1. l.type \in Types /\ ~(l.t < 0)
      BY <2>2, <2>3 DEF Written, CanBeReplayed
    <3>2. /\ ~(l.type = "resize" /\ TerminalSizeIssue(l.cols, l.rows))
          /\ ~(l.type = "marker" /\ l.label = 0)
      BY <2>2 DEF Written, CanBeReplayed
    <3>3. ~(l.size > MaxDecodedPayloadBytes - seen.decoded)
      BY <2>6, <2>9
    <3>4. QED
      BY <2>10, <3>1, <3>2, <3>3, EventIssuesAre
  <2>12. Inspected(l, seen) = Taken(seen, l)
    BY <2>2, <2>5, <2>6, <2>7, <2>11, GoodLineTaken DEF Written
  <2>13. Append(SubSeq(ls, 1, i), l) = SubSeq(ls, 1, i + 1)
    <3>1. SubSeq(ls, 1, i + 1) = SubSeq(ls, 1, (i + 1) - 1) \o <<ls[i + 1]>>
      <4>1. 1 \in 1..Len(ls) /\ i + 1 \in 1..Len(ls)
        BY <1>1, <2>1
      <4>2. QED
        BY <4>1, SubSeqRecursiveSecond
    <3>2. SubSeq(ls, 1, i) \in Seq(Lines)
      <4>1. \A j \in 1..i : ls[j] \in Lines
        BY <1>1
      <4>2. QED
        BY <1>1, <4>1, SubSeqProperties
    <3>3. QED
      BY <2>1, <2>2, <3>1, <3>2, AppendIsConcat DEF l
  <2>14. Taken(seen, l) = So(i + 1)
    <3>1. i + 1 # 0
      BY <1>1
    <3>2. QED
      BY <2>6, <2>8, <2>13, <3>1 DEF Taken, l
  <2>15. QED
    BY <1>1, <2>1, <2>12, <2>14
<1>8. S[Len(ls)] = So(Len(ls))
  <2> HIDE DEF P
  <2>1. 0..Len(ls) \subseteq P
    BY <1>1, <1>6, <1>7, InductTo
  <2>2. QED
    BY <1>1, <2>1 DEF P
<1>9. SubSeq(ls, 1, Len(ls)) = ls
  BY SubSeqFull
<1>10. QED
  BY <1>8, <1>9 DEF Inspect, S

LEMMA AcceptsOwn ==
  ASSUME NEW x \in 0..MaxEventsBytes, NEW y \in 0..MaxNetworkCaptureBytes, NEW es,
         \/ es = <<Entry(Manifest, 1), Entry(Events, x)>>
         \/ es = <<Entry(Manifest, 1), Entry(Events, x), Entry(Stream, y)>>
  PROVE  es \in Seq(Entries) /\ Check(es) = {} /\ (Len(es) = 2 => ~Readable(es, Stream))
<1> DEFINE n == Len(es)
<1>1. /\ x \in Nat /\ y \in Nat /\ MaxUint64 \in Nat /\ MaxManifestBytes \in Nat
      /\ x <= MaxEventsBytes /\ y <= MaxNetworkCaptureBytes /\ MaxManifestBytes >= 1
      /\ MaxEventsBytes \in Nat /\ MaxNetworkCaptureBytes \in Nat /\ MaxArchiveEntries \in Nat
      /\ MaxArchiveEntries >= 3 /\ 1 + x + y < MaxUint64
      /\ 1 + x + y <= MaxArchiveUncompressedBytes /\ 1 + x <= MaxManifestBytes + MaxEventsBytes
  BY Limits
<1>2. Manifest # Events /\ Manifest # Stream /\ Events # Stream
      /\ "unsafe" \notin {Manifest, Events, Stream}
  BY DEF Manifest, Events, Stream
<1>3. \A name \in {Manifest, Events, Stream} : \A size \in Nat : Entry(name, size) \in Entries
  BY DEF Entry, Entries
<1>4. /\ es \in Seq(Entries) /\ n \in {2, 3} /\ DOMAIN es = 1..n
      /\ es[1] = Entry(Manifest, 1) /\ es[2] = Entry(Events, x)
      /\ n = 3 => es[3] = Entry(Stream, y)
  <2>1. Entry(Manifest, 1) \in Entries /\ Entry(Events, x) \in Entries /\ Entry(Stream, y) \in Entries
    BY <1>1, <1>3
  <2> DEFINE a == Entry(Manifest, 1)
             b == Entry(Events, x)
             c == Entry(Stream, y)
  <2> HIDE DEF a, b, c
  <2>2. a \in Entries /\ b \in Entries /\ c \in Entries
    BY <2>1 DEF a, b, c
  <2>3. CASE es = <<a, b>>
    BY <2>2, <2>3 DEF a, b
  <2>4. CASE es = <<a, b, c>>
    BY <2>2, <2>4 DEF a, b, c
  <2>5. QED
    BY <2>3, <2>4 DEF a, b, c
<1>5. /\ es[1].name = Manifest /\ es[1].size = 1 /\ es[1].regular
      /\ es[2].name = Events /\ es[2].size = x /\ es[2].regular
      /\ n = 3 => es[3].name = Stream /\ es[3].size = y /\ es[3].regular
  BY <1>4 DEF Entry
<1> HIDE DEF n
<1>6. \A i \in DOMAIN es : i = 1 \/ i = 2 \/ (n = 3 /\ i = 3)
  BY <1>4
<1>7. 1 \in DOMAIN es /\ 2 \in DOMAIN es
  BY <1>4
<1>8. NamesOf(es) \subseteq {Manifest, Events, Stream} /\ {Manifest, Events} \subseteq NamesOf(es)
  BY <1>5, <1>6, <1>7 DEF NamesOf
<1>9. \A name \in Owned : \A i, j \in Named(es, name) : i = j
  BY <1>2, <1>5, <1>6 DEF Named
<1>10. \A i \in DOMAIN es : es[i].name \in Owned => ~(es[i].size > Limit(es[i].name))
  BY <1>1, <1>2, <1>5, <1>6 DEF Limit
<1>11. ~(Declared(es, NamesOf(es)) > MaxArchiveUncompressedBytes)
  <2> DEFINE s == SizesOf(es)
  <2>1. \A e \in Entries : e.size \in Nat
    BY DEF Entries
  <2>2. s \in Seq(Nat) /\ Len(s) = n /\ \A i \in 1..n : s[i] = es[i].size
    BY <1>4, <2>1, SizesSeq DEF n
  <2> HIDE DEF s
  <2>3. Totals(s)[0] = 0 /\ Totals(s)[1] = Totals(s)[0] + s[1] /\ Totals(s)[2] = Totals(s)[1] + s[2]
        /\ (n = 3 => Totals(s)[3] = Totals(s)[2] + s[3])
    <3>1. 1 \in 1..n /\ 2 \in 1..n /\ (n = 3 => 3 \in 1..n) /\ 1 - 1 = 0 /\ 2 - 1 = 1 /\ 3 - 1 = 2
      BY <1>4
    <3>2. QED
      BY <2>2, <3>1, TotalsAt
  <2>4. Total(s) = 1 + x \/ Total(s) = 1 + x + y
    <3>1. s[1] = 1 /\ s[2] = x /\ (n = 3 => s[3] = y)
      BY <1>4, <1>5, <2>2
    <3>2. CASE n = 2
      BY <1>1, <2>2, <2>3, <3>1, <3>2 DEF Total
    <3>3. CASE n = 3
      BY <1>1, <2>2, <2>3, <3>1, <3>3 DEF Total
    <3>4. QED
      BY <1>4, <3>2, <3>3
  <2>5. Declared(es, NamesOf(es)) = IF Total(s) <= MaxUint64 THEN Total(s) ELSE MaxUint64
    BY <1>4, DeclaredIs DEF s
  <2>6. MaxArchiveUncompressedBytes \in Nat
    BY Limits
  <2>7. QED
    BY <1>1, <2>4, <2>5, <2>6
<1>12. ~(Declared(es, NamesOf(es) \ {Stream}) > MaxManifestBytes + MaxEventsBytes)
  <2> DEFINE names == NamesOf(es) \ {Stream}
             D == DeclaredTo(es, names)
  <2>1. Manifest \in names /\ Events \in names /\ Stream \notin names
    BY <1>2, <1>8
  <2>2. D = [i \in 0..Len(es) |->
               IF i = 0 THEN 0
               ELSE IF es[i].name \in names THEN SaturatingAdd(D[i - 1], es[i].size) ELSE D[i - 1]]
    <3>1. Len(es) \in Nat
      BY <1>4
    <3> HIDE DEF names
    <3>2. QED
      BY <3>1, DeclaredUnfold
  <2> HIDE DEF D, names
  <2>3. D[0] = 0 /\ D[1] = SaturatingAdd(D[0], 1) /\ D[2] = SaturatingAdd(D[1], x)
    BY <1>4, <1>5, <2>1, <2>2 DEF n
  <2>4. D[1] = 1 /\ D[2] = 1 + x
    BY <1>1, <2>3 DEF SaturatingAdd
  <2>5. n = 3 => D[3] = D[2]
    BY <1>5, <2>1, <2>2 DEF n
  <2>6. D[n] = 1 + x
    BY <1>4, <2>4, <2>5
  <2>7. Declared(es, names) = 1 + x
    BY <2>6 DEF Declared, D, n
  <2>8. QED
    BY <1>1, <2>7 DEF names
<1>13. Check(es) = {}
  <2>1. ~(Len(es) > MaxArchiveEntries)
    BY <1>1, <1>4 DEF n
  <2>2. "unsafe" \notin NamesOf(es)
    BY <1>2, <1>8
  <2>3. \A i \in DOMAIN es : es[i].regular
    BY <1>5, <1>6
  <2>4. QED
    BY <1>8, <1>9, <1>10, <1>11, <1>12, <2>1, <2>2, <2>3, CheckIs
<1>14. Len(es) = 2 => ~Readable(es, Stream)
  <2>1. n = 2 => Named(es, Stream) = {}
    BY <1>2, <1>5, <1>6 DEF Named
  <2>2. QED
    BY <2>1 DEF Readable, n
<1>15. QED
  BY <1>4, <1>13, <1>14

(* A capture that was attached is one the readers take.                     *)
LEMMA AttachedIsSound ==
  ASSUME NEW c \in Captures \ {NoCapture}, Attachable(c), NEW present
  PROVE  /\ TraceCapture(c) # NoCapture
         /\ c.pcap.bytes \in 0..MaxNetworkCaptureBytes
         /\ present => CheckNetworkCapture(TraceCapture(c), present, c.pcap) = {}
<1> DEFINE m == TraceCapture(c)
<1>1. /\ c.byteLimit \in 1..MaxNetworkCaptureBytes /\ c.captured \in 0..c.byteLimit
      /\ c.captured = c.pcap.bytes /\ ValidPCAP(c.pcap) /\ c.count = PacketsOf(c.pcap)
  BY DEF Attachable
<1>2. c.count \in Nat /\ MaxNetworkCaptureBytes \in Nat
  <2>1. c.pcap.packets \in Seq(Packets)
    BY BundleAssumption
  <2>2. Len(c.pcap.packets) \in Nat
    BY <2>1
  <2>3. QED
    BY <1>1, <2>2, NumbersAre DEF PacketsOf
<1>3. c.truncated \in BOOLEAN
  BY BundleAssumption
<1>4. /\ m.format = TRUE /\ m.byteLimit = c.byteLimit /\ m.captured = c.captured
      /\ m.count = c.count /\ m.truncated = c.truncated
      /\ m.status = IF c.truncated THEN "truncated" ELSE "complete"
  BY DEF TraceCapture
<1>5. m \in Metadata
  BY <1>1, <1>2, <1>3 DEF TraceCapture, Metadata
<1>6. m # NoCapture
  BY <1>5, BundleAssumption
<1>7. c.pcap.bytes \in 0..MaxNetworkCaptureBytes
  BY <1>1, <1>2
<1> HIDE DEF m
<1>8. ASSUME present
      PROVE  CheckNetworkCapture(m, present, c.pcap) = {}
  <2>1. ~(m.byteLimit <= 0 \/ m.byteLimit > MaxNetworkCaptureBytes)
    BY <1>1, <1>2, <1>4
  <2>2. ~(m.captured < 0 \/ (m.byteLimit > 0 /\ m.captured > m.byteLimit))
    BY <1>1, <1>2, <1>4
  <2>3. ~(m.count < 0) /\ m.count = PacketsOf(c.pcap)
    BY <1>1, <1>2, <1>4
  <2>4. m.status = WantStatus(m)
    BY <1>4 DEF WantStatus
  <2>5. m.captured = c.pcap.bytes /\ m.format = TRUE
    BY <1>1, <1>4
  <2>6. CheckNetworkCapture(m, present, c.pcap) =
          {x \in {"stream", "format", "limit", "bytes", "count", "status", "size", "pcap"} : FALSE}
    BY <1>1, <1>6, <1>8, <2>1, <2>2, <2>3, <2>4, <2>5, Zenon DEF CheckNetworkCapture
  <2>7. QED
    BY <2>6
<1>9. QED
  BY <1>6, <1>7, <1>8 DEF m

LEMMA StartIsSound ==
  /\ ~TerminalSizeIssue(1, 1) /\ ~TermiosIssue({Captured})
<1>1. MaxTerminalCells \in Nat /\ MaxDimension \in Nat /\ MaxTerminalCells >= 1 /\ MaxDimension >= 1
  BY Limits
<1>2. MaxTerminalCells \div 1 = MaxTerminalCells
  BY <1>1
<1>3. ~TerminalSizeIssue(1, 1)
  BY <1>1, <1>2 DEF TerminalSizeIssue
<1>4. ~SnapshotIssue(Captured)
  BY DEF SnapshotIssue, Captured
<1>5. QED
  BY <1>3, <1>4 DEF TermiosIssue

(* The recording so far.                                                    *)
LogInv ==
  /\ now \in 0..MaxNow /\ lastTMS \in NoTMS..MaxNow
  /\ lines \in Seq(Lines) /\ InOrder(lines)
  /\ \A i \in 1..Len(lines) : Written(lines[i]) /\ lines[i].t <= lastTMS

CaptureInv ==
  /\ capture \in Captures /\ attached \in BOOLEAN
  /\ attached => capture # NoCapture /\ Attachable(capture)

LEMMA TotalBytesNat ==
  ASSUME NEW ls \in Seq(Lines)
  PROVE  TotalBytes(ls) \in Nat
<1> DEFINE sizes == [i \in DOMAIN ls |-> LineBytes(ls[i])]
<1>1. Len(ls) \in Nat /\ DOMAIN ls = 1..Len(ls) /\ \A i \in 1..Len(ls) : ls[i] \in Lines
  OBVIOUS
<1>2. \A i \in 1..Len(ls) : LineBytes(ls[i]) \in Nat
  <2> TAKE i \in 1..Len(ls)
  <2>1. ls[i].size \in Nat /\ ls[i].label \in Nat
    BY <1>1 DEF Lines
  <2>2. QED
    BY <2>1, LineBytesNat
<1>3. sizes \in [1..Len(ls) -> Nat]
  BY <1>1, <1>2
<1>4. sizes \in Seq(Nat)
  BY <1>1, <1>3
<1>5. QED
  BY <1>4, TotalNat DEF TotalBytes

LEMMA OneMore ==
  ASSUME NEW a, NEW b, NEW c
  PROVE  <<a, b>> \o <<c>> = <<a, b, c>> /\ <<a, b>> \o <<>> = <<a, b>>
<1> DEFINE S == {a, b, c}
<1>1. <<a, b>> \in Seq(S) /\ <<c>> \in Seq(S) /\ <<a, b, c>> \in Seq(S)
  OBVIOUS
<1>2. /\ <<a, b>> \o <<c>> \in Seq(S) /\ Len(<<a, b>> \o <<c>>) = 3
      /\ \A i \in 1..3 : (<<a, b>> \o <<c>>)[i] = <<a, b, c>>[i]
  <2> DEFINE s == <<a, b>> \o <<c>>
  <2>1. /\ s \in Seq(S) /\ Len(s) = Len(<<a, b>>) + Len(<<c>>)
        /\ \A i \in 1..(Len(<<a, b>>) + Len(<<c>>)) :
             s[i] = IF i <= Len(<<a, b>>) THEN <<a, b>>[i] ELSE <<c>>[i - Len(<<a, b>>)]
    BY <1>1, ConcatProperties
  <2> HIDE DEF s
  <2>2. /\ Len(s) = 3 /\ s[1] = a /\ s[2] = b /\ s[3] = c
    BY <2>1
  <2>3. \A i \in 1..3 : i = 1 \/ i = 2 \/ i = 3
    OBVIOUS
  <2>4. QED
    BY <2>1, <2>2, <2>3 DEF s
<1>3. <<a, b>> \o <<c>> = <<a, b, c>>
  BY <1>1, <1>2, SeqEqual
<1>4. <<a, b>> \o <<>> = <<a, b>>
  BY <1>1, ConcatEmptySeq
<1>5. QED
  BY <1>3, <1>4

(* A bundle is what a reader can be asked to open, and a bundle within the  *)
(* limits is one it accepts with every event.                               *)
LEMMA BundleIs ==
  ASSUME attached \in BOOLEAN
  PROVE  /\ Bundle.entries = IF attached
              THEN <<Entry(Manifest, 1), Entry(Events, TotalBytes(lines)),
                     Entry(Stream, capture.pcap.bytes)>>
              ELSE <<Entry(Manifest, 1), Entry(Events, TotalBytes(lines))>>
         /\ Bundle.manifest = [known |-> TRUE, cols |-> 1, rows |-> 1, termios |-> {Captured},
              network |-> IF attached THEN TraceCapture(capture) ELSE NoCapture]
         /\ Bundle.lines = lines
         /\ Bundle.pcap = IF attached THEN capture.pcap ELSE NoCapture
<1>1. CASE attached
  BY <1>1, OneMore DEF Bundle
<1>2. CASE ~attached
  BY <1>2, OneMore DEF Bundle
<1>3. QED
  BY <1>1, <1>2

LEMMA BundleIsBundle ==
  ASSUME LogInv, CaptureInv
  PROVE  IsBundle(Bundle)
<1> DEFINE size == TotalBytes(lines)
           pcapBytes == capture.pcap.bytes
<1>1. size \in Nat /\ Bundle.lines \in Seq(Lines)
  BY TotalBytesNat, BundleIs DEF LogInv, CaptureInv
<1>2. attached => pcapBytes \in Nat
  BY AttachedIsSound, Limits DEF CaptureInv
<1>3. \A name \in {Manifest, Events, Stream} : \A n \in Nat : Entry(name, n) \in Entries
  BY DEF Entry, Entries
<1> HIDE DEF size, pcapBytes
<1>4. Bundle.entries = IF attached
        THEN <<Entry(Manifest, 1), Entry(Events, size), Entry(Stream, pcapBytes)>>
        ELSE <<Entry(Manifest, 1), Entry(Events, size)>>
  BY BundleIs DEF size, pcapBytes, CaptureInv
<1>5. Bundle.entries \in Seq(Entries)
  <2>1. Entry(Manifest, 1) \in Entries /\ Entry(Events, size) \in Entries
        /\ (attached => Entry(Stream, pcapBytes) \in Entries)
    BY <1>1, <1>2, <1>3
  <2>2. CASE attached
    BY <1>4, <2>1, <2>2
  <2>3. CASE ~attached
    BY <1>4, <2>1, <2>3
  <2>4. QED
    BY <2>2, <2>3
<1>6. Bundle.manifest.cols = 1 /\ Bundle.manifest.rows = 1
  BY BundleIs DEF CaptureInv
<1>7. QED
  BY <1>1, <1>5, <1>6 DEF IsBundle

LEMMA BundleOpens ==
  ASSUME LogInv, CaptureInv, Replayable
  PROVE  Open(Bundle).valid /\ Open(Bundle).events = lines
<1> DEFINE size == TotalBytes(lines)
           pcapBytes == IF attached THEN capture.pcap.bytes ELSE 0
           es == Bundle.entries
           m == Bundle.manifest
<1>1. size \in Nat /\ MaxEventsBytes \in Nat /\ size <= MaxEventsBytes
  BY TotalBytesNat, Limits DEF LogInv, Replayable
<1>2. pcapBytes \in 0..MaxNetworkCaptureBytes
  <2>1. CASE attached
    BY <2>1, AttachedIsSound DEF CaptureInv
  <2>2. CASE ~attached
    BY <2>2, Limits
  <2>3. QED
    BY <2>1, <2>2
<1>3. /\ attached => es = <<Entry(Manifest, 1), Entry(Events, size), Entry(Stream, pcapBytes)>>
      /\ ~attached => es = <<Entry(Manifest, 1), Entry(Events, size)>>
  BY BundleIs DEF CaptureInv
<1> HIDE DEF size, pcapBytes, es, m
<1>4. size \in 0..MaxEventsBytes
  BY <1>1
<1>5. Check(es) = {} /\ (Len(es) = 2 => ~Readable(es, Stream))
  BY <1>2, <1>3, <1>4, AcceptsOwn
<1>6. ~attached => ~Readable(es, Stream)
  BY <1>3, <1>5
<1>7. /\ m.known = TRUE /\ m.cols = 1 /\ m.rows = 1 /\ m.termios = {Captured}
      /\ m.network = IF attached THEN TraceCapture(capture) ELSE NoCapture
  BY BundleIs DEF CaptureInv, m
<1>8. ManifestIssues(m, Readable(es, Stream), Bundle.pcap) = {}
  <2> DEFINE stream == Readable(es, Stream)
  <2>1. CheckNetworkCapture(m.network, stream, Bundle.pcap) = {}
    <3>1. CASE attached
      <4>1. stream
        <5>1. es[3].name = Stream /\ es[3].regular /\ 3 \in DOMAIN es
          BY <1>3, <3>1 DEF Entry
        <5>2. \A i, j \in Named(es, Stream) : i = j
          BY <1>5, CheckIs DEF Owned
        <5>3. Named(es, Stream) = {3}
          BY <5>1, <5>2 DEF Named
        <5>4. QED
          BY <5>1, <5>3 DEF Readable
      <4>2. m.network = TraceCapture(capture) /\ Bundle.pcap = capture.pcap
        BY <1>7, <3>1, BundleIs DEF CaptureInv
      <4> HIDE DEF stream
      <4>3. QED
        BY <3>1, <4>1, <4>2, AttachedIsSound DEF CaptureInv
    <3>2. CASE ~attached
      BY <1>6, <1>7, <3>2 DEF CheckNetworkCapture
    <3>3. QED
      BY <3>1, <3>2
  <2> HIDE DEF stream
  <2>2. ManifestIssues(m, stream, Bundle.pcap) =
          (IF TerminalSizeIssue(1, 1) THEN {"size"} ELSE {})
            \cup (IF TermiosIssue({Captured}) THEN {"termios"} ELSE {}) \cup {}
    BY <1>7, <2>1 DEF ManifestIssues
  <2>3. QED
    BY <2>2, StartIsSound DEF stream
<1>9. Inspect(lines).issues = {} /\ Inspect(lines).events = lines
  <2>1. DOMAIN lines = 1..Len(lines)
    BY DEF LogInv
  <2>2. QED
    BY <2>1, WrittenIsRead DEF LogInv, Replayable
<1>10. Bundle.lines = lines
  BY BundleIs DEF CaptureInv
<1>11. ~(TotalBytes(Bundle.lines) > MaxEventsBytes)
  BY <1>1, <1>10 DEF size
<1>12. Open(Bundle).valid
  BY <1>5, <1>8, <1>9, <1>10, <1>11, OpenIs DEF es, m
<1>13. QED
  BY <1>9, <1>10, <1>12, OpenIs

-----------------------------------------------------------------------------
(* The path.  Until the rename nothing is published; and only a trace that  *)
(* has no error, and whose events are all in the file, gets that far.       *)
WriterInv ==
  /\ spoiled \in BOOLEAN /\ err \in BOOLEAN /\ closed \in BOOLEAN
  /\ spoiled => err
  /\ step \in {"recording", "closing", "writing", "renaming", "removing", "done", "crashed"}
  /\ closed \/ step \in {"recording", "crashed"}
  /\ step = "recording" => ~closed
  /\ step \in {"writing", "renaming"} => ~err

PublishInv == step \in {"recording", "closing", "writing", "renaming"} => target = before

PathInv == WriterInv /\ PublishInv /\ TargetIsWhole

LEMMA RecordingStep ==
  ASSUME PathInv, Tick \/ WriteOutput \/ WriteInput \/ WriteResize \/ WriteMarker \/ WriteExit
  PROVE  PathInv'
<1>1. CASE Tick
  BY <1>1 DEF Tick, PathInv, WriterInv, PublishInv, TargetIsWhole
<1>2. ASSUME NEW l, Encode(l)
      PROVE  PathInv'
  <2>1. step = "recording" /\ ~closed /\ UNCHANGED <<closed, step, before, target>>
    BY <1>2 DEF Encode
  <2>2. (err' = TRUE /\ spoiled' = TRUE) \/ (err' = err /\ spoiled' = spoiled)
    BY <1>2 DEF Encode
  <2>3. QED
    <3>1. target' = before'
      BY <2>1 DEF PathInv, PublishInv
    <3>2. err' \in BOOLEAN /\ spoiled' \in BOOLEAN /\ (spoiled' => err')
      <4>1. CASE err' = TRUE /\ spoiled' = TRUE
        BY <4>1
      <4>2. CASE err' = err /\ spoiled' = spoiled
        BY <4>2 DEF PathInv, WriterInv
      <4>3. QED
        BY <2>2, <4>1, <4>2
    <3>3. QED
      BY <2>1, <3>1, <3>2 DEF PathInv, WriterInv, PublishInv, TargetIsWhole
<1>3. QED
  BY <1>1, <1>2 DEF WriteOutput, WriteInput, WriteResize, WriteMarker, WriteExit

LEMMA ClosingStep ==
  ASSUME PathInv, AttachNetworkCapture \/ Abort \/ Close \/ CloseEvents \/ WriteArchive \/ Crash
  PROVE  PathInv'
<1> USE DEF PathInv, WriterInv, PublishInv
<1>1. CASE AttachNetworkCapture
  BY <1>1 DEF AttachNetworkCapture, BeginClose, TargetIsWhole
<1>2. CASE Close
  BY <1>2 DEF Close, BeginClose, TargetIsWhole
<1>3. CASE Abort /\ closed
  <2>1. step = "done" /\ UNCHANGED <<closed, step, target, before, lines, attached, capture>>
    BY <1>3 DEF Abort
  <2>2. err' = err /\ spoiled' = spoiled
    BY <1>3, Zenon DEF Abort, Aborted
  <2>3. QED
    BY <2>1, <2>2 DEF TargetIsWhole, Bundle
<1>4. CASE Abort /\ ~closed
  <2>1. closed' = TRUE /\ step = "recording" /\ step' = "closing" /\ UNCHANGED <<target, before>>
    BY <1>4 DEF Abort, BeginClose
  <2>2. err' = TRUE /\ spoiled' = TRUE
    BY <1>4, Zenon DEF Abort, Aborted
  <2>3. QED
    BY <2>1, <2>2 DEF TargetIsWhole
<1>5. CASE CloseEvents \/ WriteArchive
  <2>1. step \in {"closing", "writing"} /\ step' \in {"writing", "renaming", "removing"}
        /\ UNCHANGED <<closed, spoiled, before, target>>
    BY <1>5 DEF CloseEvents, WriteArchive, Continue
  <2>2. err' \in BOOLEAN /\ (err => err') /\ (step' # "removing" => ~err')
    BY <1>5, Zenon DEF CloseEvents, WriteArchive, Continue, Joined
  <2>3. QED
    BY <2>1, <2>2 DEF TargetIsWhole
<1>6. CASE Crash
  BY <1>6 DEF Crash, TargetIsWhole, Bundle
<1>7. QED
  BY <1>1, <1>2, <1>3, <1>4, <1>5, <1>6

LEMMA PublishingStep ==
  ASSUME PathInv, Rename \/ RemoveWorkDir
  PROVE  PathInv'
<1> USE DEF PathInv, WriterInv, PublishInv, TargetIsWhole, Bundle
<1>1. CASE Rename
  BY <1>1 DEF Rename, Continue, Joined
<1>2. CASE RemoveWorkDir
  BY <1>2 DEF RemoveWorkDir, Joined
<1>3. QED
  BY <1>1, <1>2

LEMMA PathNext == PathInv /\ [Next]_vars => PathInv'
<1>1. CASE UNCHANGED vars
  BY <1>1 DEF vars, PathInv, WriterInv, PublishInv, TargetIsWhole, Bundle
<1>2. QED
  BY <1>1, RecordingStep, ClosingStep, PublishingStep DEF Next

(* A trace that is done stays as it is.                                     *)
LEMMA DoneStays == PathInv /\ [Next]_vars /\ step = "done" => UNCHANGED vars
<1> SUFFICES ASSUME PathInv, [Next]_vars, step = "done"
             PROVE  UNCHANGED vars
  OBVIOUS
<1>1. \A l : ~Encode(l)
  BY DEF Encode
<1>2. CASE Abort
  BY <1>2 DEF Abort, Aborted, PathInv, WriterInv, vars
<1>3. QED
  BY <1>1, <1>2
  DEF Next, Tick, WriteOutput, WriteInput, WriteResize, WriteMarker, WriteExit,
      AttachNetworkCapture, Close, BeginClose, CloseEvents, WriteArchive, Rename, RemoveWorkDir,
      Crash

(* Whatever fails and wherever the process dies, the path has what it had   *)
(* or a whole bundle (Trace.Close stages, checks its error and renames),    *)
(* and a second Close or Abort changes nothing.                             *)
THEOREM TargetsStayWhole == Spec => TargetStaysWhole
<1>1. Init => PathInv
  BY DEF Init, Started, PathInv, WriterInv, PublishInv, TargetIsWhole
<1>2. PathInv /\ [Next]_vars => PathInv'
  BY PathNext
<1>3. PathInv /\ [Next]_vars => [TargetIsWhole' /\ (step = "done" => UNCHANGED vars)]_vars
  BY PathNext, DoneStays DEF PathInv
<1>4. QED
  BY <1>1, <1>2, <1>3, PTL DEF Spec, TargetStaysWhole

-----------------------------------------------------------------------------
(* What is in the bundle, and that it is there when Close says so.          *)

FileInv ==
  /\ workDir \in BOOLEAN /\ before \in Foreign \cup {Nothing}
  /\ step = "removing" /\ ~err => target = Bundle
  /\ step = "done" /\ ~err => target = Bundle /\ ~workDir

BundleInv == PathInv /\ LogInv /\ CaptureInv /\ FileInv

LEMMA LogStep ==
  ASSUME LogInv, NEW l \in Lines, Written(l), l.t \in 0..MaxNow, l.t >= lastTMS, Encode(l)
  PROVE  LogInv'
<1>1. now' = now /\ lastTMS' = l.t /\ (lines' = Append(lines, l) \/ lines' = lines)
  BY DEF Encode
<1>2. MaxNow \in Nat
  BY Limits
<1>3. lastTMS \in Int /\ l.t \in Int /\ lastTMS' \in NoTMS..MaxNow
  BY <1>1, <1>2 DEF LogInv, NoTMS
<1>4. \A i \in 1..Len(lines) : lines[i].t \in Int /\ lines[i].t <= l.t
  <2> TAKE i \in 1..Len(lines)
  <2>1. lines[i] \in Lines /\ lines[i].t <= lastTMS
    BY DEF LogInv
  <2>2. lines[i].t \in Int
    BY <2>1 DEF Lines
  <2>3. QED
    BY <1>3, <2>1, <2>2
<1>5. CASE lines' = lines
  BY <1>1, <1>3, <1>4, <1>5 DEF LogInv, InOrder
<1>6. CASE lines' = Append(lines, l)
  <2>1. /\ lines' \in Seq(Lines) /\ Len(lines') = Len(lines) + 1 /\ Len(lines) \in Nat
        /\ (\A i \in 1..Len(lines) : lines'[i] = lines[i]) /\ lines'[Len(lines) + 1] = l
    BY <1>6, AppendProperties DEF LogInv
  <2>2. \A i \in 1..Len(lines') : i \in 1..Len(lines) \/ i = Len(lines) + 1
    BY <2>1
  <2>3. \A i \in 1..Len(lines') : Written(lines'[i]) /\ lines'[i].t <= lastTMS'
    <3> TAKE i \in 1..Len(lines')
    <3>1. CASE i \in 1..Len(lines)
      BY <1>1, <1>4, <2>1, <3>1 DEF LogInv
    <3>2. CASE i = Len(lines) + 1
      BY <1>1, <1>3, <2>1, <3>2
    <3>3. QED
      BY <2>2, <3>1, <3>2
  <2>4. InOrder(lines')
    <3> SUFFICES ASSUME NEW i \in 1..Len(lines'), NEW j \in 1..Len(lines'), i < j
                 PROVE  lines'[i].t <= lines'[j].t
      BY DEF InOrder
    <3>1. i \in 1..Len(lines)
      BY <2>1, <2>2
    <3>2. CASE j \in 1..Len(lines)
      BY <2>1, <3>1, <3>2 DEF LogInv, InOrder
    <3>3. CASE j = Len(lines) + 1
      BY <1>4, <2>1, <3>1, <3>3
    <3>4. QED
      BY <2>2, <3>2, <3>3
  <2>5. QED
    BY <1>1, <1>3, <2>1, <2>3, <2>4 DEF LogInv
<1>7. QED
  BY <1>1, <1>5, <1>6

(* The time an event gets is not before that of any other.                  *)
LEMMA TimeOf ==
  ASSUME LogInv, NEW ts \in -1..now
  PROVE  TMS(ts) \in 0..MaxNow /\ TMS(ts) >= lastTMS
<1>1. now \in 0..MaxNow /\ lastTMS \in NoTMS..MaxNow /\ MaxNow \in Nat
  BY Limits DEF LogInv
<1>2. QED
  BY <1>1 DEF TMS, Greater, NoTMS

LEMMA LineIs ==
  ASSUME NEW t \in Nat, NEW type \in Types, NEW size \in Nat, NEW cols \in Int, NEW rows \in Int,
         NEW label \in Nat, type = "resize" => ~TerminalSizeIssue(cols, rows),
         type = "marker" => label # 0 /\ LineBytes(Line(t, type, size, cols, rows, label)) <= MaxLineBytes
  PROVE  LET l == Line(t, type, size, cols, rows, label)
         IN  l \in Lines /\ Written(l) /\ l.t = t
<1> DEFINE l == Line(t, type, size, cols, rows, label)
<1>1. l = [t |-> t, type |-> type, size |-> size, cols |-> cols, rows |-> rows, label |-> label,
           form |-> "good"]
  BY DEF Line
<1>2. l \in Lines
  BY <1>1 DEF Lines
<1>3. l.t = t /\ l.type = type /\ l.cols = cols /\ l.rows = rows /\ l.label = label /\ l.form = "good"
  BY <1>1
<1>4. CanBeReplayed(l)
  BY <1>3 DEF CanBeReplayed
<1>5. Written(l)
  BY <1>3, <1>4 DEF Written
<1>6. QED
  BY <1>2, <1>3, <1>5

LEMMA WriteStep ==
  ASSUME LogInv, WriteOutput \/ WriteInput \/ WriteResize \/ WriteMarker \/ WriteExit
  PROVE  LogInv'
<1>1. Sizes \subseteq Nat /\ Labels \subseteq Nat /\ Screens \subseteq Int \X Int
  BY BundleAssumption
<1>2. now \in -1..now /\ 0 \in Nat /\ 0 \in Int /\ 0..MaxNow \subseteq Nat
  BY Limits DEF LogInv
<1>3. {"output", "input", "resize", "marker", "exit"} \subseteq Types
  BY DEF Types
<1>4. ASSUME NEW t \in 0..MaxNow, t >= lastTMS, NEW type \in {"output", "input", "exit"},
             NEW n \in Nat, Encode(Line(t, type, n, 0, 0, 0))
      PROVE  LogInv'
  <2> DEFINE l == Line(t, type, n, 0, 0, 0)
  <2>1. l \in Lines /\ Written(l) /\ l.t = t
    BY <1>2, <1>3, LineIs
  <2> HIDE DEF l
  <2>2. Encode(l)
    BY <1>4 DEF l
  <2>3. QED
    BY <1>4, <2>1, <2>2, LogStep
<1>5. CASE WriteOutput
  <2>1. PICK ts \in -1..now, n \in Sizes : Encode(Line(TMS(ts), "output", n, 0, 0, 0))
    BY <1>5 DEF WriteOutput
  <2>2. n \in Nat /\ TMS(ts) \in 0..MaxNow /\ TMS(ts) >= lastTMS
    BY <1>1, TimeOf
  <2>3. QED
    BY <1>4, <2>1, <2>2
<1>6. CASE WriteInput
  <2>1. PICK n \in Sizes : Encode(Line(TMS(now), "input", n, 0, 0, 0))
    BY <1>6 DEF WriteInput
  <2>2. n \in Nat /\ TMS(now) \in 0..MaxNow /\ TMS(now) >= lastTMS
    BY <1>1, <1>2, TimeOf
  <2>3. QED
    BY <1>4, <2>1, <2>2
<1>7. CASE WriteExit
  <2>1. Encode(Line(TMS(now), "exit", 0, 0, 0, 0))
    BY <1>7 DEF WriteExit
  <2>2. TMS(now) \in 0..MaxNow /\ TMS(now) >= lastTMS
    BY <1>2, TimeOf
  <2>3. QED
    BY <1>2, <1>4, <2>1, <2>2
<1>8. CASE WriteResize
  <2>1. PICK s \in Screens : /\ ~TerminalSizeIssue(s[1], s[2])
                             /\ Encode(Line(TMS(now), "resize", 0, s[1], s[2], 0))
    BY <1>8 DEF WriteResize
  <2> DEFINE cols == s[1]
             rows == s[2]
             t == TMS(now)
             l == Line(t, "resize", 0, cols, rows, 0)
  <2>2. cols \in Int /\ rows \in Int /\ ~TerminalSizeIssue(cols, rows)
    BY <1>1, <2>1
  <2>3. t \in 0..MaxNow /\ t >= lastTMS
    BY <1>2, TimeOf
  <2> HIDE DEF cols, rows, t
  <2>4. l \in Lines /\ Written(l) /\ l.t = t
    BY <1>2, <1>3, <2>2, <2>3, LineIs
  <2> HIDE DEF l
  <2>5. Encode(l)
    BY <2>1 DEF l, t, cols, rows
  <2>6. QED
    BY <2>3, <2>4, <2>5, LogStep
<1>9. CASE WriteMarker
  <2> DEFINE t == TMS(now)
  <2>1. PICK n \in Labels : LET l == Line(t, "marker", 0, 0, 0, n)
                            IN  n # 0 /\ LineBytes(l) < MaxLineBytes /\ Encode(l)
    BY <1>9 DEF WriteMarker
  <2> DEFINE l == Line(t, "marker", 0, 0, 0, n)
  <2>2. t \in 0..MaxNow /\ t >= lastTMS
    BY <1>2, TimeOf
  <2> HIDE DEF t
  <2>3. n \in Nat /\ n # 0
    BY <1>1, <2>1
  <2>4. LineBytes(l) <= MaxLineBytes
    <3>1. l.size = 0 /\ l.label = n
      BY DEF Line
    <3>2. LineBytes(l) \in Nat /\ MaxLineBytes \in Nat
      BY <2>3, <3>1, LineBytesNat, Limits
    <3>3. LineBytes(l) < MaxLineBytes
      BY <2>1
    <3> HIDE DEF l
    <3>4. QED
      BY <3>2, <3>3
  <2>5. l \in Lines /\ Written(l) /\ l.t = t
    BY <1>2, <1>3, <2>2, <2>3, <2>4, LineIs
  <2> HIDE DEF l
  <2>6. Encode(l)
    BY <2>1 DEF l
  <2>7. QED
    BY <2>2, <2>5, <2>6, LogStep
<1>10. QED
  BY <1>5, <1>6, <1>7, <1>8, <1>9

LEMMA SameBundle ==
  ASSUME UNCHANGED <<lines, attached, capture>>
  PROVE  Bundle' = Bundle
BY DEF Bundle

LEMMA ContentStep ==
  ASSUME LogInv, CaptureInv, [Next]_vars
  PROVE  LogInv' /\ CaptureInv'
<1> DEFINE Writes == WriteOutput \/ WriteInput \/ WriteResize \/ WriteMarker \/ WriteExit
<1>1. CASE Writes
  <2>1. UNCHANGED <<capture, attached>>
    BY <1>1 DEF WriteOutput, WriteInput, WriteResize, WriteMarker, WriteExit, Encode
  <2>2. CaptureInv'
    BY <2>1 DEF CaptureInv, Attachable
  <2>3. QED
    BY <1>1, <2>2, WriteStep
<1>2. CASE Tick
  <2>1. now' \in 0..MaxNow /\ UNCHANGED <<lines, lastTMS, capture, attached>>
    BY <1>2, NumbersAre DEF Tick, LogInv
  <2>2. QED
    BY <2>1 DEF LogInv, InOrder, CaptureInv
<1>3. CASE AttachNetworkCapture
  <2>1. UNCHANGED <<now, lines, lastTMS, capture>>
    BY <1>3 DEF AttachNetworkCapture
  <2>2. CASE Attachable(capture)
    <3>1. attached' = TRUE /\ capture # NoCapture
      BY <1>3, <2>2 DEF AttachNetworkCapture
    <3>2. QED
      BY <2>1, <2>2, <3>1 DEF LogInv, CaptureInv
  <2>3. CASE ~Attachable(capture)
    <3>1. attached' = attached
      BY <1>3, <2>3 DEF AttachNetworkCapture
    <3>2. QED
      BY <2>1, <3>1 DEF LogInv, CaptureInv
  <2>4. QED
    BY <2>2, <2>3
<1>4. CASE \/ Abort \/ Close \/ CloseEvents \/ WriteArchive \/ Rename \/ RemoveWorkDir \/ Crash
           \/ UNCHANGED vars
  <2>1. UNCHANGED <<now, lines, lastTMS, capture, attached>>
    BY <1>4 DEF Abort, Close, CloseEvents, WriteArchive, Rename, RemoveWorkDir, Crash, Continue, vars
  <2>2. QED
    BY <2>1 DEF LogInv, CaptureInv
<1>5. QED
  BY <1>1, <1>2, <1>3, <1>4 DEF Next

LEMMA FileStep ==
  ASSUME PathInv, FileInv, [Next]_vars
  PROVE  FileInv'
<1>0. /\ step \in {"recording", "closing", "writing", "renaming", "removing", "done", "crashed"}
      /\ err \in BOOLEAN
  BY DEF PathInv, WriterInv
<1>1. CASE Tick \/ WriteOutput \/ WriteInput \/ WriteResize \/ WriteMarker \/ WriteExit
  <2>1. step = "recording" /\ UNCHANGED <<step, workDir, before>>
    BY <1>1 DEF Tick, WriteOutput, WriteInput, WriteResize, WriteMarker, WriteExit, Encode
  <2>2. QED
    BY <2>1 DEF FileInv
<1>2. CASE AttachNetworkCapture \/ Close
  <2>1. step' \in {"recording", "closing"} /\ UNCHANGED <<workDir, before>>
    BY <1>2 DEF AttachNetworkCapture, Close, BeginClose
  <2>2. QED
    BY <2>1 DEF FileInv
<1>3. CASE Abort
  <2>1. UNCHANGED <<lines, attached, capture, workDir, before, target>>
    BY <1>3 DEF Abort
  <2>2. CASE closed
    <3>1. step' = step
      BY <1>3, <2>2 DEF Abort
    <3>2. err' = err
      BY <1>0, <1>3, <2>2, Zenon DEF Abort, Aborted
    <3>3. QED
      BY <2>1, <3>1, <3>2, SameBundle DEF FileInv
  <2>3. CASE ~closed
    <3>1. step' = "closing"
      BY <1>3, <2>3 DEF Abort, BeginClose
    <3>2. QED
      BY <2>1, <3>1 DEF FileInv
  <2>4. QED
    BY <2>2, <2>3
<1>4. CASE CloseEvents \/ WriteArchive
  <2>1. UNCHANGED <<workDir, before>> /\ step' # "done"
    BY <1>4 DEF CloseEvents, WriteArchive, Continue
  <2>2. step' = "removing" => err'
    BY <1>4 DEF CloseEvents, WriteArchive, Continue, Joined
  <2>3. QED
    BY <2>1, <2>2 DEF FileInv
<1>5. CASE Rename
  <2>1. PICK ok \in BOOLEAN : Continue(ok, "removing") /\ target' = IF ok THEN Bundle ELSE target
    BY <1>5 DEF Rename
  <2>2. UNCHANGED <<lines, attached, capture, workDir, before>> /\ step' = "removing"
    BY <1>5, <2>1 DEF Rename, Continue
  <2>3. ~err' => target' = Bundle
    BY <2>1 DEF Continue, Joined
  <2>4. QED
    BY <2>2, <2>3, SameBundle DEF FileInv
<1>6. CASE RemoveWorkDir
  <2>1. PICK ok \in BOOLEAN : step' = "done" /\ err' = Joined(ok) /\ workDir' = ~ok
    BY <1>6 DEF RemoveWorkDir
  <2>2. UNCHANGED <<lines, attached, capture, before, target>> /\ step = "removing"
    BY <1>6 DEF RemoveWorkDir
  <2>3. ~err' => ~err /\ ~workDir'
    BY <2>1, Zenon DEF Joined
  <2>4. workDir' \in BOOLEAN
    BY <2>1
  <2>5. QED
    BY <2>1, <2>2, <2>3, <2>4, SameBundle DEF FileInv
<1>7. CASE Crash
  <2>1. step' = "crashed" /\ UNCHANGED <<workDir, before>>
    BY <1>7 DEF Crash
  <2>2. QED
    BY <2>1 DEF FileInv
<1>8. CASE UNCHANGED vars
  <2>1. UNCHANGED <<lines, attached, capture, workDir, before, target, step, err>>
    BY <1>8 DEF vars
  <2>2. QED
    BY <2>1, SameBundle DEF FileInv
<1>9. QED
  BY <1>1, <1>2, <1>3, <1>4, <1>5, <1>6, <1>7, <1>8 DEF Next

LEMMA BundleInvariant == Spec => []BundleInv
<1>1. Init => BundleInv
  <2> SUFFICES ASSUME Init
               PROVE  BundleInv
    OBVIOUS
  <2>1. PICK c \in Captures, b \in Foreign \cup {Nothing} : Started(c, b)
    BY DEF Init
  <2>2. PathInv /\ FileInv
    BY <2>1 DEF Started, PathInv, WriterInv, PublishInv, TargetIsWhole, FileInv
  <2>3. LogInv
    <3>1. now = 0 /\ lines = <<>> /\ lastTMS = NoTMS
      BY <2>1 DEF Started
    <3>2. MaxNow \in Nat
      BY Limits
    <3>3. <<>> \in Seq(Lines) /\ Len(<<>>) = 0
      OBVIOUS
    <3>4. QED
      BY <3>1, <3>2, <3>3 DEF LogInv, InOrder, NoTMS
  <2>4. CaptureInv
    BY <2>1 DEF Started, CaptureInv
  <2>5. QED
    BY <2>2, <2>3, <2>4 DEF BundleInv
<1>2. BundleInv /\ [Next]_vars => BundleInv'
  BY PathNext, ContentStep, FileStep DEF BundleInv
<1>3. QED
  BY <1>1, <1>2, PTL DEF Spec

(* A trace whose Close reported no error opens, with every event and its    *)
(* capture, if it is within the limits; nothing of its staging is left      *)
(* (trace.go: Close, ms; bundle.go: inspectEvents reads what it wrote).     *)
THEOREM ClosedTracesOpen == Spec => []ClosedIsReadable
<1>1. BundleInv => ClosedIsReadable
  <2> SUFFICES ASSUME BundleInv, step = "done", ~err
               PROVE  /\ ~workDir
                      /\ Replayable => Open(target).valid /\ Open(target).events = lines
    BY DEF ClosedIsReadable
  <2>1. target = Bundle /\ ~workDir
    BY DEF BundleInv, FileInv
  <2>2. QED
    BY <2>1, BundleOpens DEF BundleInv
<1>2. QED
  BY <1>1, BundleInvariant, PTL

(* Whatever is at a path, what its readers accept they can hold and replay: *)
(* events in order, screens within the model, payloads and the archive      *)
(* within the limits, however sizes add up (archive.go:100, bundle.go:307). *)
THEOREM AcceptedBundlesAreSafe == Spec => []ForeignIsSafe
<1>1. BundleInv => ForeignIsSafe
  <2> SUFFICES ASSUME BundleInv
               PROVE  ForeignIsSafe
    OBVIOUS
  <2>1. PathInv /\ LogInv /\ CaptureInv /\ FileInv
    BY DEF BundleInv
  <2>2. TypeOK
    <3>1. \A i \in DOMAIN lines : lines[i].type \in Types
      <4>1. DOMAIN lines = 1..Len(lines)
        BY <2>1 DEF LogInv
      <4>2. QED
        BY <2>1, <4>1 DEF LogInv, Written, CanBeReplayed
    <3>2. {attached, closed, err, spoiled, workDir} \subseteq BOOLEAN
      BY <2>1 DEF PathInv, WriterInv, CaptureInv, FileInv
    <3>3. QED
      BY <2>1, <3>1, <3>2 DEF TypeOK, PathInv, WriterInv, LogInv
  <2>3. target # Nothing => IsBundle(target)
    <3>1. target = before \/ target = Bundle
      BY <2>1 DEF PathInv, TargetIsWhole
    <3>2. CASE target = Bundle
      BY <2>1, <3>2, BundleIsBundle
    <3>3. CASE target = before
      <4>1. target # Nothing => target \in Foreign
        BY <2>1, <3>3 DEF FileInv
      <4>2. QED
        BY <4>1, BundleAssumption DEF IsBundle
    <3>4. QED
      BY <3>1, <3>2, <3>3
  <2>4. ValidIsSafe
    BY <2>3, ValidBundlesAreSafe DEF ValidIsSafe
  <2>5. AcceptedFits
    BY <2>3, AcceptedArchives DEF AcceptedFits, IsBundle
  <2>6. QED
    BY <2>2, <2>4, <2>5 DEF ForeignIsSafe
<1>2. QED
  BY <1>1, BundleInvariant, PTL
=============================================================================
