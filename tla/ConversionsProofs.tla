------------------------- MODULE ConversionsProofs -------------------------
(***************************************************************************)
(* Five of the machines of Conversions do what they are for, whatever they *)
(* are given: the views of the terminal (PumpViews), the player of an      *)
(* exported page (HTMLViewer), the replay that finds mode changes          *)
(* (ModeReplay), the export to frames (FrameExport) and the export to an   *)
(* asciicast (CastExport), which has a module of its own, CastProofs.  A   *)
(* machine is proved by itself; the last section puts them side by side.   *)
(***************************************************************************)
EXTENDS Conversions, SequenceTheorems, WellFoundedInduction, TLAPS

-----------------------------------------------------------------------------
(* A set of numbers that is not empty has a least one.                      *)
LEMMA LeastNat ==
  ASSUME NEW T, T \subseteq Nat, T # {}
  PROVE  \E n \in T : \A m \in T : n <= m
<1> DEFINE R == OpToRel(<, Nat)
<1>1. IsWellFoundedOn(R, Nat)
  BY NatLessThanWellFounded
<1>2. PICK n \in T : \A m \in T : <<m, n>> \notin R
  <2> HIDE DEF R
  <2>1. QED
    BY <1>1, WFMin
<1>3. \A m \in T : ~(m < n)
  BY <1>2 DEF OpToRel
<1>4. QED
  BY <1>3

(* Induction: a set with 0 that is closed under the successor has all       *)
(* numbers.                                                                 *)
LEMMA Induct ==
  ASSUME NEW P, 0 \in P, \A n \in Nat : n \in P => n + 1 \in P
  PROVE  Nat \subseteq P
<1> SUFFICES ASSUME Nat \ P # {} PROVE FALSE
  OBVIOUS
<1>1. PICK n \in Nat \ P : \A m \in Nat \ P : n <= m
  BY LeastNat
<1>2. n # 0 /\ n - 1 \in Nat /\ n - 1 \in P
  BY <1>1
<1>3. QED
  BY <1>2

(* Up to a bound.                                                           *)
LEMMA InductTo ==
  ASSUME NEW a \in Nat, NEW b \in Nat, NEW P, a \in P,
         \A i \in a..b : i \in P /\ i < b => i + 1 \in P
  PROVE  a..b \subseteq P
<1> DEFINE Q == {n \in Nat : a + n <= b => a + n \in P}
<1>1. 0 \in Q
  OBVIOUS
<1>2. \A n \in Nat : n \in Q => n + 1 \in Q
  <2> TAKE n \in Nat
  <2> HAVE n \in Q
  <2>1. CASE a + n < b
    <3>1. a + n \in a..b /\ a + n \in P
      BY <2>1
    <3>2. QED
      BY <2>1, <3>1
  <2>2. QED
    BY <2>1
<1> HIDE DEF Q
<1>3. Nat \subseteq Q
  BY <1>1, <1>2, Induct
<1>4. ASSUME NEW i \in a..b PROVE i \in P
  <2>1. i - a \in Nat /\ a + (i - a) = i
    OBVIOUS
  <2>2. i - a \in Q
    BY <1>3, <2>1
  <2>3. QED
    BY <2>1, <2>2 DEF Q
<1>5. QED
  BY <1>4

(* A set of indices that is not empty has a greatest one.                   *)
LEMMA Greatest ==
  ASSUME NEW n \in Nat, NEW T, T \subseteq 1..n, T # {}
  PROVE  \E i \in T : \A j \in T : j <= i
<1> DEFINE U == {k \in Nat : n - k \in T}
<1>1. U \subseteq Nat /\ U # {}
  <2>1. PICK i \in T : TRUE
    OBVIOUS
  <2>2. n - i \in Nat /\ n - (n - i) = i
    BY <2>1
  <2>3. QED
    BY <2>1, <2>2
<1>2. PICK k \in U : \A l \in U : k <= l
  BY <1>1, LeastNat
<1>3. ASSUME NEW j \in T
      PROVE  j <= n - k
  <2>1. n - j \in Nat /\ n - (n - j) = j
    OBVIOUS
  <2>2. k <= n - j
    BY <1>2, <2>1
  <2>3. QED
    BY <1>2, <2>2
<1>4. QED
  BY <1>2, <1>3

-----------------------------------------------------------------------------
(* PumpViews: the ring of recent output.                                    *)
LEMMA ModSmall ==
  ASSUME NEW b \in Nat \ {0}, NEW a \in 0..(b - 1)
  PROVE  a % b = a
OBVIOUS

(* An int that is in range is not wrapped.                                  *)
LEMMA WrapSmall ==
  ASSUME NEW n \in (-IntMax - 1)..IntMax
  PROVE  Views!Wrap(n) = n
<1> DEFINE b == 2 * (IntMax + 1)
           a == n + IntMax + 1
<1>1. b \in Nat \ {0} /\ a \in 0..(b - 1)
  BY ViewsAssumption
<1>2. a % b = a
  BY <1>1, ModSmall
<1>3. QED
  BY <1>2, ViewsAssumption DEF Views!Wrap

RingInv == fed \in Nat /\ Views!RecentIsTheEnd

(* The last k of the first n bytes.                                         *)
LastOf(k, n) == [i \in 1..k |-> n - k + i]

(* The last k of n bytes, by length and by element.                         *)
LEMMA LastOfIs ==
  ASSUME NEW n \in Nat, NEW k \in 0..n
  PROVE  /\ LastOf(k, n) \in Seq(Int) /\ Len(LastOf(k, n)) = k
         /\ \A i \in 1..k : LastOf(k, n)[i] = n - k + i
BY DEF LastOf

(* They are known by their elements.                                        *)
LEMMA LastOfOnly ==
  ASSUME NEW n \in Nat, NEW k \in 0..n, NEW s \in Seq(Int), Len(s) = k,
         \A i \in 1..k : s[i] = n - k + i
  PROVE  s = LastOf(k, n)
BY DEF LastOf

(* The last of the last are the last.                                       *)
LEMMA LastOfCut ==
  ASSUME NEW n \in Nat, NEW k \in 0..n, NEW j \in 0..k
  PROVE  SubSeq(LastOf(k, n), k - j + 1, k) = LastOf(j, n)
<1> DEFINE s == SubSeq(LastOf(k, n), k - j + 1, k)
<1>1. j \in 0..n /\ \A i \in (k - j + 1)..k : LastOf(k, n)[i] \in Int
  BY LastOfIs
<1>2. /\ s \in Seq(Int) /\ Len(s) = j
      /\ \A i \in 1..j : s[i] = LastOf(k, n)[k - j + i]
  <2>1. /\ s \in Seq(Int) /\ Len(s) = IF k - j + 1 <= k THEN k - (k - j + 1) + 1 ELSE 0
        /\ \A i \in 1..(k - (k - j + 1) + 1) : s[i] = LastOf(k, n)[k - j + 1 + i - 1]
    BY <1>1, SubSeqProperties
  <2> HIDE DEF s
  <2>2. QED
    BY <2>1
<1> HIDE DEF s
<1>3. ASSUME NEW i \in 1..j
      PROVE  s[i] = n - j + i
  <2>1. k - j + i \in 1..k
    OBVIOUS
  <2>2. LastOf(k, n)[k - j + i] = n - k + (k - j + i)
    BY <2>1, LastOfIs
  <2>3. QED
    BY <1>2, <2>2
<1>4. s = LastOf(j, n)
  BY <1>1, <1>2, <1>3, LastOfOnly
<1>5. QED
  BY <1>4 DEF s

(* A concatenation, by length and by element.                               *)
LEMMA ConcatIs ==
  ASSUME NEW s1 \in Seq(Int), NEW s2 \in Seq(Int)
  PROVE  /\ s1 \o s2 \in Seq(Int) /\ Len(s1 \o s2) = Len(s1) + Len(s2)
         /\ \A i \in 1..(Len(s1) + Len(s2)) :
              (s1 \o s2)[i] = IF i <= Len(s1) THEN s1[i] ELSE s2[i - Len(s1)]
BY ConcatProperties

(* What comes after the last k of n bytes makes them the last k + m.        *)
LEMMA LastOfMore ==
  ASSUME NEW n \in Nat, NEW k \in 0..n, NEW m \in Nat
  PROVE  LastOf(k, n) \o LastOf(m, n + m) = LastOf(k + m, n + m)
<1> DEFINE s == LastOf(k, n) \o LastOf(m, n + m)
<1>1. n + m \in Nat /\ m \in 0..(n + m) /\ k + m \in 0..(n + m)
  OBVIOUS
<1>2. /\ s \in Seq(Int) /\ Len(s) = k + m
      /\ \A i \in 1..(k + m) : s[i] = IF i <= k THEN LastOf(k, n)[i] ELSE LastOf(m, n + m)[i - k]
  <2>1. /\ LastOf(k, n) \in Seq(Int) /\ Len(LastOf(k, n)) = k
        /\ LastOf(m, n + m) \in Seq(Int) /\ Len(LastOf(m, n + m)) = m
    BY <1>1, LastOfIs
  <2> DEFINE a == LastOf(k, n)
             b == LastOf(m, n + m)
  <2> HIDE DEF a, b
  <2>2. /\ a \in Seq(Int) /\ Len(a) = k /\ b \in Seq(Int) /\ Len(b) = m
    BY <2>1 DEF a, b
  <2>3. /\ a \o b \in Seq(Int) /\ Len(a \o b) = k + m
        /\ \A i \in 1..(k + m) : (a \o b)[i] = IF i <= k THEN a[i] ELSE b[i - k]
    BY <2>2, ConcatIs
  <2>4. QED
    BY <2>3 DEF a, b
<1> HIDE DEF s
<1>3. ASSUME NEW i \in 1..(k + m)
      PROVE  s[i] = n + m - (k + m) + i
  <2>1. CASE i <= k
    <3>1. LastOf(k, n)[i] = n - k + i
      BY <2>1, LastOfIs
    <3>2. QED
      BY <1>2, <2>1, <3>1
  <2>2. CASE i > k
    <3>1. i - k \in 1..m
      BY <2>2
    <3>2. LastOf(m, n + m)[i - k] = n + m - m + (i - k)
      BY <1>1, <3>1, LastOfIs
    <3>3. QED
      BY <1>2, <2>2, <3>2
  <2>3. QED
    BY <2>1, <2>2
<1>4. s = LastOf(k + m, n + m)
  BY <1>1, <1>2, <1>3, LastOfOnly
<1>5. QED
  BY <1>4 DEF s

(* appendRecent where the ring is too small for both: it keeps the end of   *)
(* the new chunk, or the end of the old bytes with the whole chunk.         *)
LEMMA RingCases ==
  ASSUME NEW a, NEW b, Len(a) \in Nat, Len(b) \in Nat, Len(a) + Len(b) > Cap
  PROVE  Views!AppendRecent(a, b) =
           IF Cap - Len(b) < 0 THEN SubSeq(b, Len(b) - Cap + 1, Len(b))
           ELSE SubSeq(a, Len(a) - (Cap - Len(b)) + 1, Len(a)) \o b
<1>1. Cap \in Nat
  BY ViewsAssumption
<1>2. ~(Len(a) + Len(b) <= Cap)
  BY <1>1
<1>3. QED
  BY <1>2, Zenon DEF Views!AppendRecent, Views!Newest

(* appendRecent, whether the chunk fits, displaces bytes or fills the ring. *)
LEMMA RingStep ==
  ASSUME NEW f \in Nat, NEW n \in Nat
  PROVE  Views!AppendRecent(LastOf(Views!Smaller(f, Cap), f), LastOf(n, f + n))
           = LastOf(Views!Smaller(f + n, Cap), f + n)
<1> DEFINE k == Views!Smaller(f, Cap)
           m == Views!Smaller(f + n, Cap)
<1>1. Cap \in Nat /\ k \in 0..f /\ k <= Cap /\ f + n \in Nat /\ n \in 0..(f + n)
  BY ViewsAssumption DEF Views!Smaller
<1>2. Len(LastOf(k, f)) = k /\ Len(LastOf(n, f + n)) = n
  BY <1>1, LastOfIs
<1>3. /\ k + n <= Cap => m = k + n
      /\ k + n > Cap => m = Cap
  BY <1>1 DEF Views!Smaller
<1> HIDE DEF k, m
<1>4. CASE k + n <= Cap
  <2>1. LastOf(k, f) \o LastOf(n, f + n) = LastOf(k + n, f + n)
    BY <1>1, LastOfMore
  <2>2. QED
    BY <1>2, <1>3, <1>4, <2>1 DEF Views!AppendRecent, k, m
<1>5. k + n > Cap =>
        Views!AppendRecent(LastOf(k, f), LastOf(n, f + n)) =
          IF Cap - n < 0 THEN SubSeq(LastOf(n, f + n), n - Cap + 1, n)
          ELSE SubSeq(LastOf(k, f), k - (Cap - n) + 1, k) \o LastOf(n, f + n)
  <2> DEFINE a == LastOf(k, f)
             b == LastOf(n, f + n)
  <2>1. Len(a) = k /\ Len(b) = n
    BY <1>2
  <2> HIDE DEF a, b
  <2>2. SUFFICES ASSUME k + n > Cap
                 PROVE  Views!AppendRecent(a, b) =
                          IF Cap - n < 0 THEN SubSeq(b, n - Cap + 1, n)
                          ELSE SubSeq(a, k - (Cap - n) + 1, k) \o b
    BY DEF a, b
  <2>3. Len(a) \in Nat /\ Len(b) \in Nat /\ Len(a) + Len(b) > Cap
    BY <1>1, <2>1, <2>2
  <2>4. QED
    BY <2>1, <2>3, RingCases
<1>6. CASE k + n > Cap /\ Cap - n < 0
  <2>1. Cap \in 0..n
    BY <1>1, <1>6
  <2>2. SubSeq(LastOf(n, f + n), n - Cap + 1, n) = LastOf(Cap, f + n)
    BY <1>1, <2>1, LastOfCut
  <2>3. Views!AppendRecent(LastOf(k, f), LastOf(n, f + n))
          = SubSeq(LastOf(n, f + n), n - Cap + 1, n)
    BY <1>1, <1>6, <1>5
  <2>4. QED
    BY <1>3, <1>6, <2>2, <2>3 DEF k, m
<1>7. CASE k + n > Cap /\ Cap - n >= 0
  <2>1. Cap - n \in 0..k /\ Cap - n \in 0..f
    BY <1>1, <1>7
  <2>2. SubSeq(LastOf(k, f), k - (Cap - n) + 1, k) = LastOf(Cap - n, f)
    BY <1>1, <2>1, LastOfCut
  <2>3. LastOf(Cap - n, f) \o LastOf(n, f + n) = LastOf(Cap - n + n, f + n)
    BY <2>1, LastOfMore
  <2>4. Cap - n + n = Cap /\ ~(Cap - n < 0)
    BY <1>1, <1>7
  <2>5. Views!AppendRecent(LastOf(k, f), LastOf(n, f + n))
          = SubSeq(LastOf(k, f), k - (Cap - n) + 1, k) \o LastOf(n, f + n)
    BY <1>7, <1>5, <2>4
  <2>6. QED
    BY <1>3, <1>7, <2>2, <2>3, <2>4, <2>5 DEF k, m
<1>8. QED
  BY <1>1, <1>4, <1>6, <1>7

(* A chunk that is fed keeps the ring at the end of the output.             *)
LEMMA RingNext == RingInv /\ [Views!Next]_(Views!vars) => RingInv'
<1> SUFFICES ASSUME RingInv, [Views!Next]_(Views!vars)
             PROVE  RingInv'
  OBVIOUS
<1>1. CASE Views!Feed
  <2>1. PICK n \in Chunks : /\ fed' = fed + n
                            /\ recent' = Views!AppendRecent(recent, [i \in 1..n |-> fed + i])
    BY <1>1 DEF Views!Feed
  <2>2. fed \in Nat /\ n \in Nat /\ recent = LastOf(Views!Smaller(fed, Cap), fed)
    BY ViewsAssumption DEF RingInv, Views!RecentIsTheEnd, LastOf
  <2>3. [i \in 1..n |-> fed + i] = LastOf(n, fed + n)
    BY <2>2 DEF LastOf
  <2>4. recent' = LastOf(Views!Smaller(fed', Cap), fed')
    BY <2>1, <2>2, <2>3, RingStep
  <2>5. fed' \in Nat
    BY <2>1, <2>2
  <2>6. QED
    BY <2>4, <2>5 DEF RingInv, Views!RecentIsTheEnd, LastOf, Views!Smaller
<1>2. QED
  BY <1>1 DEF Views!Next, Views!vars, RingInv, Views!RecentIsTheEnd, Views!Smaller

-----------------------------------------------------------------------------
(* Rectangles.                                                              *)
RectInv == screen \in ViewScreens /\ rect \in Rects

(* The test of excludedCell, whose difference cannot overflow, is           *)
(* membership in the rectangle.                                             *)
LEMMA WithinIs ==
  ASSUME NEW v \in 0..IntMax, NEW from \in 0..IntMax, NEW size \in (-IntMax - 1)..IntMax
  PROVE  Views!Within(v, from, size) <=> v \in from..(from + size - 1)
<1>1. IntMax \in Nat
  BY ViewsAssumption
<1>2. CASE v >= from
  <2>1. Views!Wrap(v - from) = v - from
    BY <1>1, <1>2, WrapSmall
  <2>2. QED
    BY <1>1, <1>2, <2>1 DEF Views!Within
<1>3. CASE v < from
  BY <1>1, <1>3 DEF Views!Within
<1>4. QED
  BY <1>1, <1>2, <1>3

(* The clipped end of a side of a region is where the screen or the region  *)
(* ends, although their sum is never formed.                                *)
LEMMA ClippedIs ==
  ASSUME NEW from \in 0..IntMax, NEW end \in 0..IntMax, from < end, NEW size \in 1..IntMax
  PROVE  from..(Views!ClippedEnd(from, size, end) - 1)
           = {v \in 0..(end - 1) : v \in from..(from + size - 1)}
<1>1. IntMax \in Nat
  BY ViewsAssumption
<1>2. CASE size < end - from
  <2>1. Views!ClippedEnd(from, size, end) = from + size
    BY <1>1, <1>2, WrapSmall DEF Views!ClippedEnd
  <2>2. QED
    BY <1>1, <1>2, <2>1
<1>3. CASE ~(size < end - from)
  <2>1. Views!ClippedEnd(from, size, end) = end
    BY <1>3 DEF Views!ClippedEnd
  <2>2. QED
    BY <1>1, <1>3, <2>1
<1>4. QED
  BY <1>2, <1>3

(* Every rectangle means the same cells in waits and predicates; one whose  *)
(* corner is not negative means those of the screen in it.                  *)
LEMMA RegionsAre == RectInv => Views!RegionsAgree
<1> SUFFICES ASSUME RectInv
             PROVE  Views!RegionsAgree
  OBVIOUS
<1> DEFINE cells == IF rect.x < 0 \/ rect.y < 0 THEN {} ELSE Views!Selected
           Near == (-1..screen.cols) \X (-1..screen.rows)
<1>1. /\ IntMax \in Nat /\ screen.cols \in 0..IntMax /\ screen.rows \in 0..IntMax
      /\ \A f \in {rect.x, rect.y, rect.w, rect.h} : f \in (-IntMax - 1)..IntMax
  BY ViewsAssumption DEF RectInv
<1>2. {p \in Near : Views!ExcludedCell(p[1], p[2], screen, rect)} = cells
  <2>1. CASE rect.x < 0 \/ rect.y < 0
    <3>1. \A p : ~Views!ExcludedCell(p[1], p[2], screen, rect)
      BY <1>1, <2>1 DEF Views!ExcludedCell
    <3>2. QED
      BY <2>1, <3>1
  <2>2. CASE rect.x >= 0 /\ rect.y >= 0
    <3>1. ASSUME NEW p \in Near
          PROVE  Views!ExcludedCell(p[1], p[2], screen, rect) <=>
                   /\ p[1] \in 0..(screen.cols - 1) /\ p[2] \in 0..(screen.rows - 1)
                   /\ p[1] \in rect.x..(rect.x + rect.w - 1)
                   /\ p[2] \in rect.y..(rect.y + rect.h - 1)
      <4>1. p[1] \in -1..screen.cols /\ p[2] \in -1..screen.rows
        OBVIOUS
      <4>2. CASE p[1] \in 0..(screen.cols - 1) /\ p[2] \in 0..(screen.rows - 1)
        <5>1. /\ Views!Within(p[1], rect.x, rect.w) <=> p[1] \in rect.x..(rect.x + rect.w - 1)
              /\ Views!Within(p[2], rect.y, rect.h) <=> p[2] \in rect.y..(rect.y + rect.h - 1)
          <6>1. p[1] \in 0..IntMax /\ p[2] \in 0..IntMax
                   /\ rect.x \in 0..IntMax /\ rect.y \in 0..IntMax
            BY <1>1, <2>2, <4>2
          <6>2. QED
            BY <1>1, <6>1, WithinIs
        <5>2. QED
          BY <1>1, <2>2, <4>1, <4>2, <5>1 DEF Views!ExcludedCell
      <4>3. CASE ~(p[1] \in 0..(screen.cols - 1) /\ p[2] \in 0..(screen.rows - 1))
        BY <1>1, <4>1, <4>3 DEF Views!ExcludedCell
      <4>4. QED
        BY <4>2, <4>3
    <3>2. cells = {p \in (0..(screen.cols - 1)) \X (0..(screen.rows - 1)) :
                     /\ p[1] \in rect.x..(rect.x + rect.w - 1)
                     /\ p[2] \in rect.y..(rect.y + rect.h - 1)}
      BY <1>1, <2>2 DEF Views!Selected
    <3>3. (0..(screen.cols - 1)) \X (0..(screen.rows - 1)) \subseteq Near
      BY <1>1
    <3>4. QED
      BY <3>1, <3>2, <3>3
  <2>3. QED
    BY <1>1, <2>1, <2>2
<1>3. Views!ClippedRegion(screen, rect) = cells
  <2>1. CASE rect.x < 0 \/ rect.y < 0
    BY <2>1 DEF Views!ClippedRegion
  <2>2. CASE /\ rect.x >= 0 /\ rect.y >= 0
             /\ rect.x >= screen.cols \/ rect.y >= screen.rows \/ rect.w <= 0 \/ rect.h <= 0
    <3>1. Views!ClippedRegion(screen, rect) = {}
      BY <2>2 DEF Views!ClippedRegion
    <3>2. Views!Selected = {}
      BY <1>1, <2>2 DEF Views!Selected
    <3>3. QED
      BY <1>1, <2>2, <3>1, <3>2
  <2>3. CASE /\ rect.x \in 0..(screen.cols - 1) /\ rect.y \in 0..(screen.rows - 1)
             /\ rect.w > 0 /\ rect.h > 0
    <3> DEFINE X == rect.x..(Views!ClippedEnd(rect.x, rect.w, screen.cols) - 1)
               Y == rect.y..(Views!ClippedEnd(rect.y, rect.h, screen.rows) - 1)
    <3>1. Views!ClippedRegion(screen, rect) = X \X Y
      <4>1. Views!ClippedRegion(screen, rect) = {<<x, y>> : x \in X, y \in Y}
        BY <1>1, <2>3 DEF Views!ClippedRegion
      <4> HIDE DEF X, Y
      <4>2. QED
        BY <4>1
    <3>2. /\ X = {v \in 0..(screen.cols - 1) : v \in rect.x..(rect.x + rect.w - 1)}
          /\ Y = {v \in 0..(screen.rows - 1) : v \in rect.y..(rect.y + rect.h - 1)}
      <4>1. /\ rect.x \in 0..IntMax /\ screen.cols \in 0..IntMax
            /\ rect.x < screen.cols /\ rect.w \in 1..IntMax
        BY <1>1, <2>3
      <4>2. /\ rect.y \in 0..IntMax /\ screen.rows \in 0..IntMax
            /\ rect.y < screen.rows /\ rect.h \in 1..IntMax
        BY <1>1, <2>3
      <4>3. X = {v \in 0..(screen.cols - 1) : v \in rect.x..(rect.x + rect.w - 1)}
        BY <4>1, ClippedIs
      <4>4. Y = {v \in 0..(screen.rows - 1) : v \in rect.y..(rect.y + rect.h - 1)}
        BY <4>2, ClippedIs
      <4>5. QED
        BY <4>3, <4>4
    <3> HIDE DEF X, Y
    <3>3. cells = {p \in (0..(screen.cols - 1)) \X (0..(screen.rows - 1))
                    : p[1] \in X /\ p[2] \in Y}
      BY <1>1, <2>3, <3>2 DEF Views!Selected
    <3>4. QED
      BY <3>1, <3>2, <3>3
  <2>4. QED
    BY <1>1, <2>1, <2>2, <2>3
<1> HIDE DEF cells
<1>4. Views!Excluded = cells
  BY <1>2 DEF Views!Excluded
<1>5. Views!EvaluateRegion(screen, rect, mode) <=>
        /\ cells # {}
        /\ IF mode = "any" THEN \E p \in cells : p \in screen.marked
           ELSE \A p \in cells : p \in screen.marked
  BY <1>3 DEF Views!EvaluateRegion
<1>6. rect.x >= 0 /\ rect.y >= 0 => cells = Views!Selected
  BY <1>1 DEF cells
<1>7. QED
  BY <1>3, <1>4, <1>5, <1>6 DEF Views!RegionsAgree

ViewsInv == RingInv /\ RectInv

(* Every rectangle and screen that a run begins with is of the kind the     *)
(* proof is about.                                                          *)
LEMMA ViewsStart == Views!Init => ViewsInv
<1> SUFFICES ASSUME Views!Init
             PROVE  ViewsInv
  OBVIOUS
<1>1. fed = 0 /\ recent = <<>> /\ RectInv
  BY DEF Views!Init, RectInv
<1>2. Views!Smaller(0, Cap) = 0
  BY ViewsAssumption DEF Views!Smaller
<1>3. <<>> = [i \in 1..0 |-> 0 - 0 + i]
  OBVIOUS
<1>4. QED
  BY <1>1, <1>2, <1>3 DEF ViewsInv, RingInv, Views!RecentIsTheEnd

-----------------------------------------------------------------------------
(* HTMLViewer.                                                              *)
LEMMA EndsUnfold ==
  Viewer!Ends = [n \in 0..Len(Durations) |->
                   IF n = 0 THEN 0 ELSE Viewer!Ends[n - 1] + Durations[n]]
<1>1. Len(Durations) \in Nat
  BY ViewerAssumption
<1> DEFINE Next1(x, n) == x + Durations[n]
           Solves(f, m) == f = [n \in 0..m |-> IF n = 0 THEN 0 ELSE Next1(f[n - 1], n)]
           P == {m \in Nat : \E f : Solves(f, m)}
<1> HIDE DEF Next1, Solves
<1>2. 0 \in P
  <2>1. Solves([n \in {0} |-> 0], 0)
    BY DEF Solves
  <2>2. QED
    BY <2>1
<1>3. \A m \in Nat : m \in P => m + 1 \in P
  <2> SUFFICES ASSUME NEW m \in Nat, m \in P
               PROVE  \E f : Solves(f, m + 1)
    OBVIOUS
  <2> DEFINE k == m
  <2>1. PICK f : Solves(f, k)
    OBVIOUS
  <2> DEFINE g == [n \in 0..(k + 1) |-> IF n <= k THEN f[n] ELSE Next1(f[k], n)]
  <2>2. \A n \in 0..(k + 1) : g[n] = IF n = 0 THEN 0 ELSE Next1(g[n - 1], n)
    <3> TAKE n \in 0..(k + 1)
    <3>1. CASE n = 0
      BY <2>1, <3>1 DEF Solves
    <3>2. CASE n \in 1..k
      BY <2>1, <3>2 DEF Solves
    <3>3. CASE n = k + 1
      BY <3>3
    <3>4. QED
      BY <3>1, <3>2, <3>3
  <2>3. Solves(g, k + 1)
    BY <2>2 DEF Solves
  <2>4. QED
    BY <2>3
<1>4. \E f : Solves(f, Len(Durations))
  <2> HIDE DEF P
  <2>1. Len(Durations) \in P
    BY <1>1, <1>2, <1>3, Induct
  <2>2. QED
    BY <2>1 DEF P
<1>5. Viewer!Ends = CHOOSE f : Solves(f, Len(Durations))
  BY DEF Viewer!Ends, Solves, Next1
<1>6. Solves(Viewer!Ends, Len(Durations))
  BY <1>4, <1>5, Zenon
<1>7. QED
  BY <1>6, Zenon DEF Solves, Next1

(* The ends of the frames grow, since no frame of a page lasts no time.     *)
LEMMA EndsAre ==
  /\ Len(Durations) \in Nat \ {0} /\ DOMAIN Durations = 1..Len(Durations)
  /\ Viewer!Ends[0] = 0 /\ \A n \in 0..Len(Durations) : Viewer!Ends[n] \in Nat
  /\ \A n \in 1..Len(Durations) : Viewer!Ends[n - 1] < Viewer!Ends[n]
<1>1. /\ Len(Durations) \in Nat \ {0} /\ DOMAIN Durations = 1..Len(Durations)
      /\ \A n \in 1..Len(Durations) : Durations[n] \in Nat \ {0}
  BY ViewerAssumption
<1> DEFINE L == Len(Durations)
           E == Viewer!Ends
<1>2. \A n \in 0..L : E[n] = IF n = 0 THEN 0 ELSE E[n - 1] + Durations[n]
  BY EndsUnfold
<1> HIDE DEF L, E
<1>3. E[0] = 0
  BY <1>1, <1>2 DEF L
<1>4. \A n \in 1..L : E[n] = E[n - 1] + Durations[n]
  BY <1>1, <1>2 DEF L
<1> DEFINE P == {n \in Nat : E[n] \in Nat}
<1>5. 0..L \subseteq P
  <2>1. 0 \in P
    BY <1>3
  <2>2. \A i \in 0..L : i \in P /\ i < L => i + 1 \in P
    <3> TAKE i \in 0..L
    <3> HAVE i \in P /\ i < L
    <3>1. i + 1 \in 1..L /\ (i + 1) - 1 = i
      BY <1>1 DEF L
    <3>2. E[i + 1] = E[i] + Durations[i + 1]
      BY <1>4, <3>1
    <3>3. Durations[i + 1] \in Nat
      BY <1>1, <3>1 DEF L
    <3>4. QED
      BY <3>2, <3>3
  <2>3. L \in Nat
    BY <1>1 DEF L
  <2> HIDE DEF P
  <2>4. QED
    BY <2>1, <2>2, <2>3, InductTo
<1>6. ASSUME NEW n \in 1..L
      PROVE  E[n - 1] < E[n]
  <2>1. n - 1 \in 0..L /\ E[n - 1] \in Nat
    BY <1>1, <1>5 DEF L
  <2>2. Durations[n] \in Nat \ {0}
    BY <1>1 DEF L
  <2>3. QED
    BY <1>4, <2>1, <2>2
<1>7. QED
  BY <1>1, <1>3, <1>5, <1>6 DEF L, E

(* So a later frame ends later.                                             *)
LEMMA EndsGrow ==
  ASSUME NEW m \in 0..Len(Durations), NEW n \in m..Len(Durations)
  PROVE  Viewer!Ends[m] <= Viewer!Ends[n]
<1> DEFINE P == {k \in m..Len(Durations) : Viewer!Ends[m] <= Viewer!Ends[k]}
<1>1. Len(Durations) \in Nat /\ m \in Nat
  BY EndsAre
<1>2. m \in P
  BY <1>1, EndsAre
<1>3. \A i \in m..Len(Durations) : i \in P /\ i < Len(Durations) => i + 1 \in P
  <2> TAKE i \in m..Len(Durations)
  <2> HAVE i \in P /\ i < Len(Durations)
  <2>1. i + 1 \in 1..Len(Durations) /\ (i + 1) - 1 = i
        /\ i \in 0..Len(Durations) /\ i + 1 \in 0..Len(Durations)
    BY <1>1
  <2>2. Viewer!Ends[i] < Viewer!Ends[i + 1]
    BY <2>1, EndsAre
  <2>3. Viewer!Ends[m] \in Nat /\ Viewer!Ends[i] \in Nat /\ Viewer!Ends[i + 1] \in Nat
    BY <2>1, EndsAre
  <2>4. i + 1 \in m..Len(Durations)
    BY <1>1, <2>1
  <2>5. QED
    BY <2>2, <2>3, <2>4
<1> HIDE DEF P
<1>4. m..Len(Durations) \subseteq P
  BY <1>1, <1>2, <1>3, InductTo
<1>5. QED
  BY <1>4 DEF P

(* The first frame begins at 0, every other one later, and all before the   *)
(* end.                                                                     *)
LEMMA TimesAre ==
  /\ Viewer!Total \in Nat \ {0}
  /\ \A i \in DOMAIN Durations : Viewer!Starts[i] \in 0..Viewer!Total
  /\ 1 \in DOMAIN Durations /\ Viewer!Starts[1] = 0
  /\ \A i \in DOMAIN Durations : i # 1 => Viewer!Starts[i] > 0
<1> DEFINE L == Len(Durations)
<1>1. \A i \in 1..L : Viewer!Starts[i] = Viewer!Ends[i - 1]
  BY EndsAre DEF Viewer!Starts
<1>2. /\ L \in Nat \ {0} /\ DOMAIN Durations = 1..L
      /\ \A i \in 1..L : i - 1 \in 0..L
      /\ L \in 0..L /\ 1 \in 1..L /\ L - 1 \in 0..L
  BY EndsAre
<1> HIDE DEF L
<1>3. \A i \in 1..L : i # 1 => Viewer!Ends[i - 1] > 0
  <2> SUFFICES ASSUME NEW i \in 1..L, i # 1
               PROVE  Viewer!Ends[i - 1] > 0
    OBVIOUS
  <2>1. 1 \in 0..L /\ i - 1 \in 1..L /\ i - 1 \in 0..L /\ 1 - 1 = 0 /\ 0 \in 0..L
    BY <1>2
  <2>2. Viewer!Ends[1] <= Viewer!Ends[i - 1]
    BY <2>1, EndsGrow DEF L
  <2>3. 0 < Viewer!Ends[1]
    BY <1>2, <2>1, EndsAre DEF L
  <2>4. Viewer!Ends[1] \in Nat /\ Viewer!Ends[i - 1] \in Nat
    BY <2>1, EndsAre DEF L
  <2>5. QED
    BY <2>2, <2>3, <2>4
<1>4. Viewer!Total \in Nat \ {0}
  <2>1. Viewer!Ends[L - 1] < Viewer!Ends[L] /\ Viewer!Ends[L - 1] \in Nat /\ Viewer!Ends[L] \in Nat
    BY <1>2, EndsAre DEF L
  <2>2. QED
    BY <2>1 DEF Viewer!Total, L
<1>5. ASSUME NEW i \in 1..L
      PROVE  Viewer!Ends[i - 1] \in 0..Viewer!Total
  <2>1. i - 1 \in 0..L /\ L \in (i - 1)..L
    BY <1>2
  <2>2. Viewer!Ends[i - 1] <= Viewer!Ends[L]
    BY <2>1, EndsGrow DEF L
  <2>3. Viewer!Ends[i - 1] \in Nat /\ Viewer!Ends[L] \in Nat
    BY <1>2, <2>1, EndsAre DEF L
  <2>4. QED
    BY <2>2, <2>3 DEF Viewer!Total, L
<1>6. Viewer!Starts[1] = 0
  <2>1. Viewer!Starts[1] = Viewer!Ends[1 - 1] /\ 1 - 1 = 0
    BY <1>1, <1>2
  <2>2. QED
    BY <2>1, EndsAre
<1>7. QED
  BY <1>1, <1>2, <1>3, <1>4, <1>5, <1>6

(* At every time there is a frame to show.                                  *)
LEMMA IndexAtIs ==
  ASSUME NEW t \in Nat
  PROVE  Viewer!IndexAt(t) \in DOMAIN Durations
<1>1. CASE t >= Viewer!Total
  BY <1>1, EndsAre DEF Viewer!IndexAt
<1>2. CASE ~(t >= Viewer!Total)
  <2> DEFINE T == {i \in DOMAIN Durations : Viewer!Starts[i] <= t}
  <2>1. T \subseteq 1..Len(Durations) /\ T # {} /\ Len(Durations) \in Nat
    <3>1. 1 \in T
      BY TimesAre
    <3>2. QED
      BY <3>1, EndsAre
  <2>2. PICK i \in T : \A j \in T : j <= i
    <3> HIDE DEF T
    <3>1. QED
      BY <2>1, Greatest
  <2>3. \E k \in DOMAIN Durations :
          Viewer!Starts[k] <= t /\ \A j \in DOMAIN Durations : Viewer!Starts[j] <= t => j <= k
    BY <2>2
  <2>4. QED
    BY <1>2, <2>3 DEF Viewer!IndexAt
<1>3. QED
  BY <1>1, <1>2

(* At the start it is the first one.                                        *)
LEMMA FirstFrame == Viewer!IndexAt(0) = 1
<1>1. ~(0 >= Viewer!Total) /\ DOMAIN Durations \subseteq Nat
  BY TimesAre, EndsAre
<1>2. \A i \in DOMAIN Durations : (Viewer!Starts[i] <= 0 <=> i = 1)
  BY TimesAre
<1>3. Viewer!IndexAt(0) = CHOOSE i \in DOMAIN Durations :
        Viewer!Starts[i] <= 0 /\ \A j \in DOMAIN Durations : Viewer!Starts[j] <= 0 => j <= i
  BY <1>1 DEF Viewer!IndexAt
<1>4. \A i : i \in DOMAIN Durations /\ (/\ Viewer!Starts[i] <= 0
                                         /\ \A j \in DOMAIN Durations : Viewer!Starts[j] <= 0 => j <= i)
               <=> i = 1
  BY <1>1, <1>2, TimesAre
<1>5. QED
  BY <1>3, <1>4

(* A marker beyond the end of the recording is moved to its end.            *)
LEMMA PositionsAre ==
  /\ Len(Positions) \in Nat /\ DOMAIN Positions = 1..Len(Positions)
  /\ \A i \in DOMAIN Positions : Viewer!PositionOf(i) \in 0..Viewer!Total
BY ViewerAssumption, TimesAre DEF Viewer!PositionOf

-----------------------------------------------------------------------------
States == [position : Nat, playing : BOOLEAN, frame : DOMAIN Durations,
           marker : 0..Len(Positions), option : 0..Len(Positions)]

(* The controls, while a handler runs.                                      *)
Consistent(s) ==
  s \in States /\ s.marker = s.option /\ (s.playing => s.position < Viewer!Total)

(* What was drawn last is what the controls ask for, and a picture whose load
   event has come and that was not painted over is on the canvas.           *)
ControlsInv ==
  /\ position \in 0..Viewer!Total /\ playing \in BOOLEAN
  /\ option \in 0..Len(Positions) /\ Viewer!ControlsAgree

PicturesInv ==
  /\ drawn \in Viewer!Pictures /\ loads \subseteq Viewer!Pictures
  /\ picture \in [Viewer!Pictures -> {"none", "loading", "complete"}]
  /\ \A p \in Viewer!Pictures \ loads : picture[p] = "complete"
  /\ picture[drawn] # "none"

DrawnInv ==
  IF drawn.kind = "frame" THEN drawn = Viewer!Frame(frameIndex) /\ selectedMarker = 0
  ELSE selectedMarker = 0 \/ drawn = Viewer!Marker(selectedMarker)

CanvasInv ==
  drawn \notin loads =>
    \/ canvas = drawn
    \/ drawn.kind = "marker" /\ (canvas = Viewer!Frame(frameIndex) \/ selectedMarker = 0)

ViewerInv == ControlsInv /\ PicturesInv /\ DrawnInv /\ CanvasInv

(* The controls of the player, and what an assignment to one of them leaves *)
(* alone.                                                                   *)
LEMMA StatesAre ==
  ASSUME NEW s \in States
  PROVE  /\ s.position \in Nat /\ s.playing \in BOOLEAN
         /\ s.marker \in 0..Len(Positions) /\ s.option \in 0..Len(Positions)
         /\ \A t \in Nat : LET u == [s EXCEPT !.position = t]
                           IN u \in States /\ u.position = t
                              /\ u.playing = s.playing /\ u.marker = s.marker /\ u.option = s.option
         /\ \A b \in BOOLEAN : LET u == [s EXCEPT !.playing = b]
                               IN u \in States /\ u.playing = b /\ u.position = s.position
                                  /\ u.marker = s.marker /\ u.option = s.option
BY DEF States

(* Selecting a marker leaves the other controls alone.                      *)
LEMMA MarkedState ==
  ASSUME NEW s \in States, NEW i \in 0..Len(Positions)
  PROVE  /\ [s EXCEPT !.marker = i] \in States /\ [s EXCEPT !.marker = i].marker = i
         /\ [s EXCEPT !.marker = i].option = s.option
         /\ [s EXCEPT !.marker = i].position = s.position
         /\ [s EXCEPT !.marker = i].playing = s.playing
BY DEF States

(* So does the entry of the list that is shown as selected.                 *)
LEMMA OptedState ==
  ASSUME NEW s \in States, NEW i \in 0..Len(Positions)
  PROVE  /\ [s EXCEPT !.option = i] \in States /\ [s EXCEPT !.option = i].option = i
         /\ [s EXCEPT !.option = i].marker = s.marker
         /\ [s EXCEPT !.option = i].position = s.position
         /\ [s EXCEPT !.option = i].playing = s.playing
BY DEF States

(* The invariant of the player has what the run checks.                     *)
LEMMA ViewerShows == ViewerInv => Viewer!ControlsAgree /\ Viewer!LastDrawnShows
<1> SUFFICES ASSUME ViewerInv
             PROVE  Viewer!ControlsAgree /\ Viewer!LastDrawnShows
  OBVIOUS
<1>1. Viewer!ControlsAgree
  BY DEF ViewerInv, ControlsInv
<1>2. ASSUME \A p \in loads : picture[p] = "none"
      PROVE  drawn \notin loads
  BY <1>2 DEF ViewerInv, PicturesInv
<1>3. QED
  BY <1>1, <1>2 DEF ViewerInv, CanvasInv, Viewer!LastDrawnShows

(* Pictures of frames and of markers are told apart.                        *)
LEMMA PicturesAre ==
  /\ \A i : Viewer!Frame(i).kind = "frame" /\ Viewer!Frame(i).index = i
  /\ \A i : Viewer!Marker(i).kind = "marker" /\ Viewer!Marker(i).index = i
  /\ \A i \in DOMAIN Durations : Viewer!Frame(i) \in Viewer!Pictures
  /\ \A i \in DOMAIN Positions : Viewer!Marker(i) \in Viewer!Pictures
  /\ \A p \in Viewer!Pictures :
       \/ p.kind = "frame" /\ p = Viewer!Frame(p.index) /\ p.index \in DOMAIN Durations
       \/ p.kind = "marker" /\ p = Viewer!Marker(p.index) /\ p.index \in DOMAIN Positions
<1>1. \A i : /\ Viewer!Frame(i).kind = "frame" /\ Viewer!Frame(i).index = i
            /\ Viewer!Marker(i).kind = "marker" /\ Viewer!Marker(i).index = i
  BY DEF Viewer!Frame, Viewer!Marker
<1>2. \A p \in Viewer!Pictures : \/ \E i \in DOMAIN Durations : p = Viewer!Frame(i)
                                \/ \E i \in DOMAIN Positions : p = Viewer!Marker(i)
  BY DEF Viewer!Pictures
<1>3. /\ \A i \in DOMAIN Durations : Viewer!Frame(i) \in Viewer!Pictures
      /\ \A i \in DOMAIN Positions : Viewer!Marker(i) \in Viewer!Pictures
  BY DEF Viewer!Pictures
<1>4. QED
  BY <1>1, <1>2, <1>3

(* The page opens on the first frame, paused, with that picture asked for.  *)
LEMMA ViewerStarts == Viewer!Init => ViewerInv
<1> SUFFICES ASSUME Viewer!Init
             PROVE  ViewerInv
  OBVIOUS
<1>1. ControlsInv
  <2>1. /\ position = 0 /\ playing = FALSE /\ frameIndex = 1 /\ selectedMarker = 0 /\ option = 0
        /\ 0 \in 0..Viewer!Total /\ 0 \in 0..Len(Positions)
    BY TimesAre, PositionsAre DEF Viewer!Init
  <2>2. QED
    BY <2>1, FirstFrame DEF ControlsInv, Viewer!ControlsAgree
<1>2. /\ drawn = Viewer!Frame(1) /\ drawn \in Viewer!Pictures /\ loads = Viewer!Pictures
      /\ drawn.kind = "frame" /\ frameIndex = 1 /\ selectedMarker = 0
  BY TimesAre, PicturesAre DEF Viewer!Init
<1>3. picture = [p \in Viewer!Pictures |-> IF p = drawn THEN "loading" ELSE "none"]
  BY <1>2 DEF Viewer!Init
<1>4. PicturesInv
  BY <1>2, <1>3 DEF PicturesInv
<1>5. DrawnInv /\ CanvasInv
  BY <1>2 DEF DrawnInv, CanvasInv
<1>6. QED
  BY <1>1, <1>4, <1>5 DEF ViewerInv

(* render, whatever the handler has made of the controls.                   *)
LEMMA RenderKeeps ==
  ASSUME ViewerInv, NEW s, Consistent(s), NEW andPlay \in BOOLEAN, Viewer!Render(s, andPlay)
  PROVE  ViewerInv'
<1> DEFINE e == [s EXCEPT !.position =
                      IF s.position > Viewer!Total THEN Viewer!Total ELSE s.position]
           d == Viewer!Deselect(e)
           next == Viewer!IndexAt(d.position)
<1>1. /\ position' = d.position
      /\ playing' = IF andPlay THEN Viewer!SetPlaying(d, TRUE).playing ELSE d.playing
      /\ frameIndex' = next
      /\ selectedMarker' = d.marker /\ option' = d.option
      /\ IF d.marker # 0 THEN Viewer!Draw(Viewer!Marker(d.marker))
         ELSE IF next # frameIndex THEN Viewer!Draw(Viewer!Frame(next))
         ELSE Viewer!NoDraw
      /\ loads' = loads
  BY DEF Viewer!Render
<1>2. s \in States /\ s.marker = s.option
        /\ (s.playing => s.position < Viewer!Total) /\ Viewer!Total \in Nat
  BY TimesAre DEF Consistent
<1>3. /\ e \in States /\ e.position \in 0..Viewer!Total /\ e.marker = e.option
      /\ e.playing => e.position < Viewer!Total
  BY <1>2 DEF States
<1> HIDE DEF e
<1>4. /\ d \in States /\ d.position \in 0..Viewer!Total /\ d.marker = d.option
      /\ d.playing => d.position < Viewer!Total
      /\ d.marker # 0 => d.position = Viewer!PositionOf(d.marker)
  <2>1. CASE Viewer!At(e) = 0
    <3>1. d = [[e EXCEPT !.option = 0] EXCEPT !.marker = 0]
      BY <2>1 DEF Viewer!Deselect
    <3>2. d \in States /\ d.position = e.position
            /\ d.marker = 0 /\ d.option = 0 /\ d.playing = e.playing
      <4> DEFINE f == [e EXCEPT !.option = 0]
      <4>1. 0 \in 0..Len(Positions)
        BY PositionsAre
      <4>2. f \in States /\ f.option = 0 /\ f.position = e.position /\ f.playing = e.playing
        BY <1>3, <4>1, OptedState
      <4>3. d = [f EXCEPT !.marker = 0]
        BY <3>1
      <4> HIDE DEF f, d
      <4>4. QED
        BY <4>1, <4>2, <4>3, MarkedState
    <3> HIDE DEF d
    <3>3. QED
      BY <1>3, <3>2
  <2>2. CASE Viewer!At(e) # 0
    <3>1. d = e
      BY <2>2 DEF Viewer!Deselect
    <3>2. Viewer!PositionOf(e.option) = e.position
      BY <2>2 DEF Viewer!At
    <3> HIDE DEF d
    <3>3. QED
      BY <1>3, <3>1, <3>2
  <2>3. QED
    BY <2>1, <2>2
<1>5. Viewer!SetPlaying(d, TRUE).playing = (d.position < Viewer!Total)
  BY <1>4 DEF Viewer!SetPlaying, States
<1> HIDE DEF d
<1>6. /\ d.position \in Nat /\ d.playing \in BOOLEAN /\ d.marker \in 0..Len(Positions)
      /\ d.option \in 0..Len(Positions)
  BY <1>4 DEF States
<1>7. next \in DOMAIN Durations
  BY <1>6, IndexAtIs
<1>8. ControlsInv'
  <2>1. /\ position' \in 0..Viewer!Total /\ playing' \in BOOLEAN
        /\ option' \in 0..Len(Positions) /\ selectedMarker' = option'
        /\ frameIndex' = Viewer!IndexAt(position')
        /\ selectedMarker' # 0 => position' = Viewer!PositionOf(selectedMarker')
        /\ playing' => position' < Viewer!Total
    <3>1. position' \in 0..Viewer!Total /\ option' \in 0..Len(Positions)
            /\ selectedMarker' = option'
      BY <1>1, <1>4, <1>6
    <3>2. frameIndex' = Viewer!IndexAt(position')
      BY <1>1
    <3>3. selectedMarker' # 0 => position' = Viewer!PositionOf(selectedMarker')
      BY <1>1, <1>4
    <3>4. playing' \in BOOLEAN /\ (playing' => position' < Viewer!Total)
      <4>1. CASE andPlay
        <5>1. playing' = (d.position < Viewer!Total)
          BY <1>1, <1>5, <4>1
        <5>2. position' = d.position
          BY <1>1
        <5>3. (d.position < Viewer!Total) \in BOOLEAN
          OBVIOUS
        <5>4. playing' \in BOOLEAN
          BY <5>1, <5>3
        <5>5. playing' => position' < Viewer!Total
          BY <5>1, <5>2, Zenon
        <5>6. QED
          BY <5>4, <5>5
      <4>2. CASE ~andPlay
        <5>1. playing' = d.playing
          BY <1>1, <4>2
        <5>2. QED
          BY <1>1, <1>4, <1>6, <5>1
      <4>3. QED
        BY <4>1, <4>2
    <3>5. QED
      BY <3>1, <3>2, <3>3, <3>4
  <2>2. QED
    BY <2>1 DEF ControlsInv, Viewer!ControlsAgree
<1> HIDE DEF next
<1>9. ASSUME NEW p \in Viewer!Pictures, Viewer!Draw(p)
      PROVE  PicturesInv' /\ drawn' = p /\ (p \notin loads' => canvas' = p)
  <2>1. /\ picture' = [picture EXCEPT ![p] = IF picture[p] = "none" THEN "loading" ELSE picture[p]]
        /\ canvas' = IF picture[p] = "complete" THEN p ELSE canvas
        /\ drawn' = p
    BY <1>9 DEF Viewer!Draw
  <2>2. PicturesInv'
    BY <1>1, <2>1 DEF ViewerInv, PicturesInv
  <2>3. p \notin loads => picture[p] = "complete"
    BY DEF ViewerInv, PicturesInv
  <2>4. QED
    BY <1>1, <2>1, <2>2, <2>3
<1>10. CASE d.marker # 0
  <2>1. d.marker \in DOMAIN Positions
    BY <1>6, <1>10, PositionsAre
  <2>2. Viewer!Marker(d.marker) \in Viewer!Pictures /\ Viewer!Draw(Viewer!Marker(d.marker))
    BY <1>1, <1>10, <2>1, PicturesAre
  <2>3. /\ PicturesInv' /\ drawn' = Viewer!Marker(selectedMarker')
        /\ (drawn' \notin loads' => canvas' = drawn')
    BY <1>1, <1>9, <2>2
  <2>4. drawn'.kind = "marker"
    BY <2>3, PicturesAre
  <2>5. DrawnInv' /\ CanvasInv'
    BY <2>3, <2>4 DEF DrawnInv, CanvasInv
  <2>6. QED
    BY <1>8, <2>3, <2>5 DEF ViewerInv
<1>11. CASE d.marker = 0 /\ next # frameIndex
  <2>1. Viewer!Frame(next) \in Viewer!Pictures /\ Viewer!Draw(Viewer!Frame(next))
    BY <1>1, <1>7, <1>11, PicturesAre
  <2>2. /\ PicturesInv' /\ drawn' = Viewer!Frame(frameIndex') /\ selectedMarker' = 0
        /\ (drawn' \notin loads' => canvas' = drawn')
    BY <1>1, <1>9, <1>11, <2>1
  <2>3. drawn'.kind = "frame"
    BY <2>2, PicturesAre
  <2>4. DrawnInv' /\ CanvasInv'
    BY <2>2, <2>3 DEF DrawnInv, CanvasInv
  <2>5. QED
    BY <1>8, <2>2, <2>4 DEF ViewerInv
<1>12. CASE d.marker = 0 /\ next = frameIndex
  <2>1. UNCHANGED <<picture, canvas, drawn, loads, frameIndex>> /\ selectedMarker' = 0
    BY <1>1, <1>12 DEF Viewer!NoDraw
  <2>2. PicturesInv'
    BY <2>1 DEF ViewerInv, PicturesInv
  <2>3. DrawnInv' /\ CanvasInv'
    BY <2>1, PicturesAre DEF ViewerInv, DrawnInv, CanvasInv, PicturesInv
  <2>4. QED
    BY <1>8, <2>2, <2>3 DEF ViewerInv
<1>13. QED
  BY <1>10, <1>11, <1>12

(* The handlers.                                                            *)
LEMMA StateIs == ViewerInv => Consistent(Viewer!State) /\ Viewer!State.position = position
<1> SUFFICES ASSUME ViewerInv
             PROVE  Consistent(Viewer!State) /\ Viewer!State.position = position
  OBVIOUS
<1>1. /\ position \in 0..Viewer!Total /\ playing \in BOOLEAN /\ option \in 0..Len(Positions)
      /\ selectedMarker = option /\ (playing => position < Viewer!Total)
      /\ frameIndex = Viewer!IndexAt(position)
  BY DEF ViewerInv, ControlsInv, Viewer!ControlsAgree
<1>2. position \in Nat
  BY <1>1, TimesAre
<1>3. frameIndex \in DOMAIN Durations
  BY <1>1, <1>2, IndexAtIs
<1>4. QED
  BY <1>1, <1>2, <1>3 DEF Consistent, States, Viewer!State

(* seek() from any consistent state of the controls.                        *)
LEMMA SeekKeeps ==
  ASSUME ViewerInv, NEW s, Consistent(s), NEW t \in 0..Viewer!Total, Viewer!Seek(s, t)
  PROVE  ViewerInv'
<1> DEFINE u == [Viewer!SetPlaying(s, FALSE) EXCEPT !.position = t]
<1>1. u = [[s EXCEPT !.playing = FALSE] EXCEPT !.position = t]
  BY DEF Viewer!SetPlaying
<1>2. t \in Nat
  BY TimesAre
<1>3. Consistent(u)
  BY <1>1, <1>2 DEF Consistent, States
<1> HIDE DEF u
<1>4. Viewer!Render(u, playing) /\ playing \in BOOLEAN
  BY DEF Viewer!Seek, u, ViewerInv, ControlsInv
<1>5. QED
  BY <1>3, <1>4, RenderKeeps

(* Deselecting a marker keeps the controls consistent.                      *)
LEMMA NoMarkerIs ==
  ASSUME NEW s, Consistent(s)
  PROVE  Consistent(Viewer!NoMarker(s))
<1> DEFINE u == [s EXCEPT !.marker = 0]
<1>1. 0 \in 0..Len(Positions)
  BY PositionsAre
<1>2. u \in States /\ u.marker = 0 /\ u.position = s.position /\ u.playing = s.playing
  BY <1>1, MarkedState DEF Consistent
<1>3. Viewer!NoMarker(s) = [u EXCEPT !.option = 0]
  BY DEF Viewer!NoMarker
<1> HIDE DEF u
<1> DEFINE v == [u EXCEPT !.option = 0]
<1>4. v \in States /\ v.option = 0 /\ v.marker = 0
        /\ v.position = s.position /\ v.playing = s.playing
  BY <1>1, <1>2, OptedState
<1>5. Viewer!NoMarker(s) = v /\ (s.playing => s.position < Viewer!Total)
  BY <1>3 DEF Consistent
<1> HIDE DEF v
<1>6. QED
  BY <1>4, <1>5 DEF Consistent

(* seekFrame(), which the frame buttons call.                               *)
LEMMA SeekFrameKeeps ==
  ASSUME ViewerInv, NEW i \in Int, Viewer!SeekFrame(i)
  PROVE  ViewerInv'
<1> DEFINE n == Len(Durations)
           k == IF i < 1 THEN 1 ELSE IF i > n THEN n ELSE i
<1>1. k \in DOMAIN Durations
  BY EndsAre
<1> HIDE DEF k
<1>2. Viewer!Starts[k] \in 0..Viewer!Total
  BY <1>1, TimesAre
<1>3. Viewer!Seek(Viewer!NoMarker(Viewer!State), Viewer!Starts[k])
  BY DEF Viewer!SeekFrame, k
<1>4. QED
  BY <1>2, <1>3, StateIs, NoMarkerIs, SeekKeeps

(* seekMarker(), from the list or the buttons.                              *)
LEMMA SeekMarkerKeeps ==
  ASSUME ViewerInv, NEW i \in DOMAIN Positions, Viewer!SeekMarker(i)
  PROVE  ViewerInv'
<1> DEFINE s == [[Viewer!State EXCEPT !.marker = i] EXCEPT !.option = i]
<1>1. Consistent(s)
  <2> DEFINE u == [Viewer!State EXCEPT !.marker = i]
  <2>1. i \in 0..Len(Positions)
    BY PositionsAre
  <2>2. u \in States /\ u.marker = i
          /\ u.position = Viewer!State.position /\ u.playing = Viewer!State.playing
    BY <2>1, StateIs, MarkedState DEF Consistent
  <2>3. s = [u EXCEPT !.option = i]
    OBVIOUS
  <2> HIDE DEF u, s
  <2>4. QED
    BY <2>1, <2>2, <2>3, StateIs, OptedState DEF Consistent
<1> HIDE DEF s
<1>2. Viewer!Seek(s, Viewer!PositionOf(i)) /\ Viewer!PositionOf(i) \in 0..Viewer!Total
  BY PositionsAre DEF Viewer!SeekMarker, s
<1>3. QED
  BY <1>1, <1>2, SeekKeeps

(* The marker before and the marker after the position are markers, or      *)
(* none.                                                                    *)
LEMMA NeighboursAre ==
  ASSUME ViewerInv
  PROVE  Viewer!MarkerBefore \in 0..Len(Positions) /\ Viewer!MarkerAfter \in 0..Len(Positions)
<1> DEFINE here == Viewer!At(Viewer!State)
           L == Len(Positions)
           before == {i \in DOMAIN Positions : Viewer!PositionOf(i) <= position}
           after == {i \in DOMAIN Positions : Viewer!PositionOf(i) >= position}
<1>1. here \in 0..L /\ L \in Nat /\ DOMAIN Positions = 1..L
  BY StateIs, PositionsAre DEF Viewer!At, Consistent, States
<1>2. before # {} => Viewer!Max(before) \in 1..L
  <2> SUFFICES ASSUME before # {}
               PROVE  Viewer!Max(before) \in 1..L
    OBVIOUS
  <2>1. before \subseteq 1..L
    BY <1>1
  <2> HIDE DEF before, L
  <2>2. PICK x \in before : \A y \in before : y <= x
    BY <1>1, <2>1, Greatest
  <2>3. \A y \in before : x >= y
    BY <1>1, <2>1, <2>2
  <2>4. Viewer!Max(before) \in before
    BY <2>3 DEF Viewer!Max
  <2>5. QED
    BY <2>1, <2>4
<1>3. after # {} => Viewer!Min(after) \in 1..L
  <2> SUFFICES ASSUME after # {}
               PROVE  Viewer!Min(after) \in 1..L
    OBVIOUS
  <2>1. after \subseteq 1..L /\ after \subseteq Nat
    BY <1>1
  <2> HIDE DEF after, L
  <2>2. PICK x \in after : \A y \in after : x <= y
    BY <2>1, LeastNat
  <2>3. Viewer!Min(after) \in after
    BY <2>2 DEF Viewer!Min
  <2>4. QED
    BY <2>1, <2>3
<1> HIDE DEF here, L
<1>4. Viewer!MarkerBefore = IF here # 0 THEN here - 1
                                ELSE IF before = {} THEN 0 ELSE Viewer!Max(before)
  BY DEF Viewer!MarkerBefore, here
<1>5. Viewer!MarkerAfter = IF here # 0 THEN (IF here < L THEN here + 1 ELSE 0)
                           ELSE IF after = {} THEN 0 ELSE Viewer!Min(after)
  BY DEF Viewer!MarkerAfter, here, L
<1> HIDE DEF before, after
<1>6. Viewer!MarkerBefore \in 0..L
  BY <1>1, <1>2, <1>4
<1>7. Viewer!MarkerAfter \in 0..L
  BY <1>1, <1>3, <1>5
<1>8. QED
  BY <1>6, <1>7 DEF L

(* The play button, which starts again at the end.                          *)
LEMMA PlayKeeps == ViewerInv /\ Viewer!PlayButton => ViewerInv'
<1> SUFFICES ASSUME ViewerInv, Viewer!PlayButton
             PROVE  ViewerInv'
  OBVIOUS
<1> DEFINE s == IF ~playing /\ position >= Viewer!Total
                THEN [Viewer!State EXCEPT !.position = 0] ELSE Viewer!State
           u == Viewer!SetPlaying(s, ~playing)
<1>1. Consistent(s)
  BY StateIs, TimesAre DEF Consistent, States
<1> HIDE DEF s
<1>2. Consistent(u)
  BY <1>1 DEF Consistent, States, Viewer!SetPlaying
<1> HIDE DEF u
<1>3. Viewer!Render(u, FALSE)
  BY DEF Viewer!PlayButton, s, u
<1>4. QED
  BY <1>2, <1>3, RenderKeeps

(* A tick of the animation, which stops at the end.                         *)
LEMMA TickKeeps == ViewerInv /\ Viewer!Tick => ViewerInv'
<1> SUFFICES ASSUME ViewerInv, Viewer!Tick
             PROVE  ViewerInv'
  OBVIOUS
<1>1. PICK dt \in Ticks :
        LET s == [Viewer!State EXCEPT !.position = Viewer!State.position + dt]
        IN Viewer!Render(IF s.position >= Viewer!Total
                         THEN [s EXCEPT !.position = Viewer!Total, !.playing = FALSE] ELSE s, FALSE)
  BY DEF Viewer!Tick
<1> DEFINE s == [Viewer!State EXCEPT !.position = Viewer!State.position + dt]
           u == IF s.position >= Viewer!Total
                THEN [[s EXCEPT !.position = Viewer!Total] EXCEPT !.playing = FALSE] ELSE s
<1>2. Consistent(Viewer!State) /\ dt \in Nat /\ Viewer!Total \in Nat
  BY StateIs, TimesAre, ViewerAssumption
<1>3. s \in States /\ s.marker = s.option
  BY <1>2 DEF Consistent, States
<1>4. Viewer!Render(u, FALSE)
  BY <1>1
<1> HIDE DEF s
<1>5. Consistent(u)
  <2>1. CASE s.position >= Viewer!Total
    <3> DEFINE v == [s EXCEPT !.position = Viewer!Total]
    <3>1. v \in States /\ v.marker = s.marker /\ v.option = s.option
      BY <1>2, <1>3, StatesAre
    <3>2. u = [v EXCEPT !.playing = FALSE]
      BY <2>1
    <3> HIDE DEF u, v
    <3>3. QED
      BY <1>3, <3>1, <3>2, StatesAre DEF Consistent
  <2>2. CASE ~(s.position >= Viewer!Total)
    <3>1. u = s /\ s.position \in Nat
      BY <1>3, <2>2, StatesAre
    <3> HIDE DEF u
    <3>2. QED
      BY <1>2, <1>3, <2>2, <3>1 DEF Consistent
  <2>3. QED
    BY <2>1, <2>2
<1> HIDE DEF u
<1>6. QED
  BY <1>4, <1>5, RenderKeeps

(* A picture that loads, in any order, is painted only if it is still the   *)
(* one that is wanted.                                                      *)
LEMMA LoadsKeep == ViewerInv /\ (Viewer!Complete \/ Viewer!Load) => ViewerInv'
<1> SUFFICES ASSUME ViewerInv, Viewer!Complete \/ Viewer!Load
             PROVE  ViewerInv'
  OBVIOUS
<1>1. UNCHANGED <<position, playing, frameIndex, selectedMarker, option, drawn>>
  BY DEF Viewer!Complete, Viewer!Load
<1>2. ControlsInv' /\ DrawnInv'
  BY <1>1 DEF ViewerInv, ControlsInv, DrawnInv, Viewer!ControlsAgree
<1>3. CASE Viewer!Complete
  <2>1. PICK p \in Viewer!Pictures : /\ picture[p] = "loading"
                                     /\ picture' = [picture EXCEPT ![p] = "complete"]
    BY <1>3 DEF Viewer!Complete
  <2>2. UNCHANGED <<loads, canvas>>
    BY <1>3 DEF Viewer!Complete
  <2>3. PicturesInv'
    BY <1>1, <2>1, <2>2 DEF ViewerInv, PicturesInv
  <2>4. CanvasInv'
    BY <1>1, <2>2 DEF ViewerInv, CanvasInv
  <2>5. QED
    BY <1>2, <2>3, <2>4 DEF ViewerInv
<1>4. CASE Viewer!Load
  <2>1. PICK p \in loads : /\ picture[p] = "complete" /\ loads' = loads \ {p}
                           /\ canvas' = IF Viewer!Current(p) THEN p ELSE canvas
                           /\ picture' = picture
    BY <1>4 DEF Viewer!Load
  <2>2. p \in Viewer!Pictures /\ drawn \in Viewer!Pictures
    BY DEF ViewerInv, PicturesInv
  <2>3. PicturesInv'
    BY <1>1, <2>1 DEF ViewerInv, PicturesInv
  <2>4. CanvasInv'
    <3>1. CASE drawn.kind = "frame"
      <4>1. drawn = Viewer!Frame(frameIndex) /\ selectedMarker = 0 /\ drawn.index = frameIndex
        BY <3>1, PicturesAre DEF ViewerInv, DrawnInv
      <4>2. Viewer!Current(p) <=> p = drawn
        <5>1. CASE p.kind = "frame"
          BY <2>2, <3>1, <4>1, <5>1, PicturesAre DEF Viewer!Current
        <5>2. CASE p.kind = "marker"
          <6>1. p.index \in DOMAIN Positions /\ p.index # 0
            BY <2>2, <5>2, PicturesAre, PositionsAre
          <6>2. QED
            BY <3>1, <4>1, <5>2, <6>1 DEF Viewer!Current
        <5>3. QED
          BY <2>2, <5>1, <5>2, PicturesAre
      <4>3. QED
        BY <1>1, <2>1, <3>1, <4>2 DEF ViewerInv, CanvasInv
    <3>2. CASE drawn.kind = "marker"
      <4>1. selectedMarker = 0 \/ (drawn = Viewer!Marker(selectedMarker)
                                     /\ drawn.index = selectedMarker)
        BY <3>2, PicturesAre DEF ViewerInv, DrawnInv
      <4>2. Viewer!Current(p) =>
              p = Viewer!Frame(frameIndex) \/ p = Viewer!Marker(selectedMarker)
        BY <2>2, PicturesAre DEF Viewer!Current
      <4>3. QED
        <5>1. SUFFICES ASSUME selectedMarker # 0, drawn \notin loads'
                       PROVE  canvas' = drawn \/ canvas' = Viewer!Frame(frameIndex)
          BY <1>1, <3>2 DEF CanvasInv
        <5>2. CASE Viewer!Current(p)
          BY <2>1, <4>1, <4>2, <5>1, <5>2
        <5>3. CASE ~Viewer!Current(p)
          <6>1. p # drawn /\ drawn \notin loads
            <7>1. p = drawn => Viewer!Current(p)
              BY <3>2, <4>1, <5>1 DEF Viewer!Current
            <7>2. QED
              BY <2>1, <5>1, <5>3, <7>1
          <6>2. canvas' = canvas
            BY <2>1, <5>3
          <6>3. QED
            BY <5>1, <6>1, <6>2 DEF ViewerInv, CanvasInv
        <5>4. QED
          BY <5>2, <5>3
    <3>3. QED
      BY <2>2, <3>1, <3>2, PicturesAre
  <2>5. QED
    BY <1>2, <2>3, <2>4 DEF ViewerInv
<1>5. QED
  BY <1>3, <1>4

(* Every event handler of the player.                                       *)
LEMMA ViewerNext == ViewerInv /\ Viewer!Next => ViewerInv'
<1> SUFFICES ASSUME ViewerInv, Viewer!Next
             PROVE  ViewerInv'
  OBVIOUS
<1>1. Consistent(Viewer!NoMarker(Viewer!State)) /\ Viewer!Total \in Nat
  BY StateIs, NoMarkerIs, TimesAre
<1>2. CASE Viewer!Restart
  BY <1>1, <1>2, SeekKeeps DEF Viewer!Restart
<1>3. CASE Viewer!Timeline
  BY <1>1, <1>3, SeekKeeps DEF Viewer!Timeline
<1>4. CASE Viewer!PreviousFrame \/ Viewer!NextFrame
  <2>1. frameIndex - 1 \in Int /\ frameIndex + 1 \in Int
    <3>1. frameIndex \in DOMAIN Durations
      BY StateIs DEF Consistent, States, Viewer!State
    <3>2. QED
      BY <3>1, EndsAre
  <2>2. QED
    BY <1>4, <2>1, SeekFrameKeeps DEF Viewer!PreviousFrame, Viewer!NextFrame
<1>5. CASE Viewer!PreviousMarker \/ Viewer!NextMarker \/ Viewer!SelectMarker
  <2>1. \E i \in DOMAIN Positions : Viewer!SeekMarker(i)
    BY <1>5, NeighboursAre, PositionsAre
    DEF Viewer!PreviousMarker, Viewer!NextMarker, Viewer!SelectMarker
  <2>2. QED
    BY <2>1, SeekMarkerKeeps
<1>6. QED
  BY <1>2, <1>3, <1>4, <1>5, PlayKeeps, TickKeeps, LoadsKeep DEF Viewer!Next

-----------------------------------------------------------------------------
(* ModeReplay.                                                              *)
LEMMA FedUnfolds ==
  ASSUME NEW t, NEW bytes, Len(bytes) \in Nat
  PROVE  Replay!FedTo(t, bytes) =
           [n \in 0..Len(bytes) |->
              IF n = 0 THEN t ELSE Replay!Parse(Replay!FedTo(t, bytes)[n - 1], bytes[n])]
<1> DEFINE Next1(x, n) == Replay!Parse(x, bytes[n])
           Solves(f, m) == f = [n \in 0..m |-> IF n = 0 THEN t ELSE Next1(f[n - 1], n)]
           P == {m \in Nat : \E f : Solves(f, m)}
<1> HIDE DEF Next1, Solves
<1>1. 0 \in P
  <2>1. Solves([n \in {0} |-> t], 0)
    BY DEF Solves
  <2>2. QED
    BY <2>1
<1>2. \A m \in Nat : m \in P => m + 1 \in P
  <2> SUFFICES ASSUME NEW m \in Nat, m \in P
               PROVE  \E f : Solves(f, m + 1)
    OBVIOUS
  <2> DEFINE k == m
  <2>1. PICK f : Solves(f, k)
    OBVIOUS
  <2> DEFINE g == [n \in 0..(k + 1) |-> IF n <= k THEN f[n] ELSE Next1(f[k], n)]
  <2>2. \A n \in 0..(k + 1) : g[n] = IF n = 0 THEN t ELSE Next1(g[n - 1], n)
    <3> TAKE n \in 0..(k + 1)
    <3>1. CASE n = 0
      BY <2>1, <3>1 DEF Solves
    <3>2. CASE n \in 1..k
      BY <2>1, <3>2 DEF Solves
    <3>3. CASE n = k + 1
      BY <3>3
    <3>4. QED
      BY <3>1, <3>2, <3>3
  <2>3. Solves(g, k + 1)
    BY <2>2 DEF Solves
  <2>4. QED
    BY <2>3
<1>3. \E f : Solves(f, Len(bytes))
  <2> HIDE DEF P
  <2>1. Len(bytes) \in P
    BY <1>1, <1>2, Induct
  <2>2. QED
    BY <2>1 DEF P
<1>4. Replay!FedTo(t, bytes) = CHOOSE f : Solves(f, Len(bytes))
  BY DEF Replay!FedTo, Solves, Next1
<1>5. Solves(Replay!FedTo(t, bytes), Len(bytes))
  BY <1>3, <1>4, Zenon
<1>6. QED
  BY <1>5, Zenon DEF Solves, Next1

(* A terminal that is fed nothing stays as it is.                           *)
LEMMA FeedNothing ==
  ASSUME NEW t
  PROVE  Replay!Feed(t, <<>>) = t
<1>1. Len(<<>>) = 0
  OBVIOUS
<1>2. Replay!FedTo(t, <<>>)[0] = t
  BY <1>1, FedUnfolds
<1>3. QED
  BY <1>1, <1>2 DEF Replay!Feed

(* A terminal takes a sequence byte after byte.                             *)
LEMMA FeedOneMore ==
  ASSUME NEW t, NEW s \in Seq(Replay!Bytes), NEW b \in Replay!Bytes
  PROVE  Replay!Feed(t, Append(s, b)) = Replay!Parse(Replay!Feed(t, s), b)
<1> DEFINE r == Append(s, b)
           k == Len(s)
           F == Replay!FedTo(t, s)
           G == Replay!FedTo(t, r)
           P == {n \in Nat : n <= k => F[n] = G[n]}
<1>1. /\ k \in Nat /\ Len(r) = k + 1 /\ r[k + 1] = b
      /\ \A i \in 1..k : r[i] = s[i]
  OBVIOUS
<1>2. /\ \A n \in 0..k : F[n] = IF n = 0 THEN t ELSE Replay!Parse(F[n - 1], s[n])
      /\ \A n \in 0..(k + 1) : G[n] = IF n = 0 THEN t ELSE Replay!Parse(G[n - 1], r[n])
  <2>1. F = [n \in 0..k |-> IF n = 0 THEN t ELSE Replay!Parse(F[n - 1], s[n])]
    BY <1>1, FedUnfolds
  <2>2. G = [n \in 0..(k + 1) |-> IF n = 0 THEN t ELSE Replay!Parse(G[n - 1], r[n])]
    <3> HIDE DEF r, k
    <3>1. Len(r) \in Nat
      BY <1>1
    <3>2. G = [n \in 0..Len(r) |-> IF n = 0 THEN t ELSE Replay!Parse(G[n - 1], r[n])]
      BY <3>1, FedUnfolds
    <3>3. QED
      BY <1>1, <3>2
  <2> HIDE DEF F, G, r, k
  <2>3. QED
    BY <1>1, <2>1, <2>2
<1>3. F[k] = G[k]
  <2> HIDE DEF F, G, r, k
  <2>1. 0 \in P
    BY <1>1, <1>2
  <2>2. \A n \in Nat : n \in P => n + 1 \in P
    <3> SUFFICES ASSUME NEW n \in Nat, n \in P, n + 1 <= k
                 PROVE  F[n + 1] = G[n + 1]
      OBVIOUS
    <3>1. F[n] = G[n] /\ n + 1 \in 0..k /\ n + 1 \in 1..k /\ n + 1 \in 0..(k + 1) /\ (n + 1) - 1 = n
      BY <1>1
    <3>2. F[n + 1] = Replay!Parse(F[n], s[n + 1]) /\ G[n + 1] = Replay!Parse(G[n], r[n + 1])
      BY <1>1, <1>2, <3>1
    <3>3. QED
      BY <1>1, <3>1, <3>2
  <2> HIDE DEF P
  <2>3. Nat \subseteq P
    BY <2>1, <2>2, Induct
  <2>4. QED
    BY <1>1, <2>3 DEF P
<1>4. G[k + 1] = Replay!Parse(F[k], b)
  <2> HIDE DEF F, G, r, k
  <2>1. QED
    BY <1>1, <1>2, <1>3
<1>5. QED
  BY <1>1, <1>4 DEF Replay!Feed

-----------------------------------------------------------------------------
TerminalStates == {"ground", "escape", "intermediate", "csi", "csi 1", "osc", "string"}
ScannerStates ==
  {"ground", "escape", "intermediate", "csi", "osc", "string", "osc escape", "string escape"}
Terminals == [state : TerminalStates, modes : Nat]

(* The scanner, which does not know what sequences mean, and the terminal
   are in the same kind of sequence.                                        *)
Kin(state) ==
  IF state = "csi" THEN {"csi", "csi 1"}
  ELSE IF state \in {"osc escape", "string escape"} THEN {"escape"} ELSE {state}
InStep(state, t) == t.state \in Kin(state)

(* The terminal, by its state and the byte.                                 *)
LEMMA ParseIs ==
  ASSUME NEW s \in TerminalStates, NEW m \in Nat, NEW b \in Replay!Bytes
  PROVE  LET u == Replay!Parse(Replay!Terminal(s, m), b)
             To(x) == u = Replay!Terminal(x, m)
         IN /\ b = "esc" => To("escape")
            /\ b = "can" => To("ground")
            /\ b \notin {"esc", "can"} =>
                 /\ s \in {"ground", "string"} => To(s)
                 /\ s = "osc" => IF b = "bel" THEN To("ground") ELSE To(s)
                 /\ s = "intermediate" => IF b \in Replay!EscapeFinals THEN To("ground") ELSE To(s)
                 /\ s = "escape" =>
                      /\ b = "[" => To("csi")
                      /\ b = "]" => To("osc")
                      /\ b = "P" => To("string")
                      /\ b = "sp" => To("intermediate")
                      /\ b \in {"1", "h"} => u = Replay!Terminal("ground", m + 1)
                      /\ b = "bs" => To("ground")
                      /\ b \in {"bel", "ctl"} => To("escape")
                 /\ s \in {"csi", "csi 1"} =>
                      IF b \in Replay!Finals
                      THEN u \in {Replay!Terminal("ground", m), Replay!Terminal("ground", m + 1)}
                      ELSE u \in {Replay!Terminal("csi", m), Replay!Terminal("csi 1", m)}
<1> DEFINE t == Replay!Terminal(s, m)
           u == Replay!Parse(t, b)
<1>1. t.state = s /\ t.modes = m
  BY DEF Replay!Terminal
<1> HIDE DEF t
<1>2. CASE b \in {"esc", "can"}
  BY <1>1, <1>2 DEF Replay!Parse, t
<1>3. CASE b \notin {"esc", "can"}
  <2>1. CASE s \in {"ground", "string", "osc", "intermediate"}
    BY <1>1, <1>3, <2>1 DEF Replay!Parse, t, Replay!Bytes, Replay!EscapeFinals, Replay!Finals
  <2>2. CASE s = "escape"
    BY <1>1, <1>3, <2>2 DEF Replay!Parse, t, Replay!Bytes, Replay!EscapeFinals, Replay!Finals
  <2>3. CASE s = "csi"
    BY <1>1, <1>3, <2>3 DEF Replay!Parse, t, Replay!Bytes, Replay!EscapeFinals, Replay!Finals
  <2>4. CASE s = "csi 1"
    BY <1>1, <1>3, <2>4 DEF Replay!Parse, t, Replay!Bytes, Replay!EscapeFinals, Replay!Finals
  <2>5. QED
    BY <2>1, <2>2, <2>3, <2>4 DEF TerminalStates
<1>4. QED
  BY <1>2, <1>3

(* The scanner of the replay, by its state and the byte.                    *)
LEMMA ScanIs ==
  ASSUME NEW state \in ScannerStates, NEW b \in Replay!Bytes
  PROVE  LET step == Replay!Scan(state, b)
             To(x) == step = Replay!Step(x, FALSE)
             Ends == step = Replay!Step("ground", TRUE)
         IN /\ b = "can" => To("ground")
            /\ b = "esc" => \E x \in {"escape", "osc escape", "string escape"} : To(x)
            /\ b \notin {"esc", "can"} =>
                 /\ state \in {"ground", "string"} => To(state)
                 /\ state = "osc" => IF b = "bel" THEN Ends ELSE To(state)
                 /\ state = "intermediate" => IF b \in Replay!EscapeFinals THEN Ends ELSE To(state)
                 /\ state = "csi" => IF b \in Replay!Finals THEN Ends ELSE To(state)
                 /\ state \in {"escape", "osc escape", "string escape"} =>
                      /\ b = "[" => To("csi")
                      /\ b = "]" => To("osc")
                      /\ b = "P" => To("string")
                      /\ b = "sp" => To("intermediate")
                      /\ b \in {"1", "h", "bs"} => Ends
                      /\ b \in {"bel", "ctl"} => To("escape")
<1> USE DEF Replay!Bytes, Replay!EscapeFinals, Replay!Finals, Replay!Stay, Replay!Scan
<1>1. CASE state = "ground"
  BY <1>1
<1>2. CASE state = "osc"
  BY <1>2 DEF Replay!InString, Replay!Restart
<1>3. CASE state = "string"
  BY <1>3 DEF Replay!InString, Replay!Restart
<1>4. CASE state \in {"intermediate", "csi"}
  BY <1>4 DEF Replay!Restart
<1>5. CASE state = "escape"
  BY <1>5 DEF Replay!StepEscape, Replay!Restart
<1>6. CASE state \in {"osc escape", "string escape"}
  BY <1>6 DEF Replay!StepStringEscape, Replay!StepEscape, Replay!Restart
<1>7. QED
  BY <1>1, <1>4, <1>5, <1>6, <1>2, <1>3 DEF ScannerStates

(* In which states the terminal may be while the scanner is in a given one. *)
LEMMA KinIs ==
  /\ \A x \in ScannerStates : Kin(x) \subseteq TerminalStates
  /\ Kin("csi") = {"csi", "csi 1"}
  /\ Kin("osc escape") = {"escape"} /\ Kin("string escape") = {"escape"}
  /\ \A x \in {"ground", "escape", "intermediate", "osc", "string"} : Kin(x) = {x}
<1>1. /\ Kin("csi") = {"csi", "csi 1"}
      /\ Kin("osc escape") = {"escape"} /\ Kin("string escape") = {"escape"}
      /\ \A x \in {"ground", "escape", "intermediate", "osc", "string"} : Kin(x) = {x}
  BY DEF Kin
<1>2. QED
  BY <1>1 DEF ScannerStates, TerminalStates

(* The scanner stays in step with the terminal over every byte, and a mode  *)
(* changes only with a byte that completes a sequence.                      *)
LEMMA ScanIsInStep ==
  ASSUME NEW state \in ScannerStates, NEW t \in Terminals, InStep(state, t), NEW b \in Replay!Bytes
  PROVE  LET step == Replay!Scan(state, b)
             u == Replay!Parse(t, b)
         IN /\ step.state \in ScannerStates /\ step.completes \in BOOLEAN
            /\ u \in Terminals /\ InStep(step.state, u)
            /\ u.modes = t.modes \/ (step.completes /\ u.modes = t.modes + 1)
<1> DEFINE s == t.state
           m == t.modes
           u == Replay!Parse(Replay!Terminal(s, m), b)
           step == Replay!Scan(state, b)
<1>1. s \in TerminalStates /\ m \in Nat /\ t = Replay!Terminal(s, m) /\ s \in Kin(state)
  BY DEF Terminals, Replay!Terminal, InStep
<1> HIDE DEF s, m
<1>2. SUFFICES \E x \in ScannerStates, c \in BOOLEAN :
                \E y \in Kin(x), n \in {m, IF c THEN m + 1 ELSE m} :
                 step = Replay!Step(x, c) /\ u = Replay!Terminal(y, n)
  <2>1. ASSUME NEW x \in ScannerStates, NEW c \in BOOLEAN, NEW y \in Kin(x),
               NEW n \in {m, IF c THEN m + 1 ELSE m},
               step = Replay!Step(x, c), u = Replay!Terminal(y, n)
        PROVE  /\ step.state \in ScannerStates /\ step.completes \in BOOLEAN
               /\ u \in Terminals /\ InStep(step.state, u)
               /\ u.modes = m \/ (step.completes /\ u.modes = m + 1)
    <3>1. step.state = x /\ step.completes = c /\ u.state = y /\ u.modes = n
      BY <2>1 DEF Replay!Step, Replay!Terminal
    <3>2. y \in TerminalStates
      BY <2>1, KinIs
    <3>3. n \in Nat /\ (n = m \/ (c /\ n = m + 1))
      BY <1>1, <2>1
    <3>4. u \in Terminals
      BY <2>1, <3>2, <3>3 DEF Terminals, Replay!Terminal
    <3> HIDE DEF u, step
    <3>5. QED
      BY <3>1, <3>4, <3>3 DEF InStep
  <2>2. Replay!Parse(t, b) = u /\ m = t.modes
    BY <1>1 DEF m
  <2> HIDE DEF u, step
  <2>3. QED
    BY <2>1, <2>2 DEF step
<1> DEFINE To(x) == step = Replay!Step(x, FALSE)
           Ends == step = Replay!Step("ground", TRUE)
           Goes(y) == u = Replay!Terminal(y, m)
           Turns == u = Replay!Terminal("ground", m + 1)
<1>3. SUFFICES \/ Ends /\ (Goes("ground") \/ Turns)
               \/ \E x \in ScannerStates : \E y \in Kin(x) : To(x) /\ Goes(y)
  <2>1. CASE Ends /\ (Goes("ground") \/ Turns)
    BY <1>1, <2>1 DEF Kin, ScannerStates
  <2>2. CASE \E x \in ScannerStates : \E y \in Kin(x) : To(x) /\ Goes(y)
    BY <2>2
  <2>3. QED
    BY <1>3, <2>1, <2>2
<1> HIDE DEF u, step
<1>4. CASE b = "esc"
  <2>1. Goes("escape")
    BY <1>1, <1>4, ParseIs DEF u
  <2>2. \E x \in {"escape", "osc escape", "string escape"} : To(x)
    BY <1>4, ScanIs DEF step
  <2>3. QED
    BY <2>1, <2>2, KinIs DEF ScannerStates
<1>5. CASE b = "can"
  <2>1. Goes("ground") /\ To("ground")
    <3>1. Goes("ground")
      BY <1>1, <1>5, ParseIs DEF u
    <3>2. To("ground")
      BY <1>5, ScanIs DEF step
    <3>3. QED
      BY <3>1, <3>2
  <2>2. QED
    BY <2>1, KinIs DEF ScannerStates
<1>6. CASE b \notin {"esc", "can"}
  <2>1. CASE state \in {"ground", "string", "osc", "intermediate"}
    <3>1. s = state
      <4>1. Kin(state) = {state}
        BY <2>1, KinIs
      <4>2. QED
        BY <1>1, <4>1
    <3>2. /\ s \in {"ground", "string"} => Goes(s)
          /\ s = "osc" => IF b = "bel" THEN Goes("ground") ELSE Goes(s)
          /\ s = "intermediate" => IF b \in Replay!EscapeFinals THEN Goes("ground") ELSE Goes(s)
      BY <1>1, <1>6, ParseIs DEF u
    <3>3. /\ state \in {"ground", "string"} => To(state)
          /\ state = "osc" => IF b = "bel" THEN Ends ELSE To(state)
          /\ state = "intermediate" => IF b \in Replay!EscapeFinals THEN Ends ELSE To(state)
      BY <1>6, ScanIs DEF step
    <3>4. (Ends /\ Goes("ground")) \/ (To(state) /\ Goes(state))
      <4>1. CASE state \in {"ground", "string"}
        BY <3>1, <3>2, <3>3, <4>1
      <4>2. CASE state = "osc"
        <5>1. /\ b = "bel" => Goes("ground") /\ Ends
              /\ b # "bel" => Goes(s) /\ To(state)
          BY <3>1, <3>2, <3>3, <4>2
        <5>2. QED
          BY <3>1, <5>1, Zenon
      <4>3. CASE state = "intermediate"
        <5>1. /\ b \in Replay!EscapeFinals => Goes("ground") /\ Ends
              /\ b \notin Replay!EscapeFinals => Goes(s) /\ To(state)
          BY <3>1, <3>2, <3>3, <4>3
        <5>2. QED
          BY <3>1, <5>1, Zenon
      <4>4. QED
        BY <2>1, <4>1, <4>2, <4>3
    <3>5. QED
      BY <2>1, <3>4, KinIs DEF ScannerStates
  <2>2. CASE state = "csi"
    <3>1. s \in {"csi", "csi 1"}
      BY <1>1, <2>2, KinIs
    <3>2. IF b \in Replay!Finals THEN Goes("ground") \/ Turns ELSE Goes("csi") \/ Goes("csi 1")
      BY <1>1, <1>6, <3>1, ParseIs DEF u
    <3>3. IF b \in Replay!Finals THEN Ends ELSE To("csi")
      BY <1>6, <2>2, ScanIs DEF step
    <3>4. QED
      BY <3>2, <3>3, KinIs DEF ScannerStates
  <2>3. CASE state \in {"escape", "osc escape", "string escape"}
    <3>1. s = "escape"
      BY <1>1, <2>3, KinIs
    <3>2. /\ b = "[" => Goes("csi")
          /\ b = "]" => Goes("osc")
          /\ b = "P" => Goes("string")
          /\ b = "sp" => Goes("intermediate")
          /\ b \in {"1", "h"} => Turns
          /\ b = "bs" => Goes("ground")
          /\ b \in {"bel", "ctl"} => Goes("escape")
      <4>1. s = "escape" =>
              /\ b = "[" => Goes("csi")
              /\ b = "]" => Goes("osc")
              /\ b = "P" => Goes("string")
              /\ b = "sp" => Goes("intermediate")
              /\ b \in {"1", "h"} => Turns
              /\ b = "bs" => Goes("ground")
              /\ b \in {"bel", "ctl"} => Goes("escape")
        BY <1>1, <1>6, ParseIs DEF u
      <4>2. QED
        BY <3>1, <4>1
    <3>3. /\ b = "[" => To("csi")
          /\ b = "]" => To("osc")
          /\ b = "P" => To("string")
          /\ b = "sp" => To("intermediate")
          /\ b \in {"1", "h", "bs"} => Ends
          /\ b \in {"bel", "ctl"} => To("escape")
      BY <1>6, <2>3, ScanIs DEF step
    <3>4. b \in {"[", "]", "P", "sp", "1", "h", "bs", "bel", "ctl"}
      BY <1>6 DEF Replay!Bytes, Replay!EscapeFinals, Replay!Finals
    <3>5. \/ Ends /\ (Goes("ground") \/ Turns)
          \/ \E x \in {"csi", "osc", "string", "intermediate", "escape"} : To(x) /\ Goes(x)
      BY <3>2, <3>3, <3>4
    <3>6. QED
      BY <3>5, KinIs DEF ScannerStates
  <2>4. QED
    BY <2>1, <2>2, <2>3 DEF ScannerStates
<1>7. QED
  BY <1>4, <1>5, <1>6

-----------------------------------------------------------------------------
(* While a trace is inspected, the terminal fed in slices and then the rest of
   the slice is the terminal fed each byte at once, and every change it has
   made is reported.                                                        *)
ReplayInv ==
  /\ output \in Terminals /\ scanner \in ScannerStates /\ slice \in Seq(Replay!Bytes)
  /\ result \in {"none", "limit", "replayed"}
  /\ result # "limit" =>
       /\ InStep(scanner, output) /\ output = Replay!Feed(model, slice)
       /\ previousModes = output.modes
       /\ transitions = [i \in 1..output.modes |-> i]

(* The replay starts with scanner and terminal on the ground.               *)
LEMMA ReplayStarts == Replay!Init => ReplayInv
<1> SUFFICES ASSUME Replay!Init
             PROVE  ReplayInv
  OBVIOUS
<1>1. output = [state |-> "ground", modes |-> 0] /\ model = output
  BY DEF Replay!Init, Replay!Terminal
<1>2. output = Replay!Feed(model, <<>>)
  BY <1>1, FeedNothing
<1>3. <<>> = [i \in 1..0 |-> i]
  OBVIOUS
<1>4. output \in Terminals /\ output.state = "ground" /\ output.modes = 0
  BY <1>1 DEF Terminals, TerminalStates
<1>5. InStep("ground", output)
  BY <1>4 DEF InStep, Kin
<1>6. scanner = "ground" /\ slice = <<>> /\ result = "none"
        /\ previousModes = 0 /\ transitions = <<>>
  BY DEF Replay!Init
<1>7. QED
  BY <1>2, <1>3, <1>4, <1>5, <1>6 DEF ReplayInv, ScannerStates

(* A byte: the slice goes to the terminal when the byte completes a         *)
(* sequence, or when the slice is full.                                     *)
LEMMA ReplayByte == ReplayInv /\ Replay!Byte => ReplayInv'
<1> SUFFICES ASSUME ReplayInv, Replay!Byte
             PROVE  ReplayInv'
  OBVIOUS
<1>1. PICK b \in Replay!Bytes :
        LET step == Replay!Scan(scanner, b)
            fed1 == Replay!Feed(model, Append(slice, b))
        IN /\ output' = Replay!Parse(output, b)
           /\ scanner' = step.state
           /\ IF ~step.completes
              THEN /\ slice' = Append(slice, b)
                   /\ UNCHANGED <<model, previousModes, transitions, result>>
              ELSE /\ slice' = <<>> /\ model' = fed1
                   /\ IF fed1.modes # previousModes /\ Len(transitions) >= MaxModeTransitions
                      THEN result' = "limit" /\ UNCHANGED <<previousModes, transitions>>
                      ELSE /\ transitions' = IF fed1.modes # previousModes
                                             THEN Append(transitions, fed1.modes)
                                             ELSE transitions
                           /\ previousModes' = fed1.modes
                           /\ UNCHANGED result
  BY Zenon DEF Replay!Byte
<1> DEFINE step == Replay!Scan(scanner, b)
<1>2. /\ result = "none" /\ output \in Terminals /\ scanner \in ScannerStates
      /\ slice \in Seq(Replay!Bytes) /\ InStep(scanner, output)
      /\ output = Replay!Feed(model, slice) /\ previousModes = output.modes
      /\ transitions = [i \in 1..output.modes |-> i]
  BY DEF ReplayInv, Replay!Byte
<1>3. /\ step.state \in ScannerStates /\ step.completes \in BOOLEAN
      /\ output' \in Terminals /\ InStep(step.state, output')
      /\ output'.modes = output.modes \/ (step.completes /\ output'.modes = output.modes + 1)
  BY <1>1, <1>2, ScanIsInStep
<1>4. Replay!Feed(model, Append(slice, b)) = output'
  BY <1>1, <1>2, FeedOneMore
<1> HIDE DEF step
<1>5. CASE ~step.completes
  <2>1. /\ slice' = Append(slice, b) /\ scanner' = step.state
        /\ UNCHANGED <<model, previousModes, transitions, result>>
    BY <1>1, <1>5, Zenon DEF step
  <2>2. slice' \in Seq(Replay!Bytes) /\ output' = Replay!Feed(model', slice')
    BY <1>2, <1>4, <2>1
  <2>3. QED
    BY <1>2, <1>3, <1>5, <2>1, <2>2 DEF ReplayInv
<1>6. CASE step.completes
  <2>1. /\ slice' = <<>> /\ model' = output' /\ scanner' = step.state
        /\ IF output'.modes # previousModes /\ Len(transitions) >= MaxModeTransitions
           THEN result' = "limit"
           ELSE /\ transitions' = IF output'.modes # previousModes
                                  THEN Append(transitions, output'.modes)
                                  ELSE transitions
                /\ previousModes' = output'.modes
                /\ UNCHANGED result
    BY <1>1, <1>4, <1>6, Zenon DEF step
  <2>2. slice' \in Seq(Replay!Bytes) /\ output' = Replay!Feed(model', slice')
    BY <2>1, FeedNothing
  <2>3. CASE output'.modes # previousModes /\ Len(transitions) >= MaxModeTransitions
    BY <1>3, <2>1, <2>2, <2>3 DEF ReplayInv
  <2>4. CASE ~(output'.modes # previousModes /\ Len(transitions) >= MaxModeTransitions)
    <3>1. /\ transitions' = IF output'.modes # previousModes
                            THEN Append(transitions, output'.modes) ELSE transitions
          /\ previousModes' = output'.modes /\ result' = "none"
      BY <1>2, <2>1, <2>4
    <3>2. output.modes \in Nat
      BY <1>2 DEF Terminals
    <3>3. transitions' = [i \in 1..output'.modes |-> i]
      <4>1. CASE output'.modes = output.modes
        BY <1>2, <3>1, <4>1
      <4>2. CASE output'.modes = output.modes + 1
        <5> DEFINE m == output.modes
        <5>1. transitions' = Append([i \in 1..m |-> i], m + 1)
          BY <1>2, <3>1, <3>2, <4>2
        <5> HIDE DEF m
        <5>2. m \in Nat
          BY <3>2 DEF m
        <5>3. Append([i \in 1..m |-> i], m + 1) = [i \in 1..(m + 1) |-> i]
          BY <5>2
        <5>4. QED
          BY <4>2, <5>1, <5>3 DEF m
      <4>3. QED
        BY <1>3, <4>1, <4>2
    <3>4. QED
      BY <1>3, <2>1, <2>2, <3>1, <3>3 DEF ReplayInv
  <2>5. QED
    BY <2>3, <2>4
<1>7. QED
  BY <1>3, <1>5, <1>6

(* Bytes, the ends of events, and the end of the trace.                     *)
LEMMA ReplayNext == ReplayInv /\ Replay!Next => ReplayInv'
<1> SUFFICES ASSUME ReplayInv, Replay!Next
             PROVE  ReplayInv'
  OBVIOUS
<1>1. CASE Replay!Byte
  BY <1>1, ReplayByte
<1>2. CASE Replay!EndEvent
  <2>1. /\ slice' = <<>> /\ model' = output /\ scanner' = scanner
        /\ UNCHANGED <<previousModes, transitions, result, output>>
    BY <1>2 DEF Replay!EndEvent, Replay!Carry, ReplayInv
  <2>2. output' = Replay!Feed(model', slice') /\ slice' \in Seq(Replay!Bytes)
    BY <2>1, FeedNothing
  <2>3. QED
    BY <2>1, <2>2 DEF ReplayInv, InStep
<1>3. CASE Replay!Finish
  <2>1. result = "none" /\ model = output
    <3>1. result = "none" /\ slice = <<>> /\ output = Replay!Feed(model, slice)
      BY <1>3 DEF Replay!Finish, ReplayInv
    <3>2. QED
      BY <3>1, FeedNothing
  <2>2. result' = "replayed"
          /\ UNCHANGED <<scanner, slice, model, previousModes, transitions, output>>
    BY <1>3, <2>1 DEF Replay!Finish, ReplayInv
  <2>3. QED
    BY <2>1, <2>2 DEF ReplayInv, InStep
<1>4. QED
  BY <1>1, <1>2, <1>3 DEF Replay!Next

(* The invariant of the replay has what the run checks.                     *)
LEMMA ReplayIsExact == ReplayInv => Replay!NoChangeOutside /\ Replay!ChangesAreExact
BY DEF ReplayInv, Replay!NoChangeOutside, Replay!ChangesAreExact

-----------------------------------------------------------------------------
(* FrameExport: the clock of the replay, and when frames begin.             *)
LEMMA TimelineUnfold ==
  ASSUME NEW es, Len(es) \in Nat
  PROVE  Frames!Timeline(es) =
           [n \in 0..Len(es) |->
              IF n = 0 THEN 0 ELSE Frames!Timeline(es)[n - 1] + Frames!Cut(es, n)]
<1> DEFINE Next1(x, n) == x + Frames!Cut(es, n)
           Solves(f, m) == f = [n \in 0..m |-> IF n = 0 THEN 0 ELSE Next1(f[n - 1], n)]
           P == {m \in Nat : \E f : Solves(f, m)}
<1> HIDE DEF Next1, Solves
<1>1. 0 \in P
  <2>1. Solves([n \in {0} |-> 0], 0)
    BY DEF Solves
  <2>2. QED
    BY <2>1
<1>2. \A m \in Nat : m \in P => m + 1 \in P
  <2> SUFFICES ASSUME NEW m \in Nat, m \in P
               PROVE  \E f : Solves(f, m + 1)
    OBVIOUS
  <2> DEFINE k == m
  <2>1. PICK f : Solves(f, m)
    OBVIOUS
  <2> DEFINE g == [n \in 0..(k + 1) |-> IF n <= k THEN f[n] ELSE Next1(f[k], n)]
  <2>2. \A n \in 0..(k + 1) : g[n] = IF n = 0 THEN 0 ELSE Next1(g[n - 1], n)
    <3> TAKE n \in 0..(k + 1)
    <3>1. CASE n = 0
      BY <2>1, <3>1 DEF Solves
    <3>2. CASE n \in 1..k
      BY <2>1, <3>2 DEF Solves
    <3>3. CASE n = k + 1
      BY <3>3
    <3>4. QED
      BY <3>1, <3>2, <3>3
  <2>3. k + 1 = m + 1 /\ g = [n \in 0..(k + 1) |-> IF n = 0 THEN 0 ELSE Next1(g[n - 1], n)]
    BY <2>2
  <2> HIDE DEF g, k
  <2>4. Solves(g, m + 1)
    BY <2>3 DEF Solves
  <2>5. QED
    BY <2>4
<1>3. \E f : Solves(f, Len(es))
  <2> HIDE DEF P
  <2>1. Len(es) \in P
    BY <1>1, <1>2, Induct
  <2>2. QED
    BY <2>1 DEF P
<1>4. Frames!Timeline(es) = CHOOSE f : Solves(f, Len(es))
  BY DEF Frames!Timeline, Solves, Next1
<1>5. Solves(Frames!Timeline(es), Len(es))
  BY <1>3, <1>4, Zenon
<1>6. QED
  BY <1>5, Zenon DEF Solves, Next1

(* The beginnings of the frames, unfolded once.                             *)
LEMMA BeginningsUnfold ==
  ASSUME NEW fs, Len(fs) \in Nat
  PROVE  Frames!Beginnings(fs) =
           [n \in 1..(Len(fs) + 1) |->
              IF n = 1 THEN 0 ELSE Frames!Beginnings(fs)[n - 1] + fs[n - 1].d]
<1> DEFINE Next1(x, n) == x + fs[n - 1].d
           Solves(f, m) == f = [n \in 1..(m + 1) |-> IF n = 1 THEN 0 ELSE Next1(f[n - 1], n)]
           P == {m \in Nat : \E f : Solves(f, m)}
<1> HIDE DEF Next1, Solves
<1>1. 0 \in P
  <2>1. Solves([n \in {1} |-> 0], 0)
    BY DEF Solves
  <2>2. QED
    BY <2>1
<1>2. \A m \in Nat : m \in P => m + 1 \in P
  <2> SUFFICES ASSUME NEW m \in Nat, m \in P
               PROVE  \E f : Solves(f, m + 1)
    OBVIOUS
  <2> DEFINE k == m + 1
  <2>1. PICK f : Solves(f, m)
    OBVIOUS
  <2> DEFINE g == [n \in 1..(k + 1) |-> IF n <= k THEN f[n] ELSE Next1(f[k], n)]
  <2>2. \A n \in 1..(k + 1) : g[n] = IF n = 1 THEN 0 ELSE Next1(g[n - 1], n)
    <3> TAKE n \in 1..(k + 1)
    <3>1. CASE n = 1
      BY <2>1, <3>1 DEF Solves
    <3>2. CASE n \in 2..k
      BY <2>1, <3>2 DEF Solves
    <3>3. CASE n = k + 1
      BY <3>3
    <3>4. QED
      BY <3>1, <3>2, <3>3
  <2>3. k + 1 = (m + 1) + 1 /\ g = [n \in 1..(k + 1) |-> IF n = 1 THEN 0 ELSE Next1(g[n - 1], n)]
    BY <2>2
  <2> HIDE DEF g, k
  <2>4. Solves(g, m + 1)
    BY <2>3 DEF Solves
  <2>5. QED
    BY <2>4
<1>3. \E f : Solves(f, Len(fs))
  <2> HIDE DEF P
  <2>1. Len(fs) \in P
    BY <1>1, <1>2, Induct
  <2>2. QED
    BY <2>1 DEF P
<1>4. Frames!Beginnings(fs) = CHOOSE f : Solves(f, Len(fs))
  BY DEF Frames!Beginnings, Solves, Next1
<1>5. Solves(Frames!Beginnings(fs), Len(fs))
  BY <1>3, <1>4, Zenon
<1>6. QED
  BY <1>5, Zenon DEF Solves, Next1

-----------------------------------------------------------------------------
(* The clock.                                                               *)
LEMMA TimelineIs ==
  ASSUME NEW es \in FrameTraces
  PROVE  /\ Len(es) \in Nat
         /\ \A i \in 1..Len(es) : es[i] \in [type : STRING, shows : STRING, t : Int]
         /\ Frames!Timeline(es)[0] = 0
         /\ \A n \in 0..Len(es) : Frames!Timeline(es)[n] \in Nat
         /\ \A n \in 1..Len(es) : Frames!Timeline(es)[n - 1] <= Frames!Timeline(es)[n]
<1> DEFINE T == Frames!Timeline(es)
           L == Len(es)
<1>1. L \in Nat /\ \A i \in 1..L : es[i] \in [type : STRING, shows : STRING, t : Int]
  <2> DEFINE S == [type : STRING, shows : STRING, t : Int]
  <2>1. es \in Seq(S)
    BY FramesAssumption
  <2> HIDE DEF S
  <2>2. Len(es) \in Nat /\ \A i \in 1..Len(es) : es[i] \in S
    BY <2>1
  <2>3. QED
    BY <2>2 DEF S
<1>2. \A n \in 0..L : T[n] = IF n = 0 THEN 0 ELSE T[n - 1] + Frames!Cut(es, n)
  BY <1>1, TimelineUnfold
<1>3. ASSUME NEW i \in 1..L
      PROVE  Frames!Cut(es, i) \in Nat
  <2>1. es[i].t - (IF i = 1 THEN 0 ELSE es[i - 1].t) \in Int
    <3>1. es[i].t \in Int /\ (i # 1 => i - 1 \in 1..L)
      BY <1>1
    <3>2. i # 1 => es[i - 1].t \in Int
      BY <1>1, <3>1
    <3>3. QED
      BY <3>1, <3>2
  <2>2. Frames!Gap(es, i) \in Nat
    BY <2>1 DEF Frames!Gap, Frames!Greater
  <2>3. QED
    BY <2>2, FramesAssumption DEF Frames!Cut, Frames!Smaller
<1> HIDE DEF T, L
<1>4. T[0] = 0
  BY <1>1, <1>2
<1>5. \A n \in 1..L : T[n] = T[n - 1] + Frames!Cut(es, n)
  BY <1>1, <1>2
<1> DEFINE P == {n \in Nat : n <= L => T[n] \in Nat}
<1>6. 0 \in P
  BY <1>4
<1>7. \A n \in Nat : n \in P => n + 1 \in P
  <2> SUFFICES ASSUME NEW n \in Nat, n \in P, n + 1 <= L
               PROVE  T[n + 1] \in Nat
    OBVIOUS
  <2>1. n + 1 \in 1..L /\ (n + 1) - 1 = n /\ T[n] \in Nat
    BY <1>1
  <2>2. T[n + 1] = T[n] + Frames!Cut(es, n + 1) /\ Frames!Cut(es, n + 1) \in Nat
    BY <1>3, <1>5, <2>1
  <2>3. QED
    BY <2>1, <2>2
<1>8. \A n \in 0..L : T[n] \in Nat
  <2> HIDE DEF P
  <2>1. Nat \subseteq P
    BY <1>6, <1>7, Induct
  <2>2. QED
    BY <2>1 DEF P
<1>9. ASSUME NEW n \in 1..L
      PROVE  T[n - 1] <= T[n]
  <2>1. n - 1 \in 0..L /\ n \in 0..L
    BY <1>1
  <2>2. T[n] = T[n - 1] + Frames!Cut(es, n) /\ Frames!Cut(es, n) \in Nat /\ T[n - 1] \in Nat
    BY <1>3, <1>5, <1>8, <2>1
  <2>3. QED
    BY <2>2
<1>10. QED
  BY <1>1, <1>4, <1>8, <1>9 DEF T, L

-----------------------------------------------------------------------------
(* Frames and what was on the terminal.                                     *)
Keys == [screen : STRING \cup {"blank"}, overlay : Nat]
FrameSet == [key : Keys, d : Nat]
Moments == [t : Nat, key : Keys]

(* The pair was on the terminal less than a window before t, or at t.       *)
Fresh(h, key, t) ==
  \E i \in 1..Len(h) : /\ h[i].key = key /\ h[i].t <= t
                       /\ i = Len(h) \/ h[i + 1].t > t - Window

(* The frames last from 0 to p, and each shows what is fresh.               *)
Told(fs, p, h) ==
  /\ fs \in Seq(FrameSet) /\ Frames!Beginnings(fs)[Len(fs) + 1] = p
  /\ \A n \in 1..Len(fs) :
       /\ Frames!Beginnings(fs)[n] \in Nat /\ Frames!Beginnings(fs)[n] + fs[n].d <= p
       /\ \A t \in Nat : /\ Frames!Beginnings(fs)[n] <= t
                         /\ t < Frames!Beginnings(fs)[n] + fs[n].d
                         => Fresh(h, fs[n].key, t)

(* The frames and their durations.                                          *)
LEMMA FramesLast ==
  ASSUME NEW fs \in Seq(FrameSet)
  PROVE  Len(fs) \in Nat /\ \A i \in 1..Len(fs) : fs[i] \in FrameSet /\ fs[i].d \in Nat
<1>1. \A f \in FrameSet : f.d \in Nat
  BY DEF FrameSet
<1>2. Len(fs) \in Nat /\ \A i \in 1..Len(fs) : fs[i] \in FrameSet
  OBVIOUS
<1>3. QED
  BY <1>1, <1>2

(* The history of the screen, by its moments.                               *)
LEMMA MomentsPass ==
  ASSUME NEW h \in Seq(Moments)
  PROVE  /\ Len(h) \in Nat
         /\ \A i \in 1..Len(h) : h[i] \in Moments /\ h[i].t \in Nat /\ h[i].key \in Keys
         /\ h # <<>> => Len(h) \in 1..Len(h) /\ h[Len(h)].t \in Nat
<1>1. \A m \in Moments : m.t \in Nat /\ m.key \in Keys
  BY DEF Moments
<1>2. /\ Len(h) \in Nat /\ \A i \in 1..Len(h) : h[i] \in Moments
      /\ h # <<>> => Len(h) \in 1..Len(h)
  OBVIOUS
<1>3. QED
  BY <1>1, <1>2

(* No frames tell of no time.                                               *)
LEMMA NothingTold ==
  ASSUME NEW h
  PROVE  Told(<<>>, 0, h)
<1>1. Len(<<>>) = 0 /\ <<>> \in Seq(FrameSet)
  OBVIOUS
<1>2. Frames!Beginnings(<<>>)[1] = 0
  BY <1>1, BeginningsUnfold
<1>3. QED
  BY <1>1, <1>2 DEF Told

(* A frame that is emitted begins where the ones before it end.             *)
LEMMA BeginningsAppend ==
  ASSUME NEW fs \in Seq(FrameSet), NEW f \in FrameSet
  PROVE  /\ \A n \in 1..(Len(fs) + 1) :
              Frames!Beginnings(Append(fs, f))[n] = Frames!Beginnings(fs)[n]
         /\ Frames!Beginnings(Append(fs, f))[Len(fs) + 2] = Frames!Beginnings(fs)[Len(fs) + 1] + f.d
<1> DEFINE gs == Append(fs, f)
           L == Len(fs)
           F == Frames!Beginnings(fs)
           G == Frames!Beginnings(gs)
<1>1. /\ L \in Nat /\ Len(gs) = L + 1 /\ gs[L + 1] = f
      /\ \A i \in 1..L : gs[i] = fs[i]
  OBVIOUS
<1>2. \A n \in 1..(L + 1) : F[n] = IF n = 1 THEN 0 ELSE F[n - 1] + fs[n - 1].d
  BY <1>1, BeginningsUnfold
<1>3. \A n \in 1..(L + 2) : G[n] = IF n = 1 THEN 0 ELSE G[n - 1] + gs[n - 1].d
  <2> HIDE DEF gs, L
  <2>1. Len(gs) \in Nat /\ Len(gs) + 1 = L + 2
    BY <1>1
  <2>2. G = [n \in 1..(Len(gs) + 1) |-> IF n = 1 THEN 0 ELSE G[n - 1] + gs[n - 1].d]
    BY <2>1, BeginningsUnfold
  <2> HIDE DEF G
  <2>3. QED
    BY <2>1, <2>2
<1> HIDE DEF gs, L, F, G
<1> DEFINE P == {n \in Nat : n <= L => F[n + 1] = G[n + 1]}
<1>4. 0 \in P
  <2>1. 1 \in 1..(L + 1) /\ 1 \in 1..(L + 2) /\ 0 + 1 = 1
    BY <1>1
  <2>2. QED
    BY <1>2, <1>3, <2>1
<1>5. \A n \in Nat : n \in P => n + 1 \in P
  <2> SUFFICES ASSUME NEW n \in Nat, n \in P, n + 1 <= L
               PROVE  F[n + 1 + 1] = G[n + 1 + 1]
    OBVIOUS
  <2>1. /\ n + 1 + 1 \in 1..(L + 1) /\ n + 1 + 1 \in 1..(L + 2) /\ n + 1 + 1 # 1
        /\ (n + 1 + 1) - 1 = n + 1 /\ n + 1 \in 1..L /\ F[n + 1] = G[n + 1]
    BY <1>1
  <2>2. /\ F[n + 1 + 1] = F[n + 1] + fs[n + 1].d
        /\ G[n + 1 + 1] = G[n + 1] + gs[n + 1].d
    BY <1>2, <1>3, <2>1
  <2>3. QED
    BY <1>1, <2>1, <2>2
<1>6. ASSUME NEW n \in 1..(L + 1)
      PROVE  G[n] = F[n]
  <2>1. n - 1 \in Nat /\ n - 1 <= L /\ (n - 1) + 1 = n
    BY <1>1
  <2> HIDE DEF P
  <2>2. n - 1 \in P
    BY <1>4, <1>5, <2>1, Induct
  <2>3. QED
    BY <2>1, <2>2 DEF P
<1>7. G[L + 2] = F[L + 1] + f.d
  <2>1. L + 2 \in 1..(L + 2) /\ L + 2 # 1 /\ (L + 2) - 1 = L + 1 /\ L + 1 \in 1..(L + 1)
    BY <1>1
  <2>2. G[L + 2] = G[L + 1] + gs[L + 1].d
    BY <1>3, <2>1
  <2>3. QED
    BY <1>1, <1>6, <2>1, <2>2
<1>8. QED
  BY <1>6, <1>7 DEF gs, L, F, G

(* A frame that shows what was fresh all its time adds that time to what is *)
(* told.                                                                    *)
LEMMA ToldOneMore ==
  ASSUME NEW h, NEW fs, NEW p \in Nat, Told(fs, p, h), NEW f \in FrameSet,
         \A t \in Nat : p <= t /\ t < p + f.d => Fresh(h, f.key, t)
  PROVE  Told(Append(fs, f), p + f.d, h)
<1> DEFINE gs == Append(fs, f)
           F == Frames!Beginnings(fs)
           G == Frames!Beginnings(gs)
           L == Len(fs)
<1>1. /\ fs \in Seq(FrameSet) /\ gs \in Seq(FrameSet) /\ L \in Nat
         /\ Len(gs) = L + 1 /\ gs[L + 1] = f
      /\ (\A i \in 1..L : gs[i] = fs[i]) /\ f.d \in Nat /\ \A i \in 1..L : fs[i].d \in Nat
  <2>1. fs \in Seq(FrameSet)
    BY DEF Told
  <2>2. f.d \in Nat
    BY DEF FrameSet
  <2>3. gs \in Seq(FrameSet) /\ L \in Nat /\ Len(gs) = L + 1 /\ gs[L + 1] = f
    BY <2>1
  <2>4. \A i \in 1..L : gs[i] = fs[i]
    BY <2>1
  <2>5. QED
    BY <2>1, <2>2, <2>3, <2>4, FramesLast
<1>2. (\A n \in 1..(L + 1) : G[n] = F[n]) /\ G[L + 2] = F[L + 1] + f.d
  BY <1>1, BeginningsAppend
<1>3. /\ F[L + 1] = p
      /\ \A n \in 1..L : /\ F[n] \in Nat /\ F[n] + fs[n].d <= p
                         /\ \A t \in Nat : F[n] <= t /\ t < F[n] + fs[n].d => Fresh(h, fs[n].key, t)
  BY DEF Told
<1> HIDE DEF gs, F, G, L
<1>4. G[L + 2] = p + f.d
  BY <1>2, <1>3
<1>5. ASSUME NEW n \in 1..(L + 1)
      PROVE  /\ G[n] \in Nat /\ G[n] + gs[n].d <= p + f.d
             /\ \A t \in Nat : G[n] <= t /\ t < G[n] + gs[n].d => Fresh(h, gs[n].key, t)
  <2>1. CASE n \in 1..L
    <3>1. G[n] = F[n] /\ gs[n] = fs[n]
      BY <1>1, <1>2, <2>1
    <3>2. F[n] \in Nat /\ F[n] + fs[n].d <= p + f.d
      BY <1>1, <1>3, <2>1
    <3>3. QED
      BY <1>3, <2>1, <3>1, <3>2
  <2>2. CASE n = L + 1
    <3>1. G[n] = p /\ gs[n] = f
      BY <1>1, <1>2, <1>3, <2>2
    <3>2. \A t \in Nat : G[n] <= t /\ t < G[n] + gs[n].d => Fresh(h, gs[n].key, t)
      BY <3>1
    <3>3. G[n] \in Nat /\ G[n] + gs[n].d <= p + f.d
      BY <1>1, <3>1
    <3>4. QED
      BY <3>2, <3>3
  <2>3. QED
    BY <1>1, <2>1, <2>2
<1>6. Len(gs) + 1 = L + 2
  BY <1>1
<1>7. QED
  BY <1>1, <1>4, <1>5, <1>6 DEF Told, gs, G

(* What is fresh stays fresh until a window after the screen changed.       *)
LEMMA FreshLater ==
  ASSUME NEW h \in Seq(Moments), NEW m \in Moments, NEW key, NEW t \in Nat,
         Fresh(h, key, t), t < m.t + Window
  PROVE  Fresh(Append(h, m), key, t)
<1>1. PICK i \in 1..Len(h) : /\ h[i].key = key /\ h[i].t <= t
                             /\ i = Len(h) \/ h[i + 1].t > t - Window
  BY DEF Fresh
<1> DEFINE g == Append(h, m)
<1>2. /\ Len(h) \in Nat /\ Len(g) = Len(h) + 1 /\ g[Len(h) + 1] = m
      /\ \A j \in 1..Len(h) : g[j] = h[j]
  OBVIOUS
<1> HIDE DEF g
<1>3. i \in 1..Len(g) /\ g[i].key = key /\ g[i].t <= t
  BY <1>1, <1>2
<1>4. g[i + 1].t > t - Window
  <2>1. CASE i = Len(h)
    <3>1. m.t \in Nat /\ Window \in Nat
      BY FramesAssumption DEF Moments
    <3>2. QED
      BY <1>2, <2>1, <3>1
  <2>2. CASE i # Len(h)
    BY <1>1, <1>2, <2>2
  <2>3. QED
    BY <2>1, <2>2
<1>5. QED
  BY <1>3, <1>4 DEF Fresh, g

(* What the screen shows later does not change what was told of earlier     *)
(* times.                                                                   *)
LEMMA ToldLater ==
  ASSUME NEW h \in Seq(Moments), NEW m \in Moments, NEW fs, NEW p \in Nat, Told(fs, p, h), p <= m.t
  PROVE  Told(fs, p, Append(h, m))
<1>1. ASSUME NEW n \in 1..Len(fs), NEW t \in Nat, Frames!Beginnings(fs)[n] <= t,
             t < Frames!Beginnings(fs)[n] + fs[n].d
      PROVE  Fresh(Append(h, m), fs[n].key, t)
  <2>1. Fresh(h, fs[n].key, t)
    BY <1>1 DEF Told
  <2>2. t < m.t + Window
    <3>1. /\ Frames!Beginnings(fs)[n] \in Nat /\ fs[n].d \in Nat /\ m.t \in Nat /\ Window \in Nat
          /\ Frames!Beginnings(fs)[n] + fs[n].d <= p
      <4>1. fs \in Seq(FrameSet) /\ Frames!Beginnings(fs)[n] \in Nat
            /\ Frames!Beginnings(fs)[n] + fs[n].d <= p
        BY DEF Told
      <4>2. m.t \in Nat
        BY DEF Moments
      <4>3. QED
        BY <4>1, <4>2, FramesLast, FramesAssumption
    <3> DEFINE b == Frames!Beginnings(fs)[n]
               d == fs[n].d
               now == m.t
    <3>2. /\ b \in Nat /\ d \in Nat /\ now \in Nat /\ Window \in Nat
          /\ t < b + d /\ b + d <= p /\ p <= now
      BY <1>1, <3>1
    <3>3. SUFFICES t < now + Window
      OBVIOUS
    <3> HIDE DEF b, d, now
    <3>4. QED
      BY <3>2
  <2>3. QED
    BY <2>1, <2>2, FreshLater
<1>2. QED
  BY <1>1 DEF Told

(* The pair that is there now is fresh from now on.                         *)
LEMMA LastIsFresh ==
  ASSUME NEW h \in Seq(Moments), h # <<>>, NEW t \in Nat, h[Len(h)].t <= t
  PROVE  Fresh(h, h[Len(h)].key, t)
BY DEF Fresh

-----------------------------------------------------------------------------
(* The replay up to a moment.                                               *)
Replays == [pending : Keys, pendingT : Nat, next : Int, dirty : BOOLEAN, frames : Seq(FrameSet)]
HistoryTo(h, now, key) ==
  h \in Seq(Moments) /\ h # <<>> /\ h[Len(h)].key = key /\ h[Len(h)].t <= now

Spaced(fs) == \A n \in 2..Len(fs) : fs[n].d >= Window

(* A frame that is no longer up to date is shown until its window is over.  *)
PendingIsFresh(r, h) ==
  \A t \in Nat : r.pendingT <= t /\ (r.dirty => t < r.next) => Fresh(h, r.pending, t)

Running(r, h, now, key) ==
  /\ r \in Replays /\ r.pendingT <= now /\ Told(r.frames, r.pendingT, h) /\ Spaced(r.frames)
  /\ IF r.next = Frames!Unset THEN r.frames = <<>> /\ ~r.dirty
     ELSE r.pendingT + Window <= r.next /\ r.next <= now + Window
  /\ IF r.dirty THEN now < r.next ELSE r.pending = key
  /\ PendingIsFresh(r, h)

(* The fields of the replay.                                                *)
LEMMA ReplaysAre ==
  ASSUME NEW r \in Replays
  PROVE  /\ r.pending \in Keys /\ r.pendingT \in Nat /\ r.next \in Int /\ r.dirty \in BOOLEAN
         /\ r.frames \in Seq(FrameSet)
BY DEF Replays

(* The fields checkpoint assigns.                                           *)
Marked(r, n) == [r EXCEPT !.next = n, !.dirty = FALSE]
Moved(q, fs, key, c) == [q EXCEPT !.frames = fs, !.pending = key, !.pendingT = c]

(* Putting off the next sample leaves the other fields alone.               *)
LEMMA MarkedReplay ==
  ASSUME NEW r \in Replays, NEW n \in Int
  PROVE  /\ Marked(r, n) \in Replays /\ Marked(r, n).next = n /\ Marked(r, n).dirty = FALSE
         /\ Marked(r, n).pendingT = r.pendingT /\ Marked(r, n).frames = r.frames
         /\ Marked(r, n).pending = r.pending
<1>1. Marked(r, n) \in Replays
  BY DEF Marked, Replays
<1>2. Marked(r, n).next = n /\ Marked(r, n).dirty = FALSE
  BY DEF Marked, Replays
<1>3. /\ Marked(r, n).pendingT = r.pendingT /\ Marked(r, n).frames = r.frames
      /\ Marked(r, n).pending = r.pending
  BY DEF Marked, Replays
<1>4. QED
  BY <1>1, <1>2, <1>3

(* So does moving the pending frame on.                                     *)
LEMMA MovedReplay ==
  ASSUME NEW q \in Replays, NEW fs \in Seq(FrameSet), NEW key \in Keys, NEW c \in Nat
  PROVE  /\ Moved(q, fs, key, c) \in Replays /\ Moved(q, fs, key, c).pendingT = c
         /\ Moved(q, fs, key, c).frames = fs /\ Moved(q, fs, key, c).pending = key
         /\ Moved(q, fs, key, c).next = q.next /\ Moved(q, fs, key, c).dirty = q.dirty
<1>1. Moved(q, fs, key, c) \in Replays
  BY DEF Moved, Replays
<1>2. /\ Moved(q, fs, key, c).pendingT = c /\ Moved(q, fs, key, c).frames = fs
      /\ Moved(q, fs, key, c).pending = key
  BY DEF Moved, Replays
<1>3. Moved(q, fs, key, c).next = q.next /\ Moved(q, fs, key, c).dirty = q.dirty
  BY DEF Moved, Replays
<1>4. QED
  BY <1>1, <1>2, <1>3

(* checkpoint, with the frame that was shown up to the moment fresh.        *)
LEMMA CheckpointIs ==
  ASSUME NEW r \in Replays, NEW c \in Nat, NEW key \in Keys, NEW h, HistoryTo(h, c, key),
         r.pendingT <= c, Told(r.frames, r.pendingT, h),
         \A t \in Nat : r.pendingT <= t /\ t < c => Fresh(h, r.pending, t)
  PROVE  LET s == Frames!Checkpoint(r, c, key)
         IN /\ s \in Replays /\ s.pendingT <= c /\ Told(s.frames, s.pendingT, h)
            /\ s.next = c + Window /\ ~s.dirty /\ s.pending = key /\ PendingIsFresh(s, h)
            /\ \/ s.frames = r.frames
               \/ /\ s.frames = Append(r.frames, [key |-> r.pending, d |-> c - r.pendingT])
                  /\ c - r.pendingT \in Nat
<1> DEFINE s == Frames!Checkpoint(r, c, key)
           f == [key |-> r.pending, d |-> c - r.pendingT]
<1>1. Window \in Nat
  BY FramesAssumption
<1>2. /\ r.pending \in Keys /\ r.pendingT \in Nat /\ r.frames \in Seq(FrameSet)
      /\ h \in Seq(Moments) /\ h # <<>> /\ h[Len(h)].key = key /\ h[Len(h)].t <= c
  BY ReplaysAre DEF HistoryTo
<1>3. ASSUME NEW t \in Nat, c <= t
      PROVE  Fresh(h, key, t)
  <2>1. h[Len(h)].t \in Nat
    BY <1>2, MomentsPass
  <2>2. h[Len(h)].t <= t
    BY <1>2, <1>3, <2>1
  <2>3. QED
    BY <1>2, <2>2, LastIsFresh
<1>4. CASE key = r.pending
  <2>1. s = Marked(r, c + Window) /\ c + Window \in Int
    BY <1>1, <1>4 DEF Frames!Checkpoint, Marked
  <2>2. /\ s \in Replays /\ s.pendingT = r.pendingT /\ s.frames = r.frames /\ s.pending = key
        /\ s.next = c + Window /\ s.dirty = FALSE
    <3> HIDE DEF s
    <3>1. QED
      BY <1>1, <1>4, <2>1, MarkedReplay
  <2> HIDE DEF s
  <2>3. PendingIsFresh(s, h)
    BY <1>2, <1>3, <1>4, <2>2 DEF PendingIsFresh
  <2>4. QED
    BY <2>2, <2>3 DEF s
<1>5. CASE key # r.pending
  <2> DEFINE fs == IF c > r.pendingT THEN Append(r.frames, f) ELSE r.frames
  <2> DEFINE q == Marked(r, c + Window)
  <2>1. c + Window \in Int
    BY <1>1
  <2>2. /\ q \in Replays /\ q.frames = r.frames /\ q.next = c + Window /\ q.dirty = FALSE
    BY <2>1, MarkedReplay
  <2>3. s = Moved(q, fs, key, c)
    <3>1. s = [q EXCEPT !.frames = IF c > r.pendingT THEN Append(@, f) ELSE @,
                        !.pending = key, !.pendingT = c]
      BY <1>5 DEF Frames!Checkpoint, Marked
    <3> HIDE DEF q, s, f
    <3>2. QED
      BY <2>2, <3>1 DEF Moved
  <2>4. f \in FrameSet /\ f.d = c - r.pendingT /\ f.key = r.pending
    BY <1>2 DEF FrameSet
  <2>5. fs \in Seq(FrameSet) /\ Told(fs, c, h)
    <3>1. CASE c > r.pendingT
      <4>1. \A t \in Nat : r.pendingT <= t /\ t < r.pendingT + f.d => Fresh(h, f.key, t)
        BY <1>2, <2>4
      <4>2. Told(Append(r.frames, f), r.pendingT + f.d, h)
        BY <1>2, <2>4, <4>1, ToldOneMore
      <4>3. r.pendingT + f.d = c
        BY <1>2, <2>4
      <4> HIDE DEF f
      <4>4. QED
        BY <1>2, <2>4, <3>1, <4>2, <4>3
    <3>2. CASE ~(c > r.pendingT)
      <4>1. c = r.pendingT
        BY <1>2, <3>2
      <4>2. QED
        BY <1>2, <3>2, <4>1
    <3>3. QED
      BY <3>1, <3>2
  <2>6. fs = r.frames \/ fs = Append(r.frames, f)
    OBVIOUS
  <2> HIDE DEF fs, f
  <2>7. /\ s \in Replays /\ s.pendingT = c /\ s.frames = fs /\ s.pending = key
        /\ s.next = c + Window /\ s.dirty = FALSE
    <3> HIDE DEF q, s
    <3>1. QED
      BY <2>3, <2>5, <2>2, MovedReplay
  <2> HIDE DEF s
  <2>8. PendingIsFresh(s, h)
    BY <1>3, <2>7 DEF PendingIsFresh
  <2>9. c - r.pendingT \in Nat
    BY <1>2
  <2>10. QED
    BY <2>5, <2>7, <2>6, <2>8, <2>9 DEF s, f
<1>6. QED
  BY <1>4, <1>5

(* A checkpoint a window after the last one.                                *)
LEMMA RegularCheckpoint ==
  ASSUME NEW r \in Replays, NEW c \in Nat, NEW now \in Nat, c <= now, NEW key \in Keys, NEW h,
         HistoryTo(h, c, key), r.pendingT <= c, Told(r.frames, r.pendingT, h), Spaced(r.frames),
         \A t \in Nat : r.pendingT <= t /\ t < c => Fresh(h, r.pending, t),
         r.frames = <<>> \/ r.pendingT + Window <= c
  PROVE  Running(Frames!Checkpoint(r, c, key), h, now, key)
<1> DEFINE s == Frames!Checkpoint(r, c, key)
<1>1. /\ s \in Replays /\ s.pendingT <= c /\ Told(s.frames, s.pendingT, h)
      /\ s.next = c + Window /\ ~s.dirty /\ s.pending = key /\ PendingIsFresh(s, h)
      /\ \/ s.frames = r.frames
         \/ /\ s.frames = Append(r.frames, [key |-> r.pending, d |-> c - r.pendingT])
            /\ c - r.pendingT \in Nat
  BY CheckpointIs
<1>2. Window \in Nat /\ s.pendingT \in Nat /\ r.pendingT \in Nat
        /\ r.frames \in Seq(FrameSet) /\ r.pending \in Keys
  BY <1>1, ReplaysAre, FramesAssumption
<1> HIDE DEF s
<1>3. Spaced(s.frames)
  <2>1. CASE s.frames = r.frames
    BY <2>1
  <2>2. CASE s.frames = Append(r.frames, [key |-> r.pending, d |-> c - r.pendingT])
             /\ c - r.pendingT \in Nat
    <3> DEFINE f == [key |-> r.pending, d |-> c - r.pendingT]
               L == Len(r.frames)
    <3>1. f \in FrameSet /\ f.d = c - r.pendingT
      BY <1>2, <2>2 DEF FrameSet
    <3> HIDE DEF f
    <3>2. /\ L \in Nat /\ Len(Append(r.frames, f)) = L + 1 /\ Append(r.frames, f)[L + 1] = f
          /\ \A n \in 1..L : Append(r.frames, f)[n] = r.frames[n]
      BY <1>2, <3>1
    <3>3. L # 0 => f.d >= Window
      BY <1>2, <3>1
    <3>4. s.frames = Append(r.frames, f)
      BY <2>2 DEF f
    <3> HIDE DEF L
    <3>5. ASSUME NEW n \in 2..(L + 1)
          PROVE  Append(r.frames, f)[n].d >= Window
      <4>1. CASE n = L + 1
        BY <3>2, <3>3, <4>1
      <4>2. CASE n \in 2..L
        BY <3>2, <4>2 DEF Spaced, L
      <4>3. QED
        BY <3>2, <4>1, <4>2
    <3>6. QED
      BY <3>2, <3>4, <3>5 DEF Spaced
  <2>3. QED
    BY <1>1, <2>1, <2>2
<1>4. s.pendingT + Window <= s.next /\ s.next <= now + Window
        /\ s.next # Frames!Unset /\ s.pendingT <= now
  BY <1>1, <1>2 DEF Frames!Unset
<1>5. QED
  BY <1>1, <1>3, <1>4 DEF Running, s

(* What is due before an event.                                             *)
LEMMA DueKeeps ==
  ASSUME NEW r, NEW h, NEW now \in Nat, NEW t \in Nat, now <= t, NEW key \in Keys,
         Running(r, h, now, key), HistoryTo(h, now, key)
  PROVE  Running(Frames!Due(r, t, key), h, t, key)
<1>1. /\ r \in Replays /\ r.pendingT \in Nat /\ r.next \in Int /\ r.dirty \in BOOLEAN
      /\ Window \in Nat
  BY ReplaysAre, FramesAssumption DEF Running
<1>2. CASE r.dirty /\ t >= r.next
  <2>1. r.next \in Nat /\ now < r.next /\ r.pendingT + Window <= r.next /\ r.next <= t
    BY <1>1, <1>2 DEF Running
  <2>2. HistoryTo(h, r.next, key)
    <3>1. h \in Seq(Moments) /\ h # <<>> /\ h[Len(h)].t <= now
      BY DEF HistoryTo
    <3>2. h[Len(h)].t \in Nat
      BY <3>1, MomentsPass
    <3>3. QED
      BY <2>1, <3>1, <3>2 DEF HistoryTo
  <2>3. \A u \in Nat : r.pendingT <= u /\ u < r.next => Fresh(h, r.pending, u)
    BY DEF Running, PendingIsFresh
  <2>4. r.pendingT <= r.next
    BY <1>1, <2>1
  <2>5. Running(Frames!Checkpoint(r, r.next, key), h, t, key)
    BY <1>1, <2>1, <2>2, <2>3, <2>4, RegularCheckpoint DEF Running
  <2>6. QED
    BY <1>2, <2>5 DEF Frames!Due
<1>3. CASE ~(r.dirty /\ t >= r.next)
  <2>1. Frames!Due(r, t, key) = r
    BY <1>3 DEF Frames!Due
  <2>2. r.pendingT <= t /\ (r.dirty => t < r.next)
          /\ (r.next <= now + Window => r.next <= t + Window)
    BY <1>1, <1>3 DEF Running
  <2>3. QED
    BY <2>1, <2>2 DEF Running
<1>4. QED
  BY <1>2, <1>3

(* What an event changes.                                                   *)
Later(h, t, key, to) == IF to = key THEN h ELSE Append(h, [t |-> t, key |-> to])

(* A change of the screen ends the history at the new screen.               *)
LEMMA LaterIs ==
  ASSUME NEW h, NEW t \in Nat, NEW key \in Keys, NEW to \in Keys, HistoryTo(h, t, key)
  PROVE  HistoryTo(Later(h, t, key, to), t, to)
<1>1. CASE to = key
  BY <1>1 DEF Later
<1>2. CASE to # key
  <2> DEFINE m == [t |-> t, key |-> to]
  <2>1. h \in Seq(Moments) /\ m \in Moments /\ m.t = t /\ m.key = to
    BY DEF HistoryTo, Moments
  <2> HIDE DEF m
  <2>2. /\ Append(h, m) \in Seq(Moments) /\ Append(h, m) # <<>>
        /\ Append(h, m)[Len(Append(h, m))] = m
    BY <2>1
  <2>3. QED
    BY <1>2, <2>1, <2>2 DEF HistoryTo, Later, m
<1>3. QED
  BY <1>1, <1>2

(* What was fresh is so for the window of one sample after the change.      *)
LEMMA LaterFresh ==
  ASSUME NEW h, NEW t \in Nat, NEW key \in Keys, NEW to \in Keys, HistoryTo(h, t, key)
  PROVE  /\ \A k : \A u \in Nat :
              Fresh(h, k, u) /\ u < t + Window => Fresh(Later(h, t, key, to), k, u)
         /\ \A fs : \A p \in Nat : Told(fs, p, h) /\ p <= t => Told(fs, p, Later(h, t, key, to))
<1> DEFINE m == [t |-> t, key |-> to]
<1>1. h \in Seq(Moments) /\ m \in Moments /\ m.t = t
  BY DEF HistoryTo, Moments
<1>2. Later(h, t, key, to) = h \/ Later(h, t, key, to) = Append(h, m)
  BY DEF Later
<1> HIDE DEF m
<1>3. QED
  BY <1>1, <1>2, FreshLater, ToldLater

(* show() takes the new screen at once if a sample is due, or marks it      *)
(* dirty.                                                                   *)
LEMMA ShowKeeps ==
  ASSUME NEW r, NEW h, NEW t \in Nat, NEW key \in Keys, NEW to \in Keys,
         Running(r, h, t, key), HistoryTo(h, t, key)
  PROVE  Running(Frames!Show(r, t, to), Later(h, t, key, to), t, to)
<1> DEFINE g == Later(h, t, key, to)
<1>1. /\ r \in Replays /\ r.pendingT \in Nat /\ r.next \in Int /\ r.dirty \in BOOLEAN
      /\ Window \in Nat /\ r.pendingT <= t
  BY ReplaysAre, FramesAssumption DEF Running
<1>2. HistoryTo(g, t, to) /\ Told(r.frames, r.pendingT, g) /\ Spaced(r.frames)
  BY <1>1, LaterIs, LaterFresh DEF Running
<1>3. ASSUME NEW u \in Nat, r.pendingT <= u, u < t + Window, r.dirty => u < r.next
      PROVE  Fresh(g, r.pending, u)
  <2>1. Fresh(h, r.pending, u)
    BY <1>3 DEF Running, PendingIsFresh
  <2>2. QED
    BY <1>3, <2>1, LaterFresh
<1> HIDE DEF g
<1>4. CASE t >= r.next
  <2>1. r.frames = <<>> \/ r.pendingT + Window <= t
    BY <1>1, <1>4 DEF Running
  <2>2. ~r.dirty
    BY <1>1, <1>4 DEF Running
  <2>3. \A u \in Nat : r.pendingT <= u /\ u < t => Fresh(g, r.pending, u)
    BY <1>1, <1>3, <2>2
  <2>4. Running(Frames!Checkpoint(r, t, to), g, t, to)
    BY <1>1, <1>2, <2>1, <2>3, RegularCheckpoint
  <2>5. QED
    BY <1>4, <2>4 DEF Frames!Show, g
<1>5. CASE ~(t >= r.next)
  <2> DEFINE s == [r EXCEPT !.dirty = TRUE]
  <2>1. Frames!Show(r, t, to) = s
    BY <1>5 DEF Frames!Show
  <2>2. /\ s \in Replays /\ s.dirty = TRUE /\ s.pending = r.pending /\ s.pendingT = r.pendingT
        /\ s.next = r.next /\ s.frames = r.frames
    BY <1>1 DEF Replays
  <2> HIDE DEF s
  <2>3. t < r.next /\ r.next # Frames!Unset
    BY <1>1, <1>5 DEF Frames!Unset
  <2>4. r.pendingT + Window <= r.next /\ r.next <= t + Window
    BY <2>3 DEF Running
  <2>5. PendingIsFresh(s, g)
    <3>1. ASSUME NEW u \in Nat, s.pendingT <= u, u < s.next
          PROVE  Fresh(g, s.pending, u)
      <4>1. u < t + Window
        BY <1>1, <2>2, <2>4, <3>1
      <4>2. QED
        BY <1>3, <2>2, <3>1, <4>1
    <3>2. QED
      BY <2>2, <3>1 DEF PendingIsFresh
  <2>6. QED
    BY <1>1, <1>2, <2>1, <2>2, <2>3, <2>4, <2>5 DEF Running, g
<1>6. QED
  BY <1>4, <1>5

-----------------------------------------------------------------------------
(* The machine.                                                             *)
FramesPhases ==
  {"replay", "write", "encode", "remove", "commit", "done", "failed", "encoder failed"}

(* The files, by phase.                                                     *)
ArtifactInv ==
  /\ phase \in FramesPhases /\ spool \in BOOLEAN
  /\ phase \in {"remove", "commit"} => temp = "whole"
  /\ phase \in {"write", "commit"} => ~spool
  /\ Frames!ExportIsWhole

(* The clock of the replay.                                                 *)
Clock == Frames!Adjusted(atEvent)

FramesInv ==
  /\ events \in FrameTraces /\ atEvent \in 0..Len(events) /\ Frames!Key \in Keys
  /\ ArtifactInv
  /\ phase = "replay" =>
       HistoryTo(history, Clock, Frames!Key) /\ Running(replay, history, Clock, Frames!Key)
  /\ Frames!FrameIsFresh /\ Frames!FramesFillTime /\ Frames!FramesAreRare

(* The export starts at time 0 with the first screen pending.               *)
LEMMA FramesStart == Frames!Init => FramesInv
<1> SUFFICES ASSUME Frames!Init
             PROVE  FramesInv
  OBVIOUS
<1> DEFINE blank == [screen |-> "blank", overlay |-> 0]
           none == <<>>
<1>1. /\ events \in FrameTraces /\ atEvent = 0 /\ screen = "blank" /\ overlay = 0
      /\ replay = [pending |-> blank, pendingT |-> 0, next |-> -1, dirty |-> FALSE, frames |-> none]
      /\ phase = "replay" /\ dest = "old" /\ temp = "part" /\ spool \in BOOLEAN
      /\ history = <<[t |-> 0, key |-> blank]>>
  BY DEF Frames!Init, Frames!Unset
<1>2. Frames!Key = blank /\ blank \in Keys
  <2>1. blank \in Keys
    BY DEF Keys
  <2>2. screen = "blank" /\ overlay = 0
    BY <1>1
  <2>3. QED
    BY <2>1, <2>2 DEF Frames!Key
<1>3. Len(events) \in Nat /\ Clock = 0
  BY <1>1, TimelineIs DEF Clock, Frames!Adjusted
<1> HIDE DEF blank
<1> DEFINE m == [t |-> 0, key |-> blank]
<1>4. m \in Moments /\ m.t = 0 /\ m.key = blank
  BY <1>2 DEF Moments
<1>5. history = <<m>>
  BY <1>1
<1> HIDE DEF m
<1>6. /\ history \in Seq(Moments) /\ history # <<>> /\ Len(history) = 1 /\ history[Len(history)] = m
  BY <1>4, <1>5
<1>7. HistoryTo(history, 0, blank)
  BY <1>4, <1>6 DEF HistoryTo
<1>8. /\ replay.pending = blank /\ replay.pendingT = 0 /\ replay.next = -1
      /\ replay.dirty = FALSE /\ replay.frames = none
  BY <1>1
<1>9. replay \in Replays
  <2>1. none \in Seq(FrameSet)
    OBVIOUS
  <2> HIDE DEF none
  <2>2. QED
    BY <1>1, <1>2, <2>1 DEF Replays
<1>10. Told(replay.frames, replay.pendingT, history) /\ Spaced(replay.frames)
  BY <1>8, NothingTold DEF Spaced
<1>11. PendingIsFresh(replay, history)
  BY <1>4, <1>6, <1>8, LastIsFresh DEF PendingIsFresh
<1>12. Running(replay, history, 0, blank)
  BY <1>8, <1>9, <1>10, <1>11 DEF Running, Frames!Unset
<1>13. ArtifactInv
  BY <1>1 DEF ArtifactInv, FramesPhases, Frames!ExportIsWhole
<1>14. Frames!FrameIsFresh /\ Frames!FramesFillTime /\ Frames!FramesAreRare
  BY <1>1 DEF Frames!FrameIsFresh, Frames!FramesFillTime, Frames!FramesAreRare, Frames!Replayed
<1>15. atEvent \in 0..Len(events)
  BY <1>1, <1>3
<1>16. QED
  BY <1>1, <1>2, <1>3, <1>7, <1>12, <1>13, <1>14, <1>15 DEF FramesInv

(* The three claims about the frames say nothing before the last frame.     *)
LEMMA NothingClaimed ==
  ASSUME ~Frames!Replayed'
  PROVE  (Frames!FrameIsFresh /\ Frames!FramesFillTime /\ Frames!FramesAreRare)'
BY DEF Frames!FrameIsFresh, Frames!FramesFillTime, Frames!FramesAreRare

(* One event: what is due is shown first, then the event is.                *)
LEMMA EventKeeps ==
  ASSUME FramesInv, Frames!Event
  PROVE  FramesInv'
<1> DEFINE e == events[atEvent + 1]
           t == Frames!Adjusted(atEvent + 1)
           key == Frames!Key
           r == Frames!Due(replay, t, key)
           s == IF Frames!Screens(e) \/ Frames!Forces(e) THEN Frames!Show(r, t, key') ELSE r
<1>1. /\ phase = "replay" /\ atEvent < Len(events) /\ atEvent' = atEvent + 1
      /\ screen' = IF Frames!Screens(e) THEN e.shows ELSE screen
      /\ overlay' = IF Frames!Forces(e) THEN atEvent + 1 ELSE overlay
      /\ history' = IF key' = key THEN history ELSE Append(history, [t |-> t, key |-> key'])
      /\ Frames!Emitted(s) /\ events' = events /\ dest' = dest
  BY DEF Frames!Event
<1>2. /\ events \in FrameTraces /\ atEvent \in 0..Len(events) /\ key \in Keys /\ ArtifactInv
      /\ HistoryTo(history, Clock, key) /\ Running(replay, history, Clock, key)
  BY <1>1 DEF FramesInv
<1>3. /\ Len(events) \in Nat /\ atEvent + 1 \in 1..Len(events) /\ atEvent + 1 \in 0..Len(events)
      /\ e.shows \in STRING
  <2>1. Len(events) \in Nat
          /\ \A i \in 1..Len(events) : events[i] \in [type : STRING, shows : STRING, t : Int]
    BY <1>2, TimelineIs
  <2>2. atEvent + 1 \in 1..Len(events) /\ atEvent + 1 \in 0..Len(events)
    BY <1>1, <1>2, <2>1
  <2>3. QED
    BY <2>1, <2>2
<1>4. Clock \in Nat /\ t \in Nat /\ Clock <= t
  <2>1. \A n \in 0..Len(events) : Frames!Timeline(events)[n] \in Nat
    BY <1>2, TimelineIs
  <2>2. \A n \in 1..Len(events) : Frames!Timeline(events)[n - 1] <= Frames!Timeline(events)[n]
    BY <1>2, TimelineIs
  <2>3. (atEvent + 1) - 1 = atEvent
    BY <1>2, <1>3
  <2>4. QED
    BY <1>2, <1>3, <2>1, <2>2, <2>3 DEF Clock, Frames!Adjusted
<1>5. key' \in Keys
  <2>1. screen \in STRING \cup {"blank"} /\ overlay \in Nat
    BY <1>2 DEF Frames!Key, Keys
  <2>2. screen' \in STRING \cup {"blank"} /\ overlay' \in Nat
    BY <1>1, <1>3, <2>1
  <2>3. QED
    BY <2>2 DEF Frames!Key, Keys
<1>6. ~Frames!Screens(e) /\ ~Frames!Forces(e) => key' = key
  BY <1>1 DEF Frames!Key
<1>7. Clock' = t
  BY <1>1 DEF Clock, Frames!Adjusted
<1> HIDE DEF e, t, r, key
<1>8. HistoryTo(history, t, key) /\ Running(r, history, t, key)
  <2>1. Running(r, history, t, key)
    BY <1>2, <1>4, DueKeeps DEF r
  <2>2. HistoryTo(history, t, key)
    <3>1. history \in Seq(Moments) /\ history # <<>> /\ history[Len(history)].t <= Clock
      BY <1>2 DEF HistoryTo
    <3>2. history[Len(history)].t \in Nat
      BY <3>1, MomentsPass
    <3>3. QED
      BY <1>2, <1>4, <3>1, <3>2 DEF HistoryTo
  <2>3. QED
    BY <2>1, <2>2
<1>9. history' = Later(history, t, key, key')
  BY <1>1 DEF Later
<1>10. HistoryTo(history', t, key') /\ Running(s, history', t, key')
  <2>1. HistoryTo(history', t, key')
    BY <1>2, <1>4, <1>5, <1>8, <1>9, LaterIs
  <2>2. CASE Frames!Screens(e) \/ Frames!Forces(e)
    <3>1. Running(Frames!Show(r, t, key'), Later(history, t, key, key'), t, key')
      BY <1>2, <1>4, <1>5, <1>8, ShowKeeps
    <3>2. QED
      BY <1>9, <2>1, <2>2, <3>1
  <2>3. CASE ~(Frames!Screens(e) \/ Frames!Forces(e))
    BY <1>6, <1>8, <1>9, <2>1, <2>3 DEF Later
  <2>4. QED
    BY <2>2, <2>3
<1> HIDE DEF s
<1>11. CASE replay' = s /\ UNCHANGED <<phase, temp, spool>>
  <2>1. ArtifactInv'
    BY <1>1, <1>2, <1>11 DEF ArtifactInv, Frames!ExportIsWhole
  <2>2. ~Frames!Replayed'
    BY <1>1, <1>11 DEF Frames!Replayed
  <2>3. HistoryTo(history', Clock', key') /\ Running(replay', history', Clock', key')
    BY <1>7, <1>10, <1>11
  <2>4. QED
    BY <1>1, <1>2, <1>3, <1>5, <2>1, <2>2, <2>3, NothingClaimed DEF FramesInv, key
<1>12. CASE phase' = "failed" /\ temp' = "none" /\ spool' = FALSE
  <2>1. ArtifactInv'
    BY <1>1, <1>2, <1>12 DEF ArtifactInv, Frames!ExportIsWhole, FramesPhases
  <2>2. ~Frames!Replayed'
    BY <1>12 DEF Frames!Replayed
  <2>3. QED
    BY <1>1, <1>2, <1>3, <1>5, <1>12, <2>1, <2>2, NothingClaimed DEF FramesInv, key
<1>13. QED
  BY <1>1, <1>11, <1>12 DEF Frames!Emitted

(* The replay after the last event, with the last checkpoint made.          *)
LEMMA LastKeptIs ==
  ASSUME NEW r, NEW h, NEW end \in Nat,
         HistoryTo(h, end, Frames!Key), Running(r, h, end, Frames!Key), Frames!Key \in Keys
  PROVE  LET s == Frames!LastKept(r, end)
         IN /\ s \in Replays /\ s.pendingT <= end /\ Told(s.frames, s.pendingT, h)
            /\ s.pending = Frames!Key
            /\ \A t \in Nat : s.pendingT <= t => Fresh(h, Frames!Key, t)
            /\ \A n \in 2..(Len(s.frames) - 1) : s.frames[n].d >= Window
<1> DEFINE s == Frames!LastKept(r, end)
<1>1. /\ r \in Replays /\ r.pendingT \in Nat /\ r.next \in Int /\ r.dirty \in BOOLEAN
      /\ r.frames \in Seq(FrameSet) /\ r.pending \in Keys /\ Window \in Nat /\ r.pendingT <= end
      /\ Told(r.frames, r.pendingT, h) /\ Spaced(r.frames)
  BY ReplaysAre, FramesAssumption DEF Running
<1>2. Len(r.frames) \in Nat
  BY <1>1
<1>3. CASE r.dirty \/ r.next = Frames!Unset
  <2>1. s = Frames!Checkpoint(r, end, Frames!Key)
    BY <1>3 DEF Frames!LastKept
  <2>2. \A t \in Nat : r.pendingT <= t /\ t < end => Fresh(h, r.pending, t)
    <3>1. r.dirty => end < r.next
      BY DEF Running
    <3>2. QED
      BY <1>1, <3>1 DEF Running, PendingIsFresh
  <2> HIDE DEF s
  <2>3. /\ s \in Replays /\ s.pendingT <= end /\ Told(s.frames, s.pendingT, h)
        /\ ~s.dirty /\ s.pending = Frames!Key /\ PendingIsFresh(s, h)
        /\ \/ s.frames = r.frames
           \/ /\ s.frames = Append(r.frames, [key |-> r.pending, d |-> end - r.pendingT])
              /\ end - r.pendingT \in Nat
    BY <1>1, <2>1, <2>2, CheckpointIs
  <2>4. \A t \in Nat : s.pendingT <= t => Fresh(h, Frames!Key, t)
    BY <2>3 DEF PendingIsFresh
  <2>5. ASSUME NEW n \in 2..(Len(s.frames) - 1)
        PROVE  s.frames[n].d >= Window
    <3>1. CASE s.frames = r.frames
      BY <1>1, <1>2, <3>1 DEF Spaced
    <3>2. CASE /\ s.frames = Append(r.frames, [key |-> r.pending, d |-> end - r.pendingT])
               /\ end - r.pendingT \in Nat
      <4> DEFINE f == [key |-> r.pending, d |-> end - r.pendingT]
      <4>1. f \in FrameSet
        BY <1>1, <3>2 DEF FrameSet
      <4> HIDE DEF f
      <4>2. /\ Len(Append(r.frames, f)) = Len(r.frames) + 1
            /\ \A i \in 1..Len(r.frames) : Append(r.frames, f)[i] = r.frames[i]
        BY <1>1, <4>1
      <4>3. s.frames = Append(r.frames, f)
        BY <3>2 DEF f
      <4>4. n \in 2..Len(r.frames) /\ s.frames[n] = r.frames[n]
        BY <1>2, <4>2, <4>3
      <4>5. QED
        BY <1>1, <4>4 DEF Spaced
    <3>3. QED
      BY <2>3, <3>1, <3>2
  <2>6. QED
    BY <2>3, <2>4, <2>5 DEF s
<1>4. CASE ~(r.dirty \/ r.next = Frames!Unset)
  <2>1. s = r
    BY <1>4 DEF Frames!LastKept
  <2>2. r.pending = Frames!Key /\ \A t \in Nat : r.pendingT <= t => Fresh(h, Frames!Key, t)
    BY <1>4 DEF Running, PendingIsFresh
  <2>3. \A n \in 2..(Len(r.frames) - 1) : r.frames[n].d >= Window
    BY <1>1, <1>2 DEF Spaced
  <2> HIDE DEF s
  <2>4. QED
    BY <1>1, <2>1, <2>2, <2>3 DEF s
<1>5. QED
  BY <1>3, <1>4

(* The last frame shows the end, and with it the claims hold.               *)
LEMMA LastFrameKeeps ==
  ASSUME FramesInv, Frames!LastFrame
  PROVE  FramesInv'
<1> DEFINE end == Frames!Adjusted(Len(events))
           r == Frames!LastKept(replay, end)
           tail == Frames!Greater(Frames!Smaller(end - r.pendingT, TrailingCap), Window)
           last == [key |-> r.pending, d |-> tail]
           key == Frames!Key
<1>1. /\ phase = "replay" /\ atEvent = Len(events)
      /\ \/ /\ replay' = [r EXCEPT !.frames = Append(@, last)]
            /\ phase' = IF spool THEN "encode" ELSE "write"
            /\ UNCHANGED <<temp, spool>>
         \/ phase' = "failed" /\ temp' = "none" /\ spool' = FALSE /\ UNCHANGED replay
      /\ UNCHANGED <<events, atEvent, screen, overlay, dest, history>>
  BY DEF Frames!LastFrame
<1>2. /\ events \in FrameTraces /\ atEvent \in 0..Len(events) /\ key \in Keys /\ ArtifactInv
      /\ HistoryTo(history, end, key) /\ Running(replay, history, end, key)
  BY <1>1 DEF FramesInv, Clock
<1>3. end \in Nat /\ Window \in Nat /\ TrailingCap \in Nat
  <2>1. Len(events) \in Nat /\ \A n \in 0..Len(events) : Frames!Timeline(events)[n] \in Nat
    BY <1>2, TimelineIs
  <2>2. QED
    BY <2>1, FramesAssumption DEF Frames!Adjusted
<1>4. /\ key' = key /\ end' = end /\ history' = history
  BY <1>1 DEF Frames!Key, Frames!Adjusted
<1> HIDE DEF end, key
<1>5. /\ r \in Replays /\ r.pendingT <= end /\ Told(r.frames, r.pendingT, history)
      /\ r.pending = key
      /\ \A t \in Nat : r.pendingT <= t => Fresh(history, key, t)
      /\ \A n \in 2..(Len(r.frames) - 1) : r.frames[n].d >= Window
  BY <1>2, <1>3, LastKeptIs DEF key
<1> HIDE DEF r
<1> DEFINE p == r.pendingT
           fs == Append(r.frames, last)
           L == Len(r.frames)
<1>6. p \in Nat /\ r.frames \in Seq(FrameSet) /\ L \in Nat
  BY <1>5, ReplaysAre
<1>7. /\ tail \in Nat /\ tail >= Window /\ p + tail <= end + Window
      /\ p + tail >= Frames!Smaller(end, p + TrailingCap)
  BY <1>3, <1>5, <1>6 DEF Frames!Smaller, Frames!Greater
<1> HIDE DEF tail
<1>8. last \in FrameSet /\ last.key = key /\ last.d = tail
  BY <1>2, <1>5, <1>7 DEF FrameSet
<1> HIDE DEF last
<1>9. Told(fs, p + tail, history)
  <2>1. \A t \in Nat : p <= t /\ t < p + last.d => Fresh(history, last.key, t)
    BY <1>5, <1>8
  <2>2. Told(Append(r.frames, last), p + last.d, history)
    BY <1>5, <1>6, <1>8, <2>1, ToldOneMore
  <2>3. QED
    BY <1>8, <2>2
<1>10. /\ Len(fs) = L + 1 /\ fs[L + 1] = last /\ \A i \in 1..L : fs[i] = r.frames[i]
       /\ Frames!Beginnings(fs)[L + 1] = p /\ Frames!Beginnings(fs)[L + 2] = p + tail
  <2>1. /\ Len(fs) = L + 1 /\ fs[L + 1] = last /\ \A i \in 1..L : fs[i] = r.frames[i]
    BY <1>6, <1>8
  <2>2. /\ Frames!Beginnings(fs)[L + 1] = Frames!Beginnings(r.frames)[L + 1]
        /\ Frames!Beginnings(fs)[L + 2] = Frames!Beginnings(r.frames)[L + 1] + last.d
    BY <1>6, <1>8, BeginningsAppend
  <2>3. Frames!Beginnings(r.frames)[L + 1] = p
    BY <1>5 DEF Told
  <2>4. QED
    BY <1>8, <2>1, <2>2, <2>3
<1>11. events' \in FrameTraces /\ atEvent' \in 0..Len(events') /\ key' \in Keys
  BY <1>1, <1>2, <1>4
<1>12. CASE /\ replay' = [r EXCEPT !.frames = Append(@, last)]
            /\ phase' = IF spool THEN "encode" ELSE "write"
            /\ UNCHANGED <<temp, spool>>
  <2>1. replay'.frames = fs
    BY <1>5, <1>12 DEF Replays
  <2> HIDE DEF fs, L, p
  <2>2. ArtifactInv'
    BY <1>1, <1>2, <1>12 DEF ArtifactInv, Frames!ExportIsWhole, FramesPhases
  <2>3. phase' # "replay"
    BY <1>12
  <2>4. Frames!FrameIsFresh'
    <3> SUFFICES ASSUME NEW n \in DOMAIN fs,
                        NEW t \in Frames!Beginnings(fs)[n]..(Frames!Beginnings(fs)[n] + fs[n].d - 1)
                 PROVE  \E i \in DOMAIN history :
                          /\ history[i].key = fs[n].key /\ history[i].t <= t
                          /\ i = Len(history) \/ history[i + 1].t > t - Window
      BY <1>1, <2>1 DEF Frames!FrameIsFresh, Frames!Begins
    <3>1. fs \in Seq(FrameSet) /\ n \in 1..Len(fs)
      <4>1. fs \in Seq(FrameSet)
        BY <1>9 DEF Told
      <4>2. QED
        BY <4>1
    <3>2. Frames!Beginnings(fs)[n] \in Nat /\ fs[n].d \in Nat
      BY <1>9, <3>1, FramesLast DEF Told
    <3>3. t \in Nat /\ Frames!Beginnings(fs)[n] <= t /\ t < Frames!Beginnings(fs)[n] + fs[n].d
      BY <3>2
    <3>4. Fresh(history, fs[n].key, t)
      BY <1>9, <3>1, <3>3 DEF Told
    <3>5. DOMAIN history = 1..Len(history)
      BY <1>2 DEF HistoryTo
    <3>6. QED
      BY <3>4, <3>5 DEF Fresh
  <2>5. Frames!FramesFillTime'
    <3>1. /\ Frames!Total' = p + tail /\ Frames!Begins(Len(replay.frames))' = p
          /\ replay'.frames[Len(replay'.frames)] = last
      <4>1. L + 1 + 1 = L + 2
        BY <1>6 DEF L
      <4>2. QED
        BY <1>10, <2>1, <4>1 DEF Frames!Total, Frames!Begins
    <3>2. Frames!Adjusted(Len(events))' = end
      BY <1>4 DEF end
    <3>3. last.key = Frames!Key'
      BY <1>4, <1>8 DEF key
    <3>4. p + tail <= end + Window /\ p + tail >= Frames!Smaller(end, p + TrailingCap)
      BY <1>7 DEF p
    <3>5. QED
      BY <3>1, <3>2, <3>3, <3>4 DEF Frames!FramesFillTime, Frames!Smaller
  <2>6. Frames!FramesAreRare'
    <3> SUFFICES ASSUME NEW n \in 2..Len(fs), n # Len(fs) - 1
                 PROVE  fs[n].d >= Window
      BY <2>1 DEF Frames!FramesAreRare
    <3>1. CASE n = L + 1
      BY <1>7, <1>8, <1>10, <3>1
    <3>2. CASE n # L + 1
      <4>1. n \in 2..(L - 1) /\ n \in 1..L
        BY <1>6, <1>10, <3>2 DEF L
      <4>2. fs[n] = r.frames[n]
        BY <1>10, <4>1
      <4>3. QED
        BY <1>5, <4>1, <4>2 DEF L
    <3>3. QED
      BY <3>1, <3>2
  <2>7. QED
    BY <1>11, <2>2, <2>3, <2>4, <2>5, <2>6 DEF FramesInv, key
<1>13. CASE phase' = "failed" /\ temp' = "none" /\ spool' = FALSE
  <2>1. ArtifactInv'
    BY <1>1, <1>2, <1>13 DEF ArtifactInv, Frames!ExportIsWhole, FramesPhases
  <2>2. ~Frames!Replayed'
    BY <1>13 DEF Frames!Replayed
  <2>3. QED
    BY <1>11, <1>13, <2>1, <2>2, NothingClaimed DEF FramesInv, key
<1>14. QED
  BY <1>1, <1>12, <1>13

(* What is left is done to the files alone.                                 *)
LEMMA ArtifactKeeps ==
  ASSUME FramesInv, Frames!Write \/ Frames!Encode \/ Frames!RemoveSpool \/ Frames!Commit
  PROVE  FramesInv'
<1>1. ArtifactInv'
  <2> USE DEF FramesInv, ArtifactInv, FramesPhases, Frames!ExportIsWhole
  <2>1. CASE Frames!Write
    BY <2>1 DEF Frames!Write
  <2>2. CASE Frames!Encode
    BY <2>2 DEF Frames!Encode, Frames!Encoded
  <2>3. CASE Frames!RemoveSpool
    BY <2>3 DEF Frames!RemoveSpool
  <2>4. CASE Frames!Commit
    BY <2>4 DEF Frames!Commit
  <2>5. QED
    BY <2>1, <2>2, <2>3, <2>4
<1>2. /\ UNCHANGED <<events, atEvent, screen, overlay, replay, history>>
      /\ phase # "replay" /\ phase' # "replay" /\ Frames!Replayed
  BY DEF Frames!Write, Frames!Encode, Frames!Encoded, Frames!RemoveSpool, Frames!Commit,
         Frames!Replayed
<1>3. (Frames!FrameIsFresh /\ Frames!FramesFillTime /\ Frames!FramesAreRare)'
  <2>1. Frames!FrameIsFresh'
    BY <1>2 DEF FramesInv, Frames!FrameIsFresh, Frames!Begins
  <2>2. Frames!FramesFillTime'
    BY <1>2 DEF FramesInv, Frames!FramesFillTime, Frames!Begins, Frames!Total, Frames!Adjusted,
                Frames!Key
  <2>3. Frames!FramesAreRare'
    BY <1>2 DEF FramesInv, Frames!FramesAreRare
  <2>4. QED
    BY <2>1, <2>2, <2>3
<1>4. (events \in FrameTraces /\ atEvent \in 0..Len(events) /\ Frames!Key \in Keys)'
  BY <1>2 DEF FramesInv, Frames!Key
<1>5. QED
  BY <1>1, <1>2, <1>3, <1>4 DEF FramesInv

(* The events, the last frame, and the steps of the staged output.          *)
LEMMA FramesNext == FramesInv /\ Frames!Next => FramesInv'
BY EventKeeps, LastFrameKeeps, ArtifactKeeps DEF Frames!Next

-----------------------------------------------------------------------------
(* Each machine by itself.                                                  *)
LEMMA OneStarts ==
  ASSUME Init
  PROVE  /\ which = "views" => Views!Init
         /\ which = "viewer" => Viewer!Init
         /\ which = "modes" => Replay!Init
         /\ which = "frames" => Frames!Init
         /\ which = "cast" => Cast!Init
BY DEF Init, DecoderAlone, CastAlone, FramesAlone, ViewerAlone, ReplayAlone, MouseAlone, ViewsAlone

(* One machine runs, the one of the beginning.                              *)
LEMMA OneRuns ==
  ASSUME [Next]_vars
  PROVE  /\ which' = which
         /\ which = "views" => [Views!Next]_(Views!vars)
         /\ which = "viewer" => [Viewer!Next]_(Viewer!vars)
         /\ which = "modes" => [Replay!Next]_(Replay!vars)
         /\ which = "frames" => [Frames!Next]_(Frames!vars)
         /\ which = "cast" => [Cast!Next]_(Cast!vars)
<1>1. CASE Next
  BY <1>1 DEF Next, DecoderStep, CastStep, FramesStep, ViewerStep, ReplayStep, MouseStep, ViewsStep
<1>2. CASE UNCHANGED vars
  BY <1>2 DEF vars, Views!vars, Viewer!vars, Replay!vars, Frames!vars, Cast!vars
<1>3. QED
  BY <1>1, <1>2

(* The invariant of the views, over stuttering steps too.                   *)
LEMMA ViewsKeep == ViewsInv /\ [Views!Next]_(Views!vars) => ViewsInv'
<1>1. [Views!Next]_(Views!vars) => UNCHANGED <<screen, rect, mode>>
  BY DEF Views!Next, Views!Feed, Views!vars
<1>2. QED
  BY <1>1, RingNext DEF ViewsInv, RectInv

(* So that of the player,                                                   *)
LEMMA ViewerKeeps == ViewerInv /\ [Viewer!Next]_(Viewer!vars) => ViewerInv'
<1>1. ViewerInv /\ UNCHANGED Viewer!vars => ViewerInv'
  BY DEF Viewer!vars, ViewerInv, ControlsInv, PicturesInv, DrawnInv, CanvasInv, Viewer!ControlsAgree
<1>2. QED
  BY <1>1, ViewerNext

(* of the modes,                                                            *)
LEMMA ReplayKeeps == ReplayInv /\ [Replay!Next]_(Replay!vars) => ReplayInv'
<1>1. ReplayInv /\ UNCHANGED Replay!vars => ReplayInv'
  BY DEF Replay!vars, ReplayInv
<1>2. QED
  BY <1>1, ReplayNext

(* and of the frames.                                                       *)
LEMMA FramesKeep == FramesInv /\ [Frames!Next]_(Frames!vars) => FramesInv'
<1>1. FramesInv /\ UNCHANGED Frames!vars => FramesInv'
  <2> SUFFICES ASSUME FramesInv, UNCHANGED Frames!vars
               PROVE  FramesInv'
    OBVIOUS
  <2>1. UNCHANGED <<events, atEvent, screen, overlay, replay, phase, dest, temp, spool, history>>
    BY DEF Frames!vars
  <2>2. Clock' = Clock /\ Frames!Key' = Frames!Key
    BY <2>1 DEF Clock, Frames!Adjusted, Frames!Key
  <2>3. ArtifactInv'
    BY <2>1 DEF FramesInv, ArtifactInv, Frames!ExportIsWhole
  <2>4. Frames!FrameIsFresh'
    BY <2>1 DEF FramesInv, Frames!FrameIsFresh, Frames!Replayed, Frames!Begins
  <2>5. Frames!FramesFillTime'
    BY <2>1, <2>2 DEF FramesInv, Frames!FramesFillTime, Frames!Replayed, Frames!Begins,
                      Frames!Total, Frames!Adjusted
  <2>6. Frames!FramesAreRare'
    BY <2>1 DEF FramesInv, Frames!FramesAreRare, Frames!Replayed
  <2>7. QED
    BY <2>1, <2>2, <2>3, <2>4, <2>5, <2>6 DEF FramesInv
<1>2. QED
  BY <1>1, FramesNext

-----------------------------------------------------------------------------
(* PumpViews, for every size of the ring, every cut of the output into reads
   and every rectangle of ints: recent output (appendRecent) is the last of
   the output, and a wait that leaves a rectangle out (excludedCell) means
   the cells a predicate on it (clippedRegion) looks at, which are those of
   the screen in the rectangle when its corner is not negative.             *)
THEOREM ViewsAreRight == Spec => []ViewsAgree
<1> DEFINE Inv == which = "views" => ViewsInv
<1>1. Init => Inv
  BY OneStarts, ViewsStart
<1>2. Inv /\ [Next]_vars => Inv'
  BY OneRuns, ViewsKeep
<1>3. Inv => ViewsAgree
  BY RegionsAre DEF ViewsAgree, ViewsInv, RingInv
<1>4. QED
  BY <1>1, <1>2, <1>3, PTL DEF Spec

(* HTMLViewer, for every sequence of frames and markers and every order of
   load events: what the player shows as selected is where the position is,
   and what it drew last is what is on the canvas when all pictures came.   *)
THEOREM PlayerIsRight == Spec => []PlayerIsConsistent
<1> DEFINE Inv == which = "viewer" => ViewerInv
<1>1. Init => Inv
  BY OneStarts, ViewerStarts
<1>2. Inv /\ [Next]_vars => Inv'
  BY OneRuns, ViewerKeeps
<1>3. Inv => PlayerIsConsistent
  BY ViewerShows DEF PlayerIsConsistent
<1>4. QED
  BY <1>1, <1>2, <1>3, PTL DEF Spec

(* ModeReplay, for output of any length and every cut of it into events: the
   scanner ends a slice at every byte at which the terminal can change a
   mode, so each change is found by itself and at its byte.                 *)
THEOREM ModesAreRight == Spec => []ModesAreExact
<1> DEFINE Inv == which = "modes" => ReplayInv
<1>1. Init => Inv
  BY OneStarts, ReplayStarts
<1>2. Inv /\ [Next]_vars => Inv'
  BY OneRuns, ReplayKeeps
<1>3. Inv => ModesAreExact
  BY ReplayIsExact DEF ModesAreExact
<1>4. QED
  BY <1>1, <1>2, <1>3, PTL DEF Spec

(* FrameExport, for every trace and every window, idle limit and trailing
   cap: checkpoint and the last frame make pictures that were on the terminal
   less than a window before, a window apart, and as long as the recording;
   what is at the destination is whole or what was there.                   *)
THEOREM FramesAreRight == Spec => []FramesAreFaithful
<1> DEFINE Inv == which = "frames" => FramesInv
<1>1. Init => Inv
  BY OneStarts, FramesStart
<1>2. Inv /\ [Next]_vars => Inv'
  BY OneRuns, FramesKeep
<1>3. Inv => FramesAreFaithful
  BY DEF FramesAreFaithful, FramesInv, ArtifactInv
<1>4. QED
  BY <1>1, <1>2, <1>3, PTL DEF Spec

-----------------------------------------------------------------------------
(* CastProofs is about a CastExport by itself, which is the one of
   Conversions.                                                             *)
CastAlso == INSTANCE CastProofs WITH Traces <- CastTraces

(* Its text is the same,                                                    *)
LEMMA SameText ==
  ASSUME NEW b, NEW keep
  PROVE  Cast!Text(b, keep) = CastAlso!Text(b, keep)
BY ZenonT(40) DEF Cast!Text, Cast!TextFrom, Cast!RuneSize, Cast!From, CastAlso!Text,
         CastAlso!TextFrom, CastAlso!RuneSize, CastAlso!From

(* what a flush writes, with markers that wait too,                         *)
LEMMA SameFlush ==
  ASSUME NEW c, NEW final
  PROVE  Cast!FlushOutput(c, final) = CastAlso!FlushOutput(c, final)
<1>1. Cast!CastUTF8(c.output, final) = CastAlso!CastUTF8(c.output, final)
  BY SameText DEF Cast!CastUTF8, CastAlso!CastUTF8
<1>2. Cast!FlushOutputOnly(c, final) = CastAlso!FlushOutputOnly(c, final)
  BY <1>1 DEF Cast!FlushOutputOnly, Cast!Record, Cast!Cast, CastAlso!FlushOutputOnly,
         CastAlso!Record, CastAlso!Cast
<1>3. QED
  BY <1>2 DEF Cast!FlushOutput, Cast!Cast, CastAlso!FlushOutput, CastAlso!Cast

(* and what output does that comes after markers;                           *)
LEMMA SameAfterMarkers ==
  ASSUME NEW c, NEW t, NEW b
  PROVE  Cast!AfterMarkers(c, t, b) = CastAlso!AfterMarkers(c, t, b)
<1>1. \A x : Cast!RuneSize(x) = CastAlso!RuneSize(x)
  BY DEF Cast!RuneSize, Cast!From, CastAlso!RuneSize, CastAlso!From
<1>2. \A x, f : Cast!FlushOutput(x, f) = CastAlso!FlushOutput(x, f)
  BY SameFlush
<1>3. QED
  BY <1>1, <1>2, Zenon
     DEF Cast!AfterMarkers, Cast!PointTime, Cast!Consumed, Cast!From, Cast!Cast,
         CastAlso!AfterMarkers, CastAlso!PointTime, CastAlso!Consumed, CastAlso!From,
         CastAlso!Cast

(* so its runs are,                                                         *)
LEMMA CastBegins == Cast!Init => CastAlso!CastInv
<1>1. Cast!Init => CastAlso!Init
  BY DEF Cast!Init, CastAlso!Init
<1>2. CastTraces \subseteq CastAlso!Timed
  BY CastAssumption DEF CastAlso!Timed, CastAlso!CastEventSet
<1>3. QED
  BY <1>1, <1>2, CastAlso!CastStarts

(* step by step,                                                            *)
LEMMA CastSteps == [Cast!Next]_(Cast!vars) => [CastAlso!Next]_(CastAlso!vars)
<1>1. UNCHANGED Cast!vars => UNCHANGED CastAlso!vars
  BY DEF Cast!vars, CastAlso!vars
<1>2. Cast!ReadOutput => CastAlso!ReadOutput
  <2>1. \A e : Cast!Output(e) => CastAlso!Output(e)
    <3> TAKE e
    <3> DEFINE c == Cast!Cast(output, IF output = <<>> THEN e.t ELSE outputTMS, markers, records)
    <3>1. Cast!AfterMarkers(c, e.t, e.bytes) = CastAlso!AfterMarkers(c, e.t, e.bytes)
      BY SameAfterMarkers
    <3>2. \A x, f : Cast!FlushOutput(x, f) = CastAlso!FlushOutput(x, f)
      BY SameFlush
    <3>3. QED
      BY <3>1, <3>2, Zenon DEF Cast!Output, Cast!Become, Cast!Cast, CastAlso!Output, CastAlso!Become,
                         CastAlso!Cast
  <2>2. QED
    BY <2>1 DEF Cast!ReadOutput, CastAlso!ReadOutput
<1>3. Cast!HoldMarker => CastAlso!HoldMarker
  BY DEF Cast!HoldMarker, Cast!MarkerWaits, Cast!Become, Cast!Record, Cast!Cast,
         CastAlso!HoldMarker, CastAlso!MarkerWaits, CastAlso!Become, CastAlso!Record,
         CastAlso!Cast
<1>4. Cast!ReadOther => CastAlso!ReadOther
  <2>1. \A e : Cast!Other(e) => CastAlso!Other(e)
    <3> TAKE e
    <3>1. Cast!FlushOutput(Cast!Now, TRUE) = CastAlso!FlushOutput(Cast!Now, TRUE)
      BY SameFlush
    <3>2. QED
      BY <3>1, Zenon DEF Cast!Other, Cast!Become, Cast!Now, Cast!InCast, Cast!Record, Cast!Cast,
                     CastAlso!Other, CastAlso!Become, CastAlso!Now, CastAlso!InCast, CastAlso!Record,
                     CastAlso!Cast
  <2>2. QED
    BY <2>1 DEF Cast!ReadOther, CastAlso!ReadOther
<1>5. Cast!Finish => CastAlso!Finish
  <2>1. Cast!FlushOutput(Cast!Now, TRUE) = CastAlso!FlushOutput(Cast!Now, TRUE)
    BY SameFlush
  <2>2. QED
    BY <2>1 DEF Cast!Finish, Cast!Become, Cast!Now, Cast!Cast, CastAlso!Finish, CastAlso!Become,
                  CastAlso!Now, CastAlso!Cast
<1>6. QED
  BY <1>1, <1>2, <1>3, <1>4, <1>5 DEF Cast!Next, CastAlso!Next

(* and what is said of it.                                                  *)
LEMMA CastSays == CastAlso!CastKeepsText /\ CastAlso!CastInOrder /\ CastAlso!MarkersInPlace
                    => Cast!CastKeepsText /\ Cast!CastInOrder /\ Cast!MarkersInPlace
<1>1. \A b, keep : Cast!Text(b, keep) = CastAlso!Text(b, keep)
  BY SameText
<1>2. \A es : Cast!TextUpTo(es) = CastAlso!TextUpTo(es)
  BY ZenonT(40) DEF Cast!TextUpTo, Cast!CastUTF8, Cast!Text, Cast!TextFrom, Cast!RuneSize, Cast!From,
         CastAlso!TextUpTo, CastAlso!CastUTF8, CastAlso!Text, CastAlso!TextFrom,
         CastAlso!RuneSize, CastAlso!From
<1>3. \A n, final : Cast!Before(n, final) = CastAlso!Before(n, final)
  BY <1>1, <1>2 DEF Cast!Before, Cast!CastUTF8, CastAlso!Before, CastAlso!CastUTF8
<1>4. \A rs : Cast!Written(rs) = CastAlso!Written(rs)
  BY DEF Cast!Written, CastAlso!Written
<1>5. CastAlso!CastKeepsText => Cast!CastKeepsText
  BY <1>3, <1>4 DEF Cast!CastKeepsText, CastAlso!CastKeepsText
<1>6. CastAlso!CastInOrder => Cast!CastInOrder
  BY DEF Cast!CastInOrder, CastAlso!CastInOrder
<1>7. CastAlso!MarkersInPlace => Cast!MarkersInPlace
  <2>1. \A b : Cast!RuneSize(b) = CastAlso!RuneSize(b)
    BY DEF Cast!RuneSize, Cast!From, CastAlso!RuneSize, CastAlso!From
  <2>2. QED
    BY <1>1, <1>2, <1>3, <1>4, <2>1, Zenon
       DEF Cast!MarkersInPlace, Cast!InCast, Cast!CastUTF8, Cast!From, Cast!IsPrefix,
           CastAlso!MarkersInPlace, CastAlso!InCast, CastAlso!CastUTF8, CastAlso!From,
           CastAlso!IsPrefix
<1>8. QED
  BY <1>5, <1>6, <1>7

(* CastExport, for every trace in order, however the PTY's reads cut its code
   points: flushOutput, castUTF8 and the markers that wait (exportCast) write
   each code point once and in order, go back in time nowhere, and put every
   marker, resize and input after the text that was there when it was
   recorded, a marker in the middle of a code point right after that one.   *)
THEOREM CastIsRight == Spec => []CastIsFaithful
<1> DEFINE Inv == which = "cast" => CastAlso!CastInv
<1>1. Init => Inv
  BY OneStarts, CastBegins
<1>2. Inv /\ [Next]_vars => Inv'
  BY OneRuns, CastSteps, CastAlso!CastKeeps
<1>3. Inv => CastIsFaithful
  BY CastSays, CastAlso!CastIsRightAt DEF CastIsFaithful
<1>4. QED
  BY <1>1, <1>2, <1>3, PTL DEF Spec

=============================================================================
