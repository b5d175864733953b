---------------------------- MODULE CastProofs -----------------------------
(***************************************************************************)
(* CastExport, for every trace in order, whatever its output and however   *)
(* reads of the PTY and markers cut it: the cast has the text of the       *)
(* trace, never goes back in time, and has every other event in its place. *)
(*                                                                         *)
(* Output that waits (OpenIn), what is written and the markers that wait   *)
(* are together the text and the events read so far; CastAt says so, and   *)
(* CastInv that it holds between any two events.                           *)
(***************************************************************************)
EXTENDS CastExport, SequenceTheorems, WellFoundedInduction, TLAPS

(* A set of numbers that is not empty has a least one.                      *)
LEMMA LeastNat ==
  ASSUME NEW T, T \subseteq Nat, T # {}
  PROVE  \E n \in T : \A m \in T : n <= m
<1> DEFINE R == OpToRel(<, Nat)
<1>1. IsWellFoundedOn(R, Nat)
  BY NatLessThanWellFounded
<1>2. PICK n \in T : \A m \in T : <<m, n>> \notin R
  <2> HIDE DEF R
  <2>1. QED
    BY <1>1, WFMin
<1>3. \A m \in T : ~(m < n)
  BY <1>2 DEF OpToRel
<1>4. QED
  BY <1>3

(* Induction: a set with 0 that is closed under the successor has all       *)
(* numbers.                                                                 *)
LEMMA Induct ==
  ASSUME NEW P, 0 \in P, \A n \in Nat : n \in P => n + 1 \in P
  PROVE  Nat \subseteq P
<1> SUFFICES ASSUME Nat \ P # {} PROVE FALSE
  OBVIOUS
<1>1. PICK n \in Nat \ P : \A m \in Nat \ P : n <= m
  BY LeastNat
<1>2. n # 0 /\ n - 1 \in Nat /\ n - 1 \in P
  BY <1>1
<1>3. QED
  BY <1>2

-----------------------------------------------------------------------------
(* CastExport, first the text of bytes (castUTF8): bytes cut anywhere have
   the text of their parts, with what is incomplete in the first part put
   before the second.                                                       *)
Text0 == [valid |-> <<>>, rest |-> <<>>]
Chars == Seq(STRING)

(* What is left of a sequence, by length and by element.                    *)
LEMMA FromIs ==
  ASSUME NEW b \in Chars, NEW i \in 1..(Len(b) + 1)
  PROVE  /\ From(b, i) \in Chars /\ Len(From(b, i)) = Len(b) - i + 1
         /\ \A j \in 1..(Len(b) - i + 1) : From(b, i)[j] = b[i + j - 1]
<1>1. Len(b) \in Nat /\ i \in Nat /\ \A j \in i..Len(b) : b[j] \in STRING
  BY ElementOfSeq DEF Chars
<1>2. /\ SubSeq(b, i, Len(b)) \in Seq(STRING)
      /\ Len(SubSeq(b, i, Len(b))) = IF i <= Len(b) THEN Len(b) - i + 1 ELSE 0
      /\ \A j \in 1..(Len(b) - i + 1) : SubSeq(b, i, Len(b))[j] = b[i + j - 1]
  <2>1. i \in Int /\ Len(b) \in Int
    BY <1>1
  <2>2. \A k \in i..Len(b) : b[k] \in STRING
    BY <1>1
  <2>3. QED
    BY <2>1, <2>2, SubSeqProperties
<1>3. QED
  BY <1>1, <1>2 DEF From, Chars

(* Bytes with the same length and elements are the same.                    *)
LEMMA CharsEqual ==
  ASSUME NEW s \in Chars, NEW t \in Chars, Len(s) = Len(t), \A i \in 1..Len(s) : s[i] = t[i]
  PROVE  s = t
BY SeqEqual DEF Chars

(* Two parts, put together.                                                 *)
LEMMA CharsConcat ==
  ASSUME NEW s \in Chars, NEW t \in Chars
  PROVE  /\ s \o t \in Chars /\ Len(s \o t) = Len(s) + Len(t) /\ Len(s) \in Nat /\ Len(t) \in Nat
         /\ \A i \in 1..(Len(s) + Len(t)) : (s \o t)[i] = IF i <= Len(s) THEN s[i] ELSE t[i - Len(s)]
BY ConcatProperties DEF Chars

(* What is left of what is left.                                            *)
LEMMA FromFrom ==
  ASSUME NEW b \in Chars, NEW i \in 1..(Len(b) + 1), NEW j \in 1..(Len(b) - i + 2)
  PROVE  From(From(b, i), j) = From(b, i + j - 1)
<1> DEFINE f == From(b, i)
           g == From(f, j)
           h == From(b, i + j - 1)
<1>0. Len(b) \in Nat
  BY DEF Chars
<1>1. /\ Len(b) \in Nat /\ f \in Chars /\ Len(f) = Len(b) - i + 1
      /\ \A k \in 1..(Len(b) - i + 1) : f[k] = b[i + k - 1]
  BY <1>0, FromIs
<1>2. j \in 1..(Len(f) + 1) /\ i + j - 1 \in 1..(Len(b) + 1)
  BY <1>1
<1>3. /\ g \in Chars /\ Len(g) = Len(f) - j + 1
      /\ \A k \in 1..(Len(f) - j + 1) : g[k] = f[j + k - 1]
  BY <1>1, <1>2, FromIs
<1>4. /\ h \in Chars /\ Len(h) = Len(b) - (i + j - 1) + 1
      /\ \A k \in 1..(Len(b) - (i + j - 1) + 1) : h[k] = b[(i + j - 1) + k - 1]
  BY <1>2, FromIs
<1> HIDE DEF f, g, h
<1>5. Len(g) = Len(h) /\ \A k \in 1..Len(g) : g[k] = h[k]
  <2>1. Len(g) = Len(h)
    BY <1>1, <1>2, <1>3, <1>4
  <2>2. ASSUME NEW k \in 1..Len(g)
        PROVE  g[k] = h[k]
    <3>1. g[k] = f[j + k - 1] /\ j + k - 1 \in 1..(Len(b) - i + 1)
      BY <1>1, <1>2, <1>3
    <3>2. f[j + k - 1] = b[i + (j + k - 1) - 1]
      BY <1>1, <3>1
    <3>3. h[k] = b[(i + j - 1) + k - 1]
      BY <1>4, <2>1
    <3>4. i + (j + k - 1) - 1 = (i + j - 1) + k - 1
      OBVIOUS
    <3>5. QED
      BY <3>1, <3>2, <3>3, <3>4
  <2>3. QED
    BY <2>1, <2>2
<1>6. QED
  BY <1>3, <1>4, <1>5, CharsEqual DEF f, g, h

(* What is left of two parts, from within the first on.                     *)
LEMMA FromConcat ==
  ASSUME NEW b \in Chars, NEW c \in Chars, NEW i \in 1..(Len(b) + 1)
  PROVE  From(b \o c, i) = From(b, i) \o c
<1> DEFINE f == From(b, i)
           s == b \o c
           g == From(s, i)
           h == f \o c
<1>0. Len(b) \in Nat /\ Len(c) \in Nat
  BY DEF Chars
<1>1. /\ Len(b) \in Nat /\ Len(c) \in Nat /\ f \in Chars /\ Len(f) = Len(b) - i + 1
      /\ \A k \in 1..(Len(b) - i + 1) : f[k] = b[i + k - 1]
  BY <1>0, FromIs
<1>2. /\ s \in Chars /\ Len(s) = Len(b) + Len(c)
      /\ \A k \in 1..(Len(b) + Len(c)) : s[k] = IF k <= Len(b) THEN b[k] ELSE c[k - Len(b)]
  BY CharsConcat
<1>3. i \in 1..(Len(s) + 1)
  BY <1>1, <1>2
<1>4. /\ g \in Chars /\ Len(g) = Len(s) - i + 1
      /\ \A k \in 1..(Len(s) - i + 1) : g[k] = s[i + k - 1]
  BY <1>2, <1>3, FromIs
<1>5. /\ h \in Chars /\ Len(h) = Len(f) + Len(c)
      /\ \A k \in 1..(Len(f) + Len(c)) : h[k] = IF k <= Len(f) THEN f[k] ELSE c[k - Len(f)]
  BY <1>1, CharsConcat
<1> HIDE DEF f, g, h, s
<1>6. Len(g) = Len(h)
  BY <1>1, <1>2, <1>4, <1>5
<1>7. ASSUME NEW k \in 1..Len(g)
      PROVE  g[k] = h[k]
  <2>1. g[k] = s[i + k - 1] /\ i + k - 1 \in 1..(Len(b) + Len(c)) /\ k \in 1..(Len(f) + Len(c))
    BY <1>1, <1>2, <1>4
  <2>2. s[i + k - 1] = IF i + k - 1 <= Len(b) THEN b[i + k - 1] ELSE c[(i + k - 1) - Len(b)]
    BY <1>2, <2>1
  <2>3. h[k] = IF k <= Len(f) THEN f[k] ELSE c[k - Len(f)]
    BY <1>5, <2>1
  <2>4. CASE k <= Len(f)
    <3>1. f[k] = b[i + k - 1] /\ i + k - 1 <= Len(b)
      BY <1>1, <2>4
    <3>2. QED
      BY <2>1, <2>2, <2>3, <2>4, <3>1
  <2>5. CASE ~(k <= Len(f))
    <3>1. ~(i + k - 1 <= Len(b)) /\ (i + k - 1) - Len(b) = k - Len(f)
      BY <1>1, <2>5
    <3>2. QED
      BY <2>1, <2>2, <2>3, <2>5, <3>1
  <2>6. QED
    BY <2>4, <2>5
<1>8. QED
  BY <1>4, <1>5, <1>6, <1>7, CharsEqual DEF f, g, h, s

(* The size of the first code point.                                        *)
LEMMA RuneIs ==
  ASSUME NEW b \in Chars, b # <<>>
  PROVE  LET want == IF b[1] = "a" THEN 1 ELSE IF b[1] = "two" THEN 2 ELSE IF b[1] = "three" THEN 3 ELSE 0
         IN /\ RuneSize(b) = IF \E i \in 2..want : i <= Len(b) /\ b[i] # "tail" THEN 0
                                  ELSE IF Len(b) < want THEN -1 ELSE want
            /\ RuneSize(b) \in (-1)..3 /\ RuneSize(b) <= Len(b) /\ Len(b) \in Nat \ {0}
<1>1. Len(b) \in Nat \ {0}
  BY EmptySeq DEF Chars
<1>2. (CASE b[1] = "a" -> 1 [] b[1] = "two" -> 2 [] b[1] = "three" -> 3 [] OTHER -> 0)
        = IF b[1] = "a" THEN 1 ELSE IF b[1] = "two" THEN 2 ELSE IF b[1] = "three" THEN 3 ELSE 0
  OBVIOUS
<1>3. RuneSize(b) =
        LET want == IF b[1] = "a" THEN 1 ELSE IF b[1] = "two" THEN 2 ELSE IF b[1] = "three" THEN 3 ELSE 0
        IN IF \E i \in 2..want : i <= Len(b) /\ b[i] # "tail" THEN 0
           ELSE IF Len(b) < want THEN -1 ELSE want
  BY <1>2, Zenon DEF RuneSize
<1>4. QED
  BY <1>1, <1>3

(* The text from one byte on, by the text from later ones on.               *)
TextAt(b, keep, f, i) ==
  IF i > Len(b) THEN Text0
  ELSE LET n == RuneSize(From(b, i))
       IN IF n > 0 THEN [valid |-> SubSeq(b, i, i + n - 1) \o f[i + n].valid, rest |-> f[i + n].rest]
          ELSE IF n = -1 /\ keep THEN [valid |-> <<>>, rest |-> From(b, i)]
          ELSE f[i + 1]

(* Only later ones matter.                                                  *)
LEMMA TextAtIs ==
  ASSUME NEW b \in Chars, NEW keep, NEW f, NEW g, NEW i \in 1..(Len(b) + 1),
         \A j \in (i + 1)..(Len(b) + 1) : f[j] = g[j]
  PROVE  TextAt(b, keep, f, i) = TextAt(b, keep, g, i)
<1>0. Len(b) \in Nat
  BY DEF Chars
<1>1. CASE i > Len(b)
  BY <1>1 DEF TextAt
<1>2. CASE i <= Len(b)
  <2> DEFINE r == From(b, i)
             n == RuneSize(r)
  <2>1. r \in Chars /\ Len(r) = Len(b) - i + 1 /\ r # <<>>
    BY <1>0, <1>2, FromIs, EmptySeq
  <2>2. n \in (-1)..3 /\ n <= Len(b) - i + 1
    BY <2>1, RuneIs
  <2>3. i + 1 \in (i + 1)..(Len(b) + 1) /\ (n > 0 => i + n \in (i + 1)..(Len(b) + 1))
    BY <1>0, <1>2, <2>2
  <2>4. f[i + 1] = g[i + 1] /\ (n > 0 => f[i + n] = g[i + n])
    BY <2>3
  <2> HIDE DEF n, r
  <2> DEFINE some == n > 0
             open == n = -1 /\ keep
  <2>5. /\ TextAt(b, keep, f, i) = IF some THEN [valid |-> SubSeq(b, i, i + n - 1) \o f[i + n].valid, rest |-> f[i + n].rest]
                                   ELSE IF open THEN [valid |-> <<>>, rest |-> r] ELSE f[i + 1]
        /\ TextAt(b, keep, g, i) = IF some THEN [valid |-> SubSeq(b, i, i + n - 1) \o g[i + n].valid, rest |-> g[i + n].rest]
                                   ELSE IF open THEN [valid |-> <<>>, rest |-> r] ELSE g[i + 1]
    BY <1>0, <1>2 DEF TextAt, n, r
  <2>9. f[i + 1] = g[i + 1] /\ (some => f[i + n] = g[i + n])
    BY <2>4
  <2> HIDE DEF some, open
  <2>6. CASE some
    <3>1. TextAt(b, keep, f, i) = [valid |-> SubSeq(b, i, i + n - 1) \o f[i + n].valid, rest |-> f[i + n].rest]
      BY <2>5, <2>6, Zenon
    <3>2. TextAt(b, keep, g, i) = [valid |-> SubSeq(b, i, i + n - 1) \o g[i + n].valid, rest |-> g[i + n].rest]
      BY <2>5, <2>6, Zenon
    <3>3. QED
      BY <2>6, <2>9, <3>1, <3>2, Zenon
  <2>7. CASE ~some /\ open
    BY <2>5, <2>7, Zenon
  <2>10. CASE ~some /\ ~open
    <3>1. TextAt(b, keep, f, i) = f[i + 1] /\ TextAt(b, keep, g, i) = g[i + 1]
      BY <2>5, <2>10, Zenon
    <3>2. QED
      BY <2>9, <3>1
  <2>8. QED
    BY <2>6, <2>7, <2>10
<1>3. QED
  BY <1>0, <1>1, <1>2

(* TextFrom, unfolded once: the text from each byte on is that of the bytes
   that follow it.                                                          *)
LEMMA TextUnfold ==
  ASSUME NEW b \in Chars, NEW keep
  PROVE  TextFrom(b, keep) =
           [i \in 1..(Len(b) + 1) |-> TextAt(b, keep, TextFrom(b, keep), i)]
<1> DEFINE L == Len(b)
           Solves(f, m) == f = [i \in m..(L + 1) |-> TextAt(b, keep, f, i)]
           P == {d \in Nat : d <= L => \E f : Solves(f, L + 1 - d)}
<1>0. L \in Nat
  BY DEF Chars
<1> HIDE DEF Solves, L
<1>1. 0 \in P
  <2> DEFINE f == [i \in {L + 1} |-> Text0]
  <2>1. \A i \in {L + 1} : TextAt(b, keep, f, i) = Text0
    BY <1>0 DEF TextAt, L
  <2>2. L + 1 - 0 = L + 1 /\ (L + 1)..(L + 1) = {L + 1}
    BY <1>0
  <2>3. f = [i \in {L + 1} |-> TextAt(b, keep, f, i)]
    BY <2>1
  <2> HIDE DEF f
  <2>4. Solves(f, L + 1 - 0)
    BY <2>2, <2>3 DEF Solves
  <2>5. QED
    BY <2>4
<1>2. \A d \in Nat : d \in P => d + 1 \in P
  <2> SUFFICES ASSUME NEW d \in Nat, d \in P, d + 1 <= L
               PROVE  \E f : Solves(f, L + 1 - (d + 1))
    BY <1>0
  <2> DEFINE k == L + 1 - d
             h == L + 1 - (d + 1)
  <2>1. PICK f : Solves(f, k)
    BY <1>0
  <2>2. k \in 2..(L + 1) /\ h = k - 1 /\ h \in 1..L
    BY <1>0
  <2> HIDE DEF k, h
  <2> DEFINE g == [i \in h..(L + 1) |-> IF i >= k THEN f[i] ELSE TextAt(b, keep, f, i)]
  <2>3. \A i \in k..(L + 1) : g[i] = f[i]
    BY <1>0, <2>2
  <2>4. \A i \in h..(L + 1) : g[i] = TextAt(b, keep, g, i)
    <3> SUFFICES ASSUME NEW i \in h..(L + 1)
                 PROVE  g[i] = TextAt(b, keep, g, i)
      OBVIOUS
    <3>1. g[i] = TextAt(b, keep, f, i)
      <4>1. CASE i >= k
        <5>1. i \in k..(L + 1) /\ g[i] = f[i]
          BY <1>0, <2>2, <4>1
        <5>2. f[i] = TextAt(b, keep, f, i)
          BY <2>1, <5>1 DEF Solves
        <5>3. QED
          BY <5>1, <5>2
      <4>2. CASE ~(i >= k)
        BY <4>2
      <4>3. QED
        BY <4>1, <4>2
    <3>2. i \in 1..(L + 1) /\ \A j \in (i + 1)..(L + 1) : j \in k..(L + 1)
      BY <1>0, <2>2
    <3>3. \A j \in (i + 1)..(L + 1) : g[j] = f[j]
      BY <2>3, <3>2
    <3> HIDE DEF g
    <3>4. TextAt(b, keep, g, i) = TextAt(b, keep, f, i)
      BY <3>2, <3>3, TextAtIs DEF L
    <3>5. QED
      BY <3>1, <3>4
  <2>5. g = [i \in h..(L + 1) |-> TextAt(b, keep, g, i)]
    BY <2>4
  <2> HIDE DEF g
  <2>6. Solves(g, h)
    BY <2>5 DEF Solves
  <2>7. QED
    BY <2>6 DEF h
<1>3. \E f : Solves(f, 1)
  <2> HIDE DEF P
  <2>1. L \in P
    BY <1>0, <1>1, <1>2, Induct
  <2>2. \E f : Solves(f, L + 1 - L)
    BY <1>0, <2>1 DEF P
  <2>3. L + 1 - L = 1
    BY <1>0
  <2>4. QED
    BY <2>2, <2>3
<1>4. TextFrom(b, keep) = CHOOSE f : Solves(f, 1)
  BY DEF TextFrom, Solves, TextAt, Text0, L
<1>5. Solves(TextFrom(b, keep), 1)
  BY <1>3, <1>4, Zenon
<1>6. QED
  BY <1>5, Zenon DEF Solves, L

(* What is valid from a byte on is what is valid of the bytes from there.   *)
LEMMA TextShift ==
  ASSUME NEW b \in Chars, NEW keep, NEW i \in 1..(Len(b) + 1)
  PROVE  Text(From(b, i), keep) = TextFrom(b, keep)[i]
<1> DEFINE s == From(b, i)
           L == Len(b)
           M == Len(s)
           F == TextFrom(b, keep)
           G == TextFrom(s, keep)
           Bad == {d \in 0..M : G[M + 1 - d] # F[L + 1 - d]}
<1>1. s \in Chars /\ L \in Nat /\ M = L - i + 1 /\ M \in Nat
  <2>1. L \in Nat
    BY DEF Chars
  <2>2. QED
    BY <2>1, FromIs
<1>2. /\ \A j \in 1..(L + 1) : F[j] = TextAt(b, keep, F, j)
      /\ \A j \in 1..(M + 1) : G[j] = TextAt(s, keep, G, j)
  <2>1. F = [j \in 1..(L + 1) |-> TextAt(b, keep, F, j)]
    BY TextUnfold
  <2>2. G = [j \in 1..(M + 1) |-> TextAt(s, keep, G, j)]
    BY <1>1, TextUnfold
  <2> HIDE DEF F, G, L, M, s
  <2>3. QED
    BY <2>1, <2>2
<1>3. ASSUME NEW d \in 0..M, \A e \in 0..M : e < d => G[M + 1 - e] = F[L + 1 - e]
      PROVE  G[M + 1 - d] = F[L + 1 - d]
  <2> DEFINE j == M + 1 - d
             k == L + 1 - d
             r == From(b, k)
             n == RuneSize(r)
  <2>1. /\ j \in 1..(M + 1) /\ k \in 1..(L + 1) /\ i + j - 1 = k
        /\ L + 1 - k = d /\ M + 1 - j = d
    BY <1>1
  <2>2. G[j] = TextAt(s, keep, G, j) /\ F[k] = TextAt(b, keep, F, k)
    BY <1>2, <2>1
  <2>3. CASE d = 0
    <3>1. j > M /\ k > L
      BY <1>1, <2>3
    <3>2. QED
      BY <2>2, <3>1 DEF TextAt
  <2>4. CASE d > 0
    <3>1. j <= M /\ k <= L /\ ~(j > M) /\ ~(k > L)
      BY <1>1, <2>4
    <3>2. From(s, j) = r
      <4>1. j \in 1..(L - i + 2)
        BY <1>1, <2>1
      <4>2. QED
        BY <2>1, <4>1, FromFrom
    <3>3. r \in Chars /\ Len(r) = d /\ r # <<>>
      BY <1>1, <2>1, <2>4, FromIs, EmptySeq
    <3>4. n \in (-1)..3 /\ n <= d
      BY <3>3, RuneIs
    <3>5. G[j + 1] = F[k + 1]
      <4>1. d - 1 \in 0..M /\ d - 1 < d /\ M + 1 - (d - 1) = j + 1 /\ L + 1 - (d - 1) = k + 1
        BY <1>1, <2>4
      <4>2. QED
        BY <1>3, <4>1
    <3>6. n > 0 => G[j + n] = F[k + n]
      <4> SUFFICES ASSUME n > 0
                   PROVE  G[j + n] = F[k + n]
        OBVIOUS
      <4>1. d - n \in 0..M /\ d - n < d /\ M + 1 - (d - n) = j + n /\ L + 1 - (d - n) = k + n
        BY <1>1, <2>4, <3>4
      <4> HIDE DEF n
      <4>2. QED
        BY <1>3, <4>1
    <3>7. n > 0 => SubSeq(s, j, j + n - 1) = SubSeq(b, k, k + n - 1)
      <4> SUFFICES ASSUME n > 0
                   PROVE  SubSeq(s, j, j + n - 1) = SubSeq(b, k, k + n - 1)
        OBVIOUS
      <4> DEFINE u == SubSeq(s, j, j + n - 1)
                 v == SubSeq(b, k, k + n - 1)
      <4>0. n \in Int /\ n >= 1 /\ n <= d /\ d \in Int /\ i \in Int /\ L \in Int /\ M \in Int
        BY <1>1, <3>4
      <4>01. /\ j = M + 1 - d /\ k = L + 1 - d /\ j >= 1 /\ k >= 1
        BY <1>1, <2>1
      <4> HIDE DEF n, j, k, r, L, M, s, F, G
      <4>1. /\ j \in Int /\ k \in Int /\ j + n - 1 \in Int /\ k + n - 1 \in Int
            /\ j + n - 1 <= M /\ k + n - 1 <= L /\ j >= 1 /\ k >= 1
            /\ (j + n - 1) - j + 1 = n /\ (k + n - 1) - k + 1 = n /\ j <= j + n - 1 /\ k <= k + n - 1
        BY <4>0, <4>01
      <4>2. /\ \A x \in 1..M : s[x] \in STRING /\ s[x] = b[i + x - 1]
            /\ \A x \in 1..L : b[x] \in STRING
        <5>1. \A x \in 1..M : s[x] = b[i + x - 1]
          BY <1>1, FromIs DEF s, M, L
        <5>2. \A x \in 1..M : s[x] \in STRING
          BY <1>1, ElementOfSeq DEF Chars, M
        <5>3. \A x \in 1..L : b[x] \in STRING
          BY ElementOfSeq DEF Chars, L
        <5>4. QED
          BY <5>1, <5>2, <5>3
      <4>3. /\ u \in Chars /\ Len(u) = n /\ \A x \in 1..n : u[x] = s[j + x - 1]
        <5>0. \A x \in j..(j + n - 1) : x \in 1..M
          BY <4>0, <4>1
        <5>1. \A x \in j..(j + n - 1) : s[x] \in STRING
          BY <4>2, <5>0
        <5>2. /\ u \in Seq(STRING) /\ Len(u) = IF j <= j + n - 1 THEN (j + n - 1) - j + 1 ELSE 0
              /\ \A x \in 1..((j + n - 1) - j + 1) : u[x] = s[j + x - 1]
          BY <4>1, <5>1, SubSeqProperties
        <5>3. QED
          BY <4>1, <5>2 DEF Chars
      <4>4. /\ v \in Chars /\ Len(v) = n /\ \A x \in 1..n : v[x] = b[k + x - 1]
        <5>0. \A x \in k..(k + n - 1) : x \in 1..L
          BY <4>0, <4>1
        <5>1. \A x \in k..(k + n - 1) : b[x] \in STRING
          BY <4>2, <5>0
        <5>2. /\ v \in Seq(STRING) /\ Len(v) = IF k <= k + n - 1 THEN (k + n - 1) - k + 1 ELSE 0
              /\ \A x \in 1..((k + n - 1) - k + 1) : v[x] = b[k + x - 1]
          BY <4>1, <5>1, SubSeqProperties
        <5>3. QED
          BY <4>1, <5>2 DEF Chars
      <4>5. \A x \in 1..n : u[x] = v[x]
        <5> TAKE x \in 1..n
        <5>1. n \in Int
          BY <3>4
        <5>2. j + x - 1 \in 1..M /\ i + (j + x - 1) - 1 = k + x - 1
          BY <2>1, <4>0, <4>1, <5>1
        <5>3. s[j + x - 1] = b[i + (j + x - 1) - 1]
          BY <4>2, <5>2
        <5>4. QED
          BY <4>3, <4>4, <5>2, <5>3
      <4> HIDE DEF u, v
      <4>6. QED
        BY <4>3, <4>4, <4>5, CharsEqual DEF u, v
    <3> HIDE DEF n, r, s, F, G
    <3> DEFINE some == n > 0
               open == n = -1 /\ keep
    <3>8. /\ G[j] = IF some THEN [valid |-> SubSeq(s, j, j + n - 1) \o G[j + n].valid, rest |-> G[j + n].rest]
                    ELSE IF open THEN [valid |-> <<>>, rest |-> r] ELSE G[j + 1]
          /\ F[k] = IF some THEN [valid |-> SubSeq(b, k, k + n - 1) \o F[k + n].valid, rest |-> F[k + n].rest]
                    ELSE IF open THEN [valid |-> <<>>, rest |-> r] ELSE F[k + 1]
      BY <2>2, <3>1, <3>2 DEF TextAt, n, r
    <3>12. (some => G[j + n] = F[k + n] /\ SubSeq(s, j, j + n - 1) = SubSeq(b, k, k + n - 1))
      BY <3>6, <3>7
    <3> HIDE DEF j, k, some, open
    <3>9. CASE some
      <4>1. /\ G[j] = [valid |-> SubSeq(s, j, j + n - 1) \o G[j + n].valid, rest |-> G[j + n].rest]
            /\ F[k] = [valid |-> SubSeq(b, k, k + n - 1) \o F[k + n].valid, rest |-> F[k + n].rest]
        BY <3>8, <3>9, Zenon
      <4>2. G[j] = F[k]
        BY <3>9, <3>12, <4>1, Zenon
      <4>3. QED
        BY <4>2 DEF j, k
    <3>10. CASE ~some
      <4>1. CASE open
        <5>1. G[j] = F[k]
          BY <3>8, <3>10, <4>1, Zenon
        <5>2. QED
          BY <5>1 DEF j, k
      <4>3. CASE ~open
        <5>1. G[j] = G[j + 1] /\ F[k] = F[k + 1]
          BY <3>8, <3>10, <4>3, Zenon
        <5>2. G[j] = F[k]
          BY <3>5, <5>1
        <5>3. QED
          BY <5>2 DEF j, k
      <4>2. QED
        BY <4>1, <4>3
    <3>11. QED
      BY <3>9, <3>10
  <2>5. QED
    BY <1>1, <2>3, <2>4
<1> HIDE DEF F, G, L, M, s
<1>4. Bad = {}
  <2> SUFFICES ASSUME Bad # {} PROVE FALSE
    OBVIOUS
  <2>1. Bad \subseteq Nat
    BY <1>1
  <2>2. PICK d \in Bad : \A e \in Bad : d <= e
    BY <2>1, LeastNat
  <2>3. d \in 0..M /\ \A e \in 0..M : e < d => e \notin Bad
    BY <1>1, <2>2
  <2>4. QED
    BY <1>3, <2>2, <2>3
<1>5. G[1] = F[i]
  <2>0. i \in Int
    OBVIOUS
  <2>1. M \in 0..M /\ M + 1 - M = 1 /\ L + 1 - M = i
    BY <1>1, <2>0
  <2>2. M \notin Bad
    BY <1>4
  <2>3. G[M + 1 - M] = F[L + 1 - M]
    BY <2>1, <2>2
  <2>4. QED
    BY <2>1, <2>3
<1>6. QED
  BY <1>5 DEF Text, F, G, s

(* By induction on how many bytes are left.                                 *)
LEMMA CharsInduct ==
  ASSUME NEW P, \A b \in Chars : (\A c \in Chars : Len(c) < Len(b) => c \in P) => b \in P
  PROVE  Chars \subseteq P
<1> SUFFICES ASSUME Chars \ P # {} PROVE FALSE
  OBVIOUS
<1> DEFINE T == {Len(b) : b \in Chars \ P}
<1>1. \A b \in Chars : Len(b) \in Nat
  BY DEF Chars
<1>2. T \subseteq Nat /\ T # {}
  <2>1. T \subseteq Nat
    <3> SUFFICES ASSUME NEW x \in T PROVE x \in Nat
      OBVIOUS
    <3>1. PICK b \in Chars \ P : x = Len(b)
      OBVIOUS
    <3>2. QED
      BY <1>1, <3>1
  <2>2. PICK b : b \in Chars \ P
    OBVIOUS
  <2>3. Len(b) \in T
    BY <2>2
  <2>4. QED
    BY <2>1, <2>3
<1>3. PICK n \in T : \A m \in T : n <= m
  BY <1>2, LeastNat
<1>4. PICK b \in Chars \ P : n = Len(b)
  BY <1>3
<1>5. \A c \in Chars : Len(c) < Len(b) => c \in P
  <2> TAKE c \in Chars
  <2>1. CASE c \in P
    BY <2>1
  <2>2. CASE c \notin P
    <3>1. Len(c) \in T /\ Len(c) \in Nat /\ Len(b) \in Nat
      BY <1>1, <2>2
    <3>2. Len(b) <= Len(c)
      BY <1>3, <1>4, <3>1
    <3>3. QED
      BY <3>1, <3>2
  <2>3. QED
    BY <2>1, <2>2
<1>6. QED
  BY <1>4, <1>5

(* What the bytes after the first n are.                                    *)
LEMMA RestIs ==
  ASSUME NEW b \in Chars, b # <<>>, NEW n \in 1..Len(b)
  PROVE  /\ From(b, n + 1) \in Chars /\ Len(From(b, n + 1)) = Len(b) - n
         /\ Len(From(b, n + 1)) < Len(b)
         /\ \A j \in 1..(Len(b) - n) : From(b, n + 1)[j] = b[n + j]
<1>1. Len(b) \in Nat
  BY DEF Chars
<1>2. n + 1 \in 1..(Len(b) + 1) /\ n \in Int
  BY <1>1
<1>3. /\ From(b, n + 1) \in Chars /\ Len(From(b, n + 1)) = Len(b) - (n + 1) + 1
      /\ \A j \in 1..(Len(b) - (n + 1) + 1) : From(b, n + 1)[j] = b[(n + 1) + j - 1]
  BY <1>2, FromIs
<1>4. Len(b) - (n + 1) + 1 = Len(b) - n /\ \A j \in 1..(Len(b) - n) : (n + 1) + j - 1 = n + j
  BY <1>1, <1>2
<1>5. QED
  BY <1>1, <1>2, <1>3, <1>4

(* What a text is, by the text of fewer bytes.                              *)
LEMMA TextIs ==
  ASSUME NEW b \in Chars, NEW keep \in BOOLEAN
  PROVE  /\ b = <<>> => Text(b, keep) = Text0
         /\ b # <<>> /\ RuneSize(b) > 0 =>
              LET next == Text(From(b, RuneSize(b) + 1), keep)
              IN Text(b, keep) = [valid |-> SubSeq(b, 1, RuneSize(b)) \o next.valid, rest |-> next.rest]
         /\ b # <<>> /\ RuneSize(b) = -1 /\ keep => Text(b, keep) = [valid |-> <<>>, rest |-> b]
         /\ b # <<>> /\ ~(RuneSize(b) > 0) /\ ~(RuneSize(b) = -1 /\ keep) =>
              Text(b, keep) = Text(From(b, 2), keep)
<1> DEFINE L == Len(b)
           F == TextFrom(b, keep)
           n == RuneSize(b)
<1>0. L \in Nat
  BY DEF Chars
<1>1. F[1] = TextAt(b, keep, F, 1) /\ Text(b, keep) = F[1]
  <2>1. F = [j \in 1..(L + 1) |-> TextAt(b, keep, F, j)]
    BY TextUnfold
  <2>2. 1 \in 1..(L + 1)
    BY <1>0
  <2> HIDE DEF F, L
  <2>3. QED
    BY <2>1, <2>2 DEF Text, F
<1>2. CASE b = <<>>
  <2>1. 1 > L
    BY <1>2
  <2>2. F[1] = Text0
    BY <1>1, <2>1 DEF TextAt
  <2>3. QED
    BY <1>1, <1>2, <2>2
<1>3. CASE b # <<>>
  <2>1. L >= 1 /\ n \in (-1)..3 /\ n <= L
    BY <1>3, RuneIs
  <2>2. From(b, 1) = b
    <3>1. From(b, 1) \in Chars /\ Len(From(b, 1)) = L /\ \A j \in 1..L : From(b, 1)[j] = b[j]
      <4>1. 1 \in 1..(L + 1) /\ L - 1 + 1 = L
        BY <1>0
      <4>2. /\ From(b, 1) \in Chars /\ Len(From(b, 1)) = L - 1 + 1
            /\ \A j \in 1..(L - 1 + 1) : From(b, 1)[j] = b[1 + j - 1]
        BY <4>1, FromIs
      <4>3. \A j \in 1..L : 1 + j - 1 = j
        BY <1>0
      <4>4. QED
        BY <4>1, <4>2, <4>3
    <3>2. QED
      BY <3>1, CharsEqual
  <2>3. n > 0 => F[1 + n] = Text(From(b, n + 1), keep)
    <3>1. n > 0 => n + 1 \in 1..(L + 1) /\ 1 + n = n + 1
      BY <2>1
    <3>2. QED
      BY <3>1, TextShift
  <2>4. F[1 + 1] = Text(From(b, 2), keep)
    <3>1. 2 \in 1..(L + 1) /\ 1 + 1 = 2
      BY <2>1
    <3>2. QED
      BY <3>1, TextShift
  <2>5. F[1] = IF n > 0 THEN [valid |-> SubSeq(b, 1, 1 + n - 1) \o F[1 + n].valid, rest |-> F[1 + n].rest]
               ELSE IF n = -1 /\ keep THEN [valid |-> <<>>, rest |-> b] ELSE F[1 + 1]
    <3> HIDE DEF F
    <3>1. TextAt(b, keep, F, 1) =
            IF 1 > Len(b) THEN Text0
            ELSE IF RuneSize(From(b, 1)) > 0
                 THEN [valid |-> SubSeq(b, 1, 1 + RuneSize(From(b, 1)) - 1)
                                   \o F[1 + RuneSize(From(b, 1))].valid,
                       rest |-> F[1 + RuneSize(From(b, 1))].rest]
            ELSE IF RuneSize(From(b, 1)) = -1 /\ keep
                 THEN [valid |-> <<>>, rest |-> From(b, 1)] ELSE F[1 + 1]
      BY Zenon DEF TextAt
    <3> DEFINE r == From(b, 1)
    <3>2. r = b
      BY <2>2
    <3>3. ~(1 > Len(b))
      BY <2>1
    <3>4. TextAt(b, keep, F, 1) =
            IF RuneSize(r) > 0
                 THEN [valid |-> SubSeq(b, 1, 1 + RuneSize(r) - 1) \o F[1 + RuneSize(r)].valid,
                       rest |-> F[1 + RuneSize(r)].rest]
            ELSE IF RuneSize(r) = -1 /\ keep
                 THEN [valid |-> <<>>, rest |-> r] ELSE F[1 + 1]
      BY <3>1, <3>3, Zenon
    <3> HIDE DEF r
    <3>5. QED
      BY <1>1, <3>2, <3>4, Zenon
  <2>6. 1 + n - 1 = n
    BY <2>1
  <2> DEFINE next == Text(From(b, n + 1), keep)
             some == n > 0
             open == n = -1 /\ keep
  <2>7. F[1] = IF some THEN [valid |-> SubSeq(b, 1, n) \o F[1 + n].valid, rest |-> F[1 + n].rest]
               ELSE IF open THEN [valid |-> <<>>, rest |-> b] ELSE F[1 + 1]
    <3> HIDE DEF F, n
    <3>1. QED
      BY <2>5, <2>6
  <2>8. (some => F[1 + n] = next) /\ ~(some /\ open)
    BY <2>3
  <2> HIDE DEF some, open, n, F, next
  <2>9. some => F[1] = [valid |-> SubSeq(b, 1, n) \o next.valid, rest |-> next.rest]
    BY <2>7, <2>8, Zenon
  <2>10. open => F[1] = [valid |-> <<>>, rest |-> b]
    BY <2>7, <2>8, Zenon
  <2>11. ~some /\ ~open => F[1] = F[1 + 1]
    BY <2>7, Zenon
  <2>12. /\ some => Text(b, keep) = [valid |-> SubSeq(b, 1, n) \o next.valid, rest |-> next.rest]
         /\ open => Text(b, keep) = [valid |-> <<>>, rest |-> b]
         /\ ~some /\ ~open => Text(b, keep) = Text(From(b, 2), keep)
    BY <1>1, <2>4, <2>9, <2>10, <2>11
  <2>13. QED
    BY <1>3, <2>12, Zenon DEF some, open, n, next
<1>4. QED
  BY <1>2, <1>3

(* A text has valid bytes and a rest.                                       *)
LEMMA TextType ==
  ASSUME NEW b \in Chars, NEW keep \in BOOLEAN
  PROVE  /\ Text(b, keep) \in [valid : Chars, rest : Chars]
         /\ Text(b, keep).rest # <<>> => keep /\ RuneSize(Text(b, keep).rest) = -1
<1> DEFINE Ok(u) == u \in [valid : Chars, rest : Chars] /\ (u.rest # <<>> => keep /\ RuneSize(u.rest) = -1)
           P == {x \in Chars : Ok(Text(x, keep))}
<1>1. ASSUME NEW x \in Chars, \A c \in Chars : Len(c) < Len(x) => c \in P
      PROVE  Ok(Text(x, keep))
  <2> DEFINE n == RuneSize(x)
  <2>1. CASE x = <<>>
    <3>1. Text(x, keep) = Text0
      BY <2>1, TextIs
    <3>2. QED
      BY <3>1 DEF Text0, Chars
  <2>2. CASE x # <<>> /\ n > 0
    <3>1. n \in 1..Len(x)
      BY <2>2, RuneIs
    <3>2. From(x, n + 1) \in P
      BY <1>1, <2>2, <3>1, RestIs
    <3>3. SubSeq(x, 1, n) \in Chars
      <4>1. \A i \in 1..n : x[i] \in STRING
        BY <3>1, ElementOfSeq DEF Chars
      <4> HIDE DEF n
      <4>2. QED
        BY <3>1, <4>1, SubSeqProperties DEF Chars
    <3> DEFINE next == Text(From(x, n + 1), keep)
    <3>4. Text(x, keep) = [valid |-> SubSeq(x, 1, n) \o next.valid, rest |-> next.rest]
      BY <2>2, TextIs
    <3>5. Ok(next)
      BY <3>2
    <3> HIDE DEF n, next
    <3>6. SubSeq(x, 1, n) \o next.valid \in Chars
      BY <3>3, <3>5, CharsConcat
    <3>7. QED
      BY <3>4, <3>5, <3>6
  <2>3. CASE x # <<>> /\ n = -1 /\ keep
    <3>1. Text(x, keep) = [valid |-> <<>>, rest |-> x]
      BY <2>3, TextIs
    <3>2. <<>> \in Chars
      BY DEF Chars
    <3> DEFINE u == Text(x, keep)
    <3>3. u = [valid |-> <<>>, rest |-> x] /\ keep /\ n = -1
      BY <2>3, <3>1
    <3>4. u \in [valid : Chars, rest : Chars] /\ u.rest = x
      <4> HIDE DEF u, n
      <4>1. QED
        BY <3>2, <3>3
    <3>5. u.rest # <<>> => keep /\ RuneSize(u.rest) = -1
      <4> HIDE DEF u
      <4>1. QED
        BY <3>3, <3>4
    <3>6. QED
      BY <3>4, <3>5
  <2>4. CASE x # <<>> /\ ~(n > 0) /\ ~(n = -1 /\ keep)
    <3>1. Text(x, keep) = Text(From(x, 2), keep)
      BY <2>4, TextIs
    <3>2. 1 \in 1..Len(x) /\ 1 + 1 = 2
      BY <2>4, RuneIs
    <3>3. From(x, 2) \in P
      BY <1>1, <2>4, <3>2, RestIs
    <3>4. QED
      BY <3>1, <3>3
  <2>5. QED
    BY <2>1, <2>2, <2>3, <2>4
<1>2. Chars \subseteq P
  <2>1. \A x \in Chars : (\A c \in Chars : Len(c) < Len(x) => c \in P) => x \in P
    BY <1>1
  <2> HIDE DEF P
  <2>2. QED
    BY <2>1, CharsInduct
<1>3. QED
  BY <1>2

(* How many bytes the first promises, and whether another one comes first.  *)
Want(b) == IF b[1] = "a" THEN 1 ELSE IF b[1] = "two" THEN 2 ELSE IF b[1] = "three" THEN 3 ELSE 0
Cut(b) == \E i \in 2..Want(b) : i <= Len(b) /\ b[i] # "tail"

(* RuneSize: cut off by another byte, incomplete, or whole.                 *)
LEMMA RuneCases ==
  ASSUME NEW b \in Chars, b # <<>>
  PROVE  /\ Want(b) \in 0..3 /\ Len(b) \in Nat \ {0}
         /\ Cut(b) => RuneSize(b) = 0
         /\ ~Cut(b) /\ Len(b) < Want(b) => RuneSize(b) = -1
         /\ ~Cut(b) /\ ~(Len(b) < Want(b)) => RuneSize(b) = Want(b)
<1> DEFINE L == Len(b)
           n == RuneSize(b)
<1>1. n = IF \E i \in 2..Want(b) : i <= L /\ b[i] # "tail" THEN 0
          ELSE IF L < Want(b) THEN -1 ELSE Want(b)
  BY RuneIs DEF Want
<1>2. Want(b) \in 0..3 /\ L \in Nat \ {0}
  BY RuneIs DEF Want
<1> DEFINE short == L < Want(b)
<1>3. n = IF Cut(b) THEN 0 ELSE IF short THEN -1 ELSE Want(b)
  <2> HIDE DEF n
  <2>1. QED
    BY <1>1, Zenon DEF Cut
<1> HIDE DEF n, L, short
<1>4. /\ Cut(b) => n = 0
      /\ ~Cut(b) /\ short => n = -1
      /\ ~Cut(b) /\ ~short => n = Want(b)
  BY <1>3, Zenon
<1>5. QED
  BY <1>2, <1>4, Zenon DEF n, L, short

(* Bytes more do not change a code point that is whole or malformed.        *)
LEMMA RuneOfConcat ==
  ASSUME NEW b \in Chars, b # <<>>, NEW c \in Chars
  PROVE  /\ b \o c \in Chars /\ b \o c # <<>>
         /\ RuneSize(b) # -1 => RuneSize(b \o c) = RuneSize(b)
<1> DEFINE s == b \o c
           L == Len(b)
           M == Len(s)
<1>1. /\ s \in Chars /\ M = L + Len(c) /\ Len(c) \in Nat /\ L \in Nat
      /\ \A i \in 1..M : s[i] = IF i <= L THEN b[i] ELSE c[i - L]
  BY CharsConcat
<1>2. L >= 1
  BY RuneIs
<1>3. s # <<>> /\ s[1] = b[1]
  BY <1>1, <1>2, EmptySeq
<1>4. Want(s) = Want(b)
  BY <1>3 DEF Want
<1>5. Want(b) \in 0..3 /\ \A i \in 2..Want(b) : i <= L => i \in 1..M /\ i <= M /\ s[i] = b[i]
  <2>1. Want(b) \in 0..3
    BY RuneCases
  <2>2. QED
    BY <1>1, <2>1
<1> HIDE DEF s
<1>6. ASSUME RuneSize(b) # -1
      PROVE  RuneSize(s) = RuneSize(b)
  <2>1. CASE Cut(b)
    <3>1. Cut(s)
      BY <1>4, <1>5, <2>1 DEF Cut
    <3>2. QED
      BY <1>1, <1>3, <2>1, <3>1, RuneCases
  <2>2. CASE ~Cut(b)
    <3>1. ~(L < Want(b)) /\ RuneSize(b) = Want(b)
      BY <1>6, <2>2, RuneCases
    <3>2. ~(M < Want(s))
      BY <1>1, <1>4, <1>5, <3>1
    <3>3. \A i \in 2..Want(b) : i <= L
      BY <1>1, <1>5, <3>1
    <3>4. ~Cut(s)
      <4>1. \A i \in 2..Want(s) : s[i] = b[i] /\ i <= L
        BY <1>4, <1>5, <3>3
      <4>2. QED
        BY <1>4, <2>2, <4>1 DEF Cut
    <3>5. QED
      BY <1>1, <1>3, <1>4, <3>1, <3>2, <3>4, RuneCases
  <2>3. QED
    BY <2>1, <2>2
<1>7. QED
  BY <1>1, <1>3, <1>6 DEF s

(* A code point by itself has its size.                                     *)
LEMMA RuneAlone ==
  ASSUME NEW b \in Chars, b # <<>>, RuneSize(b) > 0
  PROVE  /\ SubSeq(b, 1, RuneSize(b)) \in Chars
         /\ SubSeq(b, 1, RuneSize(b)) # <<>>
         /\ Len(SubSeq(b, 1, RuneSize(b))) = RuneSize(b)
         /\ RuneSize(SubSeq(b, 1, RuneSize(b))) = RuneSize(b)
         /\ \A i \in 1..RuneSize(b) : SubSeq(b, 1, RuneSize(b))[i] = b[i]
<1> DEFINE n == RuneSize(b)
           s == SubSeq(b, 1, n)
           want == IF b[1] = "a" THEN 1 ELSE IF b[1] = "two" THEN 2 ELSE IF b[1] = "three" THEN 3 ELSE 0
<1>1. n \in 1..3 /\ n <= Len(b) /\ Len(b) \in Nat
  BY RuneIs
<1>2. s \in Chars /\ Len(s) = n /\ \A i \in 1..n : s[i] = b[i]
  <2>1. \A i \in 1..n : b[i] \in STRING
    BY <1>1, ElementOfSeq DEF Chars
  <2> HIDE DEF n
  <2>2. 1 \in Int /\ n \in Int /\ 1 <= n
    BY <1>1
  <2>3. /\ s \in Seq(STRING) /\ Len(s) = IF 1 <= n THEN n - 1 + 1 ELSE 0
        /\ \A i \in 1..(n - 1 + 1) : s[i] = b[1 + i - 1]
    BY <2>1, <2>2, SubSeqProperties
  <2>4. n - 1 + 1 = n /\ \A i \in 1..n : 1 + i - 1 = i
    BY <2>2
  <2>5. QED
    BY <2>2, <2>3, <2>4 DEF Chars
<1>3. n = IF \E i \in 2..want : i <= Len(b) /\ b[i] # "tail" THEN 0
          ELSE IF Len(b) < want THEN -1 ELSE want
  BY RuneIs
<1>4. n = want /\ ~\E i \in 2..want : i <= Len(b) /\ b[i] # "tail"
  <2> HIDE DEF n, want
  <2>1. QED
    BY <1>1, <1>3
<1>5. s # <<>> /\ s[1] = b[1]
  BY <1>1, <1>2, EmptySeq
<1>6. RuneSize(s) = IF \E i \in 2..want : i <= Len(s) /\ s[i] # "tail" THEN 0
                         ELSE IF Len(s) < want THEN -1 ELSE want
  <2>1. want = IF s[1] = "a" THEN 1 ELSE IF s[1] = "two" THEN 2 ELSE IF s[1] = "three" THEN 3 ELSE 0
    BY <1>5
  <2> HIDE DEF s, n
  <2>2. QED
    BY <1>2, <1>5, <2>1, RuneIs
<1> HIDE DEF s, n, want
<1>7. RuneSize(s) = n
  <2>1. \A i \in 2..want : i <= Len(b) /\ i \in 1..n
    BY <1>1, <1>4
  <2>2. ~(\E i \in 2..want : i <= Len(s) /\ s[i] # "tail") /\ ~(Len(s) < want)
    BY <1>1, <1>2, <1>4, <2>1
  <2>3. QED
    BY <1>4, <1>6, <2>2
<1>8. QED
  BY <1>2, <1>5, <1>7 DEF s, n

(* What an incomplete code point looks like.                                *)
LEMMA OpenIs ==
  ASSUME NEW b \in Chars, b # <<>>, RuneSize(b) = -1
  PROVE  Len(b) \in 1..2 /\ (Len(b) = 2 => b[2] = "tail")
<1>1. Want(b) \in 0..3 /\ Len(b) \in Nat \ {0} /\ ~Cut(b) /\ Len(b) < Want(b)
  BY RuneCases
<1>2. Len(b) \in 1..2
  <2> DEFINE L == Len(b)
             w == Want(b)
  <2>1. w \in 0..3 /\ L \in Nat \ {0} /\ L < w
    BY <1>1
  <2> HIDE DEF L, w
  <2>2. L \in 1..2
    BY <2>1
  <2>3. QED
    BY <2>2 DEF L
<1>3. ASSUME Len(b) = 2
      PROVE  b[2] = "tail"
  <2>1. 2 \in 2..Want(b) /\ 2 <= Len(b)
    BY <1>1, <1>3
  <2>2. QED
    BY <1>1, <2>1 DEF Cut
<1>4. QED
  BY <1>2, <1>3

(* The empty text.                                                          *)
LEMMA EmptyIs == <<>> \in Chars /\ Len(<<>>) = 0 /\ \A c \in Chars : (Len(c) = 0 => c = <<>>) /\ <<>> \o c = c /\ c \o <<>> = c
BY EmptySeq, ConcatEmptySeq DEF Chars

(* An incomplete code point that is not completed is dropped.               *)
LEMMA DropOpen ==
  ASSUME NEW b \in Chars, b # <<>>, RuneSize(b) = -1, NEW c \in Chars, NEW keep \in BOOLEAN
  PROVE  Text(From(b, 2) \o c, keep) = Text(c, keep)
<1> DEFINE r == From(b, 2)
           s == r \o c
<1>1. Len(b) \in 1..2 /\ (Len(b) = 2 => b[2] = "tail")
  BY OpenIs
<1>2. /\ r \in Chars /\ Len(r) = Len(b) - 1 /\ \A j \in 1..(Len(b) - 1) : r[j] = b[1 + j]
  <2>1. 1 \in 1..Len(b) /\ 1 + 1 = 2
    BY <1>1
  <2>2. QED
    BY <2>1, RestIs
<1> HIDE DEF r
<1>3. CASE Len(b) = 1
  <2>1. r = <<>>
    BY <1>2, <1>3, EmptyIs
  <2>2. QED
    BY <2>1, EmptyIs DEF r
<1>4. CASE Len(b) = 2
  <2>1. Len(r) = 1 /\ r[1] = "tail" /\ r # <<>>
    <3>1. Len(r) = 1 /\ 1 \in 1..(Len(b) - 1) /\ 1 + 1 = 2
      BY <1>2, <1>4
    <3>2. r[1] = b[1 + 1]
      BY <1>2, <3>1
    <3>3. QED
      BY <1>1, <1>4, <3>1, <3>2, EmptyIs
  <2>2. s \in Chars /\ s # <<>> /\ s[1] = "tail"
    <3>1. /\ s \in Chars /\ Len(s) = 1 + Len(c) /\ Len(c) \in Nat
          /\ \A i \in 1..(1 + Len(c)) : s[i] = IF i <= 1 THEN r[i] ELSE c[i - 1]
      <4>1. /\ r \o c \in Chars /\ Len(r \o c) = Len(r) + Len(c) /\ Len(c) \in Nat
            /\ \A i \in 1..(Len(r) + Len(c)) : (r \o c)[i] = IF i <= Len(r) THEN r[i] ELSE c[i - Len(r)]
        BY <1>2, CharsConcat
      <4> HIDE DEF s
      <4>2. QED
        BY <2>1, <4>1 DEF s
    <3>2. 1 \in 1..(1 + Len(c)) /\ 1 <= 1
      BY <3>1
    <3>3. s # <<>>
      BY <3>1, EmptyIs
    <3>4. QED
      BY <2>1, <3>1, <3>2, <3>3
  <2>3. RuneSize(s) = 0
    <3> HIDE DEF s
    <3>1. RuneSize(s) = IF \E i \in 2..0 : i <= Len(s) /\ s[i] # "tail" THEN 0
                             ELSE IF Len(s) < 0 THEN -1 ELSE 0
      BY <2>2, RuneIs
    <3>2. Len(s) \in Nat
      BY <2>2 DEF Chars
    <3>3. QED
      BY <3>1, <3>2
  <2>4. Text(s, keep) = Text(From(s, 2), keep)
    <3> HIDE DEF s
    <3>1. QED
      BY <2>2, <2>3, TextIs
  <2>5. From(s, 2) = c
    <3>1. 2 \in 1..(Len(r) + 1) /\ 1 \in 1..Len(r) /\ 1 + 1 = 2
      BY <2>1
    <3>2. From(s, 2) = From(r, 2) \o c
      BY <1>2, <3>1, FromConcat
    <3>3. From(r, 2) \in Chars /\ Len(From(r, 2)) = 0
      <4>1. From(r, 1 + 1) \in Chars /\ Len(From(r, 1 + 1)) = Len(r) - 1
        BY <1>2, <2>1, <3>1, RestIs
      <4>2. QED
        BY <2>1, <3>1, <4>1
    <3>4. QED
      BY <3>2, <3>3, EmptyIs
  <2>6. QED
    BY <2>4, <2>5 DEF r
<1>5. QED
  BY <1>1, <1>3, <1>4

(* The first bytes of a code point, with bytes that do not go on with it, are
   malformed: they are no text, whatever reads they came in.                *)
LEMMA TextDrops ==
  ASSUME NEW b \in Chars, b # <<>>, RuneSize(b) = -1, NEW c \in Chars, NEW keep \in BOOLEAN,
         RuneSize(b \o c) = 0
  PROVE  Text(b \o c, keep) = Text(c, keep)
<1> DEFINE s == b \o c
<1>1. s \in Chars /\ s # <<>>
  BY RuneOfConcat
<1>2. 2 \in 1..(Len(b) + 1)
  BY OpenIs
<1>3. From(s, 2) = From(b, 2) \o c
  BY <1>2, FromConcat
<1>4. Text(s, keep) = Text(From(s, 2), keep)
  <2> HIDE DEF s
  <2>1. RuneSize(s) = 0
    BY DEF s
  <2>2. QED
    BY <1>1, <2>1, TextIs
<1>5. QED
  BY <1>3, <1>4, DropOpen

(* What is valid does not depend on what is kept, and only then is there a
   rest.                                                                    *)
LEMMA TextAllIs ==
  ASSUME NEW b \in Chars
  PROVE  Text(b, FALSE) = [valid |-> Text(b, TRUE).valid, rest |-> <<>>]
<1> DEFINE V(x) == Text(x, TRUE).valid
           P == {x \in Chars : Text(x, FALSE) = [valid |-> V(x), rest |-> <<>>]}
<1>1. ASSUME NEW x \in Chars, \A c \in Chars : Len(c) < Len(x) => c \in P
      PROVE  Text(x, FALSE) = [valid |-> V(x), rest |-> <<>>]
  <2> DEFINE n == RuneSize(x)
  <2>1. CASE x = <<>>
    <3>1. Text(x, FALSE) = Text0 /\ Text(x, TRUE) = Text0
      BY <2>1, TextIs
    <3>2. Text0.valid = <<>>
      BY DEF Text0
    <3>3. V(x) = <<>>
      BY <3>1, <3>2
    <3>4. QED
      BY <3>1, <3>3 DEF Text0
  <2>2. CASE x # <<>> /\ n > 0
    <3>1. n \in 1..Len(x)
      BY <2>2, RuneIs
    <3> DEFINE y == From(x, n + 1)
    <3>2. y \in P
      BY <1>1, <2>2, <3>1, RestIs
    <3>3. /\ Text(x, FALSE) = [valid |-> SubSeq(x, 1, n) \o Text(y, FALSE).valid, rest |-> Text(y, FALSE).rest]
          /\ Text(x, TRUE) = [valid |-> SubSeq(x, 1, n) \o Text(y, TRUE).valid, rest |-> Text(y, TRUE).rest]
      BY <2>2, TextIs
    <3>4. Text(y, FALSE) = [valid |-> Text(y, TRUE).valid, rest |-> <<>>]
      BY <3>2
    <3> DEFINE w == Text(x, FALSE)
               u == Text(x, TRUE)
               wy == Text(y, FALSE)
               uy == Text(y, TRUE)
               p == SubSeq(x, 1, n)
    <3>5. /\ w = [valid |-> p \o wy.valid, rest |-> wy.rest]
          /\ u = [valid |-> p \o uy.valid, rest |-> uy.rest]
          /\ wy = [valid |-> uy.valid, rest |-> <<>>]
      BY <3>3, <3>4
    <3> HIDE DEF y, n, w, u, wy, uy, p
    <3>6. w = [valid |-> u.valid, rest |-> <<>>]
      <4>1. wy.valid = uy.valid /\ wy.rest = <<>> /\ u.valid = p \o uy.valid
        BY <3>5
      <4>2. QED
        BY <3>5, <4>1
    <3>7. QED
      BY <3>6 DEF w, u
  <2>3. CASE x # <<>> /\ n = -1
    <3>1. Text(x, TRUE) = [valid |-> <<>>, rest |-> x]
      BY <2>3, TextIs
    <3>2. Text(x, FALSE) = Text(From(x, 2), FALSE)
      <4>1. ~(n > 0) /\ ~(n = -1 /\ FALSE)
        BY <2>3
      <4>2. QED
        BY <2>3, <4>1, TextIs
    <3>3. From(x, 2) \o <<>> = From(x, 2)
      <4>1. 2 \in 1..(Len(x) + 1)
        BY <2>3, OpenIs
      <4>2. From(x, 2) \in Chars
        BY <4>1, FromIs
      <4>3. QED
        BY <4>2, EmptyIs
    <3>4. Text(From(x, 2) \o <<>>, FALSE) = Text(<<>>, FALSE)
      BY <2>3, EmptyIs, DropOpen
    <3>5. Text(<<>>, FALSE) = Text0
      BY EmptyIs, TextIs
    <3> DEFINE u == Text(x, TRUE)
    <3>6. Text(x, FALSE) = Text0
      BY <3>2, <3>3, <3>4, <3>5
    <3>7. u.valid = <<>>
      <4>1. u = [valid |-> <<>>, rest |-> x]
        BY <3>1
      <4> HIDE DEF u
      <4>2. QED
        BY <4>1
    <3>8. QED
      BY <3>6, <3>7 DEF Text0
  <2>4. CASE x # <<>> /\ ~(n > 0) /\ n # -1
    <3> DEFINE y == From(x, 2)
    <3>1. Text(x, FALSE) = Text(y, FALSE) /\ Text(x, TRUE) = Text(y, TRUE)
      BY <2>4, TextIs
    <3>2. 1 \in 1..Len(x) /\ 1 + 1 = 2
      BY <2>4, RuneIs
    <3>3. y \in P
      BY <1>1, <2>4, <3>2, RestIs
    <3>4. QED
      BY <3>1, <3>3
  <2>5. QED
    BY <2>1, <2>2, <2>3, <2>4
<1>2. Chars \subseteq P
  <2>1. \A x \in Chars : (\A c \in Chars : Len(c) < Len(x) => c \in P) => x \in P
    BY <1>1
  <2> HIDE DEF P
  <2>2. QED
    BY <2>1, CharsInduct
<1>3. QED
  BY <1>2

(* Three parts, put together.                                               *)
LEMMA CharsAssoc ==
  ASSUME NEW p \in Chars, NEW v \in Chars, NEW w \in Chars
  PROVE  (p \o v) \o w = p \o (v \o w)
<1> DEFINE l == (p \o v) \o w
           r == p \o (v \o w)
           pv == p \o v
           vw == v \o w
<1>1. /\ pv \in Chars /\ Len(pv) = Len(p) + Len(v) /\ Len(p) \in Nat /\ Len(v) \in Nat
      /\ \A i \in 1..(Len(p) + Len(v)) : pv[i] = IF i <= Len(p) THEN p[i] ELSE v[i - Len(p)]
  BY CharsConcat
<1>2. /\ vw \in Chars /\ Len(vw) = Len(v) + Len(w) /\ Len(w) \in Nat
      /\ \A i \in 1..(Len(v) + Len(w)) : vw[i] = IF i <= Len(v) THEN v[i] ELSE w[i - Len(v)]
  BY CharsConcat
<1> HIDE DEF pv, vw
<1>3. /\ pv \o w \in Chars /\ Len(pv \o w) = Len(pv) + Len(w)
      /\ \A i \in 1..(Len(pv) + Len(w)) : (pv \o w)[i] = IF i <= Len(pv) THEN pv[i] ELSE w[i - Len(pv)]
  BY <1>1, CharsConcat
<1>4. /\ p \o vw \in Chars /\ Len(p \o vw) = Len(p) + Len(vw)
      /\ \A i \in 1..(Len(p) + Len(vw)) : (p \o vw)[i] = IF i <= Len(p) THEN p[i] ELSE vw[i - Len(p)]
  BY <1>2, CharsConcat
<1>5. /\ l \in Chars /\ Len(l) = Len(pv) + Len(w)
      /\ \A i \in 1..(Len(pv) + Len(w)) : l[i] = IF i <= Len(pv) THEN pv[i] ELSE w[i - Len(pv)]
  BY <1>3 DEF pv
<1>6. /\ r \in Chars /\ Len(r) = Len(p) + Len(vw)
      /\ \A i \in 1..(Len(p) + Len(vw)) : r[i] = IF i <= Len(p) THEN p[i] ELSE vw[i - Len(p)]
  BY <1>4 DEF vw
<1> HIDE DEF l, r
<1>7. Len(l) = Len(r) /\ \A i \in 1..Len(l) : l[i] = r[i]
  <2>1. Len(l) = Len(r) /\ Len(l) = Len(p) + Len(v) + Len(w)
    BY <1>1, <1>2, <1>5, <1>6
  <2>2. ASSUME NEW i \in 1..Len(l)
        PROVE  l[i] = r[i]
    <3>1. i \in 1..(Len(pv) + Len(w)) /\ i \in 1..(Len(p) + Len(vw)) /\ i \in Int /\ i >= 1
      BY <1>1, <1>2, <2>1
    <3>2. CASE i <= Len(p)
      <4>1. i <= Len(pv) /\ i \in 1..(Len(p) + Len(v))
        BY <1>1, <3>1, <3>2
      <4>2. l[i] = p[i]
        BY <1>1, <1>5, <3>1, <3>2, <4>1
      <4>3. r[i] = p[i]
        BY <1>6, <3>1, <3>2
      <4>4. QED
        BY <4>2, <4>3
    <3>3. CASE i > Len(p) /\ i <= Len(pv)
      <4>1. i \in 1..(Len(p) + Len(v)) /\ i - Len(p) \in 1..(Len(v) + Len(w)) /\ i - Len(p) <= Len(v) /\ ~(i <= Len(p))
        BY <1>1, <1>2, <3>1, <3>3
      <4>2. l[i] = pv[i] /\ pv[i] = v[i - Len(p)]
        BY <1>1, <1>5, <3>1, <3>3, <4>1
      <4>3. r[i] = vw[i - Len(p)] /\ vw[i - Len(p)] = v[i - Len(p)]
        BY <1>2, <1>6, <3>1, <4>1
      <4>4. QED
        BY <4>2, <4>3
    <3>4. CASE i > Len(pv)
      <4>1. /\ i - Len(p) \in 1..(Len(v) + Len(w)) /\ ~(i - Len(p) <= Len(v)) /\ ~(i <= Len(p)) /\ ~(i <= Len(pv))
            /\ i - Len(p) - Len(v) = i - Len(pv)
        BY <1>1, <1>2, <2>1, <3>1, <3>4
      <4>2. l[i] = w[i - Len(pv)]
        BY <1>5, <3>1, <4>1
      <4>3. r[i] = vw[i - Len(p)] /\ vw[i - Len(p)] = w[i - Len(p) - Len(v)]
        BY <1>2, <1>6, <3>1, <4>1
      <4>4. QED
        BY <4>1, <4>2, <4>3
    <3>5. QED
      BY <1>1, <3>1, <3>2, <3>3, <3>4
  <2>3. QED
    BY <2>1, <2>2
<1>8. QED
  BY <1>5, <1>6, <1>7, CharsEqual DEF l, r

(* The text of two parts: of the first, and of what it leaves open together
   with the second.                                                         *)
LEMMA TextOfConcat ==
  ASSUME NEW b \in Chars, NEW c \in Chars, NEW keep \in BOOLEAN
  PROVE  LET u == Text(b, TRUE)
             v == Text(u.rest \o c, keep)
         IN Text(b \o c, keep) = [valid |-> u.valid \o v.valid, rest |-> v.rest]
<1> DEFINE U(x) == Text(x, TRUE)
           W(x) == Text(U(x).rest \o c, keep)
           P == {x \in Chars : Text(x \o c, keep) = [valid |-> U(x).valid \o W(x).valid, rest |-> W(x).rest]}
<1>1. ASSUME NEW x \in Chars, \A d \in Chars : Len(d) < Len(x) => d \in P
      PROVE  Text(x \o c, keep) = [valid |-> U(x).valid \o W(x).valid, rest |-> W(x).rest]
  <2> DEFINE n == RuneSize(x)
  <2>0. /\ U(x) \in [valid : Chars, rest : Chars] /\ W(x) \in [valid : Chars, rest : Chars]
    <3>1. U(x) \in [valid : Chars, rest : Chars]
      BY TextType
    <3>2. U(x).rest \o c \in Chars
      BY <3>1, CharsConcat
    <3>3. QED
      BY <3>1, <3>2, TextType
  <2>1. CASE x = <<>>
    <3>1. U(x) = Text0
      BY <2>1, TextIs
    <3>2. U(x).rest \o c = c /\ x \o c = c /\ U(x).valid = <<>>
      <4>1. Text0.rest = <<>> /\ Text0.valid = <<>>
        BY DEF Text0
      <4>2. U(x).rest = <<>> /\ U(x).valid = <<>>
        BY <3>1, <4>1
      <4>3. <<>> \o c = c
        BY EmptyIs
      <4>4. QED
        BY <2>1, <4>2, <4>3
    <3>3. <<>> \o W(x).valid = W(x).valid
      BY <2>0, EmptyIs
    <3>4. W(x) = Text(x \o c, keep)
      BY <3>2
    <3>5. W(x) = [valid |-> W(x).valid, rest |-> W(x).rest]
      BY <2>0
    <3>6. QED
      BY <3>2, <3>3, <3>4, <3>5
  <2>2. CASE x # <<>> /\ n > 0
    <3>1. n \in 1..Len(x)
      BY <2>2, RuneIs
    <3> DEFINE y == From(x, n + 1)
               p == SubSeq(x, 1, n)
               s == x \o c
    <3>2. y \in P
      BY <1>1, <2>2, <3>1, RestIs
    <3>3. U(x) = [valid |-> p \o U(y).valid, rest |-> U(y).rest]
      BY <2>2, TextIs
    <3>4. s \in Chars /\ s # <<>> /\ RuneSize(s) = n
      BY <2>2, RuneOfConcat
    <3>5. Text(s, keep) = [valid |-> SubSeq(s, 1, n) \o Text(From(s, n + 1), keep).valid,
                                rest |-> Text(From(s, n + 1), keep).rest]
      <4> DEFINE m == RuneSize(s)
      <4>1. m > 0 /\ m = n
        BY <2>2, <3>4
      <4>2. s # <<>> /\ m > 0 =>
              Text(s, keep) = [valid |-> SubSeq(s, 1, m) \o Text(From(s, m + 1), keep).valid,
                                    rest |-> Text(From(s, m + 1), keep).rest]
        <5> HIDE DEF s
        <5>1. QED
          BY <3>4, TextIs
      <4> HIDE DEF s, m, n
      <4>3. QED
        BY <3>4, <4>1, <4>2
    <3>6. From(s, n + 1) = y \o c
      <4>1. n + 1 \in 1..(Len(x) + 1)
        BY <3>1
      <4>2. QED
        BY <4>1, FromConcat
    <3>7. SubSeq(s, 1, n) = p /\ p \in Chars
      <4>1. p \in Chars /\ Len(p) = n /\ \A i \in 1..n : p[i] = x[i]
        BY <2>2, RuneAlone
      <4>2. SubSeq(s, 1, n) \in Chars /\ Len(SubSeq(s, 1, n)) = n /\ \A i \in 1..n : SubSeq(s, 1, n)[i] = s[i]
        <5> DEFINE m == RuneSize(s)
        <5>1. m > 0 /\ m = n
          BY <2>2, <3>4
        <5>2. /\ SubSeq(s, 1, m) \in Chars /\ Len(SubSeq(s, 1, m)) = m
              /\ \A i \in 1..m : SubSeq(s, 1, m)[i] = s[i]
          <6> HIDE DEF s
          <6>1. QED
            BY <3>4, <5>1, RuneAlone
        <5> HIDE DEF s, m, n
        <5>3. QED
          BY <5>1, <5>2
      <4>3. \A i \in 1..n : s[i] = x[i]
        <5>1. \A i \in 1..(Len(x) + Len(c)) : s[i] = IF i <= Len(x) THEN x[i] ELSE c[i - Len(x)]
          BY CharsConcat
        <5>2. Len(x) \in Nat /\ Len(c) \in Nat
          BY DEF Chars
        <5>3. \A i \in 1..n : i \in 1..(Len(x) + Len(c)) /\ i <= Len(x)
          BY <3>1, <5>2
        <5>4. QED
          BY <5>1, <5>3
      <4>4. QED
        BY <4>1, <4>2, <4>3, CharsEqual
    <3>8. y \in Chars /\ Text(y \o c, keep) = [valid |-> U(y).valid \o W(y).valid, rest |-> W(y).rest]
      BY <3>2
    <3>9. U(y) \in [valid : Chars, rest : Chars] /\ W(y) \in [valid : Chars, rest : Chars]
      <4>1. U(y) \in [valid : Chars, rest : Chars]
        BY <3>8, TextType
      <4>2. U(y).rest \o c \in Chars
        BY <4>1, CharsConcat
      <4>3. QED
        BY <4>1, <4>2, TextType
    <3>10. W(x) = W(y)
      <4> DEFINE ux == U(x)
                 uy == U(y)
                 q == p \o uy.valid
      <4>1. ux = [valid |-> q, rest |-> uy.rest]
        BY <3>3
      <4>2. ux.rest = uy.rest
        <5> HIDE DEF ux, uy, q
        <5>1. QED
          BY <4>1
      <4>3. QED
        BY <4>2
    <3>11. p \o (U(y).valid \o W(y).valid) = (p \o U(y).valid) \o W(y).valid
      <4> DEFINE v == U(y).valid
                 w == W(y).valid
      <4>1. p \in Chars /\ v \in Chars /\ w \in Chars
        BY <3>7, <3>9
      <4> HIDE DEF p, v, w
      <4>4. ASSUME NEW i \in Chars, NEW j \in Chars, NEW k \in Chars
            PROVE  (i \o j) \o k = i \o (j \o k)
        BY CharsAssoc
      <4>5. \A k \in Chars : (p \o v) \o k = p \o (v \o k)
        <5>1. \A j, k \in Chars : (p \o j) \o k = p \o (j \o k)
          BY <4>1, <4>4
        <5>2. QED
          BY <4>1, <5>1
      <4>2. (p \o v) \o w = p \o (v \o w)
        BY <4>1, <4>5
      <4>3. QED
        BY <4>2 DEF v, w
    <3> DEFINE wx == W(x)
               wy == W(y)
               ux == U(x)
               uy == U(y)
               tx == Text(s, keep)
               ty == Text(y \o c, keep)
    <3>12. tx = [valid |-> p \o (uy.valid \o wy.valid), rest |-> wy.rest]
      <4>1. tx = [valid |-> p \o ty.valid, rest |-> ty.rest]
        BY <3>5, <3>6, <3>7
      <4>2. ty = [valid |-> uy.valid \o wy.valid, rest |-> wy.rest]
        BY <3>8
      <4> HIDE DEF tx, ty, uy, wy, p
      <4>3. ty.valid = uy.valid \o wy.valid /\ ty.rest = wy.rest
        BY <4>2
      <4>4. QED
        BY <4>1, <4>3
    <3>15. /\ ux = [valid |-> p \o uy.valid, rest |-> uy.rest] /\ wx = wy
           /\ p \o (uy.valid \o wy.valid) = (p \o uy.valid) \o wy.valid
      BY <3>3, <3>10, <3>11
    <3> HIDE DEF wx, wy, ux, uy, tx, p
    <3>13. tx = [valid |-> ux.valid \o wx.valid, rest |-> wx.rest]
      <4>1. ux.valid = p \o uy.valid
        BY <3>15
      <4>2. QED
        BY <3>12, <3>15, <4>1
    <3>14. QED
      BY <3>13 DEF tx, ux, wx
  <2>3. CASE x # <<>> /\ n = -1
    <3>1. U(x) = [valid |-> <<>>, rest |-> x]
      BY <2>3, TextIs
    <3>2. U(x).rest \o c = x \o c /\ U(x).valid = <<>>
      <4> DEFINE ux == U(x)
      <4>1. ux = [valid |-> <<>>, rest |-> x]
        BY <3>1
      <4>2. ux.valid = <<>> /\ ux.rest = x
        <5> HIDE DEF ux
        <5>1. QED
          BY <4>1
      <4>3. QED
        BY <4>2
    <3>3. <<>> \o W(x).valid = W(x).valid
      BY <2>0, EmptyIs
    <3>4. W(x) = Text(x \o c, keep)
      BY <3>2
    <3>5. W(x) = [valid |-> W(x).valid, rest |-> W(x).rest]
      BY <2>0
    <3>6. QED
      BY <3>2, <3>3, <3>4, <3>5
  <2>4. CASE x # <<>> /\ ~(n > 0) /\ n # -1
    <3> DEFINE y == From(x, 2)
               s == x \o c
    <3>1. U(x) = U(y)
      BY <2>4, TextIs
    <3>2. 1 \in 1..Len(x) /\ 1 + 1 = 2 /\ 2 \in 1..(Len(x) + 1)
      BY <2>4, RuneIs
    <3>3. y \in P
      BY <1>1, <2>4, <3>2, RestIs
    <3>4. s \in Chars /\ s # <<>> /\ RuneSize(s) = n
      BY <2>4, RuneOfConcat
    <3>5. Text(s, keep) = Text(From(s, 2), keep)
      <4> HIDE DEF s
      <4>1. ~(RuneSize(s) > 0) /\ RuneSize(s) # -1
        BY <2>4, <3>4
      <4>2. QED
        BY <3>4, <4>1, TextIs
    <3>6. From(s, 2) = y \o c
      BY <3>2, FromConcat
    <3>7. Text(y \o c, keep) = [valid |-> U(y).valid \o W(y).valid, rest |-> W(y).rest]
      BY <3>3
    <3>8. QED
      BY <3>1, <3>5, <3>6, <3>7
  <2>5. QED
    BY <2>1, <2>2, <2>3, <2>4
<1>2. Chars \subseteq P
  <2>1. \A x \in Chars : (\A d \in Chars : Len(d) < Len(x) => d \in P) => x \in P
    BY <1>1
  <2> HIDE DEF P
  <2>2. QED
    BY <2>1, CharsInduct
<1>3. QED
  BY <1>2

-----------------------------------------------------------------------------
(* The text of a trace up to each event and that of the first records of a
   cast, and what one more of them adds.                                    *)
CastEventSet == [type : STRING, bytes : Seq(STRING), t : Int]
(* The traces a bundle can hold: the event times of one are checked when it
   is opened.                                                               *)
Timed == {es \in Seq(CastEventSet) : \A i, j \in DOMAIN es : i <= j => es[i].t <= es[j].t}
CastMarks == [t : Int, kind : {"m", "r", "i"}, data : Nat]
CastRecords == [t : Int, kind : {"o"}, data : Chars] \cup CastMarks

UpTo0 == [text |-> <<>>, open |-> <<>>]
UpToNext(before, e) ==
  IF e.type = "output" THEN [text |-> before.text, open |-> before.open \o e.bytes]
  ELSE IF e.type = "marker" THEN before
  ELSE [text |-> before.text \o CastUTF8(before.open, TRUE).valid, open |-> <<>>]
WrittenNext(w, r) == IF r.kind = "o" THEN w \o r.data ELSE w

(* The text up to each event, unfolded once.                                *)
LEMMA UpToUnfold ==
  ASSUME NEW es, Len(es) \in Nat
  PROVE  TextUpTo(es) =
           [i \in 0..Len(es) |-> IF i = 0 THEN UpTo0 ELSE UpToNext(TextUpTo(es)[i - 1], es[i])]
<1> DEFINE Next1(x, i) == UpToNext(x, es[i])
           Solves(f, m) == f = [i \in 0..m |-> IF i = 0 THEN UpTo0 ELSE Next1(f[i - 1], i)]
           P == {m \in Nat : \E f : Solves(f, m)}
<1> HIDE DEF Next1, Solves
<1>1. 0 \in P
  <2>1. Solves([i \in {0} |-> UpTo0], 0)
    BY DEF Solves
  <2>2. QED
    BY <2>1
<1>2. \A m \in Nat : m \in P => m + 1 \in P
  <2> SUFFICES ASSUME NEW m \in Nat, m \in P
               PROVE  \E f : Solves(f, m + 1)
    OBVIOUS
  <2> DEFINE k == m + 1
  <2>1. PICK f : Solves(f, m)
    OBVIOUS
  <2> DEFINE g == [i \in 0..k |-> IF i < k THEN f[i] ELSE Next1(f[m], i)]
  <2>2. \A i \in 0..k : g[i] = IF i = 0 THEN UpTo0 ELSE Next1(g[i - 1], i)
    <3> TAKE i \in 0..k
    <3>1. CASE i = 0
      BY <2>1, <3>1 DEF Solves
    <3>2. CASE i \in 1..m
      BY <2>1, <3>2 DEF Solves
    <3>3. CASE i = k
      BY <3>3
    <3>4. QED
      BY <3>1, <3>2, <3>3
  <2>3. g = [i \in 0..k |-> IF i = 0 THEN UpTo0 ELSE Next1(g[i - 1], i)]
    BY <2>2
  <2> HIDE DEF g
  <2>4. Solves(g, m + 1)
    BY <2>3 DEF Solves
  <2>5. QED
    BY <2>4
<1>3. \E f : Solves(f, Len(es))
  <2> HIDE DEF P
  <2>1. Len(es) \in P
    BY <1>1, <1>2, Induct
  <2>2. QED
    BY <2>1 DEF P
<1>4. TextUpTo(es) = CHOOSE f : Solves(f, Len(es))
  BY DEF TextUpTo, Solves, Next1, UpToNext, UpTo0
<1>5. Solves(TextUpTo(es), Len(es))
  BY <1>3, <1>4, Zenon
<1>6. QED
  BY <1>5, Zenon DEF Solves, Next1

(* The text of the first records, unfolded once.                            *)
LEMMA WrittenUnfold ==
  ASSUME NEW es, Len(es) \in Nat
  PROVE  Written(es) =
           [i \in 0..Len(es) |-> IF i = 0 THEN <<>> ELSE WrittenNext(Written(es)[i - 1], es[i])]
<1> DEFINE Next1(x, i) == WrittenNext(x, es[i])
           Solves(f, m) == f = [i \in 0..m |-> IF i = 0 THEN <<>> ELSE Next1(f[i - 1], i)]
           P == {m \in Nat : \E f : Solves(f, m)}
<1> HIDE DEF Next1, Solves
<1>1. 0 \in P
  <2>1. Solves([i \in {0} |-> <<>>], 0)
    BY DEF Solves
  <2>2. QED
    BY <2>1
<1>2. \A m \in Nat : m \in P => m + 1 \in P
  <2> SUFFICES ASSUME NEW m \in Nat, m \in P
               PROVE  \E f : Solves(f, m + 1)
    OBVIOUS
  <2> DEFINE k == m + 1
  <2>1. PICK f : Solves(f, m)
    OBVIOUS
  <2> DEFINE g == [i \in 0..k |-> IF i < k THEN f[i] ELSE Next1(f[m], i)]
  <2>2. \A i \in 0..k : g[i] = IF i = 0 THEN <<>> ELSE Next1(g[i - 1], i)
    <3> TAKE i \in 0..k
    <3>1. CASE i = 0
      BY <2>1, <3>1 DEF Solves
    <3>2. CASE i \in 1..m
      BY <2>1, <3>2 DEF Solves
    <3>3. CASE i = k
      BY <3>3
    <3>4. QED
      BY <3>1, <3>2, <3>3
  <2>3. g = [i \in 0..k |-> IF i = 0 THEN <<>> ELSE Next1(g[i - 1], i)]
    BY <2>2
  <2> HIDE DEF g
  <2>4. Solves(g, m + 1)
    BY <2>3 DEF Solves
  <2>5. QED
    BY <2>4
<1>3. \E f : Solves(f, Len(es))
  <2> HIDE DEF P
  <2>1. Len(es) \in P
    BY <1>1, <1>2, Induct
  <2>2. QED
    BY <2>1 DEF P
<1>4. Written(es) = CHOOSE f : Solves(f, Len(es))
  BY DEF Written, Solves, Next1, WrittenNext
<1>5. Solves(Written(es), Len(es))
  BY <1>3, <1>4, Zenon
<1>6. QED
  BY <1>5, Zenon DEF Solves, Next1

(* What is closed and what is open up to each event.                        *)
LEMMA UpToIs ==
  ASSUME NEW es \in Seq(CastEventSet)
  PROVE  /\ TextUpTo(es)[0] = UpTo0
         /\ \A i \in 0..Len(es) : TextUpTo(es)[i] \in [text : Chars, open : Chars]
         /\ \A i \in 1..Len(es) : TextUpTo(es)[i] = UpToNext(TextUpTo(es)[i - 1], es[i])
<1> DEFINE F == TextUpTo(es)
           L == Len(es)
           S == [text : Chars, open : Chars]
<1>1. L \in Nat
  OBVIOUS
<1>2. F[0] = UpTo0 /\ \A i \in 1..L : F[i] = UpToNext(F[i - 1], es[i])
  <2>1. F = [i \in 0..L |-> IF i = 0 THEN UpTo0 ELSE UpToNext(F[i - 1], es[i])]
    BY <1>1, UpToUnfold
  <2> HIDE DEF F, L
  <2>2. QED
    BY <1>1, <2>1
<1>3. UpTo0 \in S
  BY EmptyIs DEF UpTo0
<1>4. ASSUME NEW x \in S, NEW e \in CastEventSet
      PROVE  UpToNext(x, e) \in S
  <2>1. x.text \in Chars /\ x.open \in Chars /\ e.bytes \in Chars
    BY DEF CastEventSet, Chars
  <2>2. x.open \o e.bytes \in Chars
    BY <2>1, CharsConcat
  <2>3. CastUTF8(x.open, TRUE).valid \in Chars
    <3>1. CastUTF8(x.open, TRUE) = Text(x.open, FALSE)
      BY DEF CastUTF8
    <3>2. Text(x.open, FALSE) \in [valid : Chars, rest : Chars]
      BY <2>1, TextType
    <3>3. QED
      BY <3>1, <3>2
  <2>4. x.text \o CastUTF8(x.open, TRUE).valid \in Chars /\ <<>> \in Chars
    BY <2>1, <2>3, CharsConcat, EmptyIs
  <2>5. QED
    BY <2>1, <2>2, <2>4 DEF UpToNext
<1> DEFINE P == {i \in Nat : i <= L => F[i] \in S}
<1>5. 0 \in P
  BY <1>2, <1>3
<1>6. \A i \in Nat : i \in P => i + 1 \in P
  <2> SUFFICES ASSUME NEW i \in Nat, i \in P, i + 1 <= L
               PROVE  F[i + 1] \in S
    OBVIOUS
  <2>1. i + 1 \in 1..L /\ (i + 1) - 1 = i /\ F[i] \in S
    BY <1>1
  <2>2. es[i + 1] \in CastEventSet
    BY <2>1, ElementOfSeq
  <2>3. F[i + 1] = UpToNext(F[i], es[i + 1])
    BY <1>2, <2>1
  <2>4. QED
    BY <1>4, <2>1, <2>2, <2>3
<1> HIDE DEF F, L
<1>7. \A i \in 0..L : F[i] \in S
  <2> SUFFICES ASSUME NEW i \in 0..L PROVE F[i] \in S
    OBVIOUS
  <2> HIDE DEF P
  <2>1. i \in P
    BY <1>5, <1>6, Induct
  <2>2. QED
    BY <1>1, <2>1 DEF P
<1>8. QED
  BY <1>2, <1>7 DEF F, L

(* What the first records of a cast have written.                           *)
LEMMA WrittenIs ==
  ASSUME NEW rs \in Seq(CastRecords)
  PROVE  /\ Written(rs)[0] = <<>>
         /\ \A i \in 0..Len(rs) : Written(rs)[i] \in Chars
         /\ \A i \in 1..Len(rs) : Written(rs)[i] = WrittenNext(Written(rs)[i - 1], rs[i])
<1> DEFINE F == Written(rs)
           L == Len(rs)
<1>1. L \in Nat
  OBVIOUS
<1>2. F[0] = <<>> /\ \A i \in 1..L : F[i] = WrittenNext(F[i - 1], rs[i])
  <2>1. F = [i \in 0..L |-> IF i = 0 THEN <<>> ELSE WrittenNext(F[i - 1], rs[i])]
    BY <1>1, WrittenUnfold
  <2> HIDE DEF F, L
  <2>2. QED
    BY <1>1, <2>1
<1>3. ASSUME NEW x \in Chars, NEW r \in CastRecords
      PROVE  WrittenNext(x, r) \in Chars
  <2>1. r.kind = "o" => r.data \in Chars
    BY DEF CastRecords, CastMarks
  <2>2. r.kind = "o" => x \o r.data \in Chars
    BY <2>1, CharsConcat
  <2>3. QED
    BY <2>2 DEF WrittenNext
<1> DEFINE P == {i \in Nat : i <= L => F[i] \in Chars}
<1>5. 0 \in P
  BY <1>2, EmptyIs
<1>6. \A i \in Nat : i \in P => i + 1 \in P
  <2> SUFFICES ASSUME NEW i \in Nat, i \in P, i + 1 <= L
               PROVE  F[i + 1] \in Chars
    OBVIOUS
  <2>1. i + 1 \in 1..L /\ (i + 1) - 1 = i /\ F[i] \in Chars
    BY <1>1
  <2>2. rs[i + 1] \in CastRecords
    BY <2>1, ElementOfSeq
  <2>3. F[i + 1] = WrittenNext(F[i], rs[i + 1])
    BY <1>2, <2>1
  <2>4. QED
    BY <1>3, <2>1, <2>2, <2>3
<1> HIDE DEF F, L
<1>7. \A i \in 0..L : F[i] \in Chars
  <2> SUFFICES ASSUME NEW i \in 0..L PROVE F[i] \in Chars
    OBVIOUS
  <2> HIDE DEF P
  <2>1. i \in P
    BY <1>5, <1>6, Induct
  <2>2. QED
    BY <1>1, <2>1 DEF P
<1>8. QED
  BY <1>2, <1>7 DEF F, L

(* Records that come later do not change what the first have written.       *)
LEMMA WrittenBefore ==
  ASSUME NEW rs \in Seq(CastRecords), NEW ss \in Seq(CastRecords),
         Len(rs) <= Len(ss), \A i \in 1..Len(rs) : ss[i] = rs[i]
  PROVE  \A i \in 0..Len(rs) : Written(ss)[i] = Written(rs)[i]
<1> DEFINE F == Written(rs)
           G == Written(ss)
           L == Len(rs)
           P == {i \in Nat : i <= L => G[i] = F[i]}
<1>1. L \in Nat /\ Len(ss) \in Nat
  OBVIOUS
<1>2. /\ F[0] = <<>> /\ \A i \in 1..L : F[i] = WrittenNext(F[i - 1], rs[i])
      /\ G[0] = <<>> /\ \A i \in 1..Len(ss) : G[i] = WrittenNext(G[i - 1], ss[i])
  BY WrittenIs
<1>7. Len(rs) <= Len(ss)
  OBVIOUS
<1> HIDE DEF F, G, L
<1>3. 0 \in P
  BY <1>2
<1>4. \A i \in Nat : i \in P => i + 1 \in P
  <2> SUFFICES ASSUME NEW i \in Nat, i \in P, i + 1 <= L
               PROVE  G[i + 1] = F[i + 1]
    OBVIOUS
  <2>1. i + 1 \in 1..L /\ (i + 1) - 1 = i /\ G[i] = F[i] /\ i + 1 \in 1..Len(ss)
    BY <1>1, <1>7 DEF L
  <2>2. F[i + 1] = WrittenNext(F[i], rs[i + 1]) /\ G[i + 1] = WrittenNext(G[i], ss[i + 1])
    BY <1>2, <2>1
  <2>3. ss[i + 1] = rs[i + 1]
    BY <2>1 DEF L
  <2>4. QED
    BY <2>1, <2>2, <2>3
<1>5. ASSUME NEW i \in 0..L PROVE G[i] = F[i]
  <2>1. i \in Nat /\ i <= L
    BY <1>1
  <2> HIDE DEF P
  <2>2. i \in P
    BY <1>3, <1>4, <2>1, Induct
  <2>3. QED
    BY <2>1, <2>2 DEF P
<1>6. QED
  BY <1>5 DEF F, G, L

(* What records without text write is what was there before.                *)
LEMMA WrittenMarks ==
  ASSUME NEW rs \in Seq(CastRecords), NEW ms \in Seq(CastMarks)
  PROVE  /\ rs \o ms \in Seq(CastRecords) /\ Len(rs \o ms) = Len(rs) + Len(ms)
         /\ Len(rs) \in Nat /\ Len(ms) \in Nat
         /\ \A i \in 1..Len(rs) : (rs \o ms)[i] = rs[i]
         /\ \A i \in 1..Len(ms) : (rs \o ms)[Len(rs) + i] = ms[i]
         /\ \A i \in 0..Len(rs) : Written(rs \o ms)[i] = Written(rs)[i]
         /\ \A i \in 0..Len(ms) : Written(rs \o ms)[Len(rs) + i] = Written(rs)[Len(rs)]
<1> DEFINE ss == rs \o ms
           L == Len(rs)
           M == Len(ms)
           G == Written(ss)
           P == {i \in Nat : i <= M => G[L + i] = G[L]}
<1>1. ms \in Seq(CastRecords)
  <2>1. CastMarks \subseteq CastRecords
    BY DEF CastRecords
  <2>2. QED
    BY <2>1, SeqMonotonic
<1>2. /\ ss \in Seq(CastRecords) /\ Len(ss) = L + M /\ L \in Nat /\ M \in Nat
      /\ \A i \in 1..(L + M) : ss[i] = IF i <= L THEN rs[i] ELSE ms[i - L]
  BY <1>1, ConcatProperties
<1> HIDE DEF ss
<1>3. /\ \A i \in 1..L : ss[i] = rs[i]
      /\ \A i \in 1..M : ss[L + i] = ms[i]
  <2>1. \A i \in 1..L : ss[i] = rs[i]
    BY <1>2
  <2>2. ASSUME NEW i \in 1..M PROVE ss[L + i] = ms[i]
    <3>1. L + i \in 1..(L + M) /\ ~(L + i <= L) /\ (L + i) - L = i
      BY <1>2
    <3>2. QED
      BY <1>2, <3>1
  <2>3. QED
    BY <2>1, <2>2
<1>4. \A i \in 0..L : G[i] = Written(rs)[i]
  BY <1>2, <1>3, WrittenBefore
<1>5. \A i \in 1..(L + M) : G[i] = WrittenNext(G[i - 1], ss[i])
  BY <1>2, WrittenIs
<1> HIDE DEF G, L, M
<1>6. 0 \in P
  BY <1>2
<1>7. \A i \in Nat : i \in P => i + 1 \in P
  <2> SUFFICES ASSUME NEW i \in Nat, i \in P, i + 1 <= M
               PROVE  G[L + (i + 1)] = G[L]
    OBVIOUS
  <2>1. /\ i + 1 \in 1..M /\ L + (i + 1) \in 1..(L + M) /\ (L + (i + 1)) - 1 = L + i
        /\ G[L + i] = G[L]
    BY <1>2
  <2>2. ms[i + 1] \in CastMarks
    BY <2>1, ElementOfSeq DEF M
  <2>3. ms[i + 1].kind # "o"
    BY <2>2 DEF CastMarks
  <2>4. G[L + (i + 1)] = WrittenNext(G[L + i], ms[i + 1])
    BY <1>3, <1>5, <2>1
  <2>5. QED
    BY <2>1, <2>3, <2>4 DEF WrittenNext
<1>8. ASSUME NEW i \in 0..M PROVE G[L + i] = Written(rs)[L]
  <2>1. i \in Nat /\ i <= M /\ L \in 0..L
    BY <1>2
  <2> HIDE DEF P
  <2>2. i \in P
    BY <1>6, <1>7, <2>1, Induct
  <2>3. QED
    BY <1>4, <2>1, <2>2 DEF P
<1>9. QED
  BY <1>2, <1>3, <1>4, <1>8 DEF ss, G, L, M

(* A record of text adds its text.                                          *)
LEMMA WrittenText ==
  ASSUME NEW rs \in Seq(CastRecords), NEW t \in Int, NEW d \in Chars
  PROVE  LET r == Record(t, "o", d)
         IN /\ rs \o <<r>> \in Seq(CastRecords) /\ Len(rs \o <<r>>) = Len(rs) + 1 /\ Len(rs) \in Nat
            /\ \A i \in 1..Len(rs) : (rs \o <<r>>)[i] = rs[i]
            /\ (rs \o <<r>>)[Len(rs) + 1] = r
            /\ \A i \in 0..Len(rs) : Written(rs \o <<r>>)[i] = Written(rs)[i]
            /\ Written(rs \o <<r>>)[Len(rs) + 1] = Written(rs)[Len(rs)] \o d
<1> DEFINE r == Record(t, "o", d)
           one == <<r>>
           ss == rs \o one
           L == Len(rs)
           G == Written(ss)
<1>1. r \in CastRecords /\ r.kind = "o" /\ r.data = d
  BY DEF CastRecords, Record
<1> HIDE DEF r
<1>2. one \in Seq(CastRecords) /\ Len(one) = 1 /\ one[1] = r
  BY <1>1
<1> HIDE DEF one
<1>3. /\ ss \in Seq(CastRecords) /\ Len(ss) = L + 1 /\ L \in Nat
      /\ \A i \in 1..(L + 1) : ss[i] = IF i <= L THEN rs[i] ELSE one[i - L]
  <2>1. /\ ss \in Seq(CastRecords) /\ Len(ss) = L + Len(one) /\ L \in Nat
        /\ \A i \in 1..(L + Len(one)) : ss[i] = IF i <= L THEN rs[i] ELSE one[i - L]
    BY <1>2, ConcatProperties
  <2> HIDE DEF ss
  <2>2. QED
    BY <1>2, <2>1
<1> HIDE DEF ss
<1>4. (\A i \in 1..L : ss[i] = rs[i]) /\ ss[L + 1] = r
  <2>1. \A i \in 1..L : ss[i] = rs[i]
    BY <1>3
  <2>2. L + 1 \in 1..(L + 1) /\ ~(L + 1 <= L) /\ (L + 1) - L = 1
    BY <1>3
  <2>3. QED
    BY <1>2, <1>3, <2>1, <2>2
<1>5. \A i \in 0..L : G[i] = Written(rs)[i]
  BY <1>3, <1>4, WrittenBefore
<1>6. G[L + 1] = Written(rs)[L] \o d
  <2>1. L + 1 \in 1..Len(ss) /\ (L + 1) - 1 = L /\ L \in 0..L
    BY <1>3
  <2>2. G[L + 1] = WrittenNext(G[L], ss[L + 1])
    BY <1>3, <2>1, WrittenIs
  <2> HIDE DEF G
  <2>3. QED
    BY <1>1, <1>4, <1>5, <2>1, <2>2 DEF WrittenNext
<1>7. QED
  BY <1>3, <1>4, <1>5, <1>6 DEF ss, one, r

-----------------------------------------------------------------------------
(* The text before an event, and the place of a record with its number.     *)
BeforeIn(es, n, final) ==
  TextUpTo(es)[n].text \o CastUTF8(TextUpTo(es)[n].open, final).valid
PlaceIn(es, n, w) ==
  LET whole == BeforeIn(es, n, es[n].type # "marker")
  IN \/ w = whole
     \/ /\ es[n].type = "marker" /\ IsPrefix(whole, w)
        /\ RuneSize(From(w, Len(whole) + 1)) = Len(w) - Len(whole)
        /\ CastUTF8(TextUpTo(es)[n].open, FALSE).rest # <<>>

(* The records of other events than output, those events, and all text.     *)
Marks(rs) == {i \in 1..Len(rs) : rs[i].kind # "o"}
DataOf(rs) == {rs[i].data : i \in Marks(rs)}
WrittenAll(rs) == Written(rs)[Len(rs)]

(* A cast in order, nothing in it after now, and each record in its place.   *)
RecsOK(rs, now, es) ==
  /\ rs \in Seq(CastRecords)
  /\ \A i \in 1..Len(rs) : rs[i].t <= now
  /\ \A i, j \in 1..Len(rs) : i < j => rs[i].t <= rs[j].t
  /\ \A i, j \in Marks(rs) : i < j => rs[i].data < rs[j].data
  /\ \A i \in Marks(rs) : PlaceIn(es, rs[i].data, Written(rs)[i - 1])

(* A record has text or is of another event.                                *)
LEMMA RecordIs ==
  ASSUME NEW r \in CastRecords
  PROVE  /\ r.t \in Int
         /\ r.kind = "o" => r.data \in Chars
         /\ r.kind # "o" => r \in CastMarks /\ r.data \in Nat
BY DEF CastRecords, CastMarks

(* Time goes on.                                                            *)
LEMMA RecsLater ==
  ASSUME NEW rs, NEW es, NEW a \in Int, NEW b \in Int, a <= b, RecsOK(rs, a, es)
  PROVE  RecsOK(rs, b, es)
<1>1. \A i \in 1..Len(rs) : rs[i].t <= b
  <2> SUFFICES ASSUME NEW i \in 1..Len(rs) PROVE rs[i].t <= b
    OBVIOUS
  <2>1. rs \in Seq(CastRecords) /\ rs[i].t <= a
    BY DEF RecsOK
  <2>2. rs[i].t \in Int
    BY <2>1, ElementOfSeq, RecordIs
  <2>3. QED
    BY <2>1, <2>2
<1>2. QED
  BY <1>1 DEF RecsOK

(* A record of text.                                                        *)
LEMMA RecsText ==
  ASSUME NEW rs, NEW es, NEW t \in Int, NEW d \in Chars, RecsOK(rs, t, es)
  PROVE  LET ss == rs \o <<Record(t, "o", d)>>
         IN RecsOK(ss, t, es) /\ DataOf(ss) = DataOf(rs) /\ WrittenAll(ss) = WrittenAll(rs) \o d
<1> DEFINE r == Record(t, "o", d)
           ss == rs \o <<r>>
           L == Len(rs)
<1>1. /\ rs \in Seq(CastRecords)
      /\ \A i \in 1..L : rs[i].t <= t
      /\ \A i, j \in 1..L : i < j => rs[i].t <= rs[j].t
      /\ \A i, j \in Marks(rs) : i < j => rs[i].data < rs[j].data
      /\ \A i \in Marks(rs) : PlaceIn(es, rs[i].data, Written(rs)[i - 1])
  BY DEF RecsOK
<1>2. /\ ss \in Seq(CastRecords) /\ Len(ss) = L + 1 /\ L \in Nat
      /\ \A i \in 1..L : ss[i] = rs[i]
      /\ ss[L + 1] = r
      /\ \A i \in 0..L : Written(ss)[i] = Written(rs)[i]
      /\ Written(ss)[L + 1] = Written(rs)[L] \o d
  BY <1>1, WrittenText
<1>3. r.kind = "o" /\ r.t = t
  BY DEF Record
<1> HIDE DEF r, ss
<1>4. Marks(ss) = Marks(rs)
  <2>1. \A i \in 1..(L + 1) : i \in 1..L \/ i = L + 1
    BY <1>2
  <2>2. \A i \in 1..L : i \in 1..(L + 1)
    BY <1>2
  <2>3. Marks(ss) = {i \in 1..(L + 1) : ss[i].kind # "o"}
    BY <1>2 DEF Marks
  <2>4. Marks(rs) = {i \in 1..L : rs[i].kind # "o"}
    BY DEF Marks
  <2>5. QED
    BY <1>2, <1>3, <2>1, <2>2, <2>3, <2>4
<1>5. \A i \in Marks(rs) : i \in 1..L /\ i - 1 \in 0..L /\ ss[i] = rs[i] /\ Written(ss)[i - 1] = Written(rs)[i - 1]
  <2> SUFFICES ASSUME NEW i \in Marks(rs)
               PROVE  i \in 1..L /\ i - 1 \in 0..L /\ ss[i] = rs[i] /\ Written(ss)[i - 1] = Written(rs)[i - 1]
    OBVIOUS
  <2>1. i \in 1..L
    BY DEF Marks
  <2>2. i - 1 \in 0..L
    BY <1>2, <2>1
  <2>3. QED
    BY <1>2, <2>1, <2>2
<1>6. DataOf(ss) = DataOf(rs)
  BY <1>4, <1>5 DEF DataOf
<1>7. WrittenAll(ss) = WrittenAll(rs) \o d
  BY <1>2 DEF WrittenAll
<1>8. /\ \A i \in 1..Len(ss) : ss[i].t <= t
      /\ \A i, j \in 1..Len(ss) : i < j => ss[i].t <= ss[j].t
  <2>1. \A i \in 1..Len(ss) : i \in 1..L \/ i = L + 1
    BY <1>2
  <2>2. ASSUME NEW i \in 1..Len(ss) PROVE ss[i].t <= t
    <3>1. CASE i \in 1..L
      BY <1>1, <1>2, <3>1
    <3>2. CASE i = L + 1
      BY <1>2, <1>3, <3>2
    <3>3. QED
      BY <2>1, <3>1, <3>2
  <2>3. ASSUME NEW i \in 1..Len(ss), NEW j \in 1..Len(ss), i < j
        PROVE  ss[i].t <= ss[j].t
    <3>1. i \in 1..L
      BY <1>2, <2>3
    <3>2. CASE j = L + 1
      BY <1>2, <1>3, <2>2, <3>2
    <3>3. CASE j \in 1..L
      BY <1>1, <1>2, <2>3, <3>1, <3>3
    <3>4. QED
      BY <2>1, <3>2, <3>3
  <2>4. QED
    BY <2>2, <2>3
<1>9. /\ \A i, j \in Marks(ss) : i < j => ss[i].data < ss[j].data
      /\ \A i \in Marks(ss) : PlaceIn(es, ss[i].data, Written(ss)[i - 1])
  BY <1>1, <1>4, <1>5
<1>10. RecsOK(ss, t, es)
  BY <1>2, <1>8, <1>9 DEF RecsOK
<1>11. QED
  BY <1>6, <1>7, <1>10 DEF ss, r

(* Records without text, each in its place.                                 *)
MarksOK(ms, lo, now) ==
  /\ ms \in Seq(CastMarks)
  /\ \A i \in 1..Len(ms) : lo <= ms[i].t /\ ms[i].t <= now
  /\ \A i, j \in 1..Len(ms) : i < j => ms[i].t <= ms[j].t /\ ms[i].data < ms[j].data

(* Records without text leave the text as it was, and the cast in order.    *)
LEMMA RecsMarks ==
  ASSUME NEW rs, NEW es, NEW lo \in Int, NEW now \in Int, lo <= now, RecsOK(rs, lo, es),
         NEW ms, MarksOK(ms, lo, now),
         \A m \in DataOf(rs) : \A j \in 1..Len(ms) : m < ms[j].data,
         \A j \in 1..Len(ms) : PlaceIn(es, ms[j].data, WrittenAll(rs))
  PROVE  LET ss == rs \o ms
         IN /\ RecsOK(ss, now, es) /\ WrittenAll(ss) = WrittenAll(rs)
            /\ DataOf(ss) = DataOf(rs) \cup {ms[j].data : j \in 1..Len(ms)}
<1> DEFINE ss == rs \o ms
           L == Len(rs)
           M == Len(ms)
<1>1. /\ rs \in Seq(CastRecords)
      /\ \A i \in 1..L : rs[i].t <= lo
      /\ \A i, j \in 1..L : i < j => rs[i].t <= rs[j].t
      /\ \A i, j \in Marks(rs) : i < j => rs[i].data < rs[j].data
      /\ \A i \in Marks(rs) : PlaceIn(es, rs[i].data, Written(rs)[i - 1])
  BY DEF RecsOK
<1>2. /\ ms \in Seq(CastMarks)
      /\ \A i \in 1..M : lo <= ms[i].t /\ ms[i].t <= now
      /\ \A i, j \in 1..M : i < j => ms[i].t <= ms[j].t /\ ms[i].data < ms[j].data
  BY DEF MarksOK
<1>3. /\ ss \in Seq(CastRecords) /\ Len(ss) = L + M /\ L \in Nat /\ M \in Nat
      /\ \A i \in 1..L : ss[i] = rs[i]
      /\ \A i \in 1..M : ss[L + i] = ms[i]
      /\ \A i \in 0..L : Written(ss)[i] = Written(rs)[i]
      /\ \A i \in 0..M : Written(ss)[L + i] = Written(rs)[L]
  BY <1>1, <1>2, WrittenMarks
<1>4. /\ \A i \in 1..L : rs[i].t \in Int
      /\ \A i \in 1..M : ms[i].t \in Int /\ ms[i].data \in Nat /\ ms[i].kind # "o"
  <2>1. \A i \in 1..L : rs[i].t \in Int
    BY <1>1, ElementOfSeq, RecordIs
  <2>2. \A i \in 1..M : ms[i] \in CastMarks
    BY <1>2, ElementOfSeq
  <2>3. QED
    BY <2>1, <2>2 DEF CastMarks
<1> HIDE DEF ss, L, M
<1>5. ASSUME NEW i \in 1..(L + M)
      PROVE  i \in 1..L \/ \E j \in 1..M : i = L + j
  <2>1. CASE i <= L
    BY <1>3, <2>1
  <2>2. CASE i > L
    <3>1. i - L \in 1..M /\ i = L + (i - L)
      BY <1>3, <2>2
    <3>2. QED
      BY <3>1
  <2>3. QED
    BY <1>3, <2>1, <2>2
<1>6. Marks(ss) = Marks(rs) \cup {L + j : j \in 1..M}
  <2>1. Marks(ss) = {i \in 1..(L + M) : ss[i].kind # "o"}
    BY <1>3 DEF Marks
  <2>2. Marks(rs) = {i \in 1..L : rs[i].kind # "o"}
    BY DEF Marks, L
  <2>3. \A i \in 1..L : i \in 1..(L + M)
    BY <1>3
  <2>4. \A j \in 1..M : L + j \in 1..(L + M)
    BY <1>3
  <2>5. \A i \in Marks(ss) : i \in Marks(rs) \cup {L + j : j \in 1..M}
    <3> SUFFICES ASSUME NEW i \in Marks(ss)
                 PROVE  i \in Marks(rs) \cup {L + j : j \in 1..M}
      OBVIOUS
    <3>1. i \in 1..(L + M) /\ ss[i].kind # "o"
      BY <2>1
    <3>2. CASE i \in 1..L
      BY <1>3, <2>2, <3>1, <3>2
    <3>3. CASE \E j \in 1..M : i = L + j
      BY <3>3
    <3>4. QED
      BY <1>5, <3>1, <3>2, <3>3
  <2>6. \A i \in Marks(rs) : i \in Marks(ss)
    BY <1>3, <2>1, <2>2, <2>3
  <2>7. \A j \in 1..M : L + j \in Marks(ss)
    BY <1>3, <1>4, <2>1, <2>4
  <2>8. QED
    BY <2>5, <2>6, <2>7
<1>7. /\ \A i \in Marks(rs) : i \in 1..L /\ ss[i] = rs[i] /\ Written(ss)[i - 1] = Written(rs)[i - 1]
      /\ \A j \in 1..M : ss[L + j] = ms[j] /\ Written(ss)[(L + j) - 1] = Written(rs)[L]
  <2>1. ASSUME NEW i \in Marks(rs)
        PROVE  i \in 1..L /\ ss[i] = rs[i] /\ Written(ss)[i - 1] = Written(rs)[i - 1]
    <3>1. i \in 1..L
      BY DEF Marks, L
    <3>2. i - 1 \in 0..L
      BY <1>3, <3>1
    <3>3. QED
      BY <1>3, <3>1, <3>2
  <2>2. ASSUME NEW j \in 1..M
        PROVE  ss[L + j] = ms[j] /\ Written(ss)[(L + j) - 1] = Written(rs)[L]
    <3>1. j - 1 \in 0..M /\ (L + j) - 1 = L + (j - 1)
      BY <1>3
    <3>2. ss[L + j] = ms[j]
      BY <1>3
    <3>3. Written(ss)[L + (j - 1)] = Written(rs)[L]
      BY <1>3, <3>1
    <3>4. QED
      BY <3>1, <3>2, <3>3
  <2>3. QED
    BY <2>1, <2>2
<1>8. DataOf(ss) = DataOf(rs) \cup {ms[j].data : j \in 1..M}
  BY <1>6, <1>7 DEF DataOf
<1>9. WrittenAll(ss) = WrittenAll(rs)
  <2>1. M \in 0..M
    BY <1>3
  <2>2. Written(ss)[L + M] = Written(rs)[L]
    BY <1>3, <2>1
  <2>3. QED
    BY <1>3, <2>2 DEF WrittenAll, L
<1>10. /\ \A i \in 1..Len(ss) : ss[i].t <= now
       /\ \A i, j \in 1..Len(ss) : i < j => ss[i].t <= ss[j].t
  <2>1. \A i \in 1..L : ss[i].t <= lo /\ ss[i].t \in Int
    BY <1>1, <1>3, <1>4 DEF L
  <2>2. \A i \in 1..M : lo <= ss[L + i].t /\ ss[L + i].t <= now /\ ss[L + i].t \in Int
    BY <1>2, <1>3, <1>4
  <2>3. ASSUME NEW i \in 1..Len(ss) PROVE ss[i].t <= now
    <3>1. CASE i \in 1..L
      BY <2>1, <3>1
    <3>2. CASE \E j \in 1..M : i = L + j
      BY <2>2, <3>2
    <3>3. QED
      BY <1>3, <1>5, <3>1, <3>2
  <2>4. ASSUME NEW i \in 1..Len(ss), NEW j \in 1..Len(ss), i < j
        PROVE  ss[i].t <= ss[j].t
    <3>1. CASE i \in 1..L /\ j \in 1..L
      BY <1>1, <1>3, <2>4, <3>1 DEF L
    <3>2. CASE i \in 1..L /\ \E b \in 1..M : j = L + b
      BY <2>1, <2>2, <3>2
    <3>3. CASE (\E a \in 1..M : i = L + a) /\ \E b \in 1..M : j = L + b
      <4>1. PICK a \in 1..M : i = L + a
        BY <3>3
      <4>2. PICK b \in 1..M : j = L + b
        BY <3>3
      <4>3. a < b
        BY <1>3, <2>4, <4>1, <4>2
      <4>4. QED
        BY <1>2, <1>3, <4>1, <4>2, <4>3
    <3>4. CASE (\E a \in 1..M : i = L + a) /\ j \in 1..L
      BY <1>3, <2>4, <3>4
    <3>5. QED
      BY <1>3, <1>5, <3>1, <3>2, <3>3, <3>4
  <2>5. QED
    BY <2>3, <2>4
<1>11. \A i, j \in Marks(ss) : i < j => ss[i].data < ss[j].data
  <2> SUFFICES ASSUME NEW i \in Marks(ss), NEW j \in Marks(ss), i < j
               PROVE  ss[i].data < ss[j].data
    OBVIOUS
  <2>1. CASE i \in Marks(rs) /\ j \in Marks(rs)
    BY <1>1, <1>7, <2>1
  <2>2. CASE i \in Marks(rs) /\ \E b \in 1..M : j = L + b
    <3>1. PICK b \in 1..M : j = L + b
      BY <2>2
    <3>2. ss[i].data \in DataOf(rs)
      BY <1>7, <2>2 DEF DataOf
    <3>3. ss[j].data = ms[b].data
      BY <1>7, <3>1
    <3>4. QED
      BY <3>2, <3>3 DEF M
  <2>3. CASE (\E a \in 1..M : i = L + a) /\ \E b \in 1..M : j = L + b
    <3>1. PICK a \in 1..M : i = L + a
      BY <2>3
    <3>2. PICK b \in 1..M : j = L + b
      BY <2>3
    <3>3. a < b
      BY <1>3, <3>1, <3>2
    <3>4. QED
      BY <1>2, <1>3, <3>1, <3>2, <3>3
  <2>4. CASE (\E a \in 1..M : i = L + a) /\ j \in Marks(rs)
    BY <1>3, <1>7, <2>4
  <2>5. QED
    BY <1>6, <2>1, <2>2, <2>3, <2>4
<1>12. \A i \in Marks(ss) : PlaceIn(es, ss[i].data, Written(ss)[i - 1])
  <2> SUFFICES ASSUME NEW i \in Marks(ss)
               PROVE  PlaceIn(es, ss[i].data, Written(ss)[i - 1])
    OBVIOUS
  <2>1. CASE i \in Marks(rs)
    BY <1>1, <1>7, <2>1
  <2>2. CASE \E j \in 1..M : i = L + j
    <3>1. PICK j \in 1..M : i = L + j
      BY <2>2
    <3>2. PlaceIn(es, ms[j].data, Written(rs)[L])
      BY DEF WrittenAll, L, M
    <3>3. QED
      BY <1>7, <3>1, <3>2
  <2>3. QED
    BY <1>6, <2>1, <2>2
<1>13. RecsOK(ss, now, es)
  BY <1>3, <1>10, <1>11, <1>12 DEF RecsOK
<1>14. QED
  BY <1>8, <1>9, <1>13 DEF ss, M

(* What follows the first of two parts, and what the first m bytes are.     *)
LEMMA FromLater ==
  ASSUME NEW b \in Chars, NEW c \in Chars, NEW k \in 1..(Len(c) + 1)
  PROVE  From(b \o c, Len(b) + k) = From(c, k)
<1> DEFINE L == Len(b)
           N == Len(c)
           s == b \o c
           f == From(s, L + k)
           g == From(c, k)
<1>1. /\ s \in Chars /\ Len(s) = L + N /\ L \in Nat /\ N \in Nat
      /\ \A i \in 1..(L + N) : s[i] = IF i <= L THEN b[i] ELSE c[i - L]
  BY CharsConcat
<1>2. g \in Chars /\ Len(g) = N - k + 1 /\ \A j \in 1..(N - k + 1) : g[j] = c[k + j - 1]
  BY FromIs
<1>3. /\ f \in Chars /\ Len(f) = (L + N) - (L + k) + 1
      /\ \A j \in 1..((L + N) - (L + k) + 1) : f[j] = s[(L + k) + j - 1]
  <2>1. L + k \in 1..(L + N + 1)
    BY <1>1
  <2> HIDE DEF s, L, N
  <2>2. L + k \in 1..(Len(s) + 1)
    BY <1>1, <2>1
  <2>3. QED
    BY <1>1, <2>2, FromIs
<1> HIDE DEF f, g, s, L, N
<1>4. (L + N) - (L + k) + 1 = N - k + 1
  BY <1>1
<1>5. ASSUME NEW j \in 1..(N - k + 1)
      PROVE  f[j] = g[j]
  <2>1. k \in Int /\ k >= 1 /\ k <= N + 1
    BY DEF N
  <2>2. (L + k) + j - 1 \in 1..(L + N) /\ ~((L + k) + j - 1 <= L) /\ ((L + k) + j - 1) - L = k + j - 1
    BY <1>1, <2>1
  <2>3. f[j] = s[(L + k) + j - 1] /\ s[(L + k) + j - 1] = c[k + j - 1]
    BY <1>1, <1>3, <1>4, <2>2
  <2>4. QED
    BY <1>2, <2>3
<1>6. QED
  BY <1>2, <1>3, <1>4, <1>5, CharsEqual DEF f, g, s, L

(* The first n bytes.                                                       *)
LEMMA FirstIs ==
  ASSUME NEW b \in Chars, NEW n \in 0..Len(b)
  PROVE  /\ SubSeq(b, 1, n) \in Chars /\ Len(SubSeq(b, 1, n)) = n
         /\ \A i \in 1..n : SubSeq(b, 1, n)[i] = b[i]
<1>0. n \in Int /\ n >= 0
  OBVIOUS
<1>1. \A i \in 1..n : b[i] \in STRING
  BY ElementOfSeq DEF Chars
<1>2. /\ SubSeq(b, 1, n) \in Seq(STRING) /\ Len(SubSeq(b, 1, n)) = IF 1 <= n THEN n - 1 + 1 ELSE 0
      /\ \A i \in 1..(n - 1 + 1) : SubSeq(b, 1, n)[i] = b[1 + i - 1]
  BY <1>0, <1>1, SubSeqProperties
<1>3. n - 1 + 1 = n /\ \A i \in 1..n : 1 + i - 1 = i
  BY <1>0
<1>4. (IF 1 <= n THEN n - 1 + 1 ELSE 0) = n
  BY <1>0
<1>5. QED
  BY <1>2, <1>3, <1>4 DEF Chars

(* A code point by itself is its text.                                      *)
LEMMA WholeText ==
  ASSUME NEW p \in Chars, p # <<>>, RuneSize(p) = Len(p)
  PROVE  Text(p, TRUE) = [valid |-> p, rest |-> <<>>]
<1> DEFINE n == RuneSize(p)
           next == Text(From(p, n + 1), TRUE)
<1>1. n > 0 /\ n \in 1..Len(p) /\ Len(p) \in Nat /\ n = Len(p)
  BY RuneIs
<1>2. Text(p, TRUE) = [valid |-> SubSeq(p, 1, n) \o next.valid, rest |-> next.rest]
  BY <1>1, TextIs
<1>3. From(p, n + 1) \in Chars /\ Len(From(p, n + 1)) = 0
  BY <1>1, RestIs
<1>4. From(p, n + 1) = <<>>
  BY <1>3, EmptyIs
<1>5. next = Text0
  <2>1. Text(<<>>, TRUE) = Text0
    BY EmptyIs, TextIs
  <2>2. QED
    BY <1>4, <2>1
<1>6. SubSeq(p, 1, n) = p
  <2>1. n \in 0..Len(p)
    BY <1>1
  <2>2. SubSeq(p, 1, n) \in Chars /\ Len(SubSeq(p, 1, n)) = n /\ \A i \in 1..n : SubSeq(p, 1, n)[i] = p[i]
    BY <2>1, FirstIs
  <2> HIDE DEF n
  <2>3. QED
    BY <1>1, <2>2, CharsEqual
<1> HIDE DEF next, n
<1>7. next.valid = <<>> /\ next.rest = <<>>
  BY <1>5 DEF Text0
<1>8. p \o <<>> = p
  BY EmptyIs
<1>9. QED
  BY <1>2, <1>6, <1>7, <1>8

(* A code point in two parts.                                               *)
LEMMA Completes ==
  ASSUME NEW o \in Chars, o # <<>>, RuneSize(o) = -1, NEW b \in Chars,
         RuneSize(o \o b) > 0
  PROVE  LET k == RuneSize(o \o b) - Len(o)
             p == o \o SubSeq(b, 1, k)
             next == Text(From(b, k + 1), TRUE)
         IN /\ k \in 1..Len(b) /\ p \in Chars /\ p # <<>> /\ RuneSize(p) = Len(p)
            /\ Text(o \o b, TRUE) = [valid |-> p \o next.valid, rest |-> next.rest]
<1> DEFINE s == o \o b
           m == RuneSize(s)
           L == Len(o)
           N == Len(b)
           k == m - L
           f == SubSeq(b, 1, k)
           p == o \o f
           next == Text(From(b, k + 1), TRUE)
<1>1. /\ s \in Chars /\ Len(s) = L + N /\ L \in Nat /\ N \in Nat
      /\ \A i \in 1..(L + N) : s[i] = IF i <= L THEN o[i] ELSE b[i - L]
  BY CharsConcat
<1>2. s # <<>>
  BY RuneOfConcat
<1>3. m \in 1..3 /\ m <= L + N
  <2> HIDE DEF s, L, N
  <2>1. m \in (-1)..3 /\ m <= Len(s)
    BY <1>1, <1>2, RuneIs
  <2>2. m > 0
    BY DEF s
  <2>3. QED
    BY <1>1, <2>1, <2>2
<1>4. L < m
  <2>1. ~Cut(o) /\ L < Want(o) /\ L >= 1
    BY RuneCases
  <2>2. s[1] = o[1]
    <3>1. 1 \in 1..(L + N) /\ 1 <= L
      BY <1>1, <2>1
    <3>2. QED
      BY <1>1, <3>1
  <2>3. Want(s) = Want(o)
    <3> HIDE DEF s
    <3>1. QED
      BY <2>2 DEF Want
  <2>4. m = Want(s)
    <3>1. m # 0 /\ m # -1
      BY <1>3
    <3> HIDE DEF s
    <3>2. QED
      BY <1>1, <1>2, <3>1, RuneCases
  <2>5. QED
    BY <2>1, <2>3, <2>4
<1>5. k \in 1..N /\ m = L + k
  BY <1>1, <1>3, <1>4
<1>6. f \in Chars /\ Len(f) = k /\ \A i \in 1..k : f[i] = b[i]
  <2>1. k \in 0..Len(b)
    BY <1>5
  <2> HIDE DEF k
  <2>2. QED
    BY <2>1, FirstIs
<1> HIDE DEF s, m, L, N, k
<1>7. p = SubSeq(s, 1, m)
  <2>1. /\ p \in Chars /\ Len(p) = L + Len(f)
        /\ \A i \in 1..(L + Len(f)) : p[i] = IF i <= L THEN o[i] ELSE f[i - L]
    <3> HIDE DEF f
    <3>1. QED
      BY <1>6, CharsConcat DEF L
  <2>2. m \in 0..Len(s)
    BY <1>1, <1>3
  <2>3. SubSeq(s, 1, m) \in Chars /\ Len(SubSeq(s, 1, m)) = m /\ \A i \in 1..m : SubSeq(s, 1, m)[i] = s[i]
    BY <1>1, <2>2, FirstIs
  <2> HIDE DEF f, p
  <2>4. Len(p) = m
    BY <1>5, <1>6, <2>1
  <2>5. ASSUME NEW i \in 1..m PROVE p[i] = s[i]
    <3>1. i \in 1..(L + N) /\ i \in 1..(L + Len(f))
      BY <1>1, <1>3, <1>5, <1>6
    <3>2. CASE i <= L
      BY <1>1, <2>1, <3>1, <3>2
    <3>3. CASE ~(i <= L)
      <4>1. i - L \in 1..k
        BY <1>1, <1>3, <1>5, <3>3
      <4>2. p[i] = f[i - L] /\ s[i] = b[i - L] /\ f[i - L] = b[i - L]
        BY <1>1, <1>6, <2>1, <3>1, <3>3, <4>1
      <4>3. QED
        BY <4>2
    <3>4. QED
      BY <3>2, <3>3
  <2>6. QED
    BY <2>1, <2>3, <2>4, <2>5, CharsEqual
<1>8. p \in Chars /\ p # <<>> /\ RuneSize(p) = Len(p)
  <2>1. m = RuneSize(s) /\ m > 0
    BY <1>3 DEF m
  <2>2. /\ SubSeq(s, 1, m) \in Chars /\ SubSeq(s, 1, m) # <<>> /\ Len(SubSeq(s, 1, m)) = m
        /\ RuneSize(SubSeq(s, 1, m)) = m
    BY <1>1, <1>2, <2>1, RuneAlone
  <2> HIDE DEF p
  <2>3. QED
    BY <1>7, <2>2
<1>9. Text(s, TRUE) = [valid |-> p \o next.valid, rest |-> next.rest]
  <2>1. m = RuneSize(s) /\ m > 0
    BY <1>3 DEF m
  <2> DEFINE after == Text(From(s, m + 1), TRUE)
  <2>2. Text(s, TRUE) = [valid |-> SubSeq(s, 1, m) \o after.valid, rest |-> after.rest]
    BY <1>1, <1>2, <2>1, TextIs
  <2>3. From(s, m + 1) = From(b, k + 1)
    <3>1. k + 1 \in 1..(N + 1) /\ m + 1 = L + (k + 1)
      BY <1>1, <1>5
    <3>2. From(s, L + (k + 1)) = From(b, k + 1)
      BY <3>1, FromLater DEF s, L, N
    <3>3. QED
      BY <3>1, <3>2
  <2>4. after = next
    BY <2>3
  <2> HIDE DEF after, next, p
  <2>5. QED
    BY <1>7, <2>2, <2>4
<1>10. QED
  BY <1>5, <1>8, <1>9 DEF s, m, L, N, k

-----------------------------------------------------------------------------
(* Markers that wait, all for the code point that was open at each.         *)
HeldOK(ms, lo, now, es, w) ==
  /\ MarksOK(ms, lo, now)
  /\ \A i \in 1..Len(ms) :
       /\ es[ms[i].data].type = "marker"
       /\ w = BeforeIn(es, ms[i].data, FALSE)
       /\ CastUTF8(TextUpTo(es)[ms[i].data].open, FALSE).rest # <<>>

(* A marker that waited is in its place if its code point came to nothing,  *)
LEMMA HeldAtOnce ==
  ASSUME NEW ms, NEW lo, NEW now, NEW es, NEW w, HeldOK(ms, lo, now, es, w), NEW i \in 1..Len(ms)
  PROVE  PlaceIn(es, ms[i].data, w)
<1>1. es[ms[i].data].type = "marker" /\ w = BeforeIn(es, ms[i].data, FALSE)
  BY DEF HeldOK
<1>2. (es[ms[i].data].type # "marker") = FALSE
  BY <1>1
<1>3. w = BeforeIn(es, ms[i].data, es[ms[i].data].type # "marker")
  BY <1>1, <1>2
<1>4. QED
  BY <1>3 DEF PlaceIn

(* and after that code point, by itself and whole.                          *)
LEMMA HeldAfter ==
  ASSUME NEW ms, NEW lo, NEW now, NEW es, NEW w \in Chars, HeldOK(ms, lo, now, es, w), NEW i \in 1..Len(ms),
         NEW p \in Chars, RuneSize(p) = Len(p)
  PROVE  PlaceIn(es, ms[i].data, w \o p)
<1> DEFINE s == w \o p
           L == Len(w)
<1>1. /\ es[ms[i].data].type = "marker" /\ w = BeforeIn(es, ms[i].data, FALSE)
      /\ CastUTF8(TextUpTo(es)[ms[i].data].open, FALSE).rest # <<>>
  BY DEF HeldOK
<1>2. (es[ms[i].data].type # "marker") = FALSE
  BY <1>1
<1>3. w = BeforeIn(es, ms[i].data, es[ms[i].data].type # "marker")
  BY <1>1, <1>2
<1>4. /\ s \in Chars /\ Len(s) = L + Len(p) /\ L \in Nat /\ Len(p) \in Nat
      /\ \A j \in 1..(L + Len(p)) : s[j] = IF j <= L THEN w[j] ELSE p[j - L]
  BY CharsConcat
<1>5. From(s, L + 1) = p
  <2>1. 1 \in 1..(Len(p) + 1)
    BY <1>4
  <2>2. From(s, L + 1) = From(p, 1)
    BY <2>1, FromLater
  <2>3. /\ From(p, 1) \in Chars /\ Len(From(p, 1)) = Len(p) - 1 + 1
        /\ \A j \in 1..(Len(p) - 1 + 1) : From(p, 1)[j] = p[1 + j - 1]
    BY <2>1, FromIs
  <2>4. Len(p) - 1 + 1 = Len(p) /\ \A j \in 1..Len(p) : 1 + j - 1 = j
    BY <1>4
  <2>5. From(p, 1) = p
    BY <2>3, <2>4, CharsEqual
  <2>6. QED
    BY <2>2, <2>5
<1>6. SubSeq(w, 1, L) = SubSeq(s, 1, L)
  <2>1. L \in 0..Len(w) /\ L \in 0..Len(s)
    BY <1>4
  <2>2. SubSeq(w, 1, L) \in Chars /\ Len(SubSeq(w, 1, L)) = L /\ \A j \in 1..L : SubSeq(w, 1, L)[j] = w[j]
    BY <2>1, FirstIs
  <2>3. SubSeq(s, 1, L) \in Chars /\ Len(SubSeq(s, 1, L)) = L /\ \A j \in 1..L : SubSeq(s, 1, L)[j] = s[j]
    <3> HIDE DEF s
    <3>1. QED
      BY <1>4, <2>1, FirstIs
  <2>4. \A j \in 1..L : s[j] = w[j]
    <3> HIDE DEF s, L
    <3>1. QED
      BY <1>4
  <2> HIDE DEF s, L
  <2>5. QED
    BY <2>2, <2>3, <2>4, CharsEqual
<1>7. IsPrefix(w, s)
  <2>1. L <= Len(s)
    BY <1>4
  <2>2. QED
    BY <1>6, <2>1 DEF IsPrefix
<1>8. RuneSize(From(s, L + 1)) = Len(s) - L
  BY <1>4, <1>5
<1> HIDE DEF s
<1>9. PlaceIn(es, ms[i].data, s)
  BY <1>1, <1>3, <1>7, <1>8 DEF PlaceIn
<1>10. QED
  BY <1>9 DEF s

-----------------------------------------------------------------------------
(* Output up to an event that may go on with the next output.               *)
OpenIn(es, n) == TextUpTo(es)[n].open

(* No incomplete code point at the end is text.                             *)
LEMMA BeforeIs ==
  ASSUME NEW es \in Seq(CastEventSet), NEW n \in 0..Len(es)
  PROVE  /\ TextUpTo(es)[n].text \in Chars /\ OpenIn(es, n) \in Chars
         /\ Text(OpenIn(es, n), TRUE) \in [valid : Chars, rest : Chars]
         /\ CastUTF8(OpenIn(es, n), FALSE) = Text(OpenIn(es, n), TRUE)
         /\ BeforeIn(es, n, FALSE) = TextUpTo(es)[n].text \o Text(OpenIn(es, n), TRUE).valid
         /\ BeforeIn(es, n, TRUE) = BeforeIn(es, n, FALSE)
         /\ BeforeIn(es, n, FALSE) \in Chars
<1> DEFINE x == TextUpTo(es)[n].text
           y == OpenIn(es, n)
           u == Text(y, TRUE)
           v == Text(y, FALSE)
<1>1. x \in Chars /\ y \in Chars
  <2>1. TextUpTo(es)[n] \in [text : Chars, open : Chars]
    BY UpToIs
  <2>2. QED
    BY <2>1 DEF OpenIn
<1> HIDE DEF x, y
<1>2. u \in [valid : Chars, rest : Chars]
  BY <1>1, TextType
<1>3. CastUTF8(y, FALSE) = u /\ CastUTF8(y, TRUE) = v
  BY DEF CastUTF8
<1>4. v = [valid |-> u.valid, rest |-> <<>>]
  BY <1>1, TextAllIs
<1>5. v.valid = u.valid
  <2> HIDE DEF u, v
  <2>1. QED
    BY <1>4
<1>6. BeforeIn(es, n, FALSE) = x \o u.valid /\ BeforeIn(es, n, TRUE) = x \o v.valid
  BY <1>3 DEF BeforeIn, x, y, OpenIn
<1>7. x \o u.valid \in Chars
  BY <1>1, <1>2, CharsConcat
<1>8. QED
  BY <1>1, <1>2, <1>3, <1>5, <1>6, <1>7 DEF x, y

(* What an event does to it.                                                *)
LEMMA BeforeNext ==
  ASSUME NEW es \in Seq(CastEventSet), NEW n \in Nat, n + 1 <= Len(es)
  PROVE  /\ es[n + 1].type = "output" =>
              LET v == Text(Text(OpenIn(es, n), TRUE).rest \o es[n + 1].bytes, TRUE)
              IN /\ BeforeIn(es, n + 1, FALSE) = BeforeIn(es, n, FALSE) \o v.valid
                 /\ Text(OpenIn(es, n + 1), TRUE).rest = v.rest
         /\ es[n + 1].type = "marker" => OpenIn(es, n + 1) = OpenIn(es, n)
         /\ es[n + 1].type # "output" => BeforeIn(es, n + 1, FALSE) = BeforeIn(es, n, FALSE)
         /\ es[n + 1].type \notin {"output", "marker"} => Text(OpenIn(es, n + 1), TRUE).rest = <<>>
<1> DEFINE F == TextUpTo(es)
           e == es[n + 1]
           x == F[n].text
           y == F[n].open
           u == Text(y, TRUE)
<1>1. n \in 0..Len(es) /\ n + 1 \in 0..Len(es) /\ n + 1 \in 1..Len(es) /\ (n + 1) - 1 = n
  OBVIOUS
<1>2. F[n + 1] = UpToNext(F[n], e)
  BY <1>1, UpToIs
<1>3. e.bytes \in Chars
  <2>1. e \in CastEventSet
    BY <1>1, ElementOfSeq
  <2>2. QED
    BY <2>1 DEF CastEventSet, Chars
<1>4. x \in Chars /\ y \in Chars /\ u \in [valid : Chars, rest : Chars]
  BY <1>1, BeforeIs DEF OpenIn
<1>5. BeforeIn(es, n, FALSE) = x \o u.valid /\ BeforeIn(es, n, TRUE) = x \o u.valid
  BY <1>1, BeforeIs DEF OpenIn
<1>6. BeforeIn(es, n + 1, FALSE) = F[n + 1].text \o Text(F[n + 1].open, TRUE).valid
  BY <1>1, BeforeIs DEF OpenIn
<1> HIDE DEF F, e
<1>7. CASE e.type = "output"
  <2> DEFINE v == Text(u.rest \o e.bytes, TRUE)
             z == y \o e.bytes
  <2>1. F[n + 1] = [text |-> x, open |-> z]
    BY <1>2, <1>7 DEF UpToNext
  <2>2. F[n + 1].text = x /\ F[n + 1].open = z
    <3> HIDE DEF x, z
    <3>1. QED
      BY <2>1
  <2>3. Text(z, TRUE) = [valid |-> u.valid \o v.valid, rest |-> v.rest]
    <3> HIDE DEF x, y, e
    <3>1. QED
      BY <1>3, <1>4, TextOfConcat
  <2>4. v \in [valid : Chars, rest : Chars]
    <3>1. u.rest \o e.bytes \in Chars
      BY <1>3, <1>4, CharsConcat
    <3>2. QED
      BY <3>1, TextType
  <2> DEFINE zt == Text(z, TRUE)
  <2>5. zt.valid = u.valid \o v.valid /\ zt.rest = v.rest
    <3>1. zt = [valid |-> u.valid \o v.valid, rest |-> v.rest]
      BY <2>3
    <3> HIDE DEF zt, u, v
    <3>2. QED
      BY <3>1
  <2>6. BeforeIn(es, n + 1, FALSE) = x \o (u.valid \o v.valid)
    BY <1>6, <2>2, <2>5
  <2>7. (x \o u.valid) \o v.valid = x \o (u.valid \o v.valid)
    <3>1. u.valid \in Chars /\ v.valid \in Chars
      BY <1>4, <2>4
    <3> DEFINE uv == u.valid
               vv == v.valid
    <3> HIDE DEF x, uv, vv
    <3>2. uv \in Chars /\ vv \in Chars
      BY <3>1 DEF uv, vv
    <3>3. ASSUME NEW i \in Chars, NEW j \in Chars, NEW k \in Chars
          PROVE  (i \o j) \o k = i \o (j \o k)
      BY CharsAssoc
    <3>4. \A j, k \in Chars : (x \o j) \o k = x \o (j \o k)
      BY <1>4, <3>3
    <3>5. \A k \in Chars : (x \o uv) \o k = x \o (uv \o k)
      BY <3>2, <3>4
    <3>6. (x \o uv) \o vv = x \o (uv \o vv)
      BY <3>2, <3>5
    <3>7. QED
      BY <3>6 DEF uv, vv
  <2>8. BeforeIn(es, n + 1, FALSE) = BeforeIn(es, n, FALSE) \o v.valid
    BY <1>5, <2>6, <2>7
  <2>9. Text(OpenIn(es, n + 1), TRUE).rest = v.rest
    BY <2>2, <2>5 DEF OpenIn, F
  <2>10. v = Text(Text(OpenIn(es, n), TRUE).rest \o es[n + 1].bytes, TRUE)
    BY DEF OpenIn, F, e
  <2> HIDE DEF v
  <2>11. QED
    BY <1>7, <2>8, <2>9, <2>10 DEF e
<1>8. CASE e.type = "marker"
  <2>1. F[n + 1] = F[n]
    BY <1>2, <1>8 DEF UpToNext
  <2>2. BeforeIn(es, n + 1, FALSE) = BeforeIn(es, n, FALSE)
    BY <1>5, <1>6, <2>1
  <2>3. OpenIn(es, n + 1) = OpenIn(es, n)
    BY <2>1 DEF OpenIn, F
  <2>4. QED
    BY <1>8, <2>2, <2>3 DEF e
<1>9. CASE e.type \notin {"output", "marker"}
  <2> DEFINE w == x \o CastUTF8(y, TRUE).valid
  <2>1. F[n + 1] = [text |-> w, open |-> <<>>]
    BY <1>2, <1>9 DEF UpToNext
  <2>2. F[n + 1].text = w /\ F[n + 1].open = <<>>
    <3> HIDE DEF w
    <3>1. QED
      BY <2>1
  <2>3. w = x \o u.valid
    <3>1. w = BeforeIn(es, n, TRUE)
      BY DEF BeforeIn, F
    <3>2. QED
      BY <1>5, <3>1
  <2>4. Text(<<>>, TRUE) = Text0
    BY EmptyIs, TextIs
  <2>5. Text0.valid = <<>> /\ Text0.rest = <<>>
    BY DEF Text0
  <2>6. w \o <<>> = w
    <3>1. w \in Chars
      BY <1>4, <2>3, CharsConcat
    <3>2. QED
      BY <3>1, EmptyIs
  <2>7. BeforeIn(es, n + 1, FALSE) = BeforeIn(es, n, FALSE)
    BY <1>5, <1>6, <2>2, <2>3, <2>4, <2>5, <2>6
  <2>8. Text(OpenIn(es, n + 1), TRUE).rest = <<>>
    BY <2>2, <2>4, <2>5 DEF OpenIn, F
  <2>9. QED
    BY <1>9, <2>7, <2>8 DEF e
<1>10. QED
  BY <1>7, <1>8, <1>9

-----------------------------------------------------------------------------
(* A flush, by what of the output is text.                                  *)
Flushed(o, tms, ms, rs, final) ==
  LET u == CastUTF8(o, final)
      more == rs \o (IF u.valid = <<>> THEN <<>> ELSE <<Record(tms, "o", u.valid)>>)
  IN IF u.rest # <<>> THEN Cast(u.rest, tms, ms, more)
     ELSE Cast(<<>>, 0, <<>>, more \o ms)

(* FlushOutput, unfolded: what is no text yet stays, and the markers with it.*)
LEMMA FlushIs ==
  ASSUME NEW o, NEW tms, NEW ms, NEW rs, NEW final
  PROVE  FlushOutput(Cast(o, tms, ms, rs), final) = Flushed(o, tms, ms, rs, final)
<1> DEFINE u == CastUTF8(o, final)
           more == rs \o (IF u.valid = <<>> THEN <<>> ELSE <<Record(tms, "o", u.valid)>>)
           c == Cast(o, tms, ms, rs)
           f == FlushOutputOnly(c, final)
<1>1. c.output = o /\ c.tms = tms /\ c.markers = ms /\ c.records = rs
  BY DEF Cast
<1>2. f = Cast(u.rest, IF u.rest = <<>> THEN 0 ELSE tms, ms, more)
  <2> HIDE DEF c
  <2>1. QED
    BY <1>1, Zenon DEF FlushOutputOnly
<1>3. FlushOutput(c, final) =
        IF f.output # <<>> THEN f ELSE Cast(f.output, f.tms, <<>>, f.records \o c.markers)
  BY Zenon DEF FlushOutput
<1>4. Flushed(o, tms, ms, rs, final) =
        IF u.rest # <<>> THEN Cast(u.rest, tms, ms, more) ELSE Cast(<<>>, 0, <<>>, more \o ms)
  BY Zenon DEF Flushed
<1> HIDE DEF c, f, more, u
<1>5. CASE u.rest # <<>>
  <2>1. f = Cast(u.rest, tms, ms, more)
    BY <1>2, <1>5, Zenon
  <2>2. f.output = u.rest
    BY <2>1 DEF Cast
  <2>3. FlushOutput(c, final) = f
    BY <1>3, <1>5, <2>2, Zenon
  <2>4. Flushed(o, tms, ms, rs, final) = f
    BY <1>4, <1>5, <2>1, Zenon
  <2>5. QED
    BY <2>3, <2>4 DEF c
<1>6. CASE u.rest = <<>>
  <2>1. f = Cast(<<>>, 0, ms, more)
    BY <1>2, <1>6, Zenon
  <2>2. f.output = <<>> /\ f.tms = 0 /\ f.records = more
    BY <2>1 DEF Cast
  <2>3. FlushOutput(c, final) = Cast(<<>>, 0, <<>>, more \o ms)
    BY <1>1, <1>3, <2>2, Zenon
  <2>4. Flushed(o, tms, ms, rs, final) = Cast(<<>>, 0, <<>>, more \o ms)
    BY <1>4, <1>6, Zenon
  <2>5. QED
    BY <2>3, <2>4 DEF c
<1>7. QED
  BY <1>5, <1>6

(* What a flush makes of a cast rs: u, output of t0, is added to it, and what
   is no text yet waits.                                                    *)
Adds(d, u, rs, t0, t, es) ==
  \E tms, more :
    /\ d = Cast(u.rest, tms, <<>>, more)
    /\ u.rest # <<>> => tms = t0
    /\ WrittenAll(more) = WrittenAll(rs) \o u.valid /\ DataOf(more) = DataOf(rs)
    /\ RecsOK(more, IF u.rest = <<>> THEN t ELSE t0, es)

(* Output with no markers that wait.                                        *)
LEMMA FlushNone ==
  ASSUME NEW es, NEW rs, NEW t0 \in Int, NEW t \in Int, t0 <= t, RecsOK(rs, t0, es), NEW o \in Chars
  PROVE  Adds(FlushOutput(Cast(o, t0, <<>>, rs), FALSE), Text(o, TRUE), rs, t0, t, es)
<1> DEFINE u == Text(o, TRUE)
           uv == u.valid
           more == rs \o (IF uv = <<>> THEN <<>> ELSE <<Record(t0, "o", uv)>>)
           d == FlushOutput(Cast(o, t0, <<>>, rs), FALSE)
<1>1. u \in [valid : Chars, rest : Chars] /\ uv \in Chars
  <2>1. u \in [valid : Chars, rest : Chars]
    BY TextType
  <2>2. QED
    BY <2>1
<1>2. CastUTF8(o, FALSE) = u
  BY DEF CastUTF8
<1>3. d = IF u.rest # <<>> THEN Cast(u.rest, t0, <<>>, more) ELSE Cast(<<>>, 0, <<>>, more \o <<>>)
  <2>1. d = Flushed(o, t0, <<>>, rs, FALSE)
    BY FlushIs
  <2> DEFINE w == CastUTF8(o, FALSE)
             wv == w.valid
  <2>2. Flushed(o, t0, <<>>, rs, FALSE) =
          IF w.rest # <<>> THEN Cast(w.rest, t0, <<>>, rs \o (IF wv = <<>> THEN <<>> ELSE <<Record(t0, "o", wv)>>))
          ELSE Cast(<<>>, 0, <<>>, (rs \o (IF wv = <<>> THEN <<>> ELSE <<Record(t0, "o", wv)>>)) \o <<>>)
    BY Zenon DEF Flushed
  <2>3. w = u /\ wv = uv
    BY <1>2
  <2> HIDE DEF w, wv, u, uv, d
  <2>4. QED
    BY <2>1, <2>2, <2>3, Zenon
<1>4. RecsOK(more, t0, es) /\ DataOf(more) = DataOf(rs) /\ WrittenAll(more) = WrittenAll(rs) \o uv
  <2> HIDE DEF uv
  <2>1. CASE uv = <<>>
    <3>1. more = rs \o <<>>
      BY <2>1
    <3>2. rs \in Seq(CastRecords) /\ rs \o <<>> = rs
      BY ConcatEmptySeq DEF RecsOK
    <3>3. WrittenAll(rs) \in Chars
      <4>1. Len(rs) \in 0..Len(rs)
        BY <3>2
      <4>2. QED
        BY <3>2, <4>1, WrittenIs DEF WrittenAll
    <3>4. WrittenAll(rs) \o uv = WrittenAll(rs)
      BY <2>1, <3>3, EmptyIs
    <3>5. QED
      BY <3>1, <3>2, <3>4
  <2>2. CASE uv # <<>>
    <3>1. more = rs \o <<Record(t0, "o", uv)>>
      BY <2>2
    <3> DEFINE ss == rs \o <<Record(t0, "o", uv)>>
    <3>2. RecsOK(ss, t0, es) /\ DataOf(ss) = DataOf(rs) /\ WrittenAll(ss) = WrittenAll(rs) \o uv
      BY <1>1, RecsText
    <3>3. more = ss
      BY <3>1
    <3> HIDE DEF ss, more
    <3>4. QED
      BY <3>2, <3>3
  <2>3. QED
    BY <2>1, <2>2
<1> HIDE DEF more, d, u, uv
<1>5. more \o <<>> = more
  <2>1. more \in Seq(CastRecords)
    BY <1>4 DEF RecsOK
  <2>2. QED
    BY <2>1, ConcatEmptySeq
<1>6. RecsOK(more, t, es)
  BY <1>4, RecsLater
<1>7. CASE u.rest # <<>>
  <2>1. d = Cast(u.rest, t0, <<>>, more)
    BY <1>3, <1>7
  <2>2. RecsOK(more, IF u.rest = <<>> THEN t ELSE t0, es)
    BY <1>4, <1>7
  <2>3. QED
    BY <1>4, <2>1, <2>2 DEF d, u, uv, Adds
<1>8. CASE u.rest = <<>>
  <2>1. d = Cast(u.rest, 0, <<>>, more)
    BY <1>3, <1>5, <1>8
  <2>2. RecsOK(more, IF u.rest = <<>> THEN t ELSE t0, es)
    BY <1>6, <1>8
  <2>3. QED
    BY <1>4, <1>8, <2>1, <2>2 DEF d, u, uv, Adds
<1>9. QED
  BY <1>7, <1>8

(* The pass of a cast after n events, the last of them at now: the open code
   point and the text before it are those of the trace; the markers that wait
   wait for it, and nothing in the cast is later than it.                   *)
CastAt(o, tms, ms, rs, n, now, es) ==
  /\ o \in Chars /\ now \in Int
  /\ o # <<>> => tms \in Int /\ tms <= now
  /\ RecsOK(rs, IF o = <<>> THEN now ELSE tms, es)
  /\ HeldOK(ms, IF o = <<>> THEN now ELSE tms, now, es, WrittenAll(rs))
  /\ ms # <<>> => o # <<>>
  /\ \A m \in DataOf(rs) : \A i \in 1..Len(ms) : m < ms[i].data
  /\ DataOf(rs) \cup {ms[i].data : i \in 1..Len(ms)} = {m \in 1..n : InCast(es[m])}
  /\ n = 0 => rs = <<>>
  /\ o = Text(OpenIn(es, n), TRUE).rest
  /\ WrittenAll(rs) = BeforeIn(es, n, FALSE)

(* Nothing waits.                                                           *)
LEMMA HeldNone ==
  ASSUME NEW lo, NEW now, NEW es, NEW w
  PROVE  HeldOK(<<>>, lo, now, es, w)
<1>1. <<>> \in Seq(CastMarks) /\ Len(<<>>) = 0
  OBVIOUS
<1>2. \A i \in 1..Len(<<>>) : FALSE
  BY <1>1
<1>3. QED
  BY <1>1, <1>2 DEF HeldOK, MarksOK

(* What waits, waits for longer.                                            *)
LEMMA HeldLater ==
  ASSUME NEW ms, NEW lo, NEW a \in Int, NEW b \in Int, a <= b, NEW es, NEW w, HeldOK(ms, lo, a, es, w)
  PROVE  HeldOK(ms, lo, b, es, w)
<1>1. /\ ms \in Seq(CastMarks)
      /\ \A i \in 1..Len(ms) : lo <= ms[i].t /\ ms[i].t <= a
      /\ \A i, j \in 1..Len(ms) : i < j => ms[i].t <= ms[j].t /\ ms[i].data < ms[j].data
  BY DEF HeldOK, MarksOK
<1>2. \A i \in 1..Len(ms) : ms[i].t <= b
  <2> SUFFICES ASSUME NEW i \in 1..Len(ms) PROVE ms[i].t <= b
    OBVIOUS
  <2>1. ms[i].t \in Int
    <3>1. ms[i] \in CastMarks
      BY <1>1, ElementOfSeq
    <3>2. QED
      BY <3>1 DEF CastMarks
  <2>2. QED
    BY <1>1, <2>1
<1>3. QED
  BY <1>1, <1>2 DEF HeldOK, MarksOK

(* Output is no event of a cast.                                            *)
LEMMA CountOutput ==
  ASSUME NEW es, NEW n \in Nat
  PROVE  /\ ~InCast(es[n + 1]) => {m \in 1..(n + 1) : InCast(es[m])} = {m \in 1..n : InCast(es[m])}
         /\ InCast(es[n + 1]) =>
              {m \in 1..(n + 1) : InCast(es[m])} = {m \in 1..n : InCast(es[m])} \cup {n + 1}
         /\ es[n + 1].type = "output" => ~InCast(es[n + 1])
<1>1. \A m \in 1..(n + 1) : m \in 1..n \/ m = n + 1
  OBVIOUS
<1>2. \A m \in 1..n : m \in 1..(n + 1)
  OBVIOUS
<1>3. n + 1 \in 1..(n + 1)
  OBVIOUS
<1>4. es[n + 1].type = "output" => ~InCast(es[n + 1])
  BY DEF InCast
<1>5. QED
  BY <1>1, <1>2, <1>3, <1>4

(* After output, with nothing that waits.                                   *)
LEMMA OutputDone ==
  ASSUME NEW es \in Seq(CastEventSet), NEW n \in Nat, n + 1 <= Len(es), es[n + 1].type = "output",
         NEW o, NEW tms, NEW ms, NEW rs, NEW now, CastAt(o, tms, ms, rs, n, now, es),
         NEW v, v = Text(o \o es[n + 1].bytes, TRUE),
         NEW tms2, NEW rs2,
         WrittenAll(rs2) = WrittenAll(rs) \o v.valid,
         DataOf(rs2) = {m \in 1..n : InCast(es[m])},
         RecsOK(rs2, IF v.rest = <<>> THEN es[n + 1].t ELSE tms2, es),
         v.rest # <<>> => tms2 \in Int /\ tms2 <= es[n + 1].t
  PROVE  CastAt(v.rest, tms2, <<>>, rs2, n + 1, es[n + 1].t, es)
<1> DEFINE t == es[n + 1].t
<1>1. es[n + 1].bytes \in Chars /\ t \in Int
  <2>1. es[n + 1] \in CastEventSet
    <3>1. n + 1 \in 1..Len(es)
      OBVIOUS
    <3>2. QED
      BY <3>1, ElementOfSeq
  <2>2. QED
    BY <2>1 DEF CastEventSet, Chars
<1>2. o \in Chars /\ o = Text(OpenIn(es, n), TRUE).rest /\ WrittenAll(rs) = BeforeIn(es, n, FALSE)
  BY DEF CastAt
<1>3. v.rest \in Chars
  <2>1. o \o es[n + 1].bytes \in Chars
    BY <1>1, <1>2, CharsConcat
  <2>2. v \in [valid : Chars, rest : Chars]
    BY <2>1, TextType
  <2>3. QED
    BY <2>2
<1>4. BeforeIn(es, n + 1, FALSE) = BeforeIn(es, n, FALSE) \o v.valid /\ Text(OpenIn(es, n + 1), TRUE).rest = v.rest
  BY <1>2, BeforeNext
<1>5. {m \in 1..(n + 1) : InCast(es[m])} = {m \in 1..n : InCast(es[m])}
  BY CountOutput
<1>6. \A i \in 1..Len(<<>>) : FALSE
  BY EmptyIs
<1>7. {<<>>[i].data : i \in 1..Len(<<>>)} = {}
  BY <1>6
<1>8. HeldOK(<<>>, IF v.rest = <<>> THEN t ELSE tms2, t, es, WrittenAll(rs2))
  BY HeldNone
<1>9. n + 1 # 0
  OBVIOUS
<1> DEFINE none == <<>>
<1>10. /\ none = <<>> /\ HeldOK(none, IF v.rest = none THEN t ELSE tms2, t, es, WrittenAll(rs2))
       /\ \A i \in 1..Len(none) : FALSE
       /\ {none[i].data : i \in 1..Len(none)} = {}
  BY <1>6, <1>7, <1>8
<1> HIDE DEF none, t
<1>11. CastAt(v.rest, tms2, none, rs2, n + 1, t, es)
  BY <1>1, <1>2, <1>3, <1>4, <1>5, <1>9, <1>10 DEF CastAt, t
<1>12. QED
  BY <1>10, <1>11 DEF t

(* What AfterMarkers does with the output, by the size of the code point it
   goes on with.                                                            *)
After(o, tms, ms, rs, t, b) ==
  LET size == RuneSize(o \o b)
      k == size - Len(o)
      first == FlushOutput(Cast(o \o SubSeq(b, 1, k), tms, ms, rs), FALSE)
  IN IF size = -1 THEN Cast(o \o b, tms, ms, rs)
     ELSE IF size = 0 THEN FlushOutput(Cast(b, t, <<>>, rs \o ms), FALSE)
     ELSE IF k = Len(b) THEN first
     ELSE FlushOutput(Cast(first.output \o From(b, k + 1), t, first.markers, first.records), FALSE)

(* AfterMarkers, unfolded.                                                  *)
LEMMA AfterMarkersIs ==
  ASSUME NEW o, NEW tms, NEW ms, NEW rs, NEW t, NEW b
  PROVE  AfterMarkers(Cast(o, tms, ms, rs), t, b) = After(o, tms, ms, rs, t, b)
<1> DEFINE c == Cast(o, tms, ms, rs)
<1>1. c.output = o /\ c.tms = tms /\ c.markers = ms /\ c.records = rs
  BY DEF Cast
<1> HIDE DEF c
<1>2. AfterMarkers(c, t, b) = After(o, tms, ms, rs, t, b)
  BY <1>1, Zenon DEF AfterMarkers, Consumed, PointTime, After
<1>3. QED
  BY <1>2 DEF c

(* What is said of a pass, its state as a record.                           *)
CastIs(c, n, now, es) == CastAt(c.output, c.tms, c.markers, c.records, n, now, es)

(* The same of a pass that is put together.                                 *)
LEMMA CastIsOf ==
  ASSUME NEW o, NEW tms, NEW ms, NEW rs, NEW n, NEW now, NEW es
  PROVE  CastIs(Cast(o, tms, ms, rs), n, now, es) <=> CastAt(o, tms, ms, rs, n, now, es)
<1> DEFINE c == Cast(o, tms, ms, rs)
<1>1. c.output = o /\ c.tms = tms /\ c.markers = ms /\ c.records = rs
  BY DEF Cast
<1> HIDE DEF c
<1>2. CastIs(c, n, now, es) <=> CastAt(o, tms, ms, rs, n, now, es)
  BY <1>1, Zenon DEF CastIs
<1>3. QED
  BY <1>2 DEF c

(* Output with nothing that waits for it.                                   *)
LEMMA OutputAlone ==
  ASSUME NEW es \in Seq(CastEventSet), NEW n \in Nat, n + 1 <= Len(es), es[n + 1].type = "output",
         NEW o, NEW tms, NEW rs, NEW now, CastAt(o, tms, <<>>, rs, n, now, es), now <= es[n + 1].t
  PROVE  CastIs(FlushOutput(Cast(o \o es[n + 1].bytes, IF o = <<>> THEN es[n + 1].t ELSE tms, <<>>, rs), FALSE),
                n + 1, es[n + 1].t, es)
<1> DEFINE t == es[n + 1].t
           b == es[n + 1].bytes
           t0 == IF o = <<>> THEN t ELSE tms
           v == Text(o \o b, TRUE)
           d == FlushOutput(Cast(o \o b, t0, <<>>, rs), FALSE)
           lo == IF o = <<>> THEN now ELSE tms
           none == <<>>
<1>1. b \in Chars /\ t \in Int
  <2>1. es[n + 1] \in CastEventSet
    <3>1. n + 1 \in 1..Len(es)
      OBVIOUS
    <3>2. QED
      BY <3>1, ElementOfSeq
  <2>2. QED
    BY <2>1 DEF CastEventSet, Chars
<1>2. /\ o \in Chars /\ now \in Int /\ (o # <<>> => tms \in Int /\ tms <= now) /\ RecsOK(rs, lo, es)
      /\ DataOf(rs) \cup {none[i].data : i \in 1..Len(none)} = {m \in 1..n : InCast(es[m])}
  BY DEF CastAt
<1>3. now <= t
  OBVIOUS
<1>4. t0 \in Int /\ t0 <= t /\ RecsOK(rs, t0, es)
  <2>1. CASE o = <<>>
    <3>1. t0 = t /\ lo = now
      BY <2>1
    <3> HIDE DEF t, t0, lo
    <3>2. QED
      BY <1>1, <1>2, <1>3, <3>1, RecsLater
  <2>2. CASE o # <<>>
    <3>1. t0 = tms /\ lo = tms
      BY <2>2
    <3> HIDE DEF t, t0, lo
    <3>2. QED
      BY <1>1, <1>2, <1>3, <2>2, <3>1
  <2>3. QED
    BY <2>1, <2>2
<1>5. DataOf(rs) = {m \in 1..n : InCast(es[m])}
  <2>1. \A i \in 1..Len(none) : FALSE
    BY EmptyIs
  <2>2. {none[i].data : i \in 1..Len(none)} = {}
    BY <2>1
  <2>3. QED
    BY <1>2, <2>2
<1>6. o \o b \in Chars
  BY <1>1, <1>2, CharsConcat
<1>7. PICK tms2, more :
        /\ d = Cast(v.rest, tms2, <<>>, more)
        /\ v.rest # <<>> => tms2 = t0
        /\ WrittenAll(more) = WrittenAll(rs) \o v.valid /\ DataOf(more) = DataOf(rs)
        /\ RecsOK(more, IF v.rest = <<>> THEN t ELSE t0, es)
  <2> DEFINE q == o \o b
  <2>1. q \in Chars
    BY <1>6
  <2> HIDE DEF q, t, t0
  <2>2. Adds(FlushOutput(Cast(q, t0, <<>>, rs), FALSE), Text(q, TRUE), rs, t0, t, es)
    BY <1>1, <1>4, <2>1, FlushNone
  <2>3. Adds(d, v, rs, t0, t, es)
    BY <2>2 DEF q
  <2> HIDE DEF d, v
  <2>4. QED
    BY <2>3 DEF Adds
<1> HIDE DEF t0
<1>8. RecsOK(more, IF v.rest = <<>> THEN t ELSE tms2, es)
  <2>1. CASE v.rest = <<>>
    BY <1>7, <2>1
  <2>2. CASE v.rest # <<>>
    BY <1>7, <2>2
  <2>3. QED
    BY <2>1, <2>2
<1>9. v.rest # <<>> => tms2 \in Int /\ tms2 <= t
  BY <1>4, <1>7
<1>10. DataOf(more) = {m \in 1..n : InCast(es[m])}
  BY <1>5, <1>7
<1> HIDE DEF v
<1>11. CastAt(v.rest, tms2, <<>>, more, n + 1, t, es)
  <2>1. v = Text(o \o es[n + 1].bytes, TRUE)
    BY DEF v
  <2>2. WrittenAll(more) = WrittenAll(rs) \o v.valid
    BY <1>7
  <2>3. QED
    BY <1>8, <1>9, <1>10, <2>1, <2>2, OutputDone
<1>12. CastIs(d, n + 1, t, es)
  BY <1>7, <1>11, CastIsOf
<1>13. QED
  BY <1>12 DEF t0

(* Markers that wait, wait for a code point that is incomplete.             *)
LEMMA HeldFacts ==
  ASSUME NEW es \in Seq(CastEventSet), NEW n \in 0..Len(es),
         NEW o, NEW tms, NEW ms, NEW rs, NEW now, CastAt(o, tms, ms, rs, n, now, es), o # <<>>
  PROVE  /\ o \in Chars /\ RuneSize(o) = -1 /\ tms \in Int /\ now \in Int /\ tms <= now
         /\ RecsOK(rs, tms, es) /\ HeldOK(ms, tms, now, es, WrittenAll(rs))
         /\ WrittenAll(rs) \in Chars
<1>1. /\ o \in Chars /\ now \in Int /\ tms \in Int /\ tms <= now
      /\ o = Text(OpenIn(es, n), TRUE).rest
      /\ WrittenAll(rs) = BeforeIn(es, n, FALSE)
  BY DEF CastAt
<1>2. OpenIn(es, n) \in Chars /\ BeforeIn(es, n, FALSE) \in Chars
  BY BeforeIs
<1>3. RuneSize(o) = -1
  BY <1>1, <1>2, TextType
<1>4. RecsOK(rs, tms, es) /\ HeldOK(ms, tms, now, es, WrittenAll(rs))
  BY DEF CastAt
<1>5. QED
  BY <1>1, <1>2, <1>3, <1>4

(* The markers that waited, when they come out with text p before them that
   is whole: each is in its place.                                          *)
LEMMA HeldOut ==
  ASSUME NEW es, NEW rs, NEW tms \in Int, NEW now \in Int, tms <= now, RecsOK(rs, tms, es),
         NEW ms, NEW w, HeldOK(ms, tms, now, es, w),
         \A m \in DataOf(rs) : \A i \in 1..Len(ms) : m < ms[i].data,
         \A i \in 1..Len(ms) : PlaceIn(es, ms[i].data, WrittenAll(rs))
  PROVE  /\ RecsOK(rs \o ms, now, es) /\ WrittenAll(rs \o ms) = WrittenAll(rs)
         /\ DataOf(rs \o ms) = DataOf(rs) \cup {ms[i].data : i \in 1..Len(ms)}
<1>1. MarksOK(ms, tms, now)
  BY DEF HeldOK
<1>2. QED
  BY <1>1, RecsMarks

(* The output goes on and the code point is still open.                     *)
LEMMA OutputOpen ==
  ASSUME NEW es \in Seq(CastEventSet), NEW n \in Nat, n + 1 <= Len(es), es[n + 1].type = "output",
         NEW o, NEW tms, NEW ms, NEW rs, NEW now, CastAt(o, tms, ms, rs, n, now, es), now <= es[n + 1].t,
         ms # <<>>, RuneSize(o \o es[n + 1].bytes) = -1
  PROVE  CastAt(o \o es[n + 1].bytes, tms, ms, rs, n + 1, es[n + 1].t, es)
<1> DEFINE t == es[n + 1].t
           b == es[n + 1].bytes
           q == o \o b
           w == WrittenAll(rs)
<1>1. b \in Chars /\ t \in Int
  <2>1. es[n + 1] \in CastEventSet
    <3>1. n + 1 \in 1..Len(es)
      OBVIOUS
    <3>2. QED
      BY <3>1, ElementOfSeq
  <2>2. QED
    BY <2>1 DEF CastEventSet, Chars
<1>2. o # <<>>
  BY DEF CastAt
<1>3. n \in 0..Len(es)
  OBVIOUS
<1>4. /\ o \in Chars /\ RuneSize(o) = -1 /\ tms \in Int /\ now \in Int /\ tms <= now
      /\ RecsOK(rs, tms, es) /\ HeldOK(ms, tms, now, es, w) /\ w \in Chars
  BY <1>2, <1>3, HeldFacts
<1>5. q \in Chars /\ q # <<>>
  BY <1>1, <1>2, <1>4, RuneOfConcat
<1>6. Text(q, TRUE) = [valid |-> <<>>, rest |-> q]
  BY <1>5, TextIs
<1>7. /\ o = Text(OpenIn(es, n), TRUE).rest /\ w = BeforeIn(es, n, FALSE)
      /\ \A m \in DataOf(rs) : \A i \in 1..Len(ms) : m < ms[i].data
      /\ DataOf(rs) \cup {ms[i].data : i \in 1..Len(ms)} = {m \in 1..n : InCast(es[m])}
  BY DEF CastAt
<1>8. BeforeIn(es, n + 1, FALSE) = w /\ Text(OpenIn(es, n + 1), TRUE).rest = q
  <2> DEFINE v == Text(o \o b, TRUE)
             vv == v.valid
  <2>1. vv = <<>> /\ v.rest = q
    <3>1. v = Text(q, TRUE)
      OBVIOUS
    <3>2. v = [valid |-> <<>>, rest |-> q]
      BY <1>6, <3>1
    <3> HIDE DEF q, v
    <3>3. v.valid = <<>> /\ v.rest = q
      BY <3>2
    <3>4. QED
      BY <3>3
  <2>2. BeforeIn(es, n + 1, FALSE) = w \o vv /\ Text(OpenIn(es, n + 1), TRUE).rest = v.rest
    BY <1>7, BeforeNext
  <2> HIDE DEF vv, w
  <2>3. w \o vv = w
    BY <1>4, <2>1, EmptyIs
  <2>4. QED
    BY <2>1, <2>2, <2>3
<1>9. {m \in 1..(n + 1) : InCast(es[m])} = {m \in 1..n : InCast(es[m])}
  BY CountOutput
<1> HIDE DEF t, b, w, q
<1>10. now <= t /\ tms <= t
  <2>1. now <= t
    BY DEF t
  <2>2. QED
    BY <1>1, <1>4, <2>1
<1>11. HeldOK(ms, tms, t, es, w)
  BY <1>1, <1>4, <1>10, HeldLater
<1>12. n + 1 # 0
  OBVIOUS
<1> DEFINE lo == IF q = <<>> THEN t ELSE tms
<1>13. lo = tms
  BY <1>5
<1>14. RecsOK(rs, lo, es) /\ HeldOK(ms, lo, t, es, WrittenAll(rs))
  BY <1>4, <1>11, <1>13 DEF w
<1>15. CastAt(q, tms, ms, rs, n + 1, t, es)
  BY <1>1, <1>4, <1>5, <1>7, <1>8, <1>9, <1>10, <1>12, <1>14 DEF CastAt, w
<1>16. QED
  BY <1>15 DEF q, t, b

(* The output does not go on with the code point: what was held of it is
   malformed, and the markers come out before the new output.               *)
LEMMA OutputBroken ==
  ASSUME NEW es \in Seq(CastEventSet), NEW n \in Nat, n + 1 <= Len(es), es[n + 1].type = "output",
         NEW o, NEW tms, NEW ms, NEW rs, NEW now, CastAt(o, tms, ms, rs, n, now, es), now <= es[n + 1].t,
         ms # <<>>, RuneSize(o \o es[n + 1].bytes) = 0
  PROVE  CastIs(FlushOutput(Cast(es[n + 1].bytes, es[n + 1].t, <<>>, rs \o ms), FALSE),
                n + 1, es[n + 1].t, es)
<1> DEFINE t == es[n + 1].t
           b == es[n + 1].bytes
           w == WrittenAll(rs)
           v == Text(o \o b, TRUE)
           rs1 == rs \o ms
           d == FlushOutput(Cast(b, t, <<>>, rs1), FALSE)
<1>1. b \in Chars /\ t \in Int
  <2>1. es[n + 1] \in CastEventSet
    <3>1. n + 1 \in 1..Len(es)
      OBVIOUS
    <3>2. QED
      BY <3>1, ElementOfSeq
  <2>2. QED
    BY <2>1 DEF CastEventSet, Chars
<1>2. o # <<>>
  BY DEF CastAt
<1>3. n \in 0..Len(es)
  OBVIOUS
<1>4. /\ o \in Chars /\ RuneSize(o) = -1 /\ tms \in Int /\ now \in Int /\ tms <= now
      /\ RecsOK(rs, tms, es) /\ HeldOK(ms, tms, now, es, w) /\ w \in Chars
  BY <1>2, <1>3, HeldFacts
<1>5. /\ \A m \in DataOf(rs) : \A i \in 1..Len(ms) : m < ms[i].data
      /\ DataOf(rs) \cup {ms[i].data : i \in 1..Len(ms)} = {m \in 1..n : InCast(es[m])}
  BY DEF CastAt
<1>6. \A i \in 1..Len(ms) : PlaceIn(es, ms[i].data, WrittenAll(rs))
  BY <1>4, HeldAtOnce
<1>7. /\ RecsOK(rs1, now, es) /\ WrittenAll(rs1) = w
      /\ DataOf(rs1) = {m \in 1..n : InCast(es[m])}
  BY <1>4, <1>5, <1>6, HeldOut
<1>8. v = Text(b, TRUE)
  BY <1>1, <1>2, <1>4, TextDrops
<1>9. now <= t
  OBVIOUS
<1> HIDE DEF rs1, w, t, b
<1>10. RecsOK(rs1, t, es)
  BY <1>1, <1>4, <1>7, <1>9, RecsLater
<1>11. PICK tms2, more :
         /\ d = Cast(v.rest, tms2, <<>>, more)
         /\ v.rest # <<>> => tms2 = t
         /\ WrittenAll(more) = WrittenAll(rs1) \o v.valid /\ DataOf(more) = DataOf(rs1)
         /\ RecsOK(more, IF v.rest = <<>> THEN t ELSE t, es)
  <2>1. Adds(FlushOutput(Cast(b, t, <<>>, rs1), FALSE), Text(b, TRUE), rs1, t, t, es)
    <3>1. t <= t
      BY <1>1
    <3>2. QED
      BY <1>1, <1>10, <3>1, FlushNone
  <2>2. Adds(d, v, rs1, t, t, es)
    BY <1>8, <2>1
  <2> HIDE DEF d, v
  <2>3. QED
    BY <2>2 DEF Adds
<1> HIDE DEF v, d
<1>12. RecsOK(more, IF v.rest = <<>> THEN t ELSE tms2, es)
  BY <1>11
<1>13. v.rest # <<>> => tms2 \in Int /\ tms2 <= t
  BY <1>1, <1>11
<1>14. CastAt(v.rest, tms2, <<>>, more, n + 1, t, es)
  <2>1. v = Text(o \o es[n + 1].bytes, TRUE)
    BY DEF v, b
  <2>2. WrittenAll(more) = WrittenAll(rs) \o v.valid /\ DataOf(more) = {m \in 1..n : InCast(es[m])}
    BY <1>7, <1>11 DEF w
  <2>3. RecsOK(more, IF v.rest = <<>> THEN es[n + 1].t ELSE tms2, es)
    BY <1>12 DEF t
  <2>4. v.rest # <<>> => tms2 \in Int /\ tms2 <= es[n + 1].t
    BY <1>13 DEF t
  <2>5. CastAt(v.rest, tms2, <<>>, more, n + 1, es[n + 1].t, es)
    BY <2>1, <2>2, <2>3, <2>4, OutputDone
  <2>6. QED
    BY <2>5 DEF t
<1>15. CastIs(d, n + 1, t, es)
  BY <1>11, <1>14, CastIsOf
<1>16. QED
  BY <1>15 DEF d, t, b, rs1

(* A code point that is whole is written, and then the markers that waited
   for it.                                                                  *)
LEMMA FlushWhole ==
  ASSUME NEW p \in Chars, p # <<>>, RuneSize(p) = Len(p), NEW tms, NEW ms, NEW rs
  PROVE  FlushOutput(Cast(p, tms, ms, rs), FALSE) =
           Cast(<<>>, 0, <<>>, (rs \o <<Record(tms, "o", p)>>) \o ms)
<1> DEFINE w == CastUTF8(p, FALSE)
           wv == w.valid
<1>1. wv = p /\ w.rest = <<>>
  <2>1. w = [valid |-> p, rest |-> <<>>]
    BY WholeText DEF CastUTF8
  <2> HIDE DEF w
  <2>2. w.valid = p /\ w.rest = <<>>
    BY <2>1
  <2>3. QED
    BY <2>2
<1>2. Flushed(p, tms, ms, rs, FALSE) =
        IF w.rest # <<>> THEN Cast(w.rest, tms, ms, rs \o (IF wv = <<>> THEN <<>> ELSE <<Record(tms, "o", wv)>>))
        ELSE Cast(<<>>, 0, <<>>, (rs \o (IF wv = <<>> THEN <<>> ELSE <<Record(tms, "o", wv)>>)) \o ms)
  BY Zenon DEF Flushed
<1> HIDE DEF w, wv
<1>3. Flushed(p, tms, ms, rs, FALSE) = Cast(<<>>, 0, <<>>, (rs \o <<Record(tms, "o", p)>>) \o ms)
  BY <1>1, <1>2, Zenon
<1>4. QED
  BY <1>3, FlushIs

(* The output completes the code point: it comes out with the time of its
   first byte, then the markers, then the output that follows it.           *)
LEMMA OutputWhole ==
  ASSUME NEW es \in Seq(CastEventSet), NEW n \in Nat, n + 1 <= Len(es), es[n + 1].type = "output",
         NEW o, NEW tms, NEW ms, NEW rs, NEW now, CastAt(o, tms, ms, rs, n, now, es), now <= es[n + 1].t,
         ms # <<>>, RuneSize(o \o es[n + 1].bytes) > 0,
         NEW k, k = RuneSize(o \o es[n + 1].bytes) - Len(o),
         NEW first, first = FlushOutput(Cast(o \o SubSeq(es[n + 1].bytes, 1, k), tms, ms, rs), FALSE)
  PROVE  /\ k = Len(es[n + 1].bytes) => CastIs(first, n + 1, es[n + 1].t, es)
         /\ CastIs(FlushOutput(Cast(first.output \o From(es[n + 1].bytes, k + 1), es[n + 1].t,
                                              first.markers, first.records), FALSE),
                   n + 1, es[n + 1].t, es)
<1> DEFINE t == es[n + 1].t
           b == es[n + 1].bytes
           w == WrittenAll(rs)
           v == Text(o \o b, TRUE)
           p == o \o SubSeq(b, 1, k)
           left == From(b, k + 1)
           next == Text(left, TRUE)
           rs1 == rs \o <<Record(tms, "o", p)>>
           rs2 == rs1 \o ms
           d == FlushOutput(Cast(first.output \o left, t, first.markers, first.records), FALSE)
<1>1. b \in Chars /\ t \in Int
  <2>1. es[n + 1] \in CastEventSet
    <3>1. n + 1 \in 1..Len(es)
      OBVIOUS
    <3>2. QED
      BY <3>1, ElementOfSeq
  <2>2. QED
    BY <2>1 DEF CastEventSet, Chars
<1>2. o # <<>>
  BY DEF CastAt
<1>3. n \in 0..Len(es)
  OBVIOUS
<1>4. /\ o \in Chars /\ RuneSize(o) = -1 /\ tms \in Int /\ now \in Int /\ tms <= now
      /\ RecsOK(rs, tms, es) /\ HeldOK(ms, tms, now, es, w) /\ w \in Chars
  BY <1>2, <1>3, HeldFacts
<1>5. /\ \A m \in DataOf(rs) : \A i \in 1..Len(ms) : m < ms[i].data
      /\ DataOf(rs) \cup {ms[i].data : i \in 1..Len(ms)} = {m \in 1..n : InCast(es[m])}
  BY DEF CastAt
<1>6. /\ k \in 1..Len(b) /\ p \in Chars /\ p # <<>> /\ RuneSize(p) = Len(p)
      /\ v = [valid |-> p \o next.valid, rest |-> next.rest]
  <2>1. LET j == RuneSize(o \o b) - Len(o)
            x == o \o SubSeq(b, 1, j)
            y == Text(From(b, j + 1), TRUE)
        IN /\ j \in 1..Len(b) /\ x \in Chars /\ x # <<>> /\ RuneSize(x) = Len(x)
           /\ Text(o \o b, TRUE) = [valid |-> x \o y.valid, rest |-> y.rest]
    BY <1>1, <1>2, <1>4, Completes
  <2>2. k = RuneSize(o \o b) - Len(o)
    OBVIOUS
  <2>3. QED
    BY <2>1, <2>2
<1>7. left \in Chars /\ next \in [valid : Chars, rest : Chars]
  <2>1. k + 1 \in 1..(Len(b) + 1)
    BY <1>1, <1>6
  <2>2. left \in Chars
    BY <1>1, <2>1, FromIs
  <2>3. QED
    BY <2>2, TextType
<1>8. first = Cast(<<>>, 0, <<>>, rs2)
  BY <1>6, FlushWhole
<1>9. RecsOK(rs1, tms, es) /\ DataOf(rs1) = DataOf(rs) /\ WrittenAll(rs1) = w \o p
  BY <1>4, <1>6, RecsText
<1>10. \A i \in 1..Len(ms) : PlaceIn(es, ms[i].data, WrittenAll(rs1))
  BY <1>4, <1>6, <1>9, HeldAfter
<1>11. now <= t
  OBVIOUS
<1> HIDE DEF rs1, t, w
<1>12. /\ RecsOK(rs2, now, es) /\ WrittenAll(rs2) = w \o p
       /\ DataOf(rs2) = {m \in 1..n : InCast(es[m])}
  <2>1. \A m \in DataOf(rs1) : \A i \in 1..Len(ms) : m < ms[i].data
    BY <1>5, <1>9
  <2>2. /\ RecsOK(rs1 \o ms, now, es) /\ WrittenAll(rs1 \o ms) = WrittenAll(rs1)
        /\ DataOf(rs1 \o ms) = DataOf(rs1) \cup {ms[i].data : i \in 1..Len(ms)}
    <3> HIDE DEF p
    <3>1. tms \in Int /\ now \in Int /\ tms <= now /\ RecsOK(rs1, tms, es) /\ HeldOK(ms, tms, now, es, w)
      BY <1>4, <1>9
    <3>2. QED
      BY <1>10, <2>1, <3>1, HeldOut
  <2>3. QED
    BY <1>5, <1>9, <2>2
<1> HIDE DEF rs2, b, p, v, left, next, d
<1>13. RecsOK(rs2, t, es)
  BY <1>1, <1>4, <1>11, <1>12, RecsLater
<1>14. next.valid \in Chars /\ next.rest \in Chars
  BY <1>7
<1>15. v.valid = p \o next.valid /\ v.rest = next.rest
  BY <1>6
<1> DEFINE pn == next.valid
<1> HIDE DEF pn
<1>16. (w \o p) \o pn = w \o v.valid
  <2>1. \A x \in Chars : \A y \in Chars : \A z \in Chars : (x \o y) \o z = x \o (y \o z)
    BY CharsAssoc
  <2>2. pn \in Chars /\ v.valid = p \o pn
    BY <1>14, <1>15 DEF pn
  <2>3. (w \o p) \o pn = w \o (p \o pn)
    BY <1>4, <1>6, <2>1, <2>2
  <2>4. QED
    BY <2>2, <2>3
<1>17. ASSUME NEW tms2, NEW more,
              WrittenAll(more) = WrittenAll(rs2) \o pn, DataOf(more) = DataOf(rs2),
              RecsOK(more, IF next.rest = <<>> THEN t ELSE tms2, es),
              next.rest # <<>> => tms2 = t
       PROVE  CastAt(next.rest, tms2, <<>>, more, n + 1, t, es)
  <2>1. v = Text(o \o es[n + 1].bytes, TRUE)
    BY DEF v, b
  <2>2. WrittenAll(more) = WrittenAll(rs) \o v.valid /\ DataOf(more) = {m \in 1..n : InCast(es[m])}
    BY <1>12, <1>16, <1>17 DEF w
  <2>3. RecsOK(more, IF v.rest = <<>> THEN es[n + 1].t ELSE tms2, es)
    BY <1>15, <1>17 DEF t
  <2>4. v.rest # <<>> => tms2 \in Int /\ tms2 <= es[n + 1].t
    BY <1>1, <1>15, <1>17 DEF t
  <2>5. CastAt(v.rest, tms2, <<>>, more, n + 1, es[n + 1].t, es)
    BY <2>1, <2>2, <2>3, <2>4, OutputDone
  <2>6. QED
    BY <1>15, <2>5 DEF t
<1>18. ASSUME k = Len(b)
       PROVE  CastIs(first, n + 1, t, es)
  <2>1. left = <<>>
    <3>1. k + 1 \in 1..(Len(b) + 1)
      BY <1>1, <1>6
    <3>2. Len(left) = Len(b) - (k + 1) + 1
      BY <1>1, <3>1, FromIs DEF left
    <3>3. Len(left) = 0
      BY <1>6, <1>18, <3>2
    <3>4. QED
      BY <1>7, <3>3, EmptyIs
  <2>2. next = Text0
    BY <2>1, EmptyIs, TextIs DEF next
  <2>3. pn = <<>> /\ next.rest = <<>>
    BY <2>2 DEF Text0, pn
  <2>4. WrittenAll(rs2) \in Chars
    BY <1>4, <1>6, <1>12, CharsConcat
  <2>5. WrittenAll(rs2) = WrittenAll(rs2) \o pn
    BY <2>3, <2>4, EmptyIs
  <2>6. RecsOK(rs2, IF next.rest = <<>> THEN t ELSE 0, es)
    BY <1>13, <2>3
  <2>7. CastAt(next.rest, 0, <<>>, rs2, n + 1, t, es)
    BY <1>17, <2>3, <2>5, <2>6
  <2>8. CastAt(<<>>, 0, <<>>, rs2, n + 1, t, es)
    BY <2>3, <2>7
  <2>9. QED
    BY <1>8, <2>8, CastIsOf
<1>19. CastIs(d, n + 1, t, es)
  <2>1. d = FlushOutput(Cast(left, t, <<>>, rs2), FALSE)
    <3> DEFINE c == Cast(<<>>, 0, <<>>, rs2)
    <3>0. c.output = <<>> /\ c.markers = <<>> /\ c.records = rs2
      BY DEF Cast
    <3> HIDE DEF c
    <3>1. first.output = <<>> /\ first.markers = <<>> /\ first.records = rs2
      BY <1>8, <3>0 DEF c
    <3>2. <<>> \o left = left
      BY <1>7, EmptyIs
    <3>3. QED
      BY <3>1, <3>2 DEF d
  <2>2. Adds(FlushOutput(Cast(left, t, <<>>, rs2), FALSE), Text(left, TRUE), rs2, t, t, es)
    <3>1. t <= t
      BY <1>1
    <3>2. QED
      BY <1>1, <1>7, <1>13, <3>1, FlushNone
  <2>3. PICK x, y :
          /\ d = Cast(next.rest, x, <<>>, y)
          /\ next.rest # <<>> => x = t
          /\ WrittenAll(y) = WrittenAll(rs2) \o pn /\ DataOf(y) = DataOf(rs2)
          /\ RecsOK(y, IF next.rest = <<>> THEN t ELSE t, es)
    BY <2>1, <2>2 DEF next, pn, Adds
  <2>4. RecsOK(y, IF next.rest = <<>> THEN t ELSE x, es)
    BY <2>3
  <2>5. CastAt(next.rest, x, <<>>, y, n + 1, t, es)
    BY <1>17, <2>3, <2>4
  <2>6. QED
    BY <2>3, <2>5, CastIsOf
<1>20. QED
  BY <1>18, <1>19 DEF d, t, b, left

(* Output, as it is read.                                                   *)
LEMMA OutputHeld ==
  ASSUME NEW es \in Seq(CastEventSet), NEW n \in Nat, n + 1 <= Len(es), es[n + 1].type = "output",
         NEW o, NEW tms, NEW ms, NEW rs, NEW now, CastAt(o, tms, ms, rs, n, now, es), now <= es[n + 1].t,
         ms # <<>>
  PROVE  CastIs(AfterMarkers(Cast(o, tms, ms, rs), es[n + 1].t, es[n + 1].bytes), n + 1, es[n + 1].t, es)
<1> DEFINE t == es[n + 1].t
           b == es[n + 1].bytes
           size == RuneSize(o \o b)
           k == size - Len(o)
           first == FlushOutput(Cast(o \o SubSeq(b, 1, k), tms, ms, rs), FALSE)
           broken == FlushOutput(Cast(b, t, <<>>, rs \o ms), FALSE)
           whole == FlushOutput(Cast(first.output \o From(b, k + 1), t, first.markers, first.records), FALSE)
           after == AfterMarkers(Cast(o, tms, ms, rs), t, b)
<1>1. after = IF size = -1 THEN Cast(o \o b, tms, ms, rs)
              ELSE IF size = 0 THEN broken
              ELSE IF k = Len(b) THEN first
              ELSE whole
  <2>1. after = After(o, tms, ms, rs, t, b)
    BY AfterMarkersIs
  <2> HIDE DEF after, t, b
  <2>2. QED
    BY <2>1, Zenon DEF After
<1>2. size = -1 \/ size = 0 \/ size > 0
  <2>1. b \in Chars /\ o \in Chars /\ o # <<>>
    <3>1. n + 1 \in 1..Len(es)
      OBVIOUS
    <3>2. es[n + 1] \in CastEventSet
      BY <3>1, ElementOfSeq
    <3>3. QED
      BY <3>2 DEF CastEventSet, Chars, CastAt
  <2>2. o \o b \in Chars /\ o \o b # <<>>
    BY <2>1, RuneOfConcat
  <2>3. size \in (-1)..3
    BY <2>2, RuneIs
  <2> HIDE DEF size
  <2>4. QED
    BY <2>3
<1>3. size = -1 => CastIs(Cast(o \o b, tms, ms, rs), n + 1, t, es)
  BY OutputOpen, CastIsOf
<1>4. size = 0 => CastIs(broken, n + 1, t, es)
  BY OutputBroken
<1>5. size > 0 => (k = Len(b) => CastIs(first, n + 1, t, es)) /\ CastIs(whole, n + 1, t, es)
  BY OutputWhole
<1> HIDE DEF size, broken, first, whole, after, k
<1>6. CASE size = -1
  BY <1>1, <1>3, <1>6, Zenon DEF after
<1>7. CASE size = 0
  <2>1. size # -1
    BY <1>7
  <2>2. QED
    BY <1>1, <1>4, <1>7, <2>1, Zenon DEF after
<1>8. CASE size > 0
  <2>1. size # -1 /\ size # 0
    BY <1>8
  <2>2. QED
    BY <1>1, <1>5, <1>8, <2>1, Zenon DEF after
<1>9. QED
  BY <1>2, <1>6, <1>7, <1>8

(* The event after the first n, and how late it is.                         *)
LEMMA EventIs ==
  ASSUME NEW es \in Seq(CastEventSet), NEW n \in Nat, n + 1 <= Len(es)
  PROVE  es[n + 1] \in CastEventSet /\ es[n + 1].t \in Int /\ es[n + 1].bytes \in Chars /\ n \in 0..Len(es)
<1>1. n + 1 \in 1..Len(es) /\ n \in 0..Len(es)
  OBVIOUS
<1>2. es[n + 1] \in CastEventSet
  BY <1>1, ElementOfSeq
<1>3. QED
  BY <1>1, <1>2 DEF CastEventSet, Chars

(* What a flush for the last time, or before another event, leaves.         *)
Ended(q, n, now, es) ==
  /\ now \in Int /\ RecsOK(q, now, es)
  /\ DataOf(q) = {m \in 1..n : InCast(es[m])}
  /\ n = 0 => q = <<>>
  /\ WrittenAll(q) = BeforeIn(es, n, FALSE)

(* An incomplete code point is dropped, and the markers that waited for it
   come out.                                                                *)
LEMMA FinalFlush ==
  ASSUME NEW es \in Seq(CastEventSet), NEW n \in 0..Len(es),
         NEW o, NEW tms, NEW ms, NEW rs, NEW now, CastAt(o, tms, ms, rs, n, now, es)
  PROVE  /\ FlushOutput(Cast(o, tms, ms, rs), TRUE) = Cast(<<>>, 0, <<>>, rs \o ms)
         /\ Ended(rs \o ms, n, now, es)
<1>1. /\ o \in Chars /\ now \in Int /\ (ms # <<>> => o # <<>>)
      /\ o = Text(OpenIn(es, n), TRUE).rest /\ WrittenAll(rs) = BeforeIn(es, n, FALSE)
      /\ DataOf(rs) \cup {ms[i].data : i \in 1..Len(ms)} = {m \in 1..n : InCast(es[m])}
      /\ \A m \in DataOf(rs) : \A i \in 1..Len(ms) : m < ms[i].data
      /\ n = 0 => rs = <<>>
  BY DEF CastAt
<1>2. rs \in Seq(CastRecords) /\ rs \o <<>> = rs
  <2>1. rs \in Seq(CastRecords)
    BY DEF CastAt, RecsOK
  <2>2. QED
    BY <2>1, ConcatEmptySeq
<1> DEFINE w == CastUTF8(o, TRUE)
           wv == w.valid
<1>3. wv = <<>> /\ w.rest = <<>>
  <2> DEFINE u == Text(o, TRUE)
             uv == u.valid
             z == Text(o, FALSE)
  <2>1. z = [valid |-> uv, rest |-> <<>>]
    BY <1>1, TextAllIs
  <2>2. w = z
    BY DEF CastUTF8
  <2>3. uv = <<>>
    <3>1. CASE o = <<>>
      <4>1. u = Text0
        BY <3>1, EmptyIs, TextIs
      <4> HIDE DEF u
      <4>2. QED
        BY <4>1 DEF Text0
    <3>2. CASE o # <<>>
      <4>1. RuneSize(o) = -1
        BY <3>2, HeldFacts
      <4>2. u = [valid |-> <<>>, rest |-> o]
        BY <1>1, <3>2, <4>1, TextIs
      <4> HIDE DEF u
      <4>3. QED
        BY <4>2
    <3>3. QED
      BY <3>1, <3>2
  <2> HIDE DEF w, z, uv
  <2>4. w.valid = <<>> /\ w.rest = <<>>
    BY <2>1, <2>2, <2>3
  <2>5. QED
    BY <2>4
<1>4. Flushed(o, tms, ms, rs, TRUE) =
        IF w.rest # <<>> THEN Cast(w.rest, tms, ms, rs \o (IF wv = <<>> THEN <<>> ELSE <<Record(tms, "o", wv)>>))
        ELSE Cast(<<>>, 0, <<>>, (rs \o (IF wv = <<>> THEN <<>> ELSE <<Record(tms, "o", wv)>>)) \o ms)
  BY Zenon DEF Flushed
<1> HIDE DEF w, wv
<1>5. Flushed(o, tms, ms, rs, TRUE) = Cast(<<>>, 0, <<>>, (rs \o <<>>) \o ms)
  BY <1>3, <1>4, Zenon
<1>6. FlushOutput(Cast(o, tms, ms, rs), TRUE) = Cast(<<>>, 0, <<>>, rs \o ms)
  BY <1>2, <1>5, FlushIs
<1>7. /\ RecsOK(rs \o ms, now, es) /\ WrittenAll(rs \o ms) = WrittenAll(rs)
      /\ DataOf(rs \o ms) = DataOf(rs) \cup {ms[i].data : i \in 1..Len(ms)}
  <2>1. CASE o = <<>>
    <3>1. ms = <<>> /\ rs \o ms = rs
      BY <1>1, <1>2, <2>1
    <3>2. RecsOK(rs, now, es)
      <4> DEFINE lo == IF o = <<>> THEN now ELSE tms
      <4>1. RecsOK(rs, lo, es) /\ lo = now
        BY <2>1 DEF CastAt
      <4>2. QED
        BY <4>1
    <3>3. {ms[i].data : i \in 1..Len(ms)} = {}
      <4>1. \A i \in 1..Len(ms) : FALSE
        BY <3>1, EmptyIs
      <4>2. QED
        BY <4>1
    <3>4. QED
      BY <3>1, <3>2, <3>3
  <2>2. CASE o # <<>>
    <3>1. /\ tms \in Int /\ tms <= now
          /\ RecsOK(rs, tms, es) /\ HeldOK(ms, tms, now, es, WrittenAll(rs))
      BY <2>2, HeldFacts
    <3>2. \A i \in 1..Len(ms) : PlaceIn(es, ms[i].data, WrittenAll(rs))
      BY <3>1, HeldAtOnce
    <3>3. \A m \in DataOf(rs) : \A i \in 1..Len(ms) : m < ms[i].data
      BY <1>1
    <3>4. now \in Int
      BY <1>1
    <3>5. QED
      BY <3>1, <3>2, <3>3, <3>4, HeldOut
  <2>3. QED
    BY <2>1, <2>2
<1>8. n = 0 => rs \o ms = <<>>
  <2> SUFFICES ASSUME n = 0 PROVE rs \o ms = <<>>
    OBVIOUS
  <2>1. OpenIn(es, n) = <<>>
    BY UpToIs DEF OpenIn, UpTo0
  <2> DEFINE u == Text(OpenIn(es, n), TRUE)
  <2>2. u = Text0 /\ o = u.rest
    BY <1>1, <2>1, EmptyIs, TextIs
  <2> HIDE DEF u
  <2>3. o = <<>>
    BY <2>2 DEF Text0
  <2>4. ms = <<>>
    BY <1>1, <2>3
  <2>5. QED
    BY <1>1, <1>2, <2>4
<1>9. QED
  BY <1>1, <1>6, <1>7, <1>8 DEF Ended

(* An event that is no output, with nothing that waits for a code point: it
   comes out, if a cast has it, after all text before it.                   *)
LEMMA OtherKeeps ==
  ASSUME NEW es \in Seq(CastEventSet), NEW n \in Nat, n + 1 <= Len(es), es[n + 1].type # "output",
         NEW o, NEW tms, NEW ms, NEW rs, NEW now, CastAt(o, tms, ms, rs, n, now, es), now <= es[n + 1].t,
         ~(es[n + 1].type = "marker" /\ o # <<>>),
         NEW k \in {"m", "r", "i"}
  PROVE  LET q == rs \o ms
             r == Append(q, Record(es[n + 1].t, k, n + 1))
         IN CastAt(<<>>, 0, <<>>, IF InCast(es[n + 1]) THEN r ELSE q, n + 1, es[n + 1].t, es)
<1> DEFINE t == es[n + 1].t
           q == rs \o ms
           x == Record(t, k, n + 1)
           one == <<x>>
           r == Append(q, x)
           p == IF InCast(es[n + 1]) THEN r ELSE q
           w == WrittenAll(q)
<1>1. t \in Int /\ n \in 0..Len(es) /\ n + 1 \in 0..Len(es)
  BY EventIs
<1>2. now <= t
  OBVIOUS
<1>3. Ended(q, n, now, es)
  BY <1>1, FinalFlush
<1>4. /\ now \in Int /\ RecsOK(q, now, es) /\ DataOf(q) = {m \in 1..n : InCast(es[m])} /\ w = BeforeIn(es, n, FALSE)
  BY <1>3 DEF Ended
<1>5. BeforeIn(es, n + 1, FALSE) = w /\ BeforeIn(es, n + 1, TRUE) = w
  <2>1. BeforeIn(es, n + 1, FALSE) = BeforeIn(es, n, FALSE)
    BY BeforeNext
  <2>2. BeforeIn(es, n + 1, TRUE) = BeforeIn(es, n + 1, FALSE)
    BY <1>1, BeforeIs
  <2>3. QED
    BY <1>4, <2>1, <2>2
<1>6. Text(OpenIn(es, n + 1), TRUE).rest = <<>>
  <2>1. CASE es[n + 1].type = "marker"
    <3>1. OpenIn(es, n + 1) = OpenIn(es, n)
      BY <2>1, BeforeNext
    <3>2. o = <<>> /\ o = Text(OpenIn(es, n), TRUE).rest
      BY <2>1 DEF CastAt
    <3>3. QED
      BY <3>1, <3>2
  <2>2. CASE es[n + 1].type # "marker"
    BY <2>2, BeforeNext
  <2>3. QED
    BY <2>1, <2>2
<1>7. PlaceIn(es, n + 1, w)
  <2>1. BeforeIn(es, n + 1, es[n + 1].type # "marker") = w
    BY <1>5
  <2>2. QED
    BY <2>1 DEF PlaceIn
<1> HIDE DEF t, q, w
<1>8. RecsOK(q, t, es)
  BY <1>1, <1>2, <1>4, RecsLater
<1>9. InCast(es[n + 1]) =>
        /\ RecsOK(r, t, es) /\ WrittenAll(r) = w
        /\ DataOf(r) = {m \in 1..n : InCast(es[m])} \cup {n + 1}
  <2>1. x \in CastMarks /\ x.t = t /\ x.data = n + 1
    BY <1>1 DEF CastMarks, Record
  <2> HIDE DEF x
  <2>2. one \in Seq(CastMarks) /\ Len(one) = 1 /\ one[1] = x
    BY <2>1
  <2>3. \A i \in 1..Len(one) : i = 1
    BY <2>2
  <2>4. MarksOK(one, t, t)
    BY <1>1, <2>1, <2>2, <2>3 DEF MarksOK
  <2>5. \A m \in DataOf(q) : \A j \in 1..Len(one) : m < one[j].data
    <3>1. \A m \in DataOf(q) : m < n + 1
      BY <1>4
    <3>2. QED
      BY <2>1, <2>2, <2>3, <3>1
  <2>6. \A j \in 1..Len(one) : PlaceIn(es, one[j].data, WrittenAll(q))
    BY <1>7, <2>1, <2>2, <2>3 DEF w
  <2>7. {one[j].data : j \in 1..Len(one)} = {n + 1}
    BY <2>1, <2>2
  <2>8. r = q \o one
    <3>1. q \in Seq(CastRecords)
      BY <1>4 DEF RecsOK
    <3>2. x \in CastRecords
      BY <2>1 DEF CastRecords
    <3>3. QED
      BY <3>1, <3>2, AppendIsConcat
  <2> HIDE DEF one, r
  <2>9. /\ RecsOK(q \o one, t, es) /\ WrittenAll(q \o one) = WrittenAll(q)
        /\ DataOf(q \o one) = DataOf(q) \cup {one[j].data : j \in 1..Len(one)}
    <3>1. t <= t
      BY <1>1
    <3>2. QED
      BY <1>1, <1>8, <2>4, <2>5, <2>6, <3>1, RecsMarks
  <2>10. QED
    BY <1>4, <2>7, <2>8, <2>9 DEF w
<1> HIDE DEF r
<1>10. /\ RecsOK(p, t, es) /\ WrittenAll(p) = w
       /\ DataOf(p) = {m \in 1..(n + 1) : InCast(es[m])}
  <2>1. CASE InCast(es[n + 1])
    <3>1. p = r
      BY <2>1
    <3>2. {m \in 1..(n + 1) : InCast(es[m])} = {m \in 1..n : InCast(es[m])} \cup {n + 1}
      BY <2>1, CountOutput
    <3>3. QED
      BY <1>9, <2>1, <3>1, <3>2
  <2>2. CASE ~InCast(es[n + 1])
    <3>1. p = q
      BY <2>2
    <3>2. {m \in 1..(n + 1) : InCast(es[m])} = {m \in 1..n : InCast(es[m])}
      BY <2>2, CountOutput
    <3>3. QED
      BY <1>4, <1>8, <3>1, <3>2 DEF w
  <2>3. QED
    BY <2>1, <2>2
<1> HIDE DEF p
<1>11. CastAt(<<>>, 0, <<>>, p, n + 1, t, es)
  <2> DEFINE none == <<>>
  <2>1. none = <<>> /\ none \in Chars /\ \A i \in 1..Len(none) : FALSE
    BY EmptyIs
  <2>2. {none[i].data : i \in 1..Len(none)} = {}
    BY <2>1
  <2>3. HeldOK(none, t, t, es, WrittenAll(p))
    BY HeldNone
  <2>4. n + 1 # 0
    OBVIOUS
  <2> HIDE DEF none
  <2> DEFINE lo == IF none = <<>> THEN t ELSE 0
  <2>5. lo = t
    BY <2>1
  <2>6. RecsOK(p, lo, es) /\ HeldOK(none, lo, t, es, WrittenAll(p))
    BY <1>10, <2>3, <2>5
  <2>7. none = Text(OpenIn(es, n + 1), TRUE).rest /\ WrittenAll(p) = BeforeIn(es, n + 1, FALSE)
    BY <1>5, <1>6, <1>10, <2>1
  <2>8. DataOf(p) \cup {none[i].data : i \in 1..Len(none)} = {m \in 1..(n + 1) : InCast(es[m])}
    BY <1>10, <2>2
  <2>9. CastAt(none, 0, none, p, n + 1, t, es)
    BY <1>1, <2>1, <2>4, <2>6, <2>7, <2>8 DEF CastAt
  <2>10. QED
    BY <2>9 DEF none
<1>12. QED
  BY <1>11 DEF p, r, q, x, t

(* A marker in the middle of a code point waits.                            *)
LEMMA MarkerKeeps ==
  ASSUME NEW es \in Seq(CastEventSet), NEW n \in Nat, n + 1 <= Len(es), es[n + 1].type = "marker",
         NEW o, NEW tms, NEW ms, NEW rs, NEW now, CastAt(o, tms, ms, rs, n, now, es), now <= es[n + 1].t,
         o # <<>>
  PROVE  CastAt(o, tms, Append(ms, Record(es[n + 1].t, "m", n + 1)), rs, n + 1, es[n + 1].t, es)
<1> DEFINE t == es[n + 1].t
           x == Record(t, "m", n + 1)
           l == Append(ms, x)
           M == Len(ms)
           w == WrittenAll(rs)
<1>1. t \in Int /\ n \in 0..Len(es) /\ n + 1 \in 0..Len(es)
  BY EventIs
<1>2. now <= t
  OBVIOUS
<1>3. /\ o \in Chars /\ tms \in Int /\ now \in Int /\ tms <= now
      /\ RecsOK(rs, tms, es) /\ HeldOK(ms, tms, now, es, w) /\ w \in Chars
  BY <1>1, HeldFacts
<1>4. /\ o = Text(OpenIn(es, n), TRUE).rest /\ w = BeforeIn(es, n, FALSE)
      /\ DataOf(rs) \cup {ms[i].data : i \in 1..M} = {m \in 1..n : InCast(es[m])}
      /\ \A m \in DataOf(rs) : \A i \in 1..M : m < ms[i].data
  BY DEF CastAt
<1>5. x \in CastMarks /\ x.t = t /\ x.data = n + 1
  BY <1>1 DEF CastMarks, Record
<1>6. HeldOK(ms, tms, t, es, w)
  <2> HIDE DEF t, w
  <2>1. QED
    BY <1>1, <1>2, <1>3, HeldLater
<1> HIDE DEF x
<1>7. /\ ms \in Seq(CastMarks)
      /\ \A i \in 1..M : tms <= ms[i].t /\ ms[i].t <= t
      /\ \A i, j \in 1..M : i < j => ms[i].t <= ms[j].t /\ ms[i].data < ms[j].data
      /\ \A i \in 1..M :
           /\ es[ms[i].data].type = "marker"
           /\ w = BeforeIn(es, ms[i].data, FALSE)
           /\ CastUTF8(TextUpTo(es)[ms[i].data].open, FALSE).rest # <<>>
  BY <1>6 DEF HeldOK, MarksOK
<1>8. /\ l \in Seq(CastMarks) /\ Len(l) = M + 1 /\ M \in Nat
      /\ \A i \in 1..M : l[i] = ms[i]
      /\ l[M + 1] = x
  BY <1>5, <1>7, AppendProperties
<1>9. \A i \in 1..(M + 1) : i \in 1..M \/ i = M + 1
  BY <1>8
<1>10. \A i \in 1..M : ms[i].data < n + 1
  <2> SUFFICES ASSUME NEW i \in 1..M PROVE ms[i].data < n + 1
    OBVIOUS
  <2>1. ms[i].data \in {m \in 1..n : InCast(es[m])}
    BY <1>4
  <2>2. ms[i].data \in 1..n
    BY <2>1
  <2>3. QED
    BY <2>2
<1>11. CastUTF8(TextUpTo(es)[n + 1].open, FALSE).rest # <<>> /\ w = BeforeIn(es, n + 1, FALSE)
       /\ o = Text(OpenIn(es, n + 1), TRUE).rest
  <2>1. OpenIn(es, n + 1) = OpenIn(es, n) /\ BeforeIn(es, n + 1, FALSE) = BeforeIn(es, n, FALSE)
    BY BeforeNext
  <2>2. CastUTF8(OpenIn(es, n + 1), FALSE) = Text(OpenIn(es, n + 1), TRUE)
    BY DEF CastUTF8
  <2>3. CastUTF8(OpenIn(es, n + 1), FALSE).rest = o
    BY <1>4, <2>1, <2>2
  <2>4. QED
    BY <1>4, <2>1, <2>3 DEF OpenIn
<1> DEFINE T == 1..(M + 1)
<1>12. es[n + 1].type = "marker"
  OBVIOUS
<1> HIDE DEF l, M, t, w
<1>13. HeldOK(l, tms, t, es, w)
  <2>1. \A i \in T : tms <= l[i].t /\ l[i].t <= t
    <3> SUFFICES ASSUME NEW i \in T PROVE tms <= l[i].t /\ l[i].t <= t
      OBVIOUS
    <3>1. CASE i \in 1..M
      BY <1>7, <1>8, <3>1
    <3>2. CASE i = M + 1
      <4>1. l[i].t = t
        BY <1>5, <1>8, <3>2
      <4>2. tms <= t
        BY <1>1, <1>2, <1>3
      <4>3. QED
        BY <1>1, <4>1, <4>2
    <3>3. QED
      BY <1>9, <3>1, <3>2
  <2>2. ASSUME NEW i \in T, NEW j \in T, i < j
        PROVE  l[i].t <= l[j].t /\ l[i].data < l[j].data
    <3>1. i \in 1..M /\ l[i] = ms[i]
      BY <1>8, <2>2
    <3>2. CASE j \in 1..M
      BY <1>7, <1>8, <2>2, <3>1, <3>2
    <3>3. CASE j = M + 1
      <4>1. l[j].t = t /\ l[j].data = n + 1
        BY <1>5, <1>8, <3>3
      <4>2. ms[i].t <= t /\ ms[i].data < n + 1
        BY <1>7, <1>10, <3>1
      <4>3. QED
        BY <3>1, <4>1, <4>2
    <3>4. QED
      BY <1>9, <3>2, <3>3
  <2>3. ASSUME NEW i \in T
        PROVE  /\ es[l[i].data].type = "marker"
               /\ w = BeforeIn(es, l[i].data, FALSE)
               /\ CastUTF8(TextUpTo(es)[l[i].data].open, FALSE).rest # <<>>
    <3>1. CASE i \in 1..M
      BY <1>7, <1>8, <3>1
    <3>2. CASE i = M + 1
      <4>1. l[i].data = n + 1
        BY <1>5, <1>8, <3>2
      <4>2. QED
        BY <1>11, <1>12, <4>1
    <3>3. QED
      BY <1>9, <3>1, <3>2
  <2>4. T = 1..Len(l)
    BY <1>8
  <2> HIDE DEF T
  <2>5. QED
    BY <1>8, <2>1, <2>2, <2>3, <2>4 DEF HeldOK, MarksOK
<1>14. DataOf(rs) \cup {l[i].data : i \in 1..Len(l)} = {m \in 1..(n + 1) : InCast(es[m])}
  <2>1. InCast(es[n + 1])
    BY DEF InCast
  <2>2. {m \in 1..(n + 1) : InCast(es[m])} = {m \in 1..n : InCast(es[m])} \cup {n + 1}
    BY <2>1, CountOutput
  <2>3. {l[i].data : i \in 1..Len(l)} = {ms[i].data : i \in 1..M} \cup {n + 1}
    <3>1. \A i \in 1..M : i \in 1..(M + 1)
      BY <1>8
    <3>2. M + 1 \in 1..(M + 1)
      BY <1>8
    <3>3. \A i \in 1..M : l[i].data = ms[i].data
      BY <1>8
    <3>4. l[M + 1].data = n + 1 /\ 1..Len(l) = T
      BY <1>5, <1>8
    <3>5. QED
      BY <1>9, <3>1, <3>2, <3>3, <3>4
  <2>4. QED
    BY <1>4, <2>2, <2>3 DEF M
<1>15. \A m \in DataOf(rs) : \A i \in 1..Len(l) : m < l[i].data
  <2>1. \A m \in DataOf(rs) : m < n + 1
    BY <1>4
  <2>2. \A m \in DataOf(rs) : \A i \in T : m < l[i].data
    BY <1>4, <1>5, <1>8, <1>9, <2>1 DEF M
  <2>3. QED
    BY <1>8, <2>2
<1> DEFINE lo == IF o = <<>> THEN t ELSE tms
<1>16. lo = tms
  OBVIOUS
<1>17. RecsOK(rs, lo, es) /\ HeldOK(l, lo, t, es, WrittenAll(rs))
  BY <1>3, <1>13, <1>16 DEF w
<1>18. tms <= t /\ n + 1 # 0
  BY <1>1, <1>2, <1>3
<1>19. CastAt(o, tms, l, rs, n + 1, t, es)
  BY <1>1, <1>3, <1>11, <1>14, <1>15, <1>17, <1>18 DEF CastAt, w
<1>20. QED
  BY <1>19 DEF l, x, t

(* The time of the last event read.                                         *)
NowT(es, n) == IF n = 0 THEN (IF Len(es) = 0 THEN 0 ELSE es[1].t) ELSE es[n].t

(* Time goes on in a trace.                                                 *)
LEMMA NowIs ==
  ASSUME NEW es \in Timed
  PROVE  /\ es \in Seq(CastEventSet) /\ Len(es) \in Nat
         /\ \A n \in 0..Len(es) : NowT(es, n) \in Int
         /\ \A n \in Nat : n + 1 <= Len(es) => NowT(es, n) <= es[n + 1].t /\ NowT(es, n + 1) = es[n + 1].t
<1>1. es \in Seq(CastEventSet) /\ \A i, j \in DOMAIN es : i <= j => es[i].t <= es[j].t
  BY DEF Timed
<1>2. Len(es) \in Nat /\ DOMAIN es = 1..Len(es)
  BY <1>1
<1>3. \A i \in 1..Len(es) : es[i].t \in Int
  <2> SUFFICES ASSUME NEW i \in 1..Len(es) PROVE es[i].t \in Int
    OBVIOUS
  <2>1. es[i] \in CastEventSet
    BY <1>1, ElementOfSeq
  <2>2. QED
    BY <2>1 DEF CastEventSet
<1>4. ASSUME NEW n \in 0..Len(es) PROVE NowT(es, n) \in Int
  <2>1. CASE n = 0 /\ Len(es) = 0
    BY <2>1 DEF NowT
  <2>2. CASE n = 0 /\ Len(es) # 0
    BY <1>2, <1>3, <2>2 DEF NowT
  <2>3. CASE n # 0
    <3>1. n \in 1..Len(es) /\ NowT(es, n) = es[n].t
      BY <1>2, <2>3 DEF NowT
    <3>2. QED
      BY <1>3, <3>1
  <2>4. QED
    BY <2>1, <2>2, <2>3
<1>5. ASSUME NEW n \in Nat, n + 1 <= Len(es) PROVE NowT(es, n) <= es[n + 1].t /\ NowT(es, n + 1) = es[n + 1].t
  <2>1. NowT(es, n + 1) = es[n + 1].t
    BY DEF NowT
  <2>2. CASE n = 0
    <3>1. NowT(es, n) = es[1].t /\ 1 \in 1..Len(es)
      BY <1>2, <1>5, <2>2 DEF NowT
    <3>2. es[n + 1].t = es[1].t /\ es[1].t \in Int
      BY <1>3, <2>2, <3>1
    <3>3. QED
      BY <2>1, <3>1, <3>2
  <2>3. CASE n # 0
    <3>1. NowT(es, n) = es[n].t /\ n \in 1..Len(es) /\ n + 1 \in 1..Len(es) /\ n <= n + 1
      BY <1>2, <1>5, <2>3 DEF NowT
    <3>2. QED
      BY <1>1, <1>2, <2>1, <3>1
  <2>4. QED
    BY <2>2, <2>3
<1>6. QED
  BY <1>1, <1>2, <1>4, <1>5

-----------------------------------------------------------------------------
(* The invariant of the cast.                                               *)
CastInv ==
  /\ trace \in Timed /\ at \in 0..Len(trace) /\ done \in BOOLEAN
  /\ ~done => CastAt(output, outputTMS, markers, records, at, NowT(trace, at), trace)
  /\ done => at = Len(trace) /\ Ended(records, at, NowT(trace, at), trace)

(* Nothing is read, nothing is written.                                     *)
LEMMA CastStarts ==
  ASSUME Traces \subseteq Timed, Init
  PROVE  CastInv
<1> DEFINE now == NowT(trace, 0)
           none == <<>>
<1>1. /\ trace \in Timed /\ at = 0 /\ output = none /\ outputTMS = 0 /\ markers = none
      /\ records = none /\ done = FALSE
  BY DEF Init
<1>2. trace \in Seq(CastEventSet) /\ Len(trace) \in Nat /\ 0 \in 0..Len(trace) /\ now \in Int
  BY <1>1, NowIs
<1>3. none \in Chars /\ none \in Seq(CastRecords) /\ \A i \in 1..Len(none) : FALSE
  BY EmptyIs
<1>4. Marks(none) = {} /\ DataOf(none) = {} /\ {none[i].data : i \in 1..Len(none)} = {}
  BY <1>3 DEF Marks, DataOf
<1>5. {m \in 1..0 : InCast(trace[m])} = {}
  OBVIOUS
<1>6. RecsOK(none, now, trace)
  BY <1>3, <1>4 DEF RecsOK
<1>7. HeldOK(none, now, now, trace, WrittenAll(none))
  BY HeldNone
<1>8. WrittenAll(none) = none
  <2>1. Len(none) = 0
    BY EmptyIs
  <2>2. Written(none)[0] = none
    BY <1>3, WrittenIs
  <2>3. QED
    BY <2>1, <2>2 DEF WrittenAll
<1>9. BeforeIn(trace, 0, FALSE) = none /\ Text(OpenIn(trace, 0), TRUE).rest = none
  <2>1. TextUpTo(trace)[0].text = none /\ OpenIn(trace, 0) = none
    BY <1>2, UpToIs DEF OpenIn, UpTo0
  <2> DEFINE u == Text(OpenIn(trace, 0), TRUE)
             uv == u.valid
  <2>2. u = Text0
    BY <1>3, <2>1, TextIs
  <2>3. BeforeIn(trace, 0, FALSE) = TextUpTo(trace)[0].text \o uv
    BY <1>2, BeforeIs
  <2> HIDE DEF u
  <2>4. uv = none /\ u.rest = none
    BY <2>2 DEF Text0
  <2> HIDE DEF uv
  <2>5. none \o none = none
    BY <1>3, EmptyIs
  <2>6. QED
    BY <2>1, <2>3, <2>4, <2>5 DEF u
<1> HIDE DEF none, now
<1> DEFINE lo == IF none = <<>> THEN now ELSE 0
<1>10. none = <<>>
  BY DEF none
<1>11. RecsOK(none, lo, trace) /\ HeldOK(none, lo, now, trace, WrittenAll(none))
  BY <1>6, <1>7, <1>10
<1>12. CastAt(none, 0, none, none, 0, now, trace)
  BY <1>2, <1>3, <1>4, <1>5, <1>8, <1>9, <1>10, <1>11 DEF CastAt
<1>13. QED
  BY <1>1, <1>2, <1>12 DEF CastInv, now

(* A step reads one event; it leaves the pass where it should be after it.  *)
LEMMA ReadKeeps ==
  ASSUME CastInv, ~done, at < Len(trace), at' = at + 1, UNCHANGED <<trace, done>>,
         CastAt(output', outputTMS', markers', records', at + 1, trace[at + 1].t, trace)
  PROVE  CastInv'
<1>1. trace \in Timed /\ at \in 0..Len(trace) /\ Len(trace) \in Nat
  BY NowIs DEF CastInv
<1>2. at + 1 \in 0..Len(trace) /\ at \in Nat /\ at + 1 <= Len(trace)
  BY <1>1
<1>3. NowT(trace, at + 1) = trace[at + 1].t
  BY <1>1, <1>2, NowIs
<1>4. CastAt(output', outputTMS', markers', records', at', NowT(trace', at'), trace')
  BY <1>3
<1>5. trace' = trace /\ done' = done /\ at' \in 0..Len(trace')
  BY <1>2
<1>6. QED
  BY <1>1, <1>4, <1>5 DEF CastInv

(* What holds before an event is read.                                      *)
LEMMA BeforeReading ==
  ASSUME CastInv, at < Len(trace)
  PROVE  /\ ~done /\ trace \in Seq(CastEventSet) /\ at \in Nat /\ at + 1 <= Len(trace)
         /\ CastAt(output, outputTMS, markers, records, at, NowT(trace, at), trace)
         /\ NowT(trace, at) <= trace[at + 1].t
<1>1. trace \in Timed /\ at \in 0..Len(trace) /\ Len(trace) \in Nat /\ trace \in Seq(CastEventSet)
  BY NowIs DEF CastInv
<1>2. at \in Nat /\ at + 1 <= Len(trace) /\ at # Len(trace)
  BY <1>1
<1>3. ~done
  BY <1>2 DEF CastInv
<1>4. QED
  BY <1>1, <1>2, <1>3, NowIs DEF CastInv

(* Become, as the pass after it.                                            *)
LEMMA BecomeIs ==
  ASSUME NEW c, NEW n, NEW now, NEW es, CastIs(c, n, now, es), Become(c)
  PROVE  CastAt(output', outputTMS', markers', records', n, now, es)
<1>1. output' = c.output /\ outputTMS' = c.tms /\ markers' = c.markers /\ records' = c.records
  BY DEF Become
<1>2. CastAt(c.output, c.tms, c.markers, c.records, n, now, es)
  BY DEF CastIs
<1>3. QED
  BY <1>1, <1>2

(* Output,                                                                  *)
LEMMA OutputKeeps == CastInv /\ ReadOutput => CastInv'
<1> SUFFICES ASSUME CastInv, ReadOutput PROVE CastInv'
  OBVIOUS
<1> DEFINE e == trace[at + 1]
           now == NowT(trace, at)
<1>1. /\ at < Len(trace) /\ e.type = "output" /\ at' = at + 1 /\ UNCHANGED <<trace, done>>
      /\ Output(e)
  BY DEF ReadOutput
<1>2. /\ ~done /\ trace \in Seq(CastEventSet) /\ at \in Nat /\ at + 1 <= Len(trace)
      /\ CastAt(output, outputTMS, markers, records, at, now, trace) /\ now <= e.t
  BY <1>1, BeforeReading
<1> HIDE DEF now
<1> DEFINE c == Cast(output, IF output = <<>> THEN e.t ELSE outputTMS, markers, records)
           alone == FlushOutput(Cast(output \o e.bytes, IF output = <<>> THEN e.t ELSE outputTMS, <<>>, records), FALSE)
           ctms == c.tms
           flushed == FlushOutput(Cast(output \o e.bytes, ctms, markers, records), FALSE)
           after == AfterMarkers(c, e.t, e.bytes)
<1>3. Become(IF markers = <<>> THEN flushed ELSE after)
  BY <1>1, Zenon DEF Output
<1>4. CASE markers = <<>>
  <2>1. ctms = IF output = <<>> THEN e.t ELSE outputTMS
    BY DEF Cast
  <2> HIDE DEF ctms, c, after
  <2>2. flushed = alone
    BY <1>4, <2>1
  <2>3. CastAt(output, outputTMS, <<>>, records, at, now, trace)
    BY <1>2, <1>4
  <2>4. CastIs(alone, at + 1, e.t, trace)
    BY <1>1, <1>2, <2>3, OutputAlone
  <2> HIDE DEF flushed, alone
  <2>5. Become(alone)
    BY <1>3, <1>4, <2>2, Zenon
  <2>6. CastAt(output', outputTMS', markers', records', at + 1, e.t, trace)
    BY <2>4, <2>5, BecomeIs
  <2>7. QED
    BY <1>1, <1>2, <2>6, ReadKeeps
<1>5. CASE markers # <<>>
  <2>1. output # <<>>
    BY <1>2, <1>5 DEF CastAt
  <2>2. c = Cast(output, outputTMS, markers, records)
    BY <2>1
  <2>3. CastIs(AfterMarkers(Cast(output, outputTMS, markers, records), e.t, e.bytes), at + 1, e.t, trace)
    BY <1>1, <1>2, <1>5, OutputHeld
  <2> HIDE DEF c, flushed
  <2>4. CastIs(after, at + 1, e.t, trace)
    BY <2>2, <2>3
  <2> HIDE DEF after
  <2>5. Become(after)
    BY <1>3, <1>5, Zenon
  <2>6. CastAt(output', outputTMS', markers', records', at + 1, e.t, trace)
    BY <2>4, <2>5, BecomeIs
  <2>7. QED
    BY <1>1, <1>2, <2>6, ReadKeeps
<1>6. QED
  BY <1>4, <1>5

(* a marker in the middle of a code point,                                  *)
LEMMA HoldKeeps == CastInv /\ HoldMarker => CastInv'
<1> SUFFICES ASSUME CastInv, HoldMarker PROVE CastInv'
  OBVIOUS
<1> DEFINE e == trace[at + 1]
           now == NowT(trace, at)
           c == Cast(output, outputTMS, Append(markers, Record(e.t, "m", at + 1)), records)
<1>1. /\ at < Len(trace) /\ e.type = "marker" /\ output # <<>> /\ at' = at + 1 /\ UNCHANGED <<trace, done>>
      /\ Become(c)
  BY DEF HoldMarker, MarkerWaits
<1>2. /\ ~done /\ trace \in Seq(CastEventSet) /\ at \in Nat /\ at + 1 <= Len(trace)
      /\ CastAt(output, outputTMS, markers, records, at, now, trace) /\ now <= e.t
  BY <1>1, BeforeReading
<1> HIDE DEF now
<1>3. CastAt(output, outputTMS, Append(markers, Record(e.t, "m", at + 1)), records, at + 1, e.t, trace)
  BY <1>1, <1>2, MarkerKeeps
<1>4. CastIs(c, at + 1, e.t, trace)
  BY <1>3, CastIsOf
<1> HIDE DEF c
<1>5. CastAt(output', outputTMS', markers', records', at + 1, e.t, trace)
  BY <1>1, <1>4, BecomeIs
<1>6. QED
  BY <1>1, <1>2, <1>5, ReadKeeps

(* any other event,                                                         *)
LEMMA OtherRead == CastInv /\ ReadOther => CastInv'
<1> SUFFICES ASSUME CastInv, ReadOther PROVE CastInv'
  OBVIOUS
<1> DEFINE e == trace[at + 1]
           now == NowT(trace, at)
           k == CASE e.type = "resize" -> "r" [] e.type = "marker" -> "m" [] OTHER -> "i"
           f == FlushOutput(Cast(output, outputTMS, markers, records), TRUE)
           q == records \o markers
           r == Append(q, Record(e.t, k, at + 1))
           fr == f.records
           z == IF InCast(e) THEN Cast(f.output, f.tms, f.markers, Append(fr, Record(e.t, k, at + 1))) ELSE f
           p == IF InCast(e) THEN r ELSE q
<1>1. /\ at < Len(trace) /\ e.type # "output" /\ at' = at + 1 /\ UNCHANGED <<trace, done>>
      /\ ~(e.type = "marker" /\ output # <<>>)
      /\ Become(z)
  BY DEF ReadOther, Other, Now
<1>2. /\ ~done /\ trace \in Seq(CastEventSet) /\ at \in Nat /\ at + 1 <= Len(trace)
      /\ CastAt(output, outputTMS, markers, records, at, now, trace) /\ now <= e.t
  BY <1>1, BeforeReading
<1>3. k \in {"m", "r", "i"}
  OBVIOUS
<1> HIDE DEF now, k
<1>4. f = Cast(<<>>, 0, <<>>, q)
  <2>1. at \in 0..Len(trace) /\ trace \in Seq(CastEventSet)
    BY <1>2 DEF CastInv
  <2>2. CastAt(output, outputTMS, markers, records, at, now, trace)
    BY <1>2
  <2>3. FlushOutput(Cast(output, outputTMS, markers, records), TRUE) = Cast(<<>>, 0, <<>>, records \o markers)
       /\ Ended(records \o markers, at, now, trace)
    BY <2>1, <2>2, FinalFlush
  <2>4. QED
    BY <2>3
<1>5. CastAt(<<>>, 0, <<>>, p, at + 1, e.t, trace)
  BY <1>1, <1>2, <1>3, OtherKeeps
<1>6. z = Cast(<<>>, 0, <<>>, p)
  <2> DEFINE d == Cast(<<>>, 0, <<>>, q)
  <2>1. d.output = <<>> /\ d.tms = 0 /\ d.markers = <<>> /\ d.records = q
    BY DEF Cast
  <2> HIDE DEF d, f
  <2>2. f = d /\ f.output = <<>> /\ f.tms = 0 /\ f.markers = <<>> /\ fr = q
    BY <1>4, <2>1 DEF d
  <2> HIDE DEF fr, q
  <2>3. CASE InCast(e)
    BY <2>2, <2>3
  <2>4. CASE ~InCast(e)
    BY <2>2, <2>4 DEF d
  <2>5. QED
    BY <2>3, <2>4
<1> HIDE DEF z, p
<1>7. CastIs(z, at + 1, e.t, trace)
  BY <1>5, <1>6, CastIsOf
<1>8. CastAt(output', outputTMS', markers', records', at + 1, e.t, trace)
  BY <1>1, <1>7, BecomeIs
<1>9. QED
  BY <1>1, <1>2, <1>8, ReadKeeps

(* and the end of the trace keep the invariant.                             *)
LEMMA FinishKeeps == CastInv /\ Finish => CastInv'
<1> SUFFICES ASSUME CastInv, Finish PROVE CastInv'
  OBVIOUS
<1> DEFINE q == records \o markers
           f == FlushOutput(Cast(output, outputTMS, markers, records), TRUE)
<1>1. at = Len(trace) /\ ~done /\ done' = TRUE /\ UNCHANGED <<trace, at>> /\ Become(f)
  BY DEF Finish, Now
<1>2. trace \in Timed /\ at \in 0..Len(trace) /\ trace \in Seq(CastEventSet)
  BY NowIs DEF CastInv
<1>3. CastAt(output, outputTMS, markers, records, at, NowT(trace, at), trace)
  BY <1>1 DEF CastInv
<1>4. f = Cast(<<>>, 0, <<>>, q) /\ Ended(q, at, NowT(trace, at), trace)
  BY <1>2, <1>3, FinalFlush
<1>5. records' = q
  <2> DEFINE d == Cast(<<>>, 0, <<>>, q)
  <2>1. d.records = q
    BY DEF Cast
  <2> HIDE DEF d, f
  <2>2. records' = f.records /\ f = d
    BY <1>1, <1>4 DEF Become, d
  <2>3. QED
    BY <2>1, <2>2
<1>6. Ended(records', at', NowT(trace', at'), trace')
  BY <1>1, <1>4, <1>5
<1>7. QED
  BY <1>1, <1>2, <1>6 DEF CastInv

(* So does every step.                                                      *)
LEMMA CastNext == CastInv /\ Next => CastInv'
BY OutputKeeps, HoldKeeps, OtherRead, FinishKeeps DEF Next

-----------------------------------------------------------------------------
(* What the invariant says of the cast that is written.                     *)
LEMMA CastIsRightAt == CastInv => CastKeepsText /\ CastInOrder /\ MarkersInPlace
<1> SUFFICES ASSUME CastInv PROVE CastKeepsText /\ CastInOrder /\ MarkersInPlace
  OBVIOUS
<1> DEFINE now == NowT(trace, at)
<1>1. trace \in Timed /\ at \in 0..Len(trace) /\ trace \in Seq(CastEventSet) /\ Len(trace) \in Nat /\ now \in Int
  BY NowIs DEF CastInv
<1>2. RecsOK(records, now, trace) /\ (at = 0 => records = <<>>)
  <2>1. CASE done
    BY <2>1 DEF CastInv, Ended
  <2>2. CASE ~done
    <3>1. CastAt(output, outputTMS, markers, records, at, now, trace)
      BY <2>2 DEF CastInv
    <3>2. at = 0 => records = <<>>
      BY <3>1 DEF CastAt
    <3> DEFINE lo == IF output = <<>> THEN now ELSE outputTMS
    <3>3. RecsOK(records, lo, trace) /\ (output # <<>> => outputTMS \in Int /\ outputTMS <= now)
      BY <3>1 DEF CastAt
    <3>4. lo \in Int /\ lo <= now
      BY <1>1, <3>3
    <3> HIDE DEF lo, now
    <3>5. RecsOK(records, now, trace)
      BY <1>1, <3>3, <3>4, RecsLater
    <3>6. QED
      BY <3>2, <3>5
  <2>3. QED
    BY <2>1, <2>2
<1>3. /\ records \in Seq(CastRecords)
      /\ \A i \in 1..Len(records) : records[i].t <= now
      /\ \A i, j \in 1..Len(records) : i < j => records[i].t <= records[j].t
      /\ \A i, j \in Marks(records) : i < j => records[i].data < records[j].data
      /\ \A i \in Marks(records) : PlaceIn(trace, records[i].data, Written(records)[i - 1])
  BY <1>2 DEF RecsOK
<1>4. DOMAIN records = 1..Len(records) /\ DOMAIN trace = 1..Len(trace)
  BY <1>1, <1>3
<1>5. CastInOrder
  <2>1. ASSUME NEW i \in DOMAIN records PROVE records[i].t <= trace[at].t
    <3>1. at # 0
      <4>1. at = 0 => FALSE
        <5>1. \A x \in 1..Len(<<>>) : FALSE
          BY EmptyIs
        <5>2. QED
          BY <1>2, <1>4, <2>1, <5>1
      <4>2. QED
        BY <4>1
    <3>2. now = trace[at].t
      BY <3>1 DEF NowT
    <3>3. QED
      BY <1>3, <1>4, <2>1, <3>2
  <2>2. QED
    BY <1>3, <1>4, <2>1 DEF CastInOrder
<1>6. ASSUME done
      PROVE  /\ WrittenAll(records) = BeforeIn(trace, Len(trace), TRUE)
             /\ DataOf(records) = {m \in 1..Len(trace) : InCast(trace[m])}
  <2>1. at = Len(trace) /\ Ended(records, at, now, trace)
    BY <1>6 DEF CastInv
  <2>2. BeforeIn(trace, at, TRUE) = BeforeIn(trace, at, FALSE)
    BY <1>1, BeforeIs
  <2>3. QED
    BY <2>1, <2>2 DEF Ended
<1>7. CastKeepsText
  BY <1>6 DEF CastKeepsText, Before, WrittenAll, BeforeIn
<1>8. MarkersInPlace
  <2> SUFFICES ASSUME done PROVE MarkersInPlace
    BY DEF MarkersInPlace
  <2> DEFINE others == {i \in DOMAIN records : records[i].kind # "o"}
  <2>1. others = Marks(records)
    BY <1>4 DEF Marks
  <2>2. {records[i].data : i \in others} = {n \in DOMAIN trace : InCast(trace[n])}
    BY <1>4, <1>6, <2>1 DEF DataOf
  <2>3. ASSUME NEW i \in others
        PROVE  LET n == records[i].data
                   written == Written(records)[i - 1]
                   whole == Before(n, trace[n].type # "marker")
               IN \/ written = whole
                  \/ /\ trace[n].type = "marker" /\ IsPrefix(whole, written)
                     /\ RuneSize(From(written, Len(whole) + 1)) = Len(written) - Len(whole)
                     /\ CastUTF8(TextUpTo(trace)[n].open, FALSE).rest # <<>>
    <3>1. PlaceIn(trace, records[i].data, Written(records)[i - 1])
      BY <1>3, <2>1, <2>3
    <3>2. QED
      BY <3>1, Zenon DEF PlaceIn, BeforeIn, Before
  <2> HIDE DEF others
  <2>4. \A i, j \in others : i < j => records[i].data < records[j].data
    BY <1>3, <2>1
  <2>5. QED
    BY <2>2, <2>3, <2>4, Zenon DEF others, MarkersInPlace
<1>9. QED
  BY <1>5, <1>7, <1>8

(* Stuttering steps too.                                                    *)
LEMMA CastKeeps == CastInv /\ [Next]_vars => CastInv'
<1>1. CastInv /\ UNCHANGED vars => CastInv'
  BY DEF vars, CastInv
<1>2. QED
  BY <1>1, CastNext

-----------------------------------------------------------------------------
(* CastExport, for every trace in order, however the PTY's reads cut its code
   points: flushOutput, castUTF8 and the markers that wait (exportCast) write
   each code point once and in order, go back in time nowhere, and put every
   marker, resize and input after the text that was there when it was
   recorded, a marker in the middle of a code point right after that one.   *)
THEOREM CastIsTrue ==
  ASSUME Traces \subseteq Timed
  PROVE  Spec => [](CastKeepsText /\ CastInOrder /\ MarkersInPlace)
<1>1. Init => CastInv
  BY CastStarts
<1>2. CastInv /\ [Next]_vars => CastInv'
  BY CastKeeps
<1>3. CastInv => CastKeepsText /\ CastInOrder /\ MarkersInPlace
  BY CastIsRightAt
<1>4. QED
  BY <1>1, <1>2, <1>3, PTL DEF Spec

=============================================================================
