--------------------------- MODULE PlaybackProofs ---------------------------
(***************************************************************************)
(* PlaybackIsReplay and TerminalIsCurrent of Playback, for every trace,    *)
(* every terminal, every sequence of commands and every bound.             *)
(*                                                                         *)
(* The model replays events and drains commands by recursion over their    *)
(* number.  Each recursive function is unfolded once, by induction over    *)
(* that number, and the lemmas about what it computes cite the unfolding.  *)
(***************************************************************************)
EXTENDS Playback, TLAPS, WellFoundedInduction, FiniteSetTheorems

-----------------------------------------------------------------------------
(* Induction over the natural numbers, for sets.                            *)

LEMMA LeastNat ==
  ASSUME NEW T, T \subseteq Nat, T # {}
  PROVE  \E n \in T : \A m \in T : n <= m
<1> DEFINE R == OpToRel(<, Nat)
<1>1. IsWellFoundedOn(R, Nat)
  BY NatLessThanWellFounded
<1>2. PICK n \in T : \A m \in T : <<m, n>> \notin R
  <2> HIDE DEF R
  <2>1. QED
    BY <1>1, WFMin
<1>3. \A m \in T : ~(m < n)
  BY <1>2 DEF OpToRel
<1>4. QED
  BY <1>3

LEMMA Induct ==
  ASSUME NEW P, 0 \in P, \A n \in Nat : n \in P => n + 1 \in P
  PROVE  Nat \subseteq P
<1> SUFFICES ASSUME Nat \ P # {} PROVE FALSE
  OBVIOUS
<1>1. PICK n \in Nat \ P : \A m \in Nat \ P : n <= m
  BY LeastNat
<1>2. n # 0 /\ n - 1 \in Nat /\ n - 1 \in P
  BY <1>1
<1>3. QED
  BY <1>2

(* Up to a bound.                                                           *)
LEMMA InductTo ==
  ASSUME NEW a \in Nat, NEW b \in Nat, NEW P, a \in P,
         \A i \in a..b : i \in P /\ i < b => i + 1 \in P
  PROVE  a..b \subseteq P
<1> DEFINE Q == {n \in Nat : a + n <= b => a + n \in P}
<1>1. 0 \in Q
  OBVIOUS
<1>2. \A n \in Nat : n \in Q => n + 1 \in Q
  <2> TAKE n \in Nat
  <2> HAVE n \in Q
  <2>1. CASE a + n < b
    <3>1. a + n \in a..b /\ a + n \in P
      BY <2>1
    <3>2. QED
      BY <2>1, <3>1
  <2>2. QED
    BY <2>1
<1> HIDE DEF Q
<1>3. Nat \subseteq Q
  BY <1>1, <1>2, Induct
<1>4. ASSUME NEW i \in a..b PROVE i \in P
  <2>1. i - a \in Nat /\ a + (i - a) = i
    OBVIOUS
  <2>2. i - a \in Q
    BY <1>3, <2>1
  <2>3. QED
    BY <2>1, <2>2 DEF Q
<1>5. QED
  BY <1>4

-----------------------------------------------------------------------------
(* The recursive functions of the model, unfolded.                          *)

LEMMA TraceFacts ==
  ASSUME show \in Shows
  PROVE  /\ trace \in Seq(Events) /\ Len(trace) \in Nat
         /\ \A i \in 1..Len(trace) : trace[i] \in Events
         /\ \A i, j \in 1..Len(trace) : i <= j => trace[i].t <= trace[j].t
<1>1. trace \in Seq(Events) /\ \A i, j \in 1..Len(trace) : i <= j => trace[i].t <= trace[j].t
  BY PlaybackAssumption DEF IsTrace, trace
<1>2. QED
  BY <1>1

-----------------------------------------------------------------------------
(* The inductive invariant.                                                 *)
Speeds  == {1, 2, 4, 8, 16, 32, 64}
Replies == {"kitty", "caps", "da"}

LoopFields ==
  {"cursor", "screen", "size", "playT", "since", "speed", "paused", "stepMode", "markerPaused",
   "atEnd", "visible", "marker", "toast", "glow", "fresh", "forced", "emitted", "viewport",
   "failed", "skip", "ready", "quit"}

Flags ==
  {"paused", "stepMode", "markerPaused", "atEnd", "visible", "fresh", "forced", "failed", "skip",
   "ready", "quit"}

(* The record the loop is, and what its fields may hold.                    *)
IsGlow(g) ==
  /\ g = [mouse |-> g.mouse, age |-> g.age] /\ {g.mouse, g.age} \subseteq Nat
  /\ g.mouse = 0 => g.age = 0

IsLoop(l) ==
  /\ l = [f \in LoopFields |-> l[f]]
  /\ l.playT \in Nat /\ l.speed \in Speeds /\ l.since \in Nat \cup {Unset}
  /\ \A f \in Flags : l[f] \in BOOLEAN
  /\ l.viewport \in Viewports /\ IsGlow(l.glow)

MarkersTo(n) == {i \in 1..n : trace[i].type = "marker"}

(* The screen, its size and the marker are those of the position.           *)
Replays(l) ==
  /\ l.cursor \in 0..Len(trace) /\ l.screen = ScreenAt(l.cursor) /\ l.size = SizeAt(l.cursor)
  /\ l.marker = Cardinality(MarkersTo(l.cursor))

(* Nothing is applied before its time.                                      *)
Timed(l) == \A i \in 1..l.cursor : trace[i].t <= l.playT

Ends(l) ==
  /\ l.atEnd => l.cursor = Len(trace) /\ ~l.markerPaused
  /\ l.markerPaused => l.paused /\ l.cursor > 0

Sound(l) == IsLoop(l) /\ Replays(l) /\ Timed(l) /\ Ends(l)

(* What was due has been applied.                                           *)
CaughtUp(l) ==
  ~l.paused => \A i \in (l.cursor + 1)..Len(trace) :
                 trace[i].t > l.playT \/ l.since = Unset \/ l.skip

(* What was drawn last is what the loop has; a terminal whose size it was   *)
(* drawn for shows just that.                                               *)
StatusRows(l) == IF l.visible THEN {l.viewport.rows} ELSE {}

Shown(l) ==
  ~l.failed /\ ~l.forced =>
    /\ ~l.fresh /\ l.emitted = Key(l) /\ display = Picture(l)
    /\ fit = "fits" => lines = StatusRows(l)

SinkInv ==
  /\ sink = [lastRows |-> sink.lastRows, statusRow |-> sink.statusRow] /\ sink.statusRow \in Nat
  /\ lines \subseteq Nat \ {0}
  /\ fit # "missed" => lines \subseteq {Row(sink.statusRow)} \ {0}

(* The sizes of the loop and of the terminal.                               *)
FitInv ==
  /\ window \in Sizes /\ winch \in BOOLEAN /\ fit \in {"fits", "changed", "missed"}
  /\ fit # "missed" => (winch <=> window # loop.viewport)
  /\ fit = "fits" => ~winch /\ sink.statusRow <= window.rows

LoopInv ==
  /\ show \in Shows /\ Sound(loop) /\ SinkInv /\ FitInv
  /\ pc \in {"probe", "play", "restore", "done"}
  /\ pc \in {"probe", "play"} => CaughtUp(loop) /\ Shown(loop)

(* The probe: primary DA is the last answer, and only keys follow it.       *)
LastIs(s, x) == \A i \in 1..Len(s) : s[i] = x => i = Len(s)

KeysFollow(s, x) ==
  \A i \in 1..Len(s) : s[i] = x => owed = <<>> /\ \A j \in (i + 1)..Len(s) : s[j] \in Commands

ProbeInv ==
  /\ show \in Shows /\ terminal = show.terminal /\ requested = show.backend
  /\ owed \in Seq(Replies) /\ tty \in Seq(Commands \cup Replies)
  /\ replies \subseteq Commands \cup Replies
  /\ cmds \in Seq(Commands) /\ Len(cmds) <= QueueCap
  /\ backend \in Backends \cup {"probing", "none"}
  /\ backend = "probing" => "da" \notin replies
  /\ backend \in Backends => backend \in terminal.draws \cup terminal.named
  /\ pc \in {"play", "restore"} => backend \in Backends
  /\ ~terminal.slow =>
       /\ ~leaked
       /\ backend = "probing" => LastIs(owed, "da") /\ KeysFollow(tty, "da")
       /\ backend # "probing" => owed = <<>> /\ tty \in Seq(Commands)

-----------------------------------------------------------------------------
LEMMA MarkersUnfold ==
  ASSUME NEW tr, Len(tr) \in Nat
  PROVE  MarkersIn(tr) =
           [n \in 0..Len(tr) |->
              IF n = 0 THEN <<>> ELSE IF tr[n].type = "marker" THEN Append(MarkersIn(tr)[n - 1], n) ELSE MarkersIn(tr)[n - 1]]
<1> DEFINE Next1(x, n) == IF tr[n].type = "marker" THEN Append(x, n) ELSE x
           Solves(f, m) == f = [n \in 0..m |-> IF n = 0 THEN <<>> ELSE Next1(f[n - 1], n)]
           P == {m \in Nat : \E f : Solves(f, m)}
<1> HIDE DEF Next1, Solves
<1>1. 0 \in P
  <2>1. Solves([n \in {0} |-> <<>>], 0)
    BY DEF Solves
  <2>2. QED
    BY <2>1
<1>2. \A m \in Nat : m \in P => m + 1 \in P
  <2> SUFFICES ASSUME NEW m \in Nat, m \in P
               PROVE  \E f : Solves(f, m + 1)
    OBVIOUS
  <2> DEFINE k == m
  <2>1. PICK f : Solves(f, k)
    OBVIOUS
  <2> DEFINE g == [n \in 0..(k + 1) |-> IF n <= k THEN f[n] ELSE Next1(f[k], n)]
  <2>2. \A n \in 0..(k + 1) : g[n] = IF n = 0 THEN <<>> ELSE Next1(g[n - 1], n)
    <3> TAKE n \in 0..(k + 1)
    <3>1. CASE n = 0
      BY <2>1, <3>1 DEF Solves
    <3>2. CASE n \in 1..k
      BY <2>1, <3>2 DEF Solves
    <3>3. CASE n = k + 1
      BY <3>3
    <3>4. QED
      BY <3>1, <3>2, <3>3
  <2>3. Solves(g, k + 1)
    BY <2>2 DEF Solves
  <2>4. QED
    BY <2>3
<1>3. \E f : Solves(f, Len(tr))
  <2> HIDE DEF P
  <2>1. Len(tr) \in P
    BY <1>1, <1>2, Induct
  <2>2. QED
    BY <2>1 DEF P
<1>4. MarkersIn(tr) = CHOOSE f : Solves(f, Len(tr))
  BY DEF MarkersIn, Solves, Next1
<1>5. Solves(MarkersIn(tr), Len(tr))
  BY <1>3, <1>4, Zenon
<1>6. QED
  BY <1>5, Zenon DEF Solves, Next1

LEMMA ScreensUnfold ==
  ASSUME NEW tr, Len(tr) \in Nat
  PROVE  ScreensOf(tr) =
           [n \in 0..Len(tr) |->
              IF n = 0 THEN <<>> ELSE IF Applies(tr[n]) THEN Append(ScreensOf(tr)[n - 1], n) ELSE ScreensOf(tr)[n - 1]]
<1> DEFINE Next1(x, n) == IF Applies(tr[n]) THEN Append(x, n) ELSE x
           Solves(f, m) == f = [n \in 0..m |-> IF n = 0 THEN <<>> ELSE Next1(f[n - 1], n)]
           P == {m \in Nat : \E f : Solves(f, m)}
<1> HIDE DEF Next1, Solves
<1>1. 0 \in P
  <2>1. Solves([n \in {0} |-> <<>>], 0)
    BY DEF Solves
  <2>2. QED
    BY <2>1
<1>2. \A m \in Nat : m \in P => m + 1 \in P
  <2> SUFFICES ASSUME NEW m \in Nat, m \in P
               PROVE  \E f : Solves(f, m + 1)
    OBVIOUS
  <2> DEFINE k == m
  <2>1. PICK f : Solves(f, k)
    OBVIOUS
  <2> DEFINE g == [n \in 0..(k + 1) |-> IF n <= k THEN f[n] ELSE Next1(f[k], n)]
  <2>2. \A n \in 0..(k + 1) : g[n] = IF n = 0 THEN <<>> ELSE Next1(g[n - 1], n)
    <3> TAKE n \in 0..(k + 1)
    <3>1. CASE n = 0
      BY <2>1, <3>1 DEF Solves
    <3>2. CASE n \in 1..k
      BY <2>1, <3>2 DEF Solves
    <3>3. CASE n = k + 1
      BY <3>3
    <3>4. QED
      BY <3>1, <3>2, <3>3
  <2>3. Solves(g, k + 1)
    BY <2>2 DEF Solves
  <2>4. QED
    BY <2>3
<1>3. \E f : Solves(f, Len(tr))
  <2> HIDE DEF P
  <2>1. Len(tr) \in P
    BY <1>1, <1>2, Induct
  <2>2. QED
    BY <2>1 DEF P
<1>4. ScreensOf(tr) = CHOOSE f : Solves(f, Len(tr))
  BY DEF ScreensOf, Solves, Next1
<1>5. Solves(ScreensOf(tr), Len(tr))
  BY <1>3, <1>4, Zenon
<1>6. QED
  BY <1>5, Zenon DEF Solves, Next1

LEMMA DispatchedUnfold ==
  ASSUME NEW l, NEW a \in Nat, Len(trace) \in Nat, l.cursor = a, a <= Len(trace)
  PROVE  DispatchedTo(l) =
           [n \in a..Len(trace) |->
              IF n = a THEN l ELSE Dispatch(DispatchedTo(l)[n - 1], n)]
<1> DEFINE Next1(x, n) == Dispatch(x, n)
           Solves(f, m) == f = [n \in a..m |-> IF n = a THEN l ELSE Next1(f[n - 1], n)]
           P == {m \in Nat : \E f : Solves(f, a + m)}
<1> HIDE DEF Next1, Solves
<1>1. 0 \in P
  <2>1. Solves([n \in {a} |-> l], a + 0)
    BY DEF Solves
  <2>2. QED
    BY <2>1
<1>2. \A m \in Nat : m \in P => m + 1 \in P
  <2> SUFFICES ASSUME NEW m \in Nat, m \in P
               PROVE  \E f : Solves(f, a + (m + 1))
    OBVIOUS
  <2> DEFINE k == a + m
  <2>1. PICK f : Solves(f, k)
    OBVIOUS
  <2> DEFINE g == [n \in a..(k + 1) |-> IF n <= k THEN f[n] ELSE Next1(f[k], n)]
  <2>2. \A n \in a..(k + 1) : g[n] = IF n = a THEN l ELSE Next1(g[n - 1], n)
    <3> TAKE n \in a..(k + 1)
    <3>1. CASE n = a
      BY <2>1, <3>1 DEF Solves
    <3>2. CASE n \in (a + 1)..k
      BY <2>1, <3>2 DEF Solves
    <3>3. CASE n = k + 1
      BY <3>3
    <3>4. QED
      BY <3>1, <3>2, <3>3
  <2>3. Solves(g, k + 1)
    BY <2>2 DEF Solves
  <2>4. QED
    BY <2>3
<1>3. \E f : Solves(f, Len(trace))
  <2> HIDE DEF P
  <2>1. Len(trace) - a \in P
    BY <1>1, <1>2, Induct
  <2>2. QED
    BY <2>1 DEF P
<1>4. DispatchedTo(l) = CHOOSE f : Solves(f, Len(trace))
  BY DEF DispatchedTo, Solves, Next1
<1>5. Solves(DispatchedTo(l), Len(trace))
  BY <1>3, <1>4, Zenon
<1>6. QED
  BY <1>5, Zenon DEF Solves, Next1

LEMMA DrainsUnfold ==
  ASSUME NEW l, Len(cmds) \in Nat
  PROVE  Drains(l) =
           [n \in 0..Len(cmds) |->
              IF n = 0 THEN l ELSE Drain(Drains(l)[n - 1], cmds[n])]
<1> DEFINE Next1(x, n) == Drain(x, cmds[n])
           Solves(f, m) == f = [n \in 0..m |-> IF n = 0 THEN l ELSE Next1(f[n - 1], n)]
           P == {m \in Nat : \E f : Solves(f, m)}
<1> HIDE DEF Next1, Solves
<1>1. 0 \in P
  <2>1. Solves([n \in {0} |-> l], 0)
    BY DEF Solves
  <2>2. QED
    BY <2>1
<1>2. \A m \in Nat : m \in P => m + 1 \in P
  <2> SUFFICES ASSUME NEW m \in Nat, m \in P
               PROVE  \E f : Solves(f, m + 1)
    OBVIOUS
  <2> DEFINE k == m
  <2>1. PICK f : Solves(f, k)
    OBVIOUS
  <2> DEFINE g == [n \in 0..(k + 1) |-> IF n <= k THEN f[n] ELSE Next1(f[k], n)]
  <2>2. \A n \in 0..(k + 1) : g[n] = IF n = 0 THEN l ELSE Next1(g[n - 1], n)
    <3> TAKE n \in 0..(k + 1)
    <3>1. CASE n = 0
      BY <2>1, <3>1 DEF Solves
    <3>2. CASE n \in 1..k
      BY <2>1, <3>2 DEF Solves
    <3>3. CASE n = k + 1
      BY <3>3
    <3>4. QED
      BY <3>1, <3>2, <3>3
  <2>3. Solves(g, k + 1)
    BY <2>2 DEF Solves
  <2>4. QED
    BY <2>3
<1>3. \E f : Solves(f, Len(cmds))
  <2> HIDE DEF P
  <2>1. Len(cmds) \in P
    BY <1>1, <1>2, Induct
  <2>2. QED
    BY <2>1 DEF P
<1>4. Drains(l) = CHOOSE f : Solves(f, Len(cmds))
  BY DEF Drains, Solves, Next1
<1>5. Solves(Drains(l), Len(cmds))
  BY <1>3, <1>4, Zenon
<1>6. QED
  BY <1>5, Zenon DEF Solves, Next1


-----------------------------------------------------------------------------
(* What replaying computes.                                                 *)

LEMMA MarkersToStep ==
  ASSUME NEW n \in Nat \ {0}
  PROVE  /\ IsFiniteSet(MarkersTo(n)) /\ Cardinality(MarkersTo(n)) \in Nat
         /\ trace[n].type = "marker" =>
              Cardinality(MarkersTo(n)) = Cardinality(MarkersTo(n - 1)) + 1
         /\ trace[n].type # "marker" => MarkersTo(n) = MarkersTo(n - 1)
<1>1. \A k \in Nat : IsFiniteSet(MarkersTo(k))
  <2> TAKE k \in Nat
  <2>1. IsFiniteSet(1..k)
    BY FS_Interval
  <2>2. QED
    BY <2>1, FS_Subset DEF MarkersTo
<1>2. CASE trace[n].type = "marker"
  <2>1. MarkersTo(n) = MarkersTo(n - 1) \cup {n} /\ n \notin MarkersTo(n - 1)
    BY <1>2 DEF MarkersTo
  <2>2. Cardinality(MarkersTo(n)) = Cardinality(MarkersTo(n - 1)) + 1
    <3>1. IsFiniteSet(MarkersTo(n - 1))
      BY <1>1
    <3>2. QED
      BY <2>1, <3>1, FS_AddElement, Zenon
  <2>3. QED
    BY <1>1, <1>2, <2>2, FS_CardinalityType
<1>3. CASE trace[n].type # "marker"
  <2>1. MarkersTo(n) = MarkersTo(n - 1)
    BY <1>3 DEF MarkersTo
  <2>2. QED
    BY <1>1, <1>3, <2>1, FS_CardinalityType
<1>4. QED
  BY <1>2, <1>3

LEMMA NoMarkers == Cardinality(MarkersTo(0)) = 0
<1>1. MarkersTo(0) = {}
  BY DEF MarkersTo
<1>2. QED
  BY <1>1, FS_EmptySet

(* The n-th marker is a marker, and n are known when it has been shown.     *)
MarkersRight(n) ==
  /\ MarkersIn(trace)[n] \in Seq(1..n) /\ Len(MarkersIn(trace)[n]) = Cardinality(MarkersTo(n))
  /\ \A m \in 1..Len(MarkersIn(trace)[n]) :
       /\ trace[MarkersIn(trace)[n][m]].type = "marker"
       /\ Cardinality(MarkersTo(MarkersIn(trace)[n][m])) = m

LEMMA MarkersAreRight ==
  ASSUME Len(trace) \in Nat
  PROVE  \A n \in 0..Len(trace) : MarkersRight(n)
<1> DEFINE P == {n \in 0..Len(trace) : MarkersRight(n)}
<1>1. 0 \in P
  <2>1. MarkersIn(trace)[0] = <<>>
    BY MarkersUnfold
  <2>2. <<>> \in Seq(1..0) /\ Len(<<>>) = 0 /\ 1..Len(<<>>) = {}
    OBVIOUS
  <2>3. MarkersRight(0)
    BY <2>1, <2>2, NoMarkers DEF MarkersRight
  <2>4. QED
    BY <2>3
<1>2. ASSUME NEW n \in 0..Len(trace), n \in P, n < Len(trace)
      PROVE  n + 1 \in P
  <2>1. n + 1 \in Nat \ {0} /\ (n + 1) - 1 = n /\ n + 1 \in 0..Len(trace)
    BY <1>2
  <2>2. MarkersIn(trace)[n + 1] = IF trace[n + 1].type = "marker" THEN Append(MarkersIn(trace)[n], n + 1)
                           ELSE MarkersIn(trace)[n]
    <3>1. MarkersIn(trace) =
            [k \in 0..Len(trace) |->
               IF k = 0 THEN <<>>
               ELSE IF trace[k].type = "marker" THEN Append(MarkersIn(trace)[k - 1], k)
                    ELSE MarkersIn(trace)[k - 1]]
      BY MarkersUnfold
    <3>2. QED
      BY <2>1, <3>1
  <2>3. MarkersIn(trace)[n] \in Seq(1..(n + 1)) /\ MarkersRight(n)
    <3>1. 1..n \subseteq 1..(n + 1)
      OBVIOUS
    <3>2. QED
      BY <1>2, <3>1 DEF MarkersRight
  <2>4. CASE trace[n + 1].type = "marker"
    <3> DEFINE s == MarkersIn(trace)[n]
               r == MarkersIn(trace)[n + 1]
    <3>1. r = Append(s, n + 1) /\ s \in Seq(1..(n + 1)) /\ r \in Seq(1..(n + 1))
      BY <2>2, <2>3, <2>4
    <3>2. Len(r) = Len(s) + 1 /\ r[Len(s) + 1] = n + 1 /\ \A m \in 1..Len(s) : r[m] = s[m]
      BY <3>1
    <3>3. Cardinality(MarkersTo(n + 1)) = Cardinality(MarkersTo(n)) + 1
      BY <2>1, <2>4, MarkersToStep
    <3>4. Len(r) = Cardinality(MarkersTo(n + 1))
      BY <2>3, <3>2, <3>3 DEF MarkersRight
    <3>5. ASSUME NEW m \in 1..Len(r)
          PROVE  trace[r[m]].type = "marker" /\ Cardinality(MarkersTo(r[m])) = m
      <4>1. CASE m \in 1..Len(s)
        BY <2>3, <3>2, <4>1 DEF MarkersRight
      <4>2. CASE m = Len(s) + 1
        BY <2>4, <3>2, <3>4, <4>2
      <4>3. QED
        <5>1. Len(s) \in Nat
          BY <3>1
        <5>2. QED
          BY <3>2, <4>1, <4>2, <5>1
    <3>6. QED
      BY <2>1, <3>1, <3>4, <3>5 DEF MarkersRight
  <2>5. CASE trace[n + 1].type # "marker"
    <3>1. MarkersIn(trace)[n + 1] = MarkersIn(trace)[n] /\ MarkersTo(n + 1) = MarkersTo(n)
      BY <2>1, <2>2, <2>5, MarkersToStep
    <3>2. QED
      BY <2>1, <2>3, <3>1 DEF MarkersRight
  <2>6. QED
    BY <2>4, <2>5
<1> HIDE DEF P
<1>3. 0..Len(trace) \subseteq P
  BY <1>1, <1>2, InductTo
<1>4. QED
  BY <1>3 DEF P

LEMMA MarkersFacts ==
  ASSUME Len(trace) \in Nat
  PROVE  /\ Markers \in Seq(1..Len(trace)) /\ Len(Markers) = Cardinality(MarkersTo(Len(trace)))
         /\ \A m \in 1..Len(Markers) :
              /\ Markers[m] \in 1..Len(trace) /\ trace[Markers[m]].type = "marker"
              /\ Cardinality(MarkersTo(Markers[m])) = m
<1>1. MarkersRight(Len(trace))
  BY MarkersAreRight
<1>2. QED
  BY <1>1 DEF MarkersRight, Markers

LEMMA MarkersBounded ==
  ASSUME NEW n \in Nat, Len(trace) \in Nat, n <= Len(trace)
  PROVE  Cardinality(MarkersTo(n)) \in 0..Len(Markers)
<1>1. MarkersTo(n) \subseteq MarkersTo(Len(trace))
  BY DEF MarkersTo
<1>2. IsFiniteSet(MarkersTo(Len(trace)))
  <2>1. IsFiniteSet(1..Len(trace)) /\ MarkersTo(Len(trace)) \subseteq 1..Len(trace)
    BY FS_Interval DEF MarkersTo
  <2>2. QED
    BY <2>1, FS_Subset
<1>3. IsFiniteSet(MarkersTo(n))
      /\ Cardinality(MarkersTo(n)) <= Cardinality(MarkersTo(Len(trace)))
  BY <1>1, <1>2, FS_Subset
<1>4. QED
  BY <1>3, FS_CardinalityType, MarkersFacts

LEMMA ScreenStep ==
  ASSUME NEW n \in 1..Len(trace), Len(trace) \in Nat
  PROVE  ScreenAt(n) = IF Applies(trace[n]) THEN Append(ScreenAt(n - 1), n) ELSE ScreenAt(n - 1)
<1> HIDE DEF Applies
<1>1. n \in 0..Len(trace) /\ n # 0
  OBVIOUS
<1>2. QED
  BY <1>1, ScreensUnfold DEF ScreenAt

LEMMA NothingYet ==
  ASSUME Len(trace) \in Nat
  PROVE  ScreenAt(0) = <<>> /\ SizeAt(0) = show.size
<1>1. {i \in 1..0 : trace[i].type = "resize"} = {}
  OBVIOUS
<1>2. QED
  BY <1>1, ScreensUnfold DEF SizeAt, ScreenAt

LEMMA SizeStep ==
  ASSUME NEW n \in Nat \ {0}
  PROVE  SizeAt(n) = IF trace[n].type = "resize" THEN trace[n].size ELSE SizeAt(n - 1)
<1> DEFINE R(k)  == {i \in 1..k : trace[i].type = "resize"}
           Of(S) == IF S = {} THEN show.size
                    ELSE trace[Last(S)].size
<1>1. SizeAt(n) = Of(R(n)) /\ SizeAt(n - 1) = Of(R(n - 1))
  BY Zenon DEF SizeAt
<1>2. CASE trace[n].type = "resize"
  <2>1. n \in R(n) /\ \A i \in R(n) : i \in Int /\ i <= n
    BY <1>2
  <2>2. \A i \in R(n) : (\A j \in R(n) : j <= i) <=> i = n
    BY <2>1
  <2> HIDE DEF R
  <2>3. Last(R(n)) = n
    BY <2>1, <2>2 DEF Last
  <2>4. QED
    BY <1>1, <1>2, <2>1, <2>3
<1>3. CASE trace[n].type # "resize"
  <2>1. R(n) = R(n - 1)
    BY <1>3
  <2> HIDE DEF R, Of
  <2>2. QED
    BY <1>1, <1>3, <2>1
<1>4. QED
  BY <1>2, <1>3

LEMMA SizesAreSizes ==
  ASSUME show \in Shows
  PROVE  \A n \in 0..Len(trace) : SizeAt(n) \in Sizes
<1> DEFINE P == {n \in 0..Len(trace) : SizeAt(n) \in Sizes}
<1>1. 0 \in P
  BY TraceFacts, NothingYet, PlaybackAssumption
<1>2. ASSUME NEW n \in 0..Len(trace), n \in P, n < Len(trace)
      PROVE  n + 1 \in P
  <2>1. SizeAt(n + 1) \in {trace[n + 1].size, SizeAt(n)}
    BY SizeStep
  <2>2. trace[n + 1] \in Events
    BY <1>2, TraceFacts
  <2>3. QED
    <3>1. trace[n + 1].size \in Sizes
      BY <2>2 DEF Events
    <3>2. n + 1 \in 0..Len(trace)
      BY <1>2, TraceFacts
    <3>3. QED
      BY <1>2, <2>1, <3>1, <3>2
<1> HIDE DEF P
<1>3. 0..Len(trace) \subseteq P
  BY <1>1, <1>2, InductTo, TraceFacts
<1>4. QED
  BY <1>3 DEF P

-----------------------------------------------------------------------------
(* The operations on the loop.                                              *)

(* What no operation between two frames touches, and what it may only set.  *)
Keeps(l, m) ==
  /\ m.viewport = l.viewport /\ m.emitted = l.emitted /\ m.failed = l.failed
  /\ l.forced => m.forced
  /\ l.fresh => m.fresh
  /\ m.fresh \/ m.glow.mouse \in {0, l.glow.mouse}
  /\ l.since # Unset => m.since # Unset

LEMMA KeepsOn ==
  ASSUME NEW k, NEW l, NEW m, Keeps(k, l), Keeps(l, m)
  PROVE  Keeps(k, m)
BY DEF Keeps

LEMMA EventTypes ==
  ASSUME show \in Shows, NEW i \in 1..Len(trace)
  PROVE  /\ trace[i].type \in {"output", "resize", "key", "mouse", "marker", "exit"}
         /\ trace[i].t \in Nat /\ trace[i].size \in Sizes
BY TraceFacts DEF Events

LEMMA LoopDomain ==
  ASSUME NEW l, IsLoop(l)
  PROVE  DOMAIN l = LoopFields /\ l = [f \in LoopFields |-> l[f]]
BY DEF IsLoop

(* dispatch.                                                                *)
LEMMA DispatchFields ==
  ASSUME NEW l, IsLoop(l), NEW i \in Nat \ {0}
  PROVE  /\ IsLoop(Dispatch(l, i)) /\ Keeps(l, Dispatch(l, i))
         /\ Dispatch(l, i).cursor = i
         /\ Dispatch(l, i).screen = IF Applies(trace[i]) THEN Append(l.screen, i) ELSE l.screen
         /\ Dispatch(l, i).size = IF trace[i].type = "resize" THEN trace[i].size ELSE l.size
         /\ Dispatch(l, i).marker = IF trace[i].type = "marker" THEN l.marker + 1 ELSE l.marker
         /\ \A f \in {"playT", "since", "speed", "paused", "stepMode", "markerPaused", "atEnd",
                      "visible", "skip", "ready", "quit"} : Dispatch(l, i)[f] = l[f]
<1> DEFINE m == Dispatch(l, i)
<1>1. DOMAIN l = LoopFields
  BY LoopDomain
<1>2. m = [f \in LoopFields |-> m[f]]
  BY <1>1 DEF Dispatch
<1>3. /\ m.cursor = i
      /\ m.screen = IF Applies(trace[i]) THEN Append(l.screen, i) ELSE l.screen
      /\ m.size = IF trace[i].type = "resize" THEN trace[i].size ELSE l.size
      /\ m.marker = IF trace[i].type = "marker" THEN l.marker + 1 ELSE l.marker
  BY <1>1 DEF Dispatch, LoopFields
<1>4. \A f \in {"playT", "since", "speed", "paused", "stepMode", "markerPaused", "atEnd",
               "visible", "skip", "ready", "quit", "viewport", "emitted", "failed", "forced"} :
        m[f] = l[f]
  BY <1>1 DEF Dispatch, LoopFields
<1>5. \/ m.glow = l.glow /\ m.fresh = l.fresh
      \/ m.glow = Nothing /\ m.fresh = l.fresh
      \/ m.glow = [mouse |-> i, age |-> 0] /\ m.fresh = TRUE
  <2>1. l.fresh \in BOOLEAN
    BY DEF IsLoop, Flags
  <2>2. QED
    BY <1>1, <2>1 DEF Dispatch, LoopFields
<1>6. /\ IsGlow(m.glow) /\ m.fresh \in BOOLEAN /\ (l.fresh => m.fresh)
      /\ m.fresh \/ m.glow.mouse \in {0, l.glow.mouse}
  <2>1. IsGlow(l.glow) /\ l.fresh \in BOOLEAN
    BY DEF IsLoop, Flags
  <2>2. IsGlow(Nothing) /\ Nothing.mouse = 0 /\ IsGlow([mouse |-> i, age |-> 0])
    BY DEF IsGlow, Nothing
  <2> HIDE DEF m
  <2>3. QED
    BY <1>5, <2>1, <2>2
<1> HIDE DEF m
<1>7. IsLoop(m)
  BY <1>2, <1>4, <1>6 DEF IsLoop, Flags
<1>8. Keeps(l, m)
  BY <1>4, <1>6 DEF Keeps
<1>9. QED
  BY <1>3, <1>4, <1>7, <1>8 DEF m

LEMMA DispatchReplays ==
  ASSUME show \in Shows, NEW l, IsLoop(l), Replays(l), l.cursor < Len(trace)
  PROVE  Replays(Dispatch(l, l.cursor + 1))
<1> DEFINE i == l.cursor + 1
           m == Dispatch(l, i)
<1>1. i \in 1..Len(trace) /\ i \in Nat \ {0} /\ i - 1 = l.cursor /\ Len(trace) \in Nat
  BY TraceFacts DEF Replays
<1>2. m.cursor = i
  BY <1>1, DispatchFields
<1>3. m.screen = ScreenAt(i)
  <2>1. m.screen = IF Applies(trace[i]) THEN Append(l.screen, i) ELSE l.screen
    BY <1>1, DispatchFields
  <2>2. l.screen = ScreenAt(i - 1)
    BY <1>1 DEF Replays
  <2>3. QED
    BY <1>1, <2>1, <2>2, ScreenStep
<1>4. m.size = SizeAt(i)
  <2>1. m.size = IF trace[i].type = "resize" THEN trace[i].size ELSE l.size
    BY <1>1, DispatchFields
  <2>2. l.size = SizeAt(i - 1)
    BY <1>1 DEF Replays
  <2>3. QED
    BY <1>1, <2>1, <2>2, SizeStep
<1>5. m.marker = Cardinality(MarkersTo(i))
  <2>1. m.marker = IF trace[i].type = "marker" THEN l.marker + 1 ELSE l.marker
    BY <1>1, DispatchFields
  <2>2. l.marker = Cardinality(MarkersTo(i - 1))
    BY <1>1 DEF Replays
  <2>3. QED
    BY <1>1, <2>1, <2>2, MarkersToStep
<1> HIDE DEF m
<1>6. QED
  BY <1>1, <1>2, <1>3, <1>4, <1>5 DEF Replays, m

(* What an operation that applies no event leaves alone.                    *)
Still(l, m) ==
  /\ m = [f \in LoopFields |-> m[f]]
  /\ \A f \in {"cursor", "screen", "size", "marker", "viewport", "emitted", "failed"} : m[f] = l[f]

LEMMA StillSound ==
  ASSUME show \in Shows, NEW l, Sound(l), NEW m, Still(l, m),
         m.playT \in Nat, m.playT >= l.playT, m.speed \in Speeds, m.since \in Nat \cup {Unset},
         \A f \in Flags : m[f] \in BOOLEAN, IsGlow(m.glow), Ends(m)
  PROVE  Sound(m)
<1>1. IsLoop(m)
  BY DEF Still, IsLoop, Sound
<1>2. Replays(m)
  BY DEF Still, Replays, Sound
<1>3. Timed(m)
  <2>1. m.cursor = l.cursor /\ l.cursor \in 0..Len(trace) /\ l.playT \in Nat
    BY DEF Still, Replays, Sound, IsLoop
  <2>2. ASSUME NEW i \in 1..l.cursor PROVE trace[i].t <= m.playT
    <3>1. trace[i].t <= l.playT /\ i \in 1..Len(trace)
      BY <2>1, TraceFacts DEF Sound, Timed
    <3>2. QED
      BY <2>1, <3>1, EventTypes
  <2>3. QED
    BY <2>1, <2>2 DEF Timed
<1>4. QED
  BY <1>1, <1>2, <1>3 DEF Sound

LEMMA SoundFacts ==
  ASSUME NEW l, Sound(l)
  PROVE  /\ DOMAIN l = LoopFields /\ IsLoop(l) /\ Ends(l)
         /\ l.playT \in Nat /\ l.speed \in Speeds /\ l.since \in Nat \cup {Unset}
         /\ \A f \in Flags : l[f] \in BOOLEAN
         /\ IsGlow(l.glow) /\ l.cursor \in 0..Len(trace)
BY LoopDomain DEF Sound, IsLoop, Replays

LEMMA StillKeeps ==
  ASSUME show \in Shows, NEW l, Sound(l), NEW m, Still(l, m),
         m.playT \in Nat, m.playT >= l.playT, m.speed \in Speeds, m.since \in Nat \cup {Unset},
         \A f \in Flags : m[f] \in BOOLEAN, Ends(m), l.forced => m.forced, m.fresh = l.fresh,
         m.glow = l.glow, m.since \in {l.since, 0}
  PROVE  Sound(m) /\ Keeps(l, m)
<1>1. IsGlow(m.glow)
  BY SoundFacts
<1>2. QED
  BY <1>1, StillSound DEF Keeps, Still, Unset

(* The commands that only turn switches, and the flags of a tick.           *)
LEMMA PauseSound ==
  ASSUME show \in Shows, NEW l, Sound(l)
  PROVE  Sound(Pause(l)) /\ Keeps(l, Pause(l))
<1> DEFINE m == Pause(l)
<1>1. DOMAIN l = LoopFields
  BY SoundFacts
<1>2. Still(l, m)
  BY <1>1 DEF Pause, LoopFields, Still
<1>3. /\ m.paused = (~l.paused)
      /\ m.stepMode = FALSE
      /\ m.markerPaused = (l.markerPaused /\ ~l.paused)
      /\ m.since = 0
  BY <1>1 DEF Pause, LoopFields
<1>4. \A f \in {"playT", "speed", "atEnd", "visible", "glow", "fresh", "forced", "failed",
               "skip", "ready", "quit", "cursor"} :
        m[f] = l[f]
  BY <1>1 DEF Pause, LoopFields
<1> HIDE DEF m
<1>5. \A f \in Flags : m[f] \in BOOLEAN
  BY <1>3, <1>4, SoundFacts DEF Flags
<1>6. Ends(m)
  BY <1>3, <1>4, SoundFacts DEF Ends, Flags
<1>7. m.playT \in Nat /\ m.playT >= l.playT /\ m.speed \in Speeds /\ m.since \in Nat \cup {Unset}
      /\ m.since \in {l.since, 0}
  BY <1>3, <1>4, SoundFacts, PlaybackAssumption DEF Unset
<1>8. QED
  BY <1>2, <1>3, <1>4, <1>5, <1>6, <1>7, SoundFacts, StillKeeps DEF m

LEMMA ForwardSound ==
  ASSUME show \in Shows, NEW l, Sound(l)
  PROVE  Sound([l EXCEPT !.markerPaused = FALSE, !.playT = @ + Second, !.ready = TRUE]) /\ Keeps(l, [l EXCEPT !.markerPaused = FALSE, !.playT = @ + Second, !.ready = TRUE])
<1> DEFINE m == [l EXCEPT !.markerPaused = FALSE, !.playT = @ + Second, !.ready = TRUE]
<1>1. DOMAIN l = LoopFields
  BY SoundFacts
<1>2. Still(l, m)
  BY <1>1 DEF LoopFields, Still
<1>3. /\ m.markerPaused = FALSE
      /\ m.playT = l.playT + Second
      /\ m.ready = TRUE
  BY <1>1 DEF LoopFields
<1>4. \A f \in {"since", "speed", "paused", "stepMode", "atEnd", "visible", "glow",
               "fresh", "forced", "failed", "skip", "quit", "cursor"} :
        m[f] = l[f]
  BY <1>1 DEF LoopFields
<1> HIDE DEF m
<1>5. \A f \in Flags : m[f] \in BOOLEAN
  BY <1>3, <1>4, SoundFacts DEF Flags
<1>6. Ends(m)
  BY <1>3, <1>4, SoundFacts DEF Ends, Flags
<1>7. m.playT \in Nat /\ m.playT >= l.playT /\ m.speed \in Speeds /\ m.since \in Nat \cup {Unset}
      /\ m.since \in {l.since, 0}
  BY <1>3, <1>4, SoundFacts, PlaybackAssumption DEF Unset
<1>8. QED
  BY <1>2, <1>3, <1>4, <1>5, <1>6, <1>7, SoundFacts, StillKeeps DEF m

LEMMA ListSound ==
  ASSUME show \in Shows, NEW l, Sound(l)
  PROVE  Sound([l EXCEPT !.toast = -1]) /\ Keeps(l, [l EXCEPT !.toast = -1])
<1> DEFINE m == [l EXCEPT !.toast = -1]
<1>1. DOMAIN l = LoopFields
  BY SoundFacts
<1>2. Still(l, m)
  BY <1>1 DEF LoopFields, Still
<1>3. /\ m.quit = l.quit
  BY <1>1 DEF LoopFields
<1>4. \A f \in {"playT", "since", "speed", "paused", "stepMode", "markerPaused", "atEnd",
               "visible", "glow", "fresh", "forced", "failed", "skip",
               "ready", "cursor"} :
        m[f] = l[f]
  BY <1>1 DEF LoopFields
<1> HIDE DEF m
<1>5. \A f \in Flags : m[f] \in BOOLEAN
  BY <1>3, <1>4, SoundFacts DEF Flags
<1>6. Ends(m)
  BY <1>3, <1>4, SoundFacts DEF Ends, Flags
<1>7. m.playT \in Nat /\ m.playT >= l.playT /\ m.speed \in Speeds /\ m.since \in Nat \cup {Unset}
      /\ m.since \in {l.since, 0}
  BY <1>3, <1>4, SoundFacts, PlaybackAssumption DEF Unset
<1>8. QED
  BY <1>2, <1>3, <1>4, <1>5, <1>6, <1>7, SoundFacts, StillKeeps DEF m

LEMMA StatusSound ==
  ASSUME show \in Shows, NEW l, Sound(l)
  PROVE  Sound([l EXCEPT !.visible = ~@, !.forced = TRUE]) /\ Keeps(l, [l EXCEPT !.visible = ~@, !.forced = TRUE])
<1> DEFINE m == [l EXCEPT !.visible = ~@, !.forced = TRUE]
<1>1. DOMAIN l = LoopFields
  BY SoundFacts
<1>2. Still(l, m)
  BY <1>1 DEF LoopFields, Still
<1>3. /\ m.visible = (~l.visible)
      /\ m.forced = TRUE
  BY <1>1 DEF LoopFields
<1>4. \A f \in {"playT", "since", "speed", "paused", "stepMode", "markerPaused", "atEnd",
               "glow", "fresh", "failed", "skip", "ready", "quit", "cursor"} :
        m[f] = l[f]
  BY <1>1 DEF LoopFields
<1> HIDE DEF m
<1>5. \A f \in Flags : m[f] \in BOOLEAN
  BY <1>3, <1>4, SoundFacts DEF Flags
<1>6. Ends(m)
  BY <1>3, <1>4, SoundFacts DEF Ends, Flags
<1>7. m.playT \in Nat /\ m.playT >= l.playT /\ m.speed \in Speeds /\ m.since \in Nat \cup {Unset}
      /\ m.since \in {l.since, 0}
  BY <1>3, <1>4, SoundFacts, PlaybackAssumption DEF Unset
<1>8. QED
  BY <1>2, <1>3, <1>4, <1>5, <1>6, <1>7, SoundFacts, StillKeeps DEF m

LEMMA SlowerSound ==
  ASSUME show \in Shows, NEW l, Sound(l)
  PROVE  Sound(Slower(l)) /\ Keeps(l, Slower(l))
<1> DEFINE m == Slower(l)
<1>1. DOMAIN l = LoopFields
  BY SoundFacts
<1>2. Still(l, m)
  BY <1>1 DEF Slower, LoopFields, Still
<1>3. /\ m.speed = (IF l.speed > 1 THEN l.speed \div 2 ELSE 1)
      /\ m.since = 0
  BY <1>1 DEF Slower, LoopFields
<1>4. \A f \in {"playT", "paused", "stepMode", "markerPaused", "atEnd", "visible", "glow",
               "fresh", "forced", "failed", "skip", "ready", "quit",
               "cursor"} :
        m[f] = l[f]
  BY <1>1 DEF Slower, LoopFields
<1> HIDE DEF m
<1>5. \A f \in Flags : m[f] \in BOOLEAN
  BY <1>3, <1>4, SoundFacts DEF Flags
<1>6. Ends(m)
  BY <1>3, <1>4, SoundFacts DEF Ends, Flags
<1>7. m.playT \in Nat /\ m.playT >= l.playT /\ m.speed \in Speeds /\ m.since \in Nat \cup {Unset}
      /\ m.since \in {l.since, 0}
  <2>1. m.speed \in Speeds
    <3>1. CASE l.speed = 1
      BY <1>3, <3>1 DEF Speeds
    <3>2. CASE l.speed = 2
      BY <1>3, <3>2 DEF Speeds
    <3>3. CASE l.speed = 4
      BY <1>3, <3>3 DEF Speeds
    <3>4. CASE l.speed = 8
      BY <1>3, <3>4 DEF Speeds
    <3>5. CASE l.speed = 16
      BY <1>3, <3>5 DEF Speeds
    <3>6. CASE l.speed = 32
      BY <1>3, <3>6 DEF Speeds
    <3>7. CASE l.speed = 64
      BY <1>3, <3>7 DEF Speeds
    <3>8. l.speed \in {1, 2, 4, 8, 16, 32, 64}
      BY SoundFacts DEF Speeds
    <3>9. QED
      BY <3>1, <3>2, <3>3, <3>4, <3>5, <3>6, <3>7, <3>8
  <2>2. QED
    BY <1>3, <1>4, <2>1, SoundFacts DEF Unset
<1>8. QED
  BY <1>2, <1>3, <1>4, <1>5, <1>6, <1>7, SoundFacts, StillKeeps DEF m

LEMMA FasterSound ==
  ASSUME show \in Shows, NEW l, Sound(l)
  PROVE  Sound(Faster(l)) /\ Keeps(l, Faster(l))
<1> DEFINE m == Faster(l)
<1>1. DOMAIN l = LoopFields
  BY SoundFacts
<1>2. Still(l, m)
  BY <1>1 DEF Faster, LoopFields, Still
<1>3. /\ m.speed = (IF l.speed < 64 THEN l.speed * 2 ELSE 64)
      /\ m.since = 0
  BY <1>1 DEF Faster, LoopFields
<1>4. \A f \in {"playT", "paused", "stepMode", "markerPaused", "atEnd", "visible", "glow",
               "fresh", "forced", "failed", "skip", "ready", "quit",
               "cursor"} :
        m[f] = l[f]
  BY <1>1 DEF Faster, LoopFields
<1> HIDE DEF m
<1>5. \A f \in Flags : m[f] \in BOOLEAN
  BY <1>3, <1>4, SoundFacts DEF Flags
<1>6. Ends(m)
  BY <1>3, <1>4, SoundFacts DEF Ends, Flags
<1>7. m.playT \in Nat /\ m.playT >= l.playT /\ m.speed \in Speeds /\ m.since \in Nat \cup {Unset}
      /\ m.since \in {l.since, 0}
  <2>1. m.speed \in Speeds
    <3>1. CASE l.speed = 1
      BY <1>3, <3>1 DEF Speeds
    <3>2. CASE l.speed = 2
      BY <1>3, <3>2 DEF Speeds
    <3>3. CASE l.speed = 4
      BY <1>3, <3>3 DEF Speeds
    <3>4. CASE l.speed = 8
      BY <1>3, <3>4 DEF Speeds
    <3>5. CASE l.speed = 16
      BY <1>3, <3>5 DEF Speeds
    <3>6. CASE l.speed = 32
      BY <1>3, <3>6 DEF Speeds
    <3>7. CASE l.speed = 64
      BY <1>3, <3>7 DEF Speeds
    <3>8. l.speed \in {1, 2, 4, 8, 16, 32, 64}
      BY SoundFacts DEF Speeds
    <3>9. QED
      BY <3>1, <3>2, <3>3, <3>4, <3>5, <3>6, <3>7, <3>8
  <2>2. QED
    BY <1>3, <1>4, <2>1, SoundFacts DEF Unset
<1>8. QED
  BY <1>2, <1>3, <1>4, <1>5, <1>6, <1>7, SoundFacts, StillKeeps DEF m

LEMMA SwitchSound ==
  ASSUME show \in Shows, NEW l, Sound(l)
  PROVE  Sound([l EXCEPT !.markerPaused = FALSE, !.paused = TRUE, !.stepMode = TRUE]) /\ Keeps(l, [l EXCEPT !.markerPaused = FALSE, !.paused = TRUE, !.stepMode = TRUE])
<1> DEFINE m == [l EXCEPT !.markerPaused = FALSE, !.paused = TRUE, !.stepMode = TRUE]
<1>1. DOMAIN l = LoopFields
  BY SoundFacts
<1>2. Still(l, m)
  BY <1>1 DEF LoopFields, Still
<1>3. /\ m.markerPaused = FALSE
      /\ m.paused = TRUE
      /\ m.stepMode = TRUE
  BY <1>1 DEF LoopFields
<1>4. \A f \in {"playT", "since", "speed", "atEnd", "visible", "glow", "fresh", "forced",
               "failed", "skip", "ready", "quit", "cursor"} :
        m[f] = l[f]
  BY <1>1 DEF LoopFields
<1> HIDE DEF m
<1>5. \A f \in Flags : m[f] \in BOOLEAN
  BY <1>3, <1>4, SoundFacts DEF Flags
<1>6. Ends(m)
  BY <1>3, <1>4, SoundFacts DEF Ends, Flags
<1>7. m.playT \in Nat /\ m.playT >= l.playT /\ m.speed \in Speeds /\ m.since \in Nat \cup {Unset}
      /\ m.since \in {l.since, 0}
  BY <1>3, <1>4, SoundFacts, PlaybackAssumption DEF Unset
<1>8. QED
  BY <1>2, <1>3, <1>4, <1>5, <1>6, <1>7, SoundFacts, StillKeeps DEF m

LEMMA QuitSound ==
  ASSUME show \in Shows, NEW l, Sound(l)
  PROVE  Sound([l EXCEPT !.quit = TRUE]) /\ Keeps(l, [l EXCEPT !.quit = TRUE])
<1> DEFINE m == [l EXCEPT !.quit = TRUE]
<1>1. DOMAIN l = LoopFields
  BY SoundFacts
<1>2. Still(l, m)
  BY <1>1 DEF LoopFields, Still
<1>3. /\ m.quit = TRUE
  BY <1>1 DEF LoopFields
<1>4. \A f \in {"playT", "since", "speed", "paused", "stepMode", "markerPaused", "atEnd",
               "visible", "glow", "fresh", "forced", "failed", "skip",
               "ready", "cursor"} :
        m[f] = l[f]
  BY <1>1 DEF LoopFields
<1> HIDE DEF m
<1>5. \A f \in Flags : m[f] \in BOOLEAN
  BY <1>3, <1>4, SoundFacts DEF Flags
<1>6. Ends(m)
  BY <1>3, <1>4, SoundFacts DEF Ends, Flags
<1>7. m.playT \in Nat /\ m.playT >= l.playT /\ m.speed \in Speeds /\ m.since \in Nat \cup {Unset}
      /\ m.since \in {l.since, 0}
  BY <1>3, <1>4, SoundFacts, PlaybackAssumption DEF Unset
<1>8. QED
  BY <1>2, <1>3, <1>4, <1>5, <1>6, <1>7, SoundFacts, StillKeeps DEF m

LEMMA ClearedSound ==
  ASSUME show \in Shows, NEW l, Sound(l)
  PROVE  Sound([l EXCEPT !.skip = FALSE, !.ready = FALSE]) /\ Keeps(l, [l EXCEPT !.skip = FALSE, !.ready = FALSE])
<1> DEFINE m == [l EXCEPT !.skip = FALSE, !.ready = FALSE]
<1>1. DOMAIN l = LoopFields
  BY SoundFacts
<1>2. Still(l, m)
  BY <1>1 DEF LoopFields, Still
<1>3. /\ m.skip = FALSE
      /\ m.ready = FALSE
  BY <1>1 DEF LoopFields
<1>4. \A f \in {"playT", "since", "speed", "paused", "stepMode", "markerPaused", "atEnd",
               "visible", "glow", "fresh", "forced", "failed", "quit",
               "cursor"} :
        m[f] = l[f]
  BY <1>1 DEF LoopFields
<1> HIDE DEF m
<1>5. \A f \in Flags : m[f] \in BOOLEAN
  BY <1>3, <1>4, SoundFacts DEF Flags
<1>6. Ends(m)
  BY <1>3, <1>4, SoundFacts DEF Ends, Flags
<1>7. m.playT \in Nat /\ m.playT >= l.playT /\ m.speed \in Speeds /\ m.since \in Nat \cup {Unset}
      /\ m.since \in {l.since, 0}
  BY <1>3, <1>4, SoundFacts, PlaybackAssumption DEF Unset
<1>8. QED
  BY <1>2, <1>3, <1>4, <1>5, <1>6, <1>7, SoundFacts, StillKeeps DEF m

LEMMA AtEndSound ==
  ASSUME show \in Shows, NEW l, Sound(l), l.cursor = Len(trace), ~l.markerPaused
  PROVE  Sound([l EXCEPT !.atEnd = TRUE]) /\ Keeps(l, [l EXCEPT !.atEnd = TRUE])
<1> DEFINE m == [l EXCEPT !.atEnd = TRUE]
<1>1. DOMAIN l = LoopFields
  BY SoundFacts
<1>2. Still(l, m)
  BY <1>1 DEF LoopFields, Still
<1>3. /\ m.atEnd = TRUE
  BY <1>1 DEF LoopFields
<1>4. \A f \in {"playT", "since", "speed", "paused", "stepMode", "markerPaused", "visible",
               "glow", "fresh", "forced", "failed", "skip", "ready", "quit",
               "cursor"} :
        m[f] = l[f]
  BY <1>1 DEF LoopFields
<1> HIDE DEF m
<1>5. \A f \in Flags : m[f] \in BOOLEAN
  BY <1>3, <1>4, SoundFacts DEF Flags
<1>6. Ends(m)
  BY <1>3, <1>4, SoundFacts DEF Ends, Flags
<1>7. m.playT \in Nat /\ m.playT >= l.playT /\ m.speed \in Speeds /\ m.since \in Nat \cup {Unset}
      /\ m.since \in {l.since, 0}
  BY <1>3, <1>4, SoundFacts, PlaybackAssumption DEF Unset
<1>8. QED
  BY <1>2, <1>3, <1>4, <1>5, <1>6, <1>7, SoundFacts, StillKeeps DEF m

LEMMA IdleCutSound ==
  ASSUME show \in Shows, NEW l, Sound(l), NEW t \in Nat, t >= l.playT
  PROVE  Sound([l EXCEPT !.playT = t]) /\ Keeps(l, [l EXCEPT !.playT = t])
<1> DEFINE m == [l EXCEPT !.playT = t]
<1>1. DOMAIN l = LoopFields
  BY SoundFacts
<1>2. Still(l, m)
  BY <1>1 DEF LoopFields, Still
<1>3. /\ m.playT = t
  BY <1>1 DEF LoopFields
<1>4. \A f \in {"since", "speed", "paused", "stepMode", "markerPaused", "atEnd", "visible",
               "glow", "fresh", "forced", "failed", "skip", "ready", "quit",
               "cursor"} :
        m[f] = l[f]
  BY <1>1 DEF LoopFields
<1> HIDE DEF m
<1>5. \A f \in Flags : m[f] \in BOOLEAN
  BY <1>3, <1>4, SoundFacts DEF Flags
<1>6. Ends(m)
  BY <1>3, <1>4, SoundFacts DEF Ends, Flags
<1>7. m.playT \in Nat /\ m.playT >= l.playT /\ m.speed \in Speeds /\ m.since \in Nat \cup {Unset}
      /\ m.since \in {l.since, 0}
  BY <1>3, <1>4, SoundFacts, PlaybackAssumption DEF Unset
<1>8. QED
  BY <1>2, <1>3, <1>4, <1>5, <1>6, <1>7, SoundFacts, StillKeeps DEF m

LEMMA ClockSound ==
  ASSUME show \in Shows, NEW l, Sound(l), NEW d \in Nat
  PROVE  Sound([l EXCEPT !.playT = @ + d, !.since = 0, !.ready = TRUE]) /\ Keeps(l, [l EXCEPT !.playT = @ + d, !.since = 0, !.ready = TRUE])
<1> DEFINE m == [l EXCEPT !.playT = @ + d, !.since = 0, !.ready = TRUE]
<1>1. DOMAIN l = LoopFields
  BY SoundFacts
<1>2. Still(l, m)
  BY <1>1 DEF LoopFields, Still
<1>3. /\ m.playT = l.playT + d
      /\ m.since = 0
      /\ m.ready = TRUE
  BY <1>1 DEF LoopFields
<1>4. \A f \in {"speed", "paused", "stepMode", "markerPaused", "atEnd", "visible", "glow",
               "fresh", "forced", "failed", "skip", "quit", "cursor"} :
        m[f] = l[f]
  BY <1>1 DEF LoopFields
<1> HIDE DEF m
<1>5. \A f \in Flags : m[f] \in BOOLEAN
  BY <1>3, <1>4, SoundFacts DEF Flags
<1>6. Ends(m)
  BY <1>3, <1>4, SoundFacts DEF Ends, Flags
<1>7. m.playT \in Nat /\ m.playT >= l.playT /\ m.speed \in Speeds /\ m.since \in Nat \cup {Unset}
      /\ m.since \in {l.since, 0}
  BY <1>3, <1>4, SoundFacts, PlaybackAssumption DEF Unset
<1>8. QED
  BY <1>2, <1>3, <1>4, <1>5, <1>6, <1>7, SoundFacts, StillKeeps DEF m

LEMMA EndCheckSound ==
  ASSUME show \in Shows, NEW l, Sound(l)
  PROVE  Sound(EndCheck(l)) /\ Keeps(l, EndCheck(l))
BY AtEndSound DEF EndCheck, Keeps

(* cmdStep: the next event, at its own time.                                *)
LEMMA StepSound ==
  ASSUME show \in Shows, NEW l, Sound(l)
  PROVE  Sound(Step(l)) /\ Keeps(l, Step(l))
<1> DEFINE l2 == [l EXCEPT !.markerPaused = FALSE, !.paused = TRUE, !.stepMode = TRUE]
           i  == l.cursor + 1
           d  == Dispatch(l2, i)
           m  == [d EXCEPT !.playT = trace[i].t]
<1>1. Sound(l2) /\ Keeps(l, l2) /\ l2.cursor = l.cursor /\ l2.markerPaused = FALSE
      /\ l2.atEnd = l.atEnd
  BY SwitchSound, SoundFacts DEF LoopFields
<1>2. CASE l.cursor = Len(trace)
  BY <1>1, <1>2 DEF Step
<1>3. CASE l.cursor # Len(trace)
  <2> HIDE DEF l2
  <2>1. l.cursor < Len(trace) /\ i \in 1..Len(trace) /\ i \in Nat \ {0} /\ ~l.atEnd
    BY <1>3, SoundFacts, TraceFacts DEF Ends
  <2>2. IsLoop(d) /\ Keeps(l2, d) /\ Replays(d) /\ d.cursor = i
        /\ d.markerPaused = FALSE /\ d.atEnd = l.atEnd
    BY <1>1, <2>1, DispatchFields, DispatchReplays DEF Sound
  <2> HIDE DEF d
  <2>3. m = [f \in LoopFields |-> m[f]] /\ m.playT = trace[i].t
        /\ \A f \in LoopFields \ {"playT"} : m[f] = d[f]
    BY <2>2, LoopDomain DEF LoopFields
  <2> HIDE DEF m
  <2>4. IsLoop(m)
    <3>1. m.playT \in Nat
      BY <2>1, <2>3, EventTypes
    <3>2. \A f \in {"speed", "since", "viewport", "glow"} \cup Flags : m[f] = d[f]
      BY <2>3 DEF LoopFields, Flags
    <3>3. QED
      BY <2>2, <2>3, <3>1, <3>2 DEF IsLoop
  <2>5. Replays(m)
    BY <2>2, <2>3 DEF Replays, LoopFields
  <2>6. Timed(m)
    <3>1. m.cursor = i /\ \A j \in 1..i : trace[j].t <= trace[i].t
      <4>1. m.cursor = d.cursor
        BY <2>3 DEF LoopFields
      <4>2. \A j \in 1..i : j \in 1..Len(trace) /\ j <= i
        BY <2>1, TraceFacts
      <4>3. QED
        BY <2>1, <2>2, <4>1, <4>2, TraceFacts
    <3>2. QED
      BY <2>3, <3>1 DEF Timed
  <2>7. Ends(m)
    BY <2>1, <2>2, <2>3 DEF Ends, LoopFields
  <2>8. Keeps(l, m)
    <3>1. Keeps(d, m)
      BY <2>3 DEF Keeps, LoopFields
    <3>2. QED
      BY <1>1, <2>2, <3>1, KeepsOn
  <2>9. Step(l) = m
    BY <1>3 DEF Step, l2, d, m
  <2>10. QED
    BY <2>4, <2>5, <2>6, <2>7, <2>8, <2>9 DEF Sound
<1>4. QED
  BY <1>2, <1>3

(* A seek goes to a marker there is.                                        *)
LEMMA MarkersChosen ==
  ASSUME show \in Shows, NEW l, Sound(l)
  PROVE  NextMarker(l) \in 0..Len(Markers) /\ PreviousMarker(l) \in 0..Len(Markers)
<1>1. Len(Markers) \in Nat /\ Len(trace) \in Nat
  BY MarkersFacts, TraceFacts
<1>2. NextMarker(l) \in 0..Len(Markers)
  <2> DEFINE ahead == {i \in 1..Len(Markers) : Markers[i] > l.cursor}
  <2>1. CASE ahead = {}
    BY <1>1, <2>1 DEF NextMarker
  <2>2. CASE ahead # {}
    <3>1. \E i \in ahead : \A j \in ahead : i <= j
      <4> HIDE DEF ahead
      <4>1. ahead \subseteq Nat
        BY DEF ahead
      <4>2. QED
        BY <2>2, <4>1, LeastNat
    <3>2. NextMarker(l) = CHOOSE i \in ahead : \A j \in ahead : i <= j
      BY <2>2 DEF NextMarker
    <3>3. NextMarker(l) \in ahead
      <4> HIDE DEF ahead
      <4>1. QED
        BY <3>1, <3>2
    <3>4. QED
      BY <3>3
  <2>3. QED
    BY <2>1, <2>2
<1>3. PreviousMarker(l) \in 0..Len(Markers)
  <2> DEFINE seen == {i \in 1..Len(Markers) : Markers[i] <= l.cursor}
  <2>1. IsFiniteSet(1..Len(Markers)) /\ Cardinality(1..Len(Markers)) = Len(Markers)
    <3>1. IsFiniteSet(1..Len(Markers))
      BY <1>1, FS_Interval
    <3>2. \A n \in Nat : Cardinality(1..n) = IF 1 > n THEN 0 ELSE n - 1 + 1
      BY FS_Interval
    <3>3. Cardinality(1..Len(Markers)) =
            IF 1 > Len(Markers) THEN 0 ELSE Len(Markers) - 1 + 1
      BY <1>1, <3>2, Zenon
    <3>4. QED
      BY <1>1, <3>1, <3>3
  <2>2. Cardinality(seen) \in 0..Len(Markers)
    <3>1. seen \subseteq 1..Len(Markers)
      OBVIOUS
    <3> HIDE DEF seen
    <3>2. IsFiniteSet(seen) /\ Cardinality(seen) <= Cardinality(1..Len(Markers))
      BY <2>1, <3>1, FS_Subset
    <3>3. Cardinality(seen) \in Nat
      BY <3>2, FS_CardinalityType
    <3>4. QED
      BY <1>1, <2>1, <3>2, <3>3
  <2>3. \/ PreviousMarker(l) = Cardinality(seen)
        \/ Cardinality(seen) > 0 /\ PreviousMarker(l) = Cardinality(seen) - 1
    BY Zenon DEF PreviousMarker
  <2> HIDE DEF seen
  <2>4. QED
    BY <1>1, <2>2, <2>3
<1>4. QED
  BY <1>2, <1>3

(* seekMarker and cmdRestart: a new model at a position.                    *)
LEMMA SeekSound ==
  ASSUME show \in Shows, NEW l, Sound(l), NEW k \in 0..Len(Markers)
  PROVE  Sound(Seek(l, k)) /\ Keeps(l, Seek(l, k))
<1>1. CASE k = 0
  BY <1>1 DEF Seek, Keeps
<1>2. CASE k # 0
  <2> DEFINE m == Seek(l, k)
             c == Markers[k]
  <2>1. c \in 1..Len(trace) /\ Cardinality(MarkersTo(c)) = k /\ Len(trace) \in Nat
    BY <1>2, MarkersFacts, TraceFacts
  <2>2. DOMAIN l = LoopFields
    BY SoundFacts
  <2>3. m = [f \in LoopFields |-> m[f]]
    BY <1>2, <2>2 DEF Seek, Rebuilt
  <2>4. /\ m.cursor = c /\ m.screen = ScreenAt(c) /\ m.size = SizeAt(c) /\ m.marker = k
        /\ m.glow = Nothing /\ m.fresh = TRUE /\ m.forced = TRUE /\ m.playT = trace[c].t
        /\ m.since = 0 /\ m.paused = TRUE /\ m.stepMode = FALSE /\ m.markerPaused = TRUE
        /\ m.atEnd = FALSE /\ m.skip = TRUE
    BY <1>2, <2>2 DEF Seek, Rebuilt, LoopFields
  <2>5. \A f \in {"speed", "visible", "failed", "ready", "quit", "viewport", "emitted"} : m[f] = l[f]
    BY <1>2, <2>2 DEF Seek, Rebuilt, LoopFields
  <2> HIDE DEF m, c
  <2>6. IsLoop(m)
    <3>1. IsGlow(Nothing)
      BY DEF IsGlow, Nothing
    <3>2. \A f \in Flags : m[f] \in BOOLEAN
      BY <2>4, <2>5, SoundFacts DEF Flags
    <3>3. l.viewport \in Viewports
      BY DEF Sound, IsLoop
    <3>4. m.playT \in Nat /\ m.speed \in Speeds /\ m.since \in Nat \cup {Unset}
      BY <2>1, <2>4, <2>5, SoundFacts, EventTypes
    <3>5. m.viewport \in Viewports /\ IsGlow(m.glow)
      BY <2>4, <2>5, <3>1, <3>3
    <3>6. QED
      BY <2>3, <3>2, <3>4, <3>5 DEF IsLoop
  <2>7. Replays(m)
    BY <2>1, <2>4 DEF Replays
  <2>8. Timed(m) /\ Ends(m)
    BY <2>1, <2>4, TraceFacts DEF Timed, Ends
  <2>9. Keeps(l, m)
    BY <2>4, <2>5 DEF Keeps, Unset
  <2>10. QED
    BY <2>6, <2>7, <2>8, <2>9 DEF Sound, m
<1>3. QED
  BY <1>1, <1>2

LEMMA RestartSound ==
  ASSUME show \in Shows, NEW l, Sound(l)
  PROVE  Sound(Restart(l)) /\ Keeps(l, Restart(l))
<1> DEFINE m == Restart(l)
<1>1. DOMAIN l = LoopFields /\ Len(trace) \in Nat
  BY SoundFacts, TraceFacts
<1>2. m = [f \in LoopFields |-> m[f]]
  BY <1>1 DEF Restart, Rebuilt
<1>3. /\ m.cursor = 0 /\ m.screen = ScreenAt(0) /\ m.size = SizeAt(0) /\ m.marker = 0
      /\ m.glow = Nothing /\ m.forced = TRUE /\ m.playT = 0 /\ m.since = 0
      /\ m.paused = show.step /\ m.stepMode = show.step /\ m.markerPaused = FALSE
      /\ m.atEnd = FALSE /\ m.skip = TRUE
  BY <1>1 DEF Restart, Rebuilt, LoopFields
<1>4. \A f \in {"speed", "visible", "failed", "fresh", "ready", "quit", "viewport", "emitted"} :
        m[f] = l[f]
  BY <1>1 DEF Restart, Rebuilt, LoopFields
<1> HIDE DEF m
<1>5. IsLoop(m)
  <2>1. IsGlow(Nothing) /\ show.step \in BOOLEAN
    BY PlaybackAssumption DEF IsGlow, Nothing
  <2>2. \A f \in Flags : m[f] \in BOOLEAN
    BY <1>3, <1>4, <2>1, SoundFacts DEF Flags
  <2>3. l.viewport \in Viewports
    BY DEF Sound, IsLoop
  <2>4. m.playT \in Nat /\ m.speed \in Speeds /\ m.since \in Nat \cup {Unset}
    BY <1>3, <1>4, SoundFacts
  <2>5. m.viewport \in Viewports /\ IsGlow(m.glow)
    BY <1>3, <1>4, <2>1, <2>3
  <2>6. QED
    BY <1>2, <2>2, <2>4, <2>5 DEF IsLoop
<1>6. Replays(m) /\ Timed(m) /\ Ends(m)
  BY <1>1, <1>3, NoMarkers DEF Replays, Timed, Ends
<1>7. Keeps(l, m)
  BY <1>3, <1>4 DEF Keeps, Nothing, Unset
<1>8. QED
  BY <1>5, <1>6, <1>7 DEF Sound, m

LEMMA ObeySound ==
  ASSUME show \in Shows, NEW l, Sound(l), NEW c
  PROVE  Sound(Obey(l, c)) /\ Keeps(l, Obey(l, c))
<1>1. Sound(Forward1s(l)) /\ Keeps(l, Forward1s(l))
  BY ForwardSound DEF Forward1s, Keeps
<1>2. /\ Sound(Seek(l, PreviousMarker(l))) /\ Keeps(l, Seek(l, PreviousMarker(l)))
      /\ Sound(Seek(l, NextMarker(l))) /\ Keeps(l, Seek(l, NextMarker(l)))
  BY MarkersChosen, SeekSound
<1>3. QED
  BY <1>1, <1>2, PauseSound, StepSound, ListSound, RestartSound, StatusSound, SlowerSound,
     FasterSound, QuitSound, Zenon DEF Obey

(* drainCommands: one command after another, however many wait.             *)
LEMMA DrainedSound ==
  ASSUME show \in Shows, Len(cmds) \in Nat, NEW l, Sound(l)
  PROVE  Sound(Drained(l)) /\ Keeps(l, Drained(l))
<1> DEFINE l2   == [l EXCEPT !.skip = FALSE, !.ready = FALSE]
           P    == {n \in 0..Len(cmds) : Sound(Drains(l2)[n]) /\ Keeps(l, Drains(l2)[n])}
<1>1. Sound(l2) /\ Keeps(l, l2)
  BY ClearedSound
<1> HIDE DEF l2
<1>2. 0 \in P
  BY <1>1, DrainsUnfold
<1>3. ASSUME NEW n \in 0..Len(cmds), n \in P, n < Len(cmds)
      PROVE  n + 1 \in P
  <2> DEFINE x == Drains(l2)[n]
  <2>1. n + 1 \in 0..Len(cmds) /\ n + 1 # 0 /\ (n + 1) - 1 = n
    BY <1>3
  <2>2. Drains(l2)[n + 1] = Drain(x, cmds[n + 1])
    BY <2>1, DrainsUnfold
  <2>3. Sound(x) /\ Keeps(l, x)
    BY <1>3
  <2> HIDE DEF x
  <2>4. Sound(Obey(x, cmds[n + 1])) /\ Keeps(l, Obey(x, cmds[n + 1]))
    BY <2>3, ObeySound, KeepsOn
  <2>5. Sound(EndCheck(Obey(x, cmds[n + 1]))) /\ Keeps(l, EndCheck(Obey(x, cmds[n + 1])))
    BY <2>4, EndCheckSound, KeepsOn
  <2>6. Sound(Drain(x, cmds[n + 1])) /\ Keeps(l, Drain(x, cmds[n + 1]))
    BY <2>3, <2>4, <2>5, Zenon DEF Drain
  <2>7. QED
    BY <2>1, <2>2, <2>6
<1> HIDE DEF P
<1>4. 0..Len(cmds) \subseteq P
  BY <1>2, <1>3, InductTo
<1>5. Len(cmds) \in P
  BY <1>4
<1>6. QED
  BY <1>5 DEF P, Drained, l2

(* The clock of the trace moves by what has passed, and over idle time.     *)
LEMMA AdvancedSound ==
  ASSUME show \in Shows, NEW l, Sound(l), l.since # Unset
  PROVE  Sound(Advanced(l)) /\ Keeps(l, Advanced(l)) /\ Advanced(l).ready
<1>1. Sound(IdleCut(l)) /\ Keeps(l, IdleCut(l)) /\ IdleCut(l).since = l.since
  <2>1. CASE IdleCut(l) = l
    BY <2>1 DEF Keeps
  <2>2. CASE IdleCut(l) # l
    <3> DEFINE t == trace[l.cursor + 1].t - MaxIdle
    <3>1. l.cursor < Len(trace) /\ trace[l.cursor + 1].t - l.playT > MaxIdle
          /\ IdleCut(l) = [l EXCEPT !.playT = t]
      BY <2>2, Zenon DEF IdleCut
    <3>2. l.cursor + 1 \in 1..Len(trace)
      BY <3>1, SoundFacts, TraceFacts
    <3>3. t \in Nat /\ t >= l.playT
      <4>1. trace[l.cursor + 1].t \in Nat /\ l.playT \in Nat /\ MaxIdle \in Nat
        BY <3>2, SoundFacts, EventTypes, PlaybackAssumption
      <4>2. QED
        BY <3>1, <4>1
    <3> HIDE DEF t
    <3>4. [l EXCEPT !.playT = t].since = l.since
      BY SoundFacts DEF LoopFields
    <3>5. QED
      BY <3>1, <3>3, <3>4, IdleCutSound
  <2>3. QED
    BY <2>1, <2>2
<1> DEFINE k == IdleCut(l)
           d == l.since * l.speed
<1>2. d \in Nat
  <2>1. l.since \in Nat /\ l.speed \in Nat
    BY SoundFacts DEF Speeds, Unset
  <2>2. QED
    BY <2>1
<1>3. Advanced(l) = [k EXCEPT !.playT = @ + d, !.since = 0, !.ready = TRUE]
  BY DEF Advanced
<1> HIDE DEF k, d
<1>4. Sound(k) /\ Keeps(l, k)
  BY <1>1 DEF k
<1>5. Sound(Advanced(l)) /\ Keeps(l, Advanced(l))
  <2> DEFINE m == [k EXCEPT !.playT = @ + d, !.since = 0, !.ready = TRUE]
  <2>1. Sound(m) /\ Keeps(k, m)
    BY <1>2, <1>4, ClockSound
  <2> HIDE DEF m
  <2>2. Keeps(l, m)
    BY <1>4, <2>1, KeepsOn
  <2>3. QED
    BY <1>3, <2>1, <2>2 DEF m
<1>6. Advanced(l).ready = TRUE
  BY <1>3, <1>4, SoundFacts DEF LoopFields
<1>7. QED
  BY <1>5, <1>6

(* dispatchReady stops where every event that is due has been applied.      *)
LEMMA LastReadyFacts ==
  ASSUME show \in Shows, NEW l, Sound(l)
  PROVE  /\ LastReady(l) \in l.cursor..Len(trace)
         /\ \A i \in (l.cursor + 1)..LastReady(l) : trace[i].t <= l.playT
         /\ \/ LastReady(l) = Len(trace) \/ trace[LastReady(l) + 1].t > l.playT
            \/ LastReady(l) > l.cursor /\ Pauses(LastReady(l))
<1> DEFINE stops == {i \in l.cursor..Len(trace) :
                       \/ i = Len(trace) \/ trace[i + 1].t > l.playT
                       \/ i > l.cursor /\ Pauses(i)}
<1>1. l.cursor \in Nat /\ Len(trace) \in Nat /\ l.cursor <= Len(trace) /\ l.playT \in Nat
  BY SoundFacts, TraceFacts
<1>2. Len(trace) \in stops /\ stops \subseteq Nat
  BY <1>1
<1>3. LastReady(l) = CHOOSE i \in stops : \A j \in stops : i <= j
  BY DEF LastReady
<1>4. LastReady(l) \in stops /\ \A j \in stops : LastReady(l) <= j
  <2> HIDE DEF stops
  <2>1. \E i \in stops : \A j \in stops : i <= j
    BY <1>2, LeastNat
  <2>2. QED
    BY <1>3, <2>1
<1>5. ASSUME NEW i \in (l.cursor + 1)..LastReady(l)
      PROVE  trace[i].t <= l.playT
  <2>1. i - 1 \in l.cursor..Len(trace) /\ i - 1 # Len(trace) /\ (i - 1) + 1 = i
        /\ i \in 1..Len(trace) /\ i - 1 < LastReady(l)
    BY <1>1, <1>4
  <2>2. i - 1 \notin stops
    <3> HIDE DEF stops
    <3>1. LastReady(l) \in Nat
      BY <1>2, <1>4
    <3>2. ~(LastReady(l) <= i - 1)
      BY <1>1, <2>1, <3>1
    <3>3. QED
      BY <1>4, <3>2
  <2>3. ~(trace[i].t > l.playT)
    BY <2>1, <2>2
  <2>4. QED
    BY <1>1, <2>1, <2>3, EventTypes
<1>6. QED
  BY <1>4, <1>5

LEMMA DispatchedSound ==
  ASSUME show \in Shows, NEW l, Sound(l), NEW n \in l.cursor..LastReady(l)
  PROVE  /\ Sound(DispatchedTo(l)[n]) /\ Keeps(l, DispatchedTo(l)[n])
         /\ DispatchedTo(l)[n].cursor = n
         /\ \A f \in {"playT", "since", "paused", "atEnd", "markerPaused", "skip", "quit"} :
              DispatchedTo(l)[n][f] = l[f]
<1> DEFINE Right(m, i) ==
             /\ Sound(m) /\ Keeps(l, m) /\ m.cursor = i
             /\ \A f \in {"playT", "since", "paused", "atEnd", "markerPaused", "skip", "quit"} :
                  m[f] = l[f]
           P == {i \in l.cursor..LastReady(l) : Right(DispatchedTo(l)[i], i)}
<1>1. /\ l.cursor \in Nat /\ Len(trace) \in Nat /\ LastReady(l) \in Nat
      /\ l.cursor <= LastReady(l) /\ LastReady(l) <= Len(trace)
  BY SoundFacts, TraceFacts, LastReadyFacts
<1>2. l.cursor \in P
  <2>1. DispatchedTo(l)[l.cursor] = l
    BY <1>1, DispatchedUnfold
  <2>2. QED
    BY <1>1, <2>1 DEF Keeps
<1>3. ASSUME NEW i \in l.cursor..LastReady(l), i \in P, i < LastReady(l)
      PROVE  i + 1 \in P
  <2> DEFINE x == DispatchedTo(l)[i]
             y == Dispatch(x, i + 1)
  <2>1. i + 1 \in l.cursor..Len(trace) /\ i + 1 # l.cursor /\ (i + 1) - 1 = i
        /\ i + 1 \in 1..Len(trace) /\ i + 1 \in Nat \ {0}
        /\ i + 1 \in (l.cursor + 1)..LastReady(l)
    BY <1>1, <1>3
  <2>2. DispatchedTo(l)[i + 1] = y
    BY <1>1, <2>1, DispatchedUnfold
  <2>3. Sound(x) /\ Keeps(l, x) /\ x.cursor = i
        /\ \A f \in {"playT", "since", "paused", "atEnd", "markerPaused", "skip", "quit"} :
             x[f] = l[f]
    BY <1>3
  <2> HIDE DEF x
  <2>4. IsLoop(y) /\ Keeps(l, y) /\ Replays(y) /\ y.cursor = i + 1
        /\ \A f \in {"playT", "since", "paused", "atEnd", "markerPaused", "skip", "quit"} :
             y[f] = x[f]
    <3>1. Sound(x) /\ IsLoop(x) /\ Replays(x) /\ x.cursor < Len(trace)
      BY <1>1, <2>1, <2>3 DEF Sound
    <3>2. QED
      BY <2>1, <2>3, <3>1, DispatchFields, DispatchReplays, KeepsOn
  <2> HIDE DEF y
  <2>5. Timed(y)
    <3>1. y.playT = l.playT /\ trace[i + 1].t <= l.playT
      BY <2>1, <2>3, <2>4, LastReadyFacts
    <3>2. \A j \in 1..i : trace[j].t <= l.playT
      BY <2>3 DEF Sound, Timed
    <3>3. QED
      BY <1>1, <2>4, <3>1, <3>2 DEF Timed
  <2>6. Ends(y)
    <3>1. y.atEnd = l.atEnd /\ y.markerPaused = l.markerPaused /\ y.paused = l.paused
      BY <2>3, <2>4
    <3>2. l.cursor # Len(trace)
      BY <1>1, <1>3
    <3>3. QED
      BY <2>1, <2>4, <3>1, <3>2, SoundFacts DEF Ends
  <2>7. Right(y, i + 1)
    BY <2>3, <2>4, <2>5, <2>6 DEF Sound
  <2> HIDE DEF Right
  <2>8. QED
    BY <1>1, <1>3, <2>2, <2>7
<1> HIDE DEF P
<1>4. l.cursor..LastReady(l) \subseteq P
  BY <1>1, <1>2, <1>3, InductTo
<1>5. QED
  BY <1>4 DEF P

LEMMA DispatchReadySound ==
  ASSUME show \in Shows, NEW l, Sound(l)
  PROVE  /\ Sound(DispatchReady(l)) /\ Keeps(l, DispatchReady(l))
         /\ CaughtUp(DispatchReady(l))
<1> DEFINE last == LastReady(l)
           x    == DispatchedTo(l)[last]
           m    == [x EXCEPT !.paused = TRUE, !.stepMode = FALSE, !.markerPaused = TRUE,
                             !.atEnd = FALSE, !.playT = trace[last].t, !.since = 0]
<1>1. last \in Nat /\ l.cursor \in Nat /\ last <= Len(trace) /\ last >= l.cursor
      /\ Len(trace) \in Nat /\ l.playT \in Nat
  BY LastReadyFacts, SoundFacts, TraceFacts
<1>2. Sound(x) /\ Keeps(l, x) /\ x.cursor = last /\ x.playT = l.playT /\ x.paused = l.paused
  BY <1>1, DispatchedSound
<1> HIDE DEF x
<1>3. CASE last > l.cursor /\ Pauses(last)
  <2>1. last \in 1..Len(trace)
    BY <1>1, <1>3
  <2>2. DispatchReady(l) = m
    BY <1>3 DEF DispatchReady, x
  <2>3. m = [f \in LoopFields |-> m[f]]
    BY <1>2, SoundFacts
  <2>4. /\ m.paused = TRUE /\ m.stepMode = FALSE /\ m.markerPaused = TRUE /\ m.atEnd = FALSE
        /\ m.playT = trace[last].t /\ m.since = 0
    BY <1>2, SoundFacts DEF LoopFields
  <2>5. \A f \in {"cursor", "screen", "size", "marker", "speed", "visible", "fresh", "forced",
                 "failed", "skip", "ready", "quit", "viewport", "emitted", "glow"} : m[f] = x[f]
    BY <1>2, SoundFacts DEF LoopFields
  <2> HIDE DEF m
  <2>6. IsLoop(m)
    <3>1. \A f \in Flags : m[f] \in BOOLEAN
      BY <1>2, <2>4, <2>5, SoundFacts DEF Flags
    <3>2. x.viewport \in Viewports
      BY <1>2 DEF Sound, IsLoop
    <3>3. m.playT \in Nat
      BY <2>1, <2>4, EventTypes
    <3>4. QED
      BY <1>2, <2>3, <2>4, <2>5, <3>1, <3>2, <3>3, SoundFacts DEF IsLoop
  <2>7. Replays(m)
    BY <1>2, <2>5 DEF Replays, Sound
  <2>8. Timed(m)
    <3>1. m.cursor = last /\ \A j \in 1..last : j \in 1..Len(trace) /\ j <= last
      BY <1>1, <1>2, <2>5
    <3>2. QED
      BY <2>1, <2>4, <3>1, TraceFacts DEF Timed
  <2>9. Ends(m)
    BY <1>1, <1>2, <1>3, <2>4, <2>5 DEF Ends
  <2>10. Keeps(x, m)
    BY <2>4, <2>5 DEF Keeps, Unset
  <2>11. Keeps(l, m)
    BY <1>2, <2>10, KeepsOn
  <2>12. CaughtUp(m)
    BY <2>4 DEF CaughtUp
  <2>13. QED
    BY <2>2, <2>6, <2>7, <2>8, <2>9, <2>11, <2>12 DEF Sound
<1>4. CASE ~(last > l.cursor /\ Pauses(last))
  <2>1. DispatchReady(l) = x
    BY <1>4 DEF DispatchReady, x
  <2>2. last = Len(trace) \/ trace[last + 1].t > l.playT
    BY <1>4, LastReadyFacts
  <2>3. ASSUME NEW i \in (last + 1)..Len(trace)
        PROVE  trace[i].t > l.playT
    <3>1. last # Len(trace) /\ i \in 1..Len(trace) /\ last + 1 \in 1..Len(trace) /\ last + 1 <= i
      BY <1>1
    <3>2. trace[last + 1].t <= trace[i].t
      BY <3>1, TraceFacts
    <3>3. trace[i].t \in Nat /\ trace[last + 1].t \in Nat
      BY <3>1, EventTypes
    <3> HIDE DEF last
    <3>4. QED
      BY <1>1, <2>2, <3>1, <3>2, <3>3
  <2>4. CaughtUp(x)
    BY <1>2, <2>3 DEF CaughtUp
  <2>5. QED
    BY <1>2, <2>1, <2>4
<1>5. QED
  BY <1>3, <1>4

(* tick: what the clock does to the loop before and after the commands.     *)
LEMMA AgedSound ==
  ASSUME show \in Shows, NEW l, Sound(l), NEW d \in 0..show.clock
  PROVE  Sound(Aged(l, d)) /\ Keeps(l, Aged(l, d)) /\ Aged(l, d).since # Unset
<1> DEFINE m == Aged(l, d)
           g == Older(l.glow, d)
           s == IF l.since = Unset THEN 0
                ELSE IF l.since + d > show.clock THEN show.clock ELSE l.since + d
<1>1. DOMAIN l = LoopFields /\ d \in Nat /\ show.clock \in Nat /\ Glow \in Nat
  BY SoundFacts, PlaybackAssumption
<1>2. Still(l, m)
  BY <1>1 DEF Aged, LoopFields, Still
<1>3. m.glow = g /\ m.since = s
  <2>1. m = [l EXCEPT !.since = s, !.glow = g]
    BY DEF Aged
  <2> HIDE DEF m, s, g
  <2>2. QED
    BY <1>1, <2>1 DEF LoopFields
<1>4. \A f \in {"playT", "speed", "paused", "stepMode", "markerPaused", "atEnd", "visible", "fresh",
               "forced", "failed", "skip", "ready", "quit", "cursor"} : m[f] = l[f]
  BY <1>1 DEF Aged, LoopFields
<1>5. IsGlow(g) /\ g.mouse = l.glow.mouse
  <2>1. l.glow = [mouse |-> l.glow.mouse, age |-> l.glow.age]
        /\ l.glow.mouse \in Nat /\ l.glow.age \in Nat /\ (l.glow.mouse = 0 => l.glow.age = 0)
    BY SoundFacts DEF IsGlow
  <2>2. CASE l.glow.mouse = 0
    BY <2>1, <2>2 DEF IsGlow, Older
  <2>3. CASE l.glow.mouse # 0
    <3>1. g = [mouse |-> l.glow.mouse,
               age |-> IF l.glow.age + d > Glow THEN Glow ELSE l.glow.age + d]
      BY <2>1, <2>3 DEF Older
    <3> HIDE DEF g
    <3>2. QED
      BY <1>1, <2>1, <2>3, <3>1 DEF IsGlow
  <2>4. QED
    BY <2>2, <2>3
<1> HIDE DEF m, g
<1>6. m.since \in Nat
  BY <1>1, <1>3, SoundFacts DEF Unset
<1>7. \A f \in Flags : m[f] \in BOOLEAN
  BY <1>4, SoundFacts DEF Flags
<1>8. Ends(m)
  BY <1>4, SoundFacts DEF Ends
<1>9. Sound(m)
  BY <1>2, <1>3, <1>4, <1>5, <1>6, <1>7, <1>8, SoundFacts, StillSound
<1>10. Keeps(l, m)
  BY <1>2, <1>3, <1>4, <1>5, <1>6 DEF Keeps, Still, Unset
<1>11. QED
  BY <1>6, <1>9, <1>10 DEF m, Unset

(* The loop before the frame of a tick.                                     *)
Ticked(l) ==
  LET l2 == IF ~l.skip /\ ~l.paused /\ ~l.atEnd THEN Advanced(l) ELSE l
  IN  EndCheck(IF l2.ready THEN DispatchReady(l2) ELSE l2)

LEMMA CaughtUpEndCheck ==
  ASSUME NEW l, Sound(l), CaughtUp(l)
  PROVE  CaughtUp(EndCheck(l))
<1>1. CASE EndCheck(l) = l
  BY <1>1
<1>2. CASE EndCheck(l) = [l EXCEPT !.atEnd = TRUE]
  BY <1>2, SoundFacts DEF CaughtUp, LoopFields
<1>3. QED
  BY <1>1, <1>2 DEF EndCheck

LEMMA TickedSound ==
  ASSUME show \in Shows, NEW l, Sound(l), l.since # Unset
  PROVE  Sound(Ticked(l)) /\ Keeps(l, Ticked(l)) /\ CaughtUp(Ticked(l))
<1> DEFINE go == ~l.skip /\ ~l.paused /\ ~l.atEnd
           l2 == IF go THEN Advanced(l) ELSE l
           l3 == IF l2.ready THEN DispatchReady(l2) ELSE l2
<1>1. Sound(l2) /\ Keeps(l, l2) /\ (go => l2.ready)
  BY AdvancedSound DEF Keeps
<1>2. Sound(l3) /\ Keeps(l2, l3)
  <2> HIDE DEF l2
  <2>1. QED
    BY <1>1, DispatchReadySound DEF Keeps
<1>3. CaughtUp(l3)
  <2>1. CASE l2.ready
    <3> HIDE DEF l2
    <3>1. QED
      BY <1>1, <2>1, DispatchReadySound
  <2>2. CASE ~l2.ready
    <3>1. l3 = l /\ ~go
      BY <1>1, <2>2
    <3>2. l.atEnd => l.cursor = Len(trace)
      BY SoundFacts DEF Ends
    <3>3. l.atEnd => (l.cursor + 1)..Len(trace) = {}
      BY <3>2, SoundFacts
    <3> HIDE DEF l3
    <3>4. QED
      BY <3>1, <3>3 DEF CaughtUp
  <2>3. QED
    BY <2>1, <2>2
<1> HIDE DEF l3
<1>4. Sound(EndCheck(l3)) /\ Keeps(l3, EndCheck(l3)) /\ CaughtUp(EndCheck(l3))
  BY <1>2, <1>3, EndCheckSound, CaughtUpEndCheck
<1>5. Keeps(l, EndCheck(l3))
  BY <1>1, <1>2, <1>4, KeepsOn, Zenon
<1>6. Ticked(l) = EndCheck(l3)
  BY DEF Ticked, l3
<1>7. QED
  BY <1>4, <1>5, <1>6

-----------------------------------------------------------------------------
(* Frames.                                                                  *)

(* fitFrameCells: the picture fits what is free for it.                     *)
LEMMA FitFits ==
  ASSUME NEW frame \in Sizes, NEW free \in Sizes
  PROVE  Fit(frame, free).cols \in 1..free.cols /\ Fit(frame, free).rows \in 1..free.rows
<1> DEFINE wide == free.cols * frame.rows <= free.rows * frame.cols
           cols == IF wide THEN free.cols ELSE Rounded(frame.cols * free.rows, frame.rows)
           rows == IF wide THEN Rounded(frame.rows * free.cols, frame.cols) ELSE free.rows
           Clamped(n, max) == IF n < 1 THEN 1 ELSE IF n > max THEN max ELSE n
<1>1. /\ frame.cols \in Nat \ {0} /\ frame.rows \in Nat \ {0}
      /\ free.cols \in Nat \ {0} /\ free.rows \in Nat \ {0}
  BY DEF Sizes
<1>2. \A a \in Nat, b \in Nat \ {0} : Rounded(a, b) \in Int
  BY DEF Rounded
<1>3. cols \in Int /\ rows \in Int
  <2>1. frame.cols * free.rows \in Nat /\ frame.rows * free.cols \in Nat
    BY <1>1
  <2>2. QED
    BY <1>1, <1>2, <2>1
<1>4. Fit(frame, free) = [cols |-> Clamped(cols, free.cols), rows |-> Clamped(rows, free.rows)]
  BY Zenon DEF Fit
<1>5. \A n \in Int, max \in Nat \ {0} : Clamped(n, max) \in 1..max
  OBVIOUS
<1> HIDE DEF cols, rows, Clamped
<1>6. Clamped(cols, free.cols) \in 1..free.cols /\ Clamped(rows, free.rows) \in 1..free.rows
  BY <1>1, <1>3, <1>5
<1>7. QED
  BY <1>4, <1>6

LEMMA PlacementFits ==
  ASSUME show \in Shows, NEW l, Sound(l)
  PROVE  /\ Placement(l).cols \in 1..l.viewport.cols
         /\ Placement(l).rows \in 1..(l.viewport.rows - (IF l.visible THEN 1 ELSE 0))
<1> DEFINE free == [cols |-> l.viewport.cols,
                    rows |-> l.viewport.rows - (IF l.visible THEN 1 ELSE 0)]
<1>1. l.viewport.cols \in Nat \ {0} /\ l.viewport.rows \in Nat \ {0, 1}
  BY DEF Sound, IsLoop, Viewports
<1>2. free \in Sizes
  BY <1>1 DEF Sizes
<1>3. l.size \in Sizes
  BY SizesAreSizes DEF Sound, Replays
<1>4. Placement(l) = Fit(l.size, free)
  BY DEF Placement
<1>5. Placement(l).cols \in 1..free.cols /\ Placement(l).rows \in 1..free.rows
  <2> HIDE DEF free
  <2>1. QED
    BY <1>2, <1>3, <1>4, FitFits
<1>6. QED
  BY <1>5

(* emitFrame compares enough: a frame that is left out would have shown     *)
(* what is shown.                                                           *)
LEMMA SameKeySamePicture ==
  ASSUME show \in Shows, NEW l, NEW m, Sound(l), Sound(m), Keeps(l, m), ~m.fresh,
         Key(l) = Key(m)
  PROVE  Picture(m) = Picture(l) /\ StatusRows(m) = StatusRows(l)
<1>1. /\ m.screen = l.screen /\ m.toast = l.toast /\ Status(m) = Status(l)
      /\ m.visible = l.visible /\ Frame(m) = Frame(l)
  BY DEF Key
<1>2. Mode(m) = Mode(l) /\ m.cursor = l.cursor
  BY <1>1 DEF Status
<1>3. m.atEnd = l.atEnd
  <2>1. m.atEnd \in BOOLEAN /\ l.atEnd \in BOOLEAN
    BY SoundFacts DEF Flags
  <2>2. (Mode(m) = "end" <=> m.atEnd) /\ (Mode(l) = "end" <=> l.atEnd)
    BY DEF Mode
  <2>3. QED
    BY <1>2, <2>1, <2>2
<1>4. m.glow = l.glow
  <2>1. /\ l.glow = [mouse |-> l.glow.mouse, age |-> l.glow.age]
        /\ l.glow.mouse \in Nat /\ l.glow.age \in Nat /\ (l.glow.mouse = 0 => l.glow.age = 0)
    BY SoundFacts DEF IsGlow
  <2>2. /\ m.glow = [mouse |-> m.glow.mouse, age |-> m.glow.age]
        /\ m.glow.mouse \in Nat /\ m.glow.age \in Nat /\ (m.glow.mouse = 0 => m.glow.age = 0)
    BY SoundFacts DEF IsGlow
  <2>3. m.glow.mouse \in {0, l.glow.mouse}
    BY DEF Keeps
  <2>4. m.glow.mouse = l.glow.mouse /\ m.glow.age = l.glow.age
    BY <1>1, <2>1, <2>2, <2>3 DEF Frame, Unset
  <2>5. QED
    BY <2>1, <2>2, <2>4
<1>5. m.size = l.size /\ m.viewport = l.viewport
  BY <1>2 DEF Sound, Replays, Keeps
<1>6. Placement(m) = Placement(l)
  BY <1>1, <1>5 DEF Placement
<1>7. QED
  BY <1>1, <1>3, <1>4, <1>5, <1>6, Zenon DEF Picture, StatusRows

-----------------------------------------------------------------------------
(* The steps.                                                               *)

LEMMA SoundNext ==
  ASSUME show' = show
  PROVE  /\ Sound(loop)' <=> Sound(loop')
         /\ CaughtUp(loop)' <=> CaughtUp(loop')
         /\ Key(loop)' = Key(loop') /\ Picture(loop)' = Picture(loop')
         /\ StatusRows(loop)' = StatusRows(loop')
<1>1. trace' = trace
  BY DEF trace
<1>2. \A n : ScreenAt(n)' = ScreenAt(n) /\ SizeAt(n)' = SizeAt(n) /\ MarkersTo(n)' = MarkersTo(n)
  BY <1>1 DEF ScreenAt, SizeAt, MarkersTo
<1>3. IsLoop(loop)' <=> IsLoop(loop')
  BY DEF IsLoop, IsGlow
<1>4. Replays(loop)' <=> Replays(loop')
  BY <1>1, <1>2 DEF Replays
<1>5. (Timed(loop)' <=> Timed(loop')) /\ (Ends(loop)' <=> Ends(loop'))
      /\ (CaughtUp(loop)' <=> CaughtUp(loop'))
  BY <1>1 DEF Timed, Ends, CaughtUp
<1>6. Key(loop)' = Key(loop') /\ Picture(loop)' = Picture(loop')
      /\ StatusRows(loop)' = StatusRows(loop')
  BY DEF Key, Picture, StatusRows, Status, Mode, Frame, Placement
<1>7. QED
  BY <1>3, <1>4, <1>5, <1>6 DEF Sound

(* emitFrame: nothing changed, a frame was drawn, or writing it failed.     *)
LEMMA ExpiredSound ==
  ASSUME show \in Shows, NEW l, Sound(l), CaughtUp(l)
  PROVE  Sound(Expired(l)) /\ Keeps(l, Expired(l)) /\ CaughtUp(Expired(l))
<1>1. CASE Expired(l) = l
  BY <1>1 DEF Keeps
<1>2. CASE Expired(l) # l
  <2> DEFINE m == [l EXCEPT !.glow = Nothing]
  <2>1. Expired(l) = m
    BY <1>2 DEF Expired
  <2>2. DOMAIN l = LoopFields
    BY SoundFacts
  <2>3. Still(l, m) /\ m.glow = Nothing
    BY <2>2 DEF Still, LoopFields
  <2>4. \A f \in {"playT", "since", "speed", "paused", "stepMode", "markerPaused", "atEnd",
                 "visible", "fresh", "forced", "failed", "skip", "ready", "quit", "cursor"} :
          m[f] = l[f]
    BY <2>2 DEF LoopFields
  <2>5. IsGlow(Nothing) /\ Nothing.mouse = 0
    BY DEF IsGlow, Nothing
  <2> HIDE DEF m
  <2>6. (\A f \in Flags : m[f] \in BOOLEAN) /\ Ends(m)
    BY <2>4, SoundFacts DEF Flags, Ends
  <2>7. Sound(m)
    BY <2>3, <2>4, <2>5, <2>6, SoundFacts, StillSound
  <2>8. Keeps(l, m) /\ CaughtUp(m)
    BY <2>3, <2>4, <2>5 DEF Keeps, Still, CaughtUp
  <2>9. QED
    BY <2>1, <2>7, <2>8
<1>3. QED
  BY <1>1, <1>2

(* What a frame leaves of the fields that matter to the position.           *)
LEMMA MarkedSound ==
  ASSUME show \in Shows, NEW l, Sound(l), CaughtUp(l), NEW m,
         \/ m = [l EXCEPT !.emitted = Key(l), !.fresh = FALSE, !.forced = FALSE]
         \/ m = [l EXCEPT !.failed = TRUE]
  PROVE  Sound(m) /\ CaughtUp(m)
<1>1. DOMAIN l = LoopFields
  BY SoundFacts
<1>2. m = [f \in LoopFields |-> m[f]]
  BY <1>1
<1>3. \A f \in LoopFields \ {"emitted", "fresh", "forced", "failed"} : m[f] = l[f]
  BY <1>1 DEF LoopFields
<1>4. m.fresh \in BOOLEAN /\ m.forced \in BOOLEAN /\ m.failed \in BOOLEAN
  <2>1. l.fresh \in BOOLEAN /\ l.forced \in BOOLEAN /\ l.failed \in BOOLEAN
    BY SoundFacts DEF Flags
  <2>2. QED
    BY <1>1, <2>1 DEF LoopFields
<1>5. IsLoop(m)
  <2>1. \A f \in Flags : m[f] \in BOOLEAN
    BY <1>3, <1>4, SoundFacts DEF Flags, LoopFields
  <2>2. l.viewport \in Viewports
    BY DEF Sound, IsLoop
  <2>3. QED
    BY <1>2, <1>3, <2>1, <2>2, SoundFacts DEF IsLoop, LoopFields
<1>6. Replays(m) /\ Timed(m) /\ Ends(m) /\ CaughtUp(m)
  BY <1>3 DEF Sound, Replays, Timed, Ends, CaughtUp, LoopFields
<1>7. QED
  BY <1>5, <1>6 DEF Sound

(* A row of the terminal.                                                   *)
LEMMA RowFacts ==
  ASSUME window \in Sizes
  PROVE  /\ \A r \in Nat : Row(r) \in Nat /\ (r # 0 => Row(r) # 0) /\ Row(0) = 0
         /\ \A r \in Nat : r <= window.rows => Row(r) = r
         /\ Row(window.rows) = window.rows /\ window.rows \in Nat \ {0}
<1>1. window.rows \in Nat \ {0}
  BY DEF Sizes
<1>2. QED
  BY <1>1 DEF Row

(* What a frame leaves on the terminal.                                     *)
LEMMA EmitRows ==
  ASSUME SinkInv, FitInv, NEW k, Sound(k), k.viewport = loop.viewport, Emit(k), resize' = resize
  PROVE  /\ display' = Picture(k) /\ SinkInv'
         /\ fit' \in {"fits", "changed", "missed"} /\ (fit' = "missed" <=> fit = "missed")
         /\ fit' = "fits" =>
              /\ lines' = StatusRows(k) /\ window = k.viewport
              /\ sink'.statusRow <= window.rows /\ (fit = "fits" \/ fit = "changed")
         /\ fit' = "changed" => fit = "changed"
<1> DEFINE rows    == Placement(k).rows
           below   == IF sink.lastRows > rows THEN {r \in lines : r >= Row(rows + 1)} ELSE {}
           stale   == IF sink.statusRow > 0 /\ StaleStatusRow(k) THEN {Row(sink.statusRow)} ELSE {}
           kept    == IF backend = "kitty" THEN lines \ (below \cup stale) ELSE {}
           painted == IF k.visible THEN {Row(k.viewport.rows)} ELSE {}
           v       == k.viewport.rows
           s       == sink.statusRow
<1>1. /\ display' = Picture(k) /\ lines' = kept \cup painted
      /\ sink' = [lastRows |-> rows,
                  statusRow |-> IF k.visible THEN v ELSE IF stale # {} THEN 0 ELSE s]
      /\ fit' = IF fit = "changed" /\ window = k.viewport THEN "fits" ELSE fit
  BY DEF Emit
<1>2. window' = window
  BY DEF resize
<1>3. k.visible \in BOOLEAN /\ v \in Nat \ {0} /\ s \in Nat /\ lines \subseteq Nat \ {0}
  BY SoundFacts DEF Flags, Sound, IsLoop, Viewports, SinkInv
<1>4. /\ \A r \in Nat : Row(r) \in Nat /\ (r # 0 => Row(r) # 0) /\ Row(0) = 0
      /\ \A r \in Nat : r <= window.rows => Row(r) = r
      /\ Row(window.rows) = window.rows /\ window.rows \in Nat \ {0}
  BY RowFacts DEF FitInv
<1>5. fit # "missed" => lines \subseteq {Row(s)} \ {0}
  BY DEF SinkInv
<1>6. stale = IF s > 0 /\ (~k.visible \/ s # v) THEN {Row(s)} ELSE {}
  BY DEF StaleStatusRow
<1>7. sink' = [lastRows |-> sink'.lastRows, statusRow |-> sink'.statusRow]
      /\ sink'.statusRow = IF k.visible THEN v ELSE IF stale # {} THEN 0 ELSE s
  BY <1>1
<1>8. kept \subseteq lines \ stale
  OBVIOUS
<1> HIDE DEF rows, below, stale, kept, v, s
<1>9. sink'.statusRow = IF k.visible THEN v ELSE 0
  BY <1>3, <1>6, <1>7
<1>10. painted = IF k.visible THEN {Row(v)} ELSE {}
  BY DEF v
<1> HIDE DEF painted
<1>11. kept \subseteq lines /\ painted \subseteq Nat \ {0}
  BY <1>3, <1>4, <1>8, <1>10
<1>12. lines' \subseteq Nat \ {0}
  BY <1>1, <1>3, <1>11
<1>13. fit # "missed" => kept \subseteq painted
  <2> SUFFICES ASSUME fit # "missed", NEW r \in kept
               PROVE  r \in painted
    OBVIOUS
  <2>1. r \in lines /\ r \notin stale /\ r = Row(s) /\ r # 0
    BY <1>3, <1>5, <1>8
  <2>2. s > 0
    BY <1>3, <1>4, <2>1
  <2>3. k.visible /\ s = v
    BY <1>6, <2>1, <2>2
  <2>4. QED
    BY <1>10, <2>1, <2>3
<1>14. fit # "missed" => lines' = painted
  BY <1>1, <1>13
<1>15. (fit' = "missed" <=> fit = "missed") /\ fit' \in {"fits", "changed", "missed"}
       /\ (fit' = "changed" => fit = "changed")
       /\ (fit' = "fits" => window = k.viewport /\ fit \in {"fits", "changed"})
  BY <1>1 DEF FitInv
<1>16. painted \subseteq {Row(sink'.statusRow)} \ {0} /\ sink'.statusRow \in Nat
  BY <1>3, <1>4, <1>9, <1>10
<1>17. SinkInv'
  <2>1. Row(sink.statusRow)' = Row(sink'.statusRow)
    BY <1>2 DEF Row
  <2>2. fit' # "missed" => lines' \subseteq {Row(sink'.statusRow)} \ {0}
    BY <1>14, <1>15, <1>16
  <2>3. QED
    BY <1>7, <1>12, <1>16, <2>1, <2>2 DEF SinkInv
<1>18. ASSUME fit' = "fits"
       PROVE  lines' = StatusRows(k) /\ sink'.statusRow <= window.rows
  <2>1. v = window.rows /\ fit # "missed"
    BY <1>15, <1>18 DEF v
  <2>2. lines' = painted /\ painted = StatusRows(k)
    BY <1>4, <1>10, <1>14, <2>1 DEF StatusRows, v
  <2>3. QED
    BY <1>4, <1>9, <2>1, <2>2
<1>19. QED
  BY <1>1, <1>15, <1>17, <1>18

LEMMA EmitStep ==
  ASSUME show \in Shows, show' = show, resize' = resize, Sound(loop), SinkInv, FitInv,
         Shown(loop), ~loop.failed, NEW l, Sound(l), Keeps(loop, l), CaughtUp(l), EmitFrame(l)
  PROVE  (Sound(loop) /\ SinkInv /\ FitInv /\ CaughtUp(loop) /\ Shown(loop))'
<1> DEFINE k == Expired(l)
           same == ~k.forced /\ ~k.fresh /\ k.emitted = Key(k)
           drawn == [k EXCEPT !.emitted = Key(k), !.fresh = FALSE, !.forced = FALSE]
           failed == [k EXCEPT !.failed = TRUE]
<1>1. Sound(k) /\ Keeps(loop, k) /\ CaughtUp(k) /\ k.viewport = loop.viewport
  BY ExpiredSound, KeepsOn DEF Keeps
<1>2. \/ same /\ loop' = k /\ UNCHANGED picture
      \/ ~same /\ Emit(k) /\ loop' = drawn
      \/ ~same /\ loop' = failed /\ UNCHANGED picture
  BY DEF EmitFrame
<1> HIDE DEF k
<1>3. CASE same /\ loop' = k /\ UNCHANGED picture
  <2>1. ~loop.forced /\ loop.emitted = k.emitted
    BY <1>1, <1>3 DEF Keeps
  <2>2. loop.emitted = Key(loop) /\ display = Picture(loop)
        /\ (fit = "fits" => lines = StatusRows(loop))
    BY <2>1 DEF Shown
  <2>3. Picture(k) = Picture(loop) /\ StatusRows(k) = StatusRows(loop)
    BY <1>1, <1>3, <2>1, <2>2, SameKeySamePicture
  <2>4. UNCHANGED <<sink, display, lines, fit, window, winch>> /\ loop' = k
    BY <1>3 DEF picture, resize
  <2>5. Shown(loop)'
    BY <1>3, <2>2, <2>3, <2>4, SoundNext DEF Shown
  <2>6. SinkInv' /\ FitInv'
    BY <1>1, <2>4 DEF SinkInv, FitInv, Row
  <2>7. QED
    BY <1>1, <1>3, <2>5, <2>6, SoundNext
<1>4. CASE ~same /\ Emit(k) /\ loop' = drawn
  <2>1. DOMAIN k = LoopFields /\ k.visible \in BOOLEAN
    BY <1>1, SoundFacts DEF Flags
  <2>2. \A f \in LoopFields \ {"emitted", "fresh", "forced"} : drawn[f] = k[f]
    BY <2>1 DEF LoopFields
  <2>3. drawn.emitted = Key(k) /\ drawn.fresh = FALSE
    BY <2>1 DEF LoopFields
  <2>4. Key(drawn) = Key(k) /\ Picture(drawn) = Picture(k) /\ StatusRows(drawn) = StatusRows(k)
    <3> HIDE DEF drawn
    <3>1. QED
      BY <2>2 DEF Key, Picture, StatusRows, Status, Mode, Frame, Placement, LoopFields
  <2>5. Sound(drawn) /\ CaughtUp(drawn)
    BY <1>1, MarkedSound
  <2>6. /\ display' = Picture(k) /\ SinkInv'
        /\ fit' \in {"fits", "changed", "missed"}
        /\ fit' = "fits" =>
             /\ lines' = StatusRows(k) /\ window = k.viewport
             /\ sink'.statusRow <= window.rows /\ (fit = "fits" \/ fit = "changed")
        /\ fit' = "changed" => fit = "changed"
    BY <1>1, <1>4, EmitRows
  <2> HIDE DEF drawn
  <2>7. Shown(loop)'
    BY <1>4, <2>3, <2>4, <2>6, SoundNext DEF Shown
  <2>8. window' = window /\ winch' = winch /\ loop' = drawn
    BY <1>4 DEF resize
  <2>9. drawn.viewport = k.viewport
    BY <2>2 DEF LoopFields
  <2>10. FitInv'
    <3>1. fit' # "missed" => (winch <=> window # loop.viewport)
      BY <2>6 DEF FitInv
    <3>2. fit' = "fits" => ~winch
      BY <1>1, <2>6, <3>1
    <3>3. QED
      BY <1>1, <2>6, <2>8, <2>9, <3>1, <3>2 DEF FitInv
  <2>11. QED
    BY <1>4, <2>5, <2>6, <2>7, <2>10, SoundNext
<1>5. CASE ~same /\ loop' = failed /\ UNCHANGED picture
  <2>1. Sound(failed) /\ CaughtUp(failed) /\ failed.failed = TRUE
        /\ failed.viewport = k.viewport
    BY <1>1, MarkedSound, SoundFacts DEF LoopFields
  <2> HIDE DEF failed
  <2>2. UNCHANGED <<sink, display, lines, fit, window, winch>> /\ loop' = failed
    BY <1>5 DEF picture, resize
  <2>3. SinkInv' /\ FitInv'
    BY <1>1, <2>1, <2>2 DEF SinkInv, FitInv, Row
  <2>4. QED
    BY <2>1, <2>2, <2>3, SoundNext DEF Shown
<1>6. QED
  BY <1>2, <1>3, <1>4, <1>5

LEMMA TickStep ==
  ASSUME LoopInv, ProbeInv, NEW d \in 0..show.clock, Tick(d)
  PROVE  LoopInv'
<1> DEFINE l1 == Drained(Aged(loop, d))
           l2 == IF ~l1.skip /\ ~l1.paused /\ ~l1.atEnd THEN Advanced(l1) ELSE l1
<1>1. /\ pc = "play" /\ ~loop.failed /\ show' = show /\ resize' = resize /\ show \in Shows
      /\ \/ l1.quit /\ loop' = l1 /\ pc' = "restore" /\ UNCHANGED picture
         \/ /\ EmitFrame(EndCheck(IF l2.ready THEN DispatchReady(l2) ELSE l2))
            /\ pc' \in {"restore", "play"}
  BY DEF Tick, LoopInv
<1>2. Sound(loop) /\ SinkInv /\ FitInv /\ CaughtUp(loop) /\ Shown(loop) /\ Len(cmds) \in Nat
  BY <1>1 DEF LoopInv, ProbeInv
<1>3. Sound(l1) /\ Keeps(loop, l1) /\ l1.since # Unset
  <2> DEFINE a == Aged(loop, d)
  <2>1. Sound(a) /\ Keeps(loop, a) /\ a.since # Unset
    BY <1>1, <1>2, AgedSound
  <2> HIDE DEF a
  <2>2. Sound(Drained(a)) /\ Keeps(a, Drained(a))
    BY <1>1, <1>2, <2>1, DrainedSound
  <2>3. Keeps(loop, Drained(a)) /\ Drained(a).since # Unset
    BY <2>1, <2>2, KeepsOn DEF Keeps
  <2>4. QED
    BY <2>2, <2>3 DEF a
<1> HIDE DEF l1
<1>4. CASE l1.quit /\ loop' = l1 /\ pc' = "restore" /\ UNCHANGED picture
  <2>1. UNCHANGED <<show, sink, display, lines, fit, window, winch>> /\ loop' = l1
        /\ l1.viewport = loop.viewport /\ pc' = "restore"
    BY <1>1, <1>3, <1>4 DEF picture, resize, Keeps
  <2>2. SinkInv' /\ FitInv'
    BY <1>2, <2>1 DEF SinkInv, FitInv, Row
  <2>3. QED
    BY <1>1, <1>3, <2>1, <2>2, SoundNext DEF LoopInv
<1>5. CASE EmitFrame(EndCheck(IF l2.ready THEN DispatchReady(l2) ELSE l2))
           /\ pc' \in {"restore", "play"}
  <2>1. EmitFrame(Ticked(l1))
    BY <1>5 DEF Ticked
  <2>2. Sound(Ticked(l1)) /\ Keeps(loop, Ticked(l1)) /\ CaughtUp(Ticked(l1))
    BY <1>1, <1>3, TickedSound, KeepsOn
  <2>3. (Sound(loop) /\ SinkInv /\ FitInv /\ CaughtUp(loop) /\ Shown(loop))'
    BY <1>1, <1>2, <2>1, <2>2, EmitStep
  <2>4. QED
    BY <1>1, <1>5, <2>3 DEF LoopInv
<1>6. QED
  BY <1>1, <1>4, <1>5

(* resizeViewport changes the size and has the next frame emitted.          *)
LEMMA ViewportSound ==
  ASSUME Sound(loop), CaughtUp(loop), NEW size \in Viewports
  PROVE  /\ Sound(Viewport(loop, size)) /\ CaughtUp(Viewport(loop, size))
         /\ Viewport(loop, size).viewport = size /\ Viewport(loop, size).forced = TRUE
<1> DEFINE m == Viewport(loop, size)
<1>1. DOMAIN loop = LoopFields
  BY SoundFacts
<1>2. m = [f \in LoopFields |-> m[f]] /\ m.viewport = size /\ m.forced = TRUE
      /\ \A f \in LoopFields \ {"viewport", "forced"} : m[f] = loop[f]
  BY <1>1 DEF Viewport, LoopFields
<1> HIDE DEF m
<1>3. IsLoop(m)
  <2>1. \A f \in Flags : m[f] \in BOOLEAN
    BY <1>2, SoundFacts DEF Flags, LoopFields
  <2>2. QED
    BY <1>2, <2>1, SoundFacts DEF IsLoop, LoopFields
<1>4. Replays(m) /\ Timed(m) /\ Ends(m) /\ CaughtUp(m)
  BY <1>2 DEF Sound, Replays, Timed, Ends, CaughtUp, LoopFields
<1>5. QED
  BY <1>2, <1>3, <1>4 DEF Sound, m

LEMMA ResizeStep ==
  ASSUME LoopInv, ResizeViewport
  PROVE  LoopInv'
<1>1. /\ pc = "play" /\ winch /\ winch' = FALSE
      /\ UNCHANGED <<show, sink, display, lines, window, pc>>
      /\ \/ /\ window.cols >= 1 /\ window.rows >= 2 /\ fit' = fit
            /\ loop' = IF window = loop.viewport THEN loop ELSE Viewport(loop, window)
         \/ fit' = "missed" /\ loop' = loop
  BY DEF ResizeViewport
<1>2. /\ show \in Shows /\ Sound(loop) /\ CaughtUp(loop) /\ Shown(loop) /\ SinkInv /\ FitInv
      /\ pc \in {"probe", "play", "restore", "done"}
  BY <1>1 DEF LoopInv
<1>3. fit # "fits"
  BY <1>1, <1>2 DEF FitInv
<1>4. SinkInv' /\ Sound(loop)' /\ CaughtUp(loop)' /\ Shown(loop)'
      /\ (fit' # "missed" => loop'.viewport = window)
  <2>1. CASE /\ window.cols >= 1 /\ window.rows >= 2 /\ fit' = fit
             /\ loop' = Viewport(loop, window)
    <3>1. window \in Viewports
      BY <1>2, <2>1 DEF FitInv, Sizes, Viewports
    <3>2. Sound(loop') /\ CaughtUp(loop') /\ loop'.viewport = window /\ loop'.forced = TRUE
      BY <1>2, <2>1, <3>1, ViewportSound
    <3>3. SinkInv'
      BY <1>1, <1>2, <2>1 DEF SinkInv, Row
    <3>4. QED
      BY <1>1, <1>2, <3>2, <3>3, SoundNext DEF Shown
  <2>2. CASE loop' = loop /\ fit' # "fits" /\ fit' \in {fit, "missed"}
             /\ (fit' = fit => window = loop.viewport \/ fit = "missed")
    <3>1. SinkInv'
      BY <1>1, <1>2, <2>2 DEF SinkInv, Row
    <3>2. Key(loop') = Key(loop) /\ Picture(loop') = Picture(loop)
      BY <2>2
    <3>3. Shown(loop)'
      BY <1>1, <1>2, <2>2, <3>2, SoundNext DEF Shown
    <3>4. QED
      BY <1>1, <1>2, <2>2, <3>1, <3>3, SoundNext
  <2>3. QED
    BY <1>1, <1>3, <2>1, <2>2
<1>5. FitInv'
  BY <1>1, <1>2, <1>3, <1>4 DEF FitInv
<1>6. QED
  BY <1>1, <1>2, <1>4, <1>5 DEF LoopInv

(* The user resizes the terminal: its rows below the new bottom are gone.   *)
LEMMA WindowStep ==
  ASSUME LoopInv, WindowChanges
  PROVE  LoopInv'
<1>1. PICK size \in show.viewports : window' = size /\ size # window
  BY DEF WindowChanges
<1>2. /\ pc \in {"probe", "play"} /\ UNCHANGED <<show, loop, sink, display, pc>>
      /\ winch' = (pc = "play")
      /\ fit' = IF pc = "play" /\ fit = "fits" THEN "changed" ELSE "missed"
      /\ lines' = {r \in lines : r <= size.rows}
  BY <1>1 DEF WindowChanges
<1>3. /\ show \in Shows /\ Sound(loop) /\ CaughtUp(loop) /\ Shown(loop) /\ SinkInv /\ FitInv
  BY <1>2 DEF LoopInv
<1>4. size \in Sizes
  BY <1>3, PlaybackAssumption
<1>5. fit' # "missed" => fit = "fits" /\ fit' = "changed" /\ winch' = TRUE
  BY <1>2
<1>6. fit' # "missed" => lines' \subseteq {Row(sink.statusRow)'} \ {0}
  <2> SUFFICES ASSUME fit' # "missed", NEW r \in lines'
               PROVE  r = Row(sink.statusRow)' /\ r # 0
    OBVIOUS
  <2>1. r \in lines /\ r <= size.rows /\ fit = "fits"
    BY <1>2, <1>5
  <2>2. sink.statusRow \in Nat /\ sink.statusRow <= window.rows /\ window.rows \in Nat
        /\ r = Row(sink.statusRow) /\ r # 0
    BY <1>3, <2>1 DEF SinkInv, FitInv, Sizes
  <2>3. r = sink.statusRow
    BY <2>2 DEF Row
  <2>4. size.rows \in Nat /\ sink' = sink /\ window' = size
    BY <1>1, <1>2, <1>4 DEF Sizes
  <2>5. QED
    BY <2>1, <2>2, <2>3, <2>4 DEF Row
<1>7. SinkInv'
  BY <1>2, <1>3, <1>6 DEF SinkInv
<1>8. FitInv'
  <2>1. window' \in Sizes /\ winch' \in BOOLEAN /\ fit' \in {"changed", "missed"}
    BY <1>1, <1>2, <1>4
  <2>2. fit' # "missed" => winch' /\ window' # loop.viewport
    BY <1>1, <1>3, <1>5 DEF FitInv
  <2>3. QED
    BY <1>2, <2>1, <2>2 DEF FitInv
<1>9. Shown(loop)' /\ CaughtUp(loop)' /\ Sound(loop)'
  <2>1. Key(loop') = Key(loop) /\ Picture(loop') = Picture(loop) /\ fit' # "fits"
    BY <1>2
  <2>2. QED
    BY <1>2, <1>3, <2>1, SoundNext DEF Shown
<1>10. QED
  BY <1>2, <1>3, <1>7, <1>8, <1>9 DEF LoopInv

(* The steps that leave the loop and the screen alone.                      *)
LEMMA LoopStays ==
  ASSUME LoopInv, UNCHANGED <<show, loop, picture, resize>>,
         pc' \in {"probe", "play", "restore", "done"},
         pc' \in {"probe", "play"} => pc \in {"probe", "play"}
  PROVE  LoopInv'
<1>1. Sound(loop)' /\ (CaughtUp(loop)' <=> CaughtUp(loop)) /\ (Shown(loop)' <=> Shown(loop))
  <2>1. CaughtUp(loop') = CaughtUp(loop) /\ Sound(loop)
    BY DEF LoopInv
  <2>2. Key(loop)' = Key(loop) /\ Picture(loop)' = Picture(loop)
        /\ StatusRows(loop)' = StatusRows(loop)
    BY SoundNext
  <2>3. QED
    BY <2>1, <2>2, SoundNext DEF Shown, picture
<1>2. SinkInv' /\ FitInv'
  BY DEF LoopInv, SinkInv, FitInv, Row, picture, resize
<1>3. QED
  BY <1>1, <1>2 DEF LoopInv

LEMMA LoopStep == LoopInv /\ ProbeInv /\ [Next]_vars => LoopInv'
<1> SUFFICES ASSUME LoopInv, ProbeInv, [Next]_vars
             PROVE  LoopInv'
  OBVIOUS
<1>1. CASE Restore
  <2>1. /\ UNCHANGED <<show, loop, sink, fit, window, winch>> /\ lines' = {} /\ pc' = "done"
        /\ Sound(loop) /\ SinkInv /\ FitInv /\ show \in Shows
    BY <1>1 DEF Restore, resize, LoopInv
  <2>2. SinkInv' /\ FitInv'
    BY <2>1 DEF SinkInv, FitInv
  <2>3. QED
    BY <2>1, <2>2, SoundNext DEF LoopInv
<1>2. CASE \E d \in 0..show.clock : Tick(d)
  BY <1>2, TickStep
<1>3. CASE WindowChanges \/ ResizeViewport
  BY <1>3, WindowStep, ResizeStep
<1>4. CASE Probe \/ Refuse
  <2>1. UNCHANGED <<show, loop, picture, resize>> /\ pc = "probe"
        /\ pc' \in {"probe", "play", "done"}
    BY <1>4 DEF Probe, Refuse
  <2>2. QED
    BY <2>1, LoopStays
<1>5. CASE LateAnswer \/ (\E c \in show.keys : TypeKey(c)) \/ ReadCommand \/ InputEnds \/ Over
           \/ UNCHANGED vars
  <2>1. UNCHANGED <<show, loop, picture, resize, pc>>
    BY <1>5 DEF LateAnswer, TypeKey, ReadCommand, InputEnds, Over, vars
  <2>2. QED
    BY <2>1, LoopStays DEF LoopInv
<1>6. QED
  BY <1>1, <1>2, <1>3, <1>4, <1>5 DEF Next

-----------------------------------------------------------------------------
(* The probe.                                                               *)

LEMMA SeqOver ==
  ASSUME NEW S, NEW T, NEW s \in Seq(S), \A i \in 1..Len(s) : s[i] \in T
  PROVE  s \in Seq(T)
<1>1. Len(s) \in Nat /\ s = [i \in 1..Len(s) |-> s[i]]
  OBVIOUS
<1>2. s \in [1..Len(s) -> T]
  BY <1>1
<1>3. QED
  BY <1>1, <1>2

LEMMA AtMostOne ==
  ASSUME NEW S, NEW e \in S, NEW s, s = <<>> \/ s = <<e>>
  PROVE  s \in Seq(S) /\ Len(s) \in {0, 1} /\ \A i \in 1..Len(s) : s[i] = e
<1>1. CASE s = <<>>
  BY <1>1
<1>2. CASE s = <<e>>
  BY <1>2
<1>3. QED
  BY <1>1, <1>2

LEMMA KeysAreCommands ==
  ASSUME NEW item
  PROVE  KeysOf(item) \in Seq(Commands) /\ Len(KeysOf(item)) <= 1
<1>1. "next" \in Commands /\ "prev" \in Commands /\ "caps" \notin Commands
      /\ "da" \notin Commands
  BY DEF Commands
<1>2. CASE item \in Commands
  <2>1. KeysOf(item) = <<item>>
    BY <1>1, <1>2 DEF KeysOf
  <2>2. QED
    BY <1>2, <2>1, AtMostOne
<1>3. CASE item = "caps"
  <2>1. KeysOf(item) = <<"next">>
    BY <1>1, <1>3 DEF KeysOf
  <2>2. QED
    BY <1>1, <2>1, AtMostOne
<1>4. CASE item = "da"
  <2>1. KeysOf(item) = <<"prev">>
    BY <1>1, <1>4 DEF KeysOf
  <2>2. QED
    BY <1>1, <2>1, AtMostOne
<1>5. CASE item \notin Commands \cup {"caps", "da"}
  <2>1. KeysOf(item) = <<>>
    BY <1>5 DEF KeysOf
  <2>2. QED
    BY <2>1
<1>6. QED
  BY <1>2, <1>3, <1>4, <1>5

LEMMA NoKeyIsReply == Commands \cap Replies = {} /\ "da" \in Replies /\ "probing" \notin Backends
BY DEF Commands, Replies, Backends

(* selectBackend chooses what was asked for, of what is available.          *)
LEMMA SelectedIsKnown ==
  ASSUME NEW read
  PROVE  /\ Selected(read) \in Backends \cup {"none"}
         /\ Selected(read) \in Backends => Selected(read) \in terminal.draws \cup terminal.named
<1> DEFINE available == {b \in Backends : Supports(read)[b]}
           wanted    == IF requested = "auto" THEN available ELSE available \cap {requested}
<1>1. Selected(read) = IF wanted = {} THEN "none"
                       ELSE IF "kitty" \in wanted THEN "kitty"
                       ELSE IF "iterm2" \in wanted THEN "iterm2" ELSE "sixel"
  BY DEF Selected
<1>2. wanted \subseteq available /\ available \subseteq Backends
  OBVIOUS
<1> HIDE DEF wanted
<1>3. Selected(read) = "none" \/ Selected(read) \in available
  BY <1>1, <1>2 DEF Backends
<1>4. \A b \in available : b \in terminal.draws \cup terminal.named
  <2>1. \/ "kitty" \in terminal.named \/ "kitty" \in terminal.draws \/ ~Supports(read).kitty
    BY DEF Supports
  <2>2. \/ "iterm2" \in terminal.named \/ "iterm2" \in terminal.draws \/ ~Supports(read).iterm2
    BY DEF Supports
  <2>3. \/ "sixel" \in terminal.named \/ "sixel" \in terminal.draws \/ ~Supports(read).sixel
    BY DEF Supports
  <2>4. QED
    BY <2>1, <2>2, <2>3 DEF Backends
<1> HIDE DEF available
<1>5. QED
  BY <1>2, <1>3, <1>4 DEF Backends

LEMMA AnswerStep ==
  ASSUME ProbeInv, Answer, UNCHANGED <<show, cmds, leaked>>,
         pc' \in {"play", "restore"} => backend \in Backends
  PROVE  ProbeInv'
<1>1. /\ owed # <<>> /\ tty' = Append(tty, Head(owed)) /\ owed' = Tail(owed)
      /\ UNCHANGED <<terminal, requested, replies, backend>>
  BY DEF Answer
<1>2. owed \in Seq(Replies) /\ tty \in Seq(Commands \cup Replies)
  BY DEF ProbeInv
<1>3. Head(owed) \in Replies /\ owed' \in Seq(Replies) /\ tty' \in Seq(Commands \cup Replies)
  BY <1>1, <1>2
<1>4. ~terminal.slow =>
        ~leaked /\ backend = "probing" /\ LastIs(owed, "da")' /\ KeysFollow(tty, "da")'
  <2> SUFFICES ASSUME ~terminal.slow
               PROVE  ~leaked /\ backend = "probing" /\ LastIs(owed, "da")'
                      /\ KeysFollow(tty, "da")'
    OBVIOUS
  <2>1. ~leaked /\ backend = "probing" /\ LastIs(owed, "da") /\ KeysFollow(tty, "da")
    BY <1>1 DEF ProbeInv
  <2>2. Len(owed) \in Nat \ {0} /\ Len(owed') = Len(owed) - 1
        /\ \A i \in 1..Len(owed') : owed'[i] = owed[i + 1]
    BY <1>1, <1>2
  <2>3. Len(tty') = Len(tty) + 1 /\ tty'[Len(tty) + 1] = owed[1] /\ Len(tty) \in Nat
        /\ \A i \in 1..Len(tty) : tty'[i] = tty[i]
    BY <1>1, <1>2
  <2>4. LastIs(owed, "da")'
    BY <2>1, <2>2 DEF LastIs
  <2>5. ASSUME NEW i \in 1..Len(tty'), tty'[i] = "da"
        PROVE  owed' = <<>> /\ \A j \in (i + 1)..Len(tty') : tty'[j] \in Commands
    <3>1. i = Len(tty) + 1
      BY <1>1, <2>1, <2>3, <2>5 DEF KeysFollow
    <3>2. Len(owed) = 1
      BY <2>1, <2>2, <2>3, <2>5, <3>1 DEF LastIs
    <3>3. owed' = <<>>
      BY <1>1, <1>2, <2>2, <3>2
    <3>4. QED
      BY <2>3, <3>1, <3>3
  <2>6. QED
    BY <2>1, <2>4, <2>5 DEF KeysFollow
<1>5. QED
  BY <1>1, <1>2, <1>3, <1>4 DEF ProbeInv

LEMMA ProbeReadsStep ==
  ASSUME ProbeInv, pc = "probe", ProbeReads, UNCHANGED <<show, cmds, leaked>>,
         pc' \in {"probe", "play", "done"},
         pc' = "play" => backend' \in Backends
  PROVE  ProbeInv'
<1>1. /\ backend = "probing" /\ tty # <<>> /\ replies' = replies \cup {Head(tty)}
      /\ tty' = Tail(tty) /\ UNCHANGED <<terminal, requested, owed>>
      /\ backend' = IF "da" \in replies' THEN Selected(replies') ELSE backend
  BY DEF ProbeReads, Complete
<1>2. tty \in Seq(Commands \cup Replies) /\ Head(tty) \in Commands \cup Replies
      /\ tty' \in Seq(Commands \cup Replies) /\ Head(tty) = tty[1]
  BY <1>1 DEF ProbeInv
<1>3. backend' = backend \/ backend' = Selected(replies')
  BY <1>1
<1>4. /\ backend' \in Backends \cup {"probing", "none"}
      /\ backend' \in Backends => backend' \in terminal.draws \cup terminal.named
  BY <1>1, <1>3, SelectedIsKnown, NoKeyIsReply
<1>5. Len(tty) \in Nat \ {0} /\ Len(tty') = Len(tty) - 1
      /\ \A i \in 1..Len(tty') : tty'[i] = tty[i + 1]
  BY <1>1, <1>2
<1>6. ~terminal.slow =>
        /\ backend' = "probing" => LastIs(owed, "da")' /\ KeysFollow(tty, "da")'
        /\ backend' # "probing" => owed' = <<>> /\ tty' \in Seq(Commands)
  <2> SUFFICES ASSUME ~terminal.slow
               PROVE  /\ backend' = "probing" => LastIs(owed, "da")' /\ KeysFollow(tty, "da")'
                      /\ backend' # "probing" => owed' = <<>> /\ tty' \in Seq(Commands)
    OBVIOUS
  <2>1. LastIs(owed, "da") /\ KeysFollow(tty, "da")
    BY <1>1 DEF ProbeInv
  <2>2. LastIs(owed, "da")'
    BY <1>1, <2>1 DEF LastIs
  <2>3. KeysFollow(tty, "da")'
    <3>1. ASSUME NEW i \in 1..Len(tty'), tty'[i] = "da"
          PROVE  owed' = <<>> /\ \A j \in (i + 1)..Len(tty') : tty'[j] \in Commands
      <4>1. i + 1 \in 1..Len(tty) /\ tty[i + 1] = "da"
        BY <1>5, <3>1
      <4>2. owed = <<>> /\ \A j \in ((i + 1) + 1)..Len(tty) : tty[j] \in Commands
        BY <2>1, <4>1 DEF KeysFollow
      <4>3. QED
        BY <1>1, <1>5, <4>2
    <3>2. QED
      BY <3>1 DEF KeysFollow
  <2>4. backend' # "probing" => owed' = <<>> /\ tty' \in Seq(Commands)
    <3> SUFFICES ASSUME backend' # "probing"
                 PROVE  owed' = <<>> /\ tty' \in Seq(Commands)
      OBVIOUS
    <3>1. "da" \in replies' /\ "da" \notin replies
      BY <1>1 DEF ProbeInv
    <3>2. tty[1] = "da"
      BY <1>1, <1>2, <3>1
    <3>3. owed = <<>> /\ \A j \in 2..Len(tty) : tty[j] \in Commands
      BY <1>5, <2>1, <3>2 DEF KeysFollow
    <3>4. \A i \in 1..Len(tty') : tty'[i] \in Commands
      BY <1>5, <3>3
    <3>5. QED
      BY <1>1, <1>2, <3>3, <3>4, SeqOver
  <2>5. QED
    BY <2>2, <2>3, <2>4
<1>7. backend' = "probing" => "da" \notin replies'
  BY <1>1, SelectedIsKnown, NoKeyIsReply
<1>8. QED
  BY <1>1, <1>2, <1>4, <1>6, <1>7 DEF ProbeInv

LEMMA ProbeTimesOutStep ==
  ASSUME ProbeInv, pc = "probe", ProbeTimesOut, UNCHANGED <<show, cmds, leaked>>,
         pc' \in {"probe", "play", "done"}, pc' = "play" => backend' \in Backends
  PROVE  ProbeInv'
<1>1. /\ backend = "probing" /\ tty = <<>> /\ (owed = <<>> \/ terminal.slow)
      /\ backend' = Selected(replies)
      /\ UNCHANGED <<terminal, requested, owed, tty, replies>>
  BY DEF ProbeTimesOut
<1>2. /\ backend' \in Backends \cup {"none"} /\ backend' # "probing"
      /\ backend' \in Backends => backend' \in terminal.draws \cup terminal.named
  BY <1>1, SelectedIsKnown, NoKeyIsReply
<1>3. <<>> \in Seq(Commands)
  OBVIOUS
<1>4. QED
  BY <1>1, <1>2, <1>3 DEF ProbeInv

LEMMA ProbeStep ==
  ASSUME ProbeInv, Probe
  PROVE  ProbeInv'
<1>1. /\ pc = "probe" /\ UNCHANGED <<show, cmds, leaked>> /\ PreflightNext
      /\ pc' = CASE backend' = "probing" -> "probe" [] backend' = "none" -> "done"
               [] OTHER -> "play"
  BY DEF Probe
<1>2. CASE Answer
  <2>1. backend' = backend /\ backend \in Backends \cup {"probing", "none"}
    BY <1>2 DEF Answer, ProbeInv
  <2>2. pc' \in {"play", "restore"} => backend \in Backends
    BY <1>1, <2>1
  <2>3. QED
    BY <1>1, <1>2, <2>2, AnswerStep
<1>3. CASE ProbeReads \/ ProbeTimesOut
  <2>1. backend' \in Backends \cup {"probing", "none"}
    BY <1>3, SelectedIsKnown DEF ProbeReads, ProbeTimesOut, ProbeInv
  <2>2. pc' \in {"probe", "play", "done"} /\ (pc' = "play" => backend' \in Backends)
    BY <1>1, <2>1, NoKeyIsReply
  <2>3. QED
    BY <1>1, <1>3, <2>2, ProbeReadsStep, ProbeTimesOutStep
<1>4. QED
  BY <1>1, <1>2, <1>3 DEF PreflightNext

(* The user types at any time.                                              *)
LEMMA TypeKeyStep ==
  ASSUME ProbeInv, NEW c \in show.keys, TypeKey(c)
  PROVE  ProbeInv'
<1>1. /\ tty' = Append(tty, c)
      /\ UNCHANGED <<terminal, requested, owed, replies, backend, show, cmds, pc, leaked>>
  BY DEF TypeKey
<1>2. c \in Commands /\ c # "da"
  BY PlaybackAssumption, NoKeyIsReply DEF ProbeInv
<1>3. tty \in Seq(Commands \cup Replies) /\ tty' \in Seq(Commands \cup Replies)
      /\ (tty \in Seq(Commands) => tty' \in Seq(Commands))
  BY <1>1, <1>2 DEF ProbeInv
<1>4. Len(tty) \in Nat /\ Len(tty') = Len(tty) + 1 /\ tty'[Len(tty) + 1] = c
      /\ \A i \in 1..Len(tty) : tty'[i] = tty[i]
  BY <1>1, <1>3
<1>5. KeysFollow(tty, "da") => KeysFollow(tty, "da")'
  <2> SUFFICES ASSUME KeysFollow(tty, "da"), NEW i \in 1..Len(tty'), tty'[i] = "da"
               PROVE  owed' = <<>> /\ \A j \in (i + 1)..Len(tty') : tty'[j] \in Commands
    BY DEF KeysFollow
  <2>1. i \in 1..Len(tty) /\ tty[i] = "da"
    BY <1>2, <1>4
  <2>2. owed = <<>> /\ \A j \in (i + 1)..Len(tty) : tty[j] \in Commands
    BY <2>1 DEF KeysFollow
  <2>3. QED
    BY <1>1, <1>2, <1>4, <2>1, <2>2
<1>6. LastIs(owed, "da") => LastIs(owed, "da")'
  BY <1>1 DEF LastIs
<1>7. QED
  BY <1>1, <1>3, <1>5, <1>6 DEF ProbeInv

(* readCommands: a key is one command; a reply is read as keys.             *)
LEMMA ReadCommandStep ==
  ASSUME ProbeInv, ReadCommand
  PROVE  ProbeInv'
<1>1. /\ pc = "play" /\ tty # <<>> /\ Len(cmds) < QueueCap /\ cmds' = cmds \o KeysOf(Head(tty))
      /\ tty' = Tail(tty)
      /\ leaked' = (leaked \/ (Head(tty) \notin Commands /\ KeysOf(Head(tty)) # <<>>))
      /\ UNCHANGED <<terminal, requested, owed, replies, backend, show, pc>>
  BY DEF ReadCommand
<1>2. backend \in Backends /\ backend # "probing"
  BY <1>1, NoKeyIsReply DEF ProbeInv
<1>3. tty \in Seq(Commands \cup Replies) /\ tty' \in Seq(Commands \cup Replies)
      /\ (tty \in Seq(Commands) => tty' \in Seq(Commands) /\ Head(tty) \in Commands)
  BY <1>1 DEF ProbeInv
<1>4. KeysOf(Head(tty)) \in Seq(Commands) /\ Len(KeysOf(Head(tty))) <= 1
  BY KeysAreCommands
<1>5. cmds \in Seq(Commands) /\ cmds' \in Seq(Commands) /\ Len(cmds') <= QueueCap
  <2>1. cmds \in Seq(Commands) /\ QueueCap \in Nat
    BY PlaybackAssumption DEF ProbeInv
  <2>2. Len(cmds') = Len(cmds) + Len(KeysOf(Head(tty))) /\ cmds' \in Seq(Commands)
    BY <1>1, <1>4, <2>1
  <2>3. QED
    BY <1>1, <1>4, <2>1, <2>2
<1>6. ~terminal.slow => ~leaked' /\ tty' \in Seq(Commands)
  BY <1>1, <1>2, <1>3 DEF ProbeInv
<1>7. QED
  BY <1>1, <1>2, <1>3, <1>5, <1>6 DEF ProbeInv

LEMMA ProbeInvStep == ProbeInv /\ [Next]_vars => ProbeInv'
<1> SUFFICES ASSUME ProbeInv, [Next]_vars
             PROVE  ProbeInv'
  OBVIOUS
<1>1. CASE Probe
  BY <1>1, ProbeStep
<1>2. CASE LateAnswer
  <2>1. pc = "play" /\ backend \in Backends /\ Answer /\ UNCHANGED <<show, cmds, leaked>>
    BY <1>2 DEF LateAnswer, ProbeInv
  <2>2. QED
    BY <2>1, AnswerStep
<1>3. CASE \E c \in show.keys : TypeKey(c)
  BY <1>3, TypeKeyStep
<1>4. CASE ReadCommand
  BY <1>4, ReadCommandStep
<1>5. CASE \E d \in 0..show.clock : Tick(d)
  <2>1. /\ UNCHANGED <<preflight, show, leaked>> /\ cmds' = <<>> /\ pc = "play"
        /\ pc' \in {"play", "restore"}
    BY <1>5 DEF Tick
  <2>2. <<>> \in Seq(Commands) /\ Len(<<>>) <= QueueCap
    BY PlaybackAssumption
  <2>3. QED
    BY <2>1, <2>2 DEF ProbeInv, preflight, LastIs, KeysFollow
<1>6. CASE Refuse \/ WindowChanges \/ ResizeViewport \/ InputEnds \/ Restore \/ Over
           \/ UNCHANGED vars
  <2>1. /\ UNCHANGED <<preflight, show, cmds, leaked>>
        /\ pc' = pc \/ pc' = "done"
    BY <1>6 DEF Refuse, WindowChanges, ResizeViewport, InputEnds, Restore, Over, vars
  <2>2. QED
    BY <2>1 DEF ProbeInv, preflight, LastIs, KeysFollow
<1>7. QED
  BY <1>1, <1>2, <1>3, <1>4, <1>5, <1>6 DEF Next

-----------------------------------------------------------------------------
(* The initial states and the theorems.                                     *)

LEMMA InOrderLast ==
  ASSUME NEW questions
  PROVE  InOrder(questions) \in Seq(Replies) /\ LastIs(InOrder(questions), "da")
<1> DEFINE Part(q) == IF q \in questions THEN <<q>> ELSE <<>>
           a == Part("kitty")
           b == Part("caps")
           c == Part("da")
<1>1. InOrder(questions) = a \o b \o c
  BY DEF InOrder
<1>2. /\ a = <<>> \/ a = <<"kitty">>
      /\ b = <<>> \/ b = <<"caps">>
      /\ c = <<>> \/ c = <<"da">>
  OBVIOUS
<1> HIDE DEF Part, a, b, c
<1>3. {"kitty", "caps", "da"} \subseteq Replies /\ "kitty" # "da" /\ "caps" # "da"
  BY DEF Replies
<1>4. a \in Seq(Replies) /\ Len(a) \in {0, 1} /\ \A i \in 1..Len(a) : a[i] = "kitty"
  BY <1>2, <1>3, AtMostOne
<1>5. b \in Seq(Replies) /\ Len(b) \in {0, 1} /\ \A i \in 1..Len(b) : b[i] = "caps"
  BY <1>2, <1>3, AtMostOne
<1>6. c \in Seq(Replies) /\ Len(c) \in {0, 1}
  BY <1>2, <1>3, AtMostOne
<1> DEFINE ab == a \o b
<1>7. ab \in Seq(Replies) /\ Len(ab) = Len(a) + Len(b) /\ \A i \in 1..Len(ab) : ab[i] # "da"
  BY <1>3, <1>4, <1>5
<1> HIDE DEF ab
<1> DEFINE all == ab \o c
<1>8. all \in Seq(Replies) /\ Len(all) = Len(ab) + Len(c) /\ \A i \in 1..Len(ab) : all[i] = ab[i]
  BY <1>6, <1>7
<1>9. Len(ab) \in Nat
  BY <1>7
<1>10. InOrder(questions) = all
  BY <1>1 DEF ab
<1> HIDE DEF all
<1>11. ASSUME NEW i \in 1..Len(all), all[i] = "da"
       PROVE  i = Len(all)
  <2>1. i \notin 1..Len(ab)
    BY <1>7, <1>8, <1>11
  <2>2. Len(all) = Len(ab) \/ Len(all) = Len(ab) + 1
    <3>1. CASE Len(c) = 0
      BY <1>8, <1>9, <3>1
    <3>2. CASE Len(c) = 1
      BY <1>8, <1>9, <3>2
    <3>3. QED
      BY <1>6, <3>1, <3>2
  <2>3. QED
    BY <1>9, <1>11, <2>1, <2>2
<1>12. QED
  BY <1>8, <1>10, <1>11 DEF LastIs

LEMMA PlayInit == Init => LoopInv /\ ProbeInv
<1> SUFFICES ASSUME Init
             PROVE  LoopInv /\ ProbeInv
  OBVIOUS
<1>1. /\ show \in Shows /\ PreflightInit(show.terminal, show.backend) /\ cmds = <<>>
      /\ loop = NewLoop /\ sink = [lastRows |-> 0, statusRow |-> 0] /\ display = <<>>
      /\ lines = {} /\ pc = "probe" /\ leaked = FALSE
      /\ window = show.viewport /\ winch = FALSE /\ fit = "fits"
  BY DEF Init
<1>2. /\ show.step \in BOOLEAN /\ show.hideStatus \in BOOLEAN /\ show.viewport \in Viewports
      /\ Len(trace) \in Nat /\ show.size \in Sizes
  BY <1>1, PlaybackAssumption, TraceFacts
<1>3. IsLoop(loop)
  <2>1. loop = [f \in LoopFields |-> loop[f]]
    BY <1>1 DEF NewLoop, LoopFields
  <2>2. /\ loop.playT \in Nat /\ loop.speed \in Speeds /\ loop.since \in Nat \cup {Unset}
        /\ loop.viewport \in Viewports
    BY <1>1, <1>2 DEF NewLoop, Speeds
  <2>3. \A f \in Flags : loop[f] \in BOOLEAN
    <3>1. /\ loop.markerPaused = FALSE /\ loop.atEnd = FALSE /\ loop.fresh = FALSE
          /\ loop.forced = TRUE /\ loop.failed = FALSE /\ loop.skip = FALSE
          /\ loop.ready = FALSE /\ loop.quit = FALSE
      BY <1>1 DEF NewLoop
    <3>2. loop.paused = show.step /\ loop.stepMode = show.step
      BY <1>1 DEF NewLoop
    <3>3. loop.visible = ~show.hideStatus
      BY <1>1 DEF NewLoop
    <3>4. loop.visible \in BOOLEAN
      BY <1>2, <3>3
    <3>5. QED
      BY <1>2, <3>1, <3>2, <3>4 DEF Flags
  <2>4. IsGlow(loop.glow)
    BY <1>1 DEF NewLoop, IsGlow, Nothing
  <2>5. QED
    BY <2>1, <2>2, <2>3, <2>4 DEF IsLoop
<1>4. /\ loop.cursor = 0 /\ loop.screen = <<>> /\ loop.size = show.size /\ loop.marker = 0
      /\ loop.since = Unset /\ loop.forced = TRUE /\ loop.atEnd = FALSE
      /\ loop.markerPaused = FALSE
  BY <1>1 DEF NewLoop
<1>5. Replays(loop) /\ Timed(loop) /\ Ends(loop)
  BY <1>2, <1>4, NothingYet, NoMarkers DEF Replays, Timed, Ends
<1>6. CaughtUp(loop) /\ Shown(loop) /\ SinkInv
  BY <1>1, <1>4 DEF CaughtUp, Shown, SinkInv
<1>7. LoopInv
  <2>1. loop.viewport = show.viewport /\ show.viewport \in Sizes /\ sink.statusRow = 0
    BY <1>1, <1>2 DEF NewLoop, Sizes, Viewports
  <2>2. FitInv
    <3>1. window \in Sizes /\ window.rows \in Nat /\ window = loop.viewport
      BY <1>1, <2>1 DEF Sizes
    <3>2. sink.statusRow <= window.rows
      BY <2>1, <3>1
    <3>3. QED
      BY <1>1, <3>1, <3>2 DEF FitInv
  <2>3. QED
    BY <1>1, <1>3, <1>5, <1>6, <2>2 DEF LoopInv, Sound
<1>8. /\ terminal = show.terminal /\ requested = show.backend /\ tty = <<>> /\ replies = {}
      /\ owed = <<>> \/ owed = InOrder(Queries(requested) \cap terminal.answers)
      /\ \/ backend = "none" /\ owed = <<>>
         \/ backend = "probing"
  BY <1>1, Zenon DEF PreflightInit
<1>9. owed \in Seq(Replies) /\ LastIs(owed, "da")
  <2>1. <<>> \in Seq(Replies) /\ LastIs(<<>>, "da")
    BY DEF LastIs
  <2>2. QED
    BY <1>8, <2>1, InOrderLast
<1>10. ProbeInv
  <2>1. <<>> \in Seq(Commands) /\ <<>> \in Seq(Commands \cup Replies) /\ Len(<<>>) <= QueueCap
    BY PlaybackAssumption
  <2>2. KeysFollow(tty, "da")
    BY <1>8 DEF KeysFollow
  <2>3. QED
    BY <1>1, <1>8, <1>9, <2>1, <2>2, NoKeyIsReply DEF ProbeInv, Backends
<1>11. QED
  BY <1>7, <1>10

LEMMA PlayInvariant == Spec => [](LoopInv /\ ProbeInv)
<1>1. LoopInv /\ ProbeInv /\ [Next]_vars => (LoopInv /\ ProbeInv)'
  BY LoopStep, ProbeInvStep
<1>2. QED
  BY <1>1, PlayInit, PTL DEF Spec

(* However the user moves through the trace, the screen, its size and the   *)
(* marker are those of the position, and the position is the one the clock  *)
(* says: for every trace tracebundle opens and every sequence of commands   *)
(* (loop.go: seekMarker, cmdRestart and dispatchReady all reach it).        *)
THEOREM PlaybackReplays == Spec => []PlaybackIsReplay
<1>1. LoopInv /\ ProbeInv => PlaybackIsReplay
  <2> SUFFICES ASSUME LoopInv, ProbeInv
               PROVE  PlaybackIsReplay
    OBVIOUS
  <2>1. show \in Shows /\ Sound(loop) /\ Len(trace) \in Nat
    BY TraceFacts DEF LoopInv
  <2>2. TypeOK
    <3>1. loop.marker \in 0..Len(Markers)
      BY <2>1, MarkersBounded DEF Sound, Replays
    <3>2. loop.speed \in 1..64
      BY <2>1, SoundFacts DEF Speeds
    <3>3. lines \subseteq Nat \ {0}
      BY DEF LoopInv, SinkInv
    <3>4. QED
      BY <2>1, <3>1, <3>2, <3>3, SoundFacts DEF TypeOK, LoopInv, FitInv, ProbeInv, Replies
  <2>3. ScreenIsReplay
    BY <2>1 DEF ScreenIsReplay, Sound, Replays, MarkersTo
  <2>4. PositionMatchesClock
    BY DEF LoopInv, Sound, Timed, Ends, CaughtUp, PositionMatchesClock
  <2>5. QED
    BY <2>2, <2>3, <2>4 DEF PlaybackIsReplay
<1>2. QED
  BY <1>1, PlayInvariant, PTL

(* A frame that emitFrame leaves out would have looked like the last one;   *)
(* it is placed for the size the loop knows, free of the status row.  That  *)
(* is the terminal's, or SIGWINCH is on its way, and the status row is the  *)
(* only one, at the bottom, while every size is heard, taken and drawn for  *)
(* before the next comes; the replies of a terminal that answers primary DA *)
(* in time are all read by the probe.                                       *)
THEOREM TerminalsAreCurrent == Spec => []TerminalIsCurrent
<1>1. LoopInv /\ ProbeInv => TerminalIsCurrent
  <2> SUFFICES ASSUME LoopInv, ProbeInv
               PROVE  TerminalIsCurrent
    OBVIOUS
  <2>1. show \in Shows /\ Sound(loop) /\ FitInv /\ (pc = "play" => Shown(loop))
    BY DEF LoopInv
  <2>2. DisplayIsCurrent
    <3> SUFFICES ASSUME pc = "play", ~loop.failed, ~loop.forced
                 PROVE  /\ display = Picture(loop)
                        /\ display.place.cols \in 1..loop.viewport.cols
                        /\ display.place.rows \in
                             1..(loop.viewport.rows - (IF loop.visible THEN 1 ELSE 0))
      BY DEF DisplayIsCurrent
    <3>1. display = Picture(loop)
      BY <2>1 DEF Shown
    <3>2. display.place = Placement(loop)
      BY <3>1 DEF Picture
    <3>3. QED
      BY <2>1, <3>1, <3>2, PlacementFits
  <2>3. SizeIsFollowed
    BY <2>1 DEF SizeIsFollowed, FitInv, Shown, StatusRows
  <2>4. ProbeLeavesNothing
    BY DEF ProbeLeavesNothing, ProbeInv
  <2>5. QED
    BY <2>2, <2>3, <2>4 DEF TerminalIsCurrent
<1>2. QED
  BY <1>1, PlayInvariant, PTL
=============================================================================
