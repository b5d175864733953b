----------------------------- MODULE PumpViews -----------------------------
(***************************************************************************)
(* Two views of the terminal that callers get with bounds of their own     *)
(* choice: the ring of recent output (internal/pump), and the part of a    *)
(* screen a rectangle selects, for wait stable --except (internal/pump)    *)
(* and for region predicates (internal/engine/predicate.go).  Rectangles   *)
(* are any ints: arithmetic wraps at IntMax.                               *)
(***************************************************************************)
EXTENDS Integers, Sequences

CONSTANTS
  Cap,       \* 64 KiB
  Chunks,    \* sizes of what one read brings
  MaxFed,    \* bound: bytes fed
  IntMax,
  Rects,     \* [x, y, w, h], each in -IntMax - 1 .. IntMax
  Screens,   \* [cols, rows, marked]: the cells the predicate matches
  Modes      \* "any", "all"

VARIABLES
  fed,       \* bytes fed; byte n is the number n
  recent,    \* p.recent
  screen, rect, mode

vars == <<fed, recent, screen, rect, mode>>

Wrap(n) == ((n + IntMax + 1) % (2 * (IntMax + 1))) - (IntMax + 1)
Smaller(a, b) == IF a < b THEN a ELSE b

\* appendRecent.
Newest(recentBytes, chunk) ==
  LET keep == Cap - Len(chunk)
  IN IF keep < 0 THEN SubSeq(chunk, Len(chunk) - Cap + 1, Len(chunk))
     ELSE SubSeq(recentBytes, Len(recentBytes) - keep + 1, Len(recentBytes)) \o chunk

AppendRecent(recentBytes, chunk) ==
  IF Len(recentBytes) + Len(chunk) <= Cap THEN recentBytes \o chunk
  ELSE Newest(recentBytes, chunk)

\* excludedCell: subtraction, since rect.x + rect.w may be more than an int.
WithinSum(v, from, size) == v >= from /\ v < Wrap(from + size)
Within(v, from, size) == v >= from /\ Wrap(v - from) < size

ExcludedCell(x, y, s, r) ==
  /\ x >= 0 /\ y >= 0 /\ x < s.cols /\ y < s.rows
  /\ r.x >= 0 /\ r.y >= 0 /\ r.w > 0 /\ r.h > 0
  /\ Within(x, r.x, r.w) /\ Within(y, r.y, r.h)

\* clippedRegion, and the cells EvaluateRegion counts.
ClippedEnd(from, size, end) == IF size < end - from THEN Wrap(from + size) ELSE end

ClippedRegion(s, r) ==
  IF r.x >= s.cols \/ r.y >= s.rows \/ r.x < 0 \/ r.y < 0 \/ r.w <= 0 \/ r.h <= 0 THEN {}
  ELSE {<<x, y>> : x \in r.x .. ClippedEnd(r.x, r.w, s.cols) - 1,
                   y \in r.y .. ClippedEnd(r.y, r.h, s.rows) - 1}

EvaluateRegion(s, r, m) ==
  LET cells == ClippedRegion(s, r)
  IN cells # {} /\ IF m = "any" THEN cells \cap s.marked # {} ELSE cells \subseteq s.marked

Init ==
  /\ fed = 0 /\ recent = <<>>
  /\ screen \in Screens /\ rect \in Rects /\ mode \in Modes

Feed ==
  /\ \E n \in Chunks :
       /\ fed + n <= MaxFed /\ fed' = fed + n
       /\ recent' = AppendRecent(recent, [i \in 1 .. n |-> fed + i])
  /\ UNCHANGED <<screen, rect, mode>>

Next == Feed
Spec == Init /\ [][Next]_vars

-----------------------------------------------------------------------------
\* The ring is the last of the output, whole and in order, when a read brings
\* less than it holds, as much and more.
RecentIsTheEnd ==
  recent = [i \in 1 .. Smaller(fed, Cap) |-> fed - Smaller(fed, Cap) + i]

\* The cells of the screen in the rectangle, as integers have it.
Selected ==
  {p \in (0 .. screen.cols - 1) \X (0 .. screen.rows - 1) :
     /\ p[1] \in rect.x .. rect.x + rect.w - 1
     /\ p[2] \in rect.y .. rect.y + rect.h - 1}

Excluded ==
  {p \in (-1 .. screen.cols) \X (-1 .. screen.rows) : ExcludedCell(p[1], p[2], screen, rect)}

\* A wait that leaves a rectangle out and a predicate that looks into it mean
\* the same cells, whatever the rectangle.  When its corner is one the daemon
\* accepts, not negative, they are those of the screen in it, however large
\* the numbers of a caller, and the predicate answers for just these.
RegionsAgree ==
  /\ Excluded = ClippedRegion(screen, rect)
  /\ rect.x >= 0 /\ rect.y >= 0 =>
       /\ Excluded = Selected
       /\ EvaluateRegion(screen, rect, mode) <=>
            /\ Selected # {}
            /\ IF mode = "any" THEN \E p \in Selected : p \in screen.marked
               ELSE \A p \in Selected : p \in screen.marked

\* Not so in the code: a rectangle means its intersection with the viewport,
\* as predicate.go:124 says, and pump.go:57, "clipped to each snapshot's live
\* viewport".  One that begins above or to the left of the screen means no
\* cell at all, even where it reaches into the screen.
RegionsAreIntersections == Excluded = Selected
=============================================================================
