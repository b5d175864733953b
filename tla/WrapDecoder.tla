---------------------------- MODULE WrapDecoder ----------------------------
(***************************************************************************)
(* What twee wrap makes of the bytes its user types (internal/codegen):    *)
(* statusMouseFilter takes mouse reports for the status row out of them,   *)
(* Decoder turns the rest into keys, text, pastes and recorder commands.   *)
(* The terminal hands the bytes over in reads cut anywhere.                *)
(*                                                                         *)
(* A byte is one of a few classes: "]" is Ctrl+] (the recorder's prefix),  *)
(* "lead" and "tail" are the two bytes of a character, "ctl" a control     *)
(* byte that is a key and "nul" one that is not; others stand for          *)
(* themselves, "A" for every cursor key and "3" for every numbered key.    *)
(***************************************************************************)
EXTENDS Integers, Sequences, SequencesExt

CONSTANTS
  Typed,      \* what the user may type
  ChildRows   \* rows above the status row

VARIABLES
  todo,       \* bytes the terminal has not handed over
  fed,        \* bytes read so far
  held,       \* statusMouseFilter.pending
  passed,     \* what the filter let through
  pending,    \* Decoder.pending
  decoded,    \* the events
  plain       \* history: the status row was always there, no read ended in ESC

vars == <<todo, fed, held, passed, pending, decoded, plain>>

Finals == {"[", "O", "A", "B", "M", "m", "~"}
Digits == {"0", "1", "2", "3"}
Value(d) == CHOOSE n \in 0 .. 3 : d = ToString(n)

From(b, i) == SubSeq(b, i, Len(b))

-----------------------------------------------------------------------------
\* The mouse filter.
NoReport == [kind |-> "other", size |-> 0, row |-> 0]
PartialReport == [NoReport EXCEPT !.kind = "partial"]
Report(size, row) == [kind |-> "mouse", size |-> size, row |-> row]

Number(digits) == FoldLeft(LAMBDA n, d : 10 * n + Value(d), 0, digits)

\* A legacy report is ESC [ M and three bytes, the last of them the row.
\* The others are ESC [ n;n;n M, with a "<" before the numbers in the SGR format.
DelimitedReport(b, start, ends) ==
  LET stops == {i \in start .. Len(b) : b[i] \notin Digits \cup {";"}}
  IN IF stops = {} THEN PartialReport
     ELSE LET i == CHOOSE i \in stops : \A j \in stops : i <= j
              semis == {j \in start .. i - 1 : b[j] = ";"}
          IN IF b[i] \notin ends THEN NoReport
             ELSE IF \E p, q \in semis :
                       /\ semis = {p, q} /\ start < p /\ p + 1 < q /\ q + 1 < i
             THEN LET q == CHOOSE q \in semis : \A p \in semis : p <= q
                      row == Number(SubSeq(b, q + 1, i - 1))
                  IN IF row < 1 THEN NoReport ELSE Report(i, row)
             ELSE NoReport

X10Row(c) == IF c \in Digits THEN Value(c) ELSE ChildRows
X10Report(b) == IF Len(b) < 6 THEN PartialReport ELSE Report(6, X10Row(b[6]))

ParseMouseReport(b) ==
  IF ~IsPrefix(<<"esc", "[">>, b) THEN NoReport
  ELSE IF Len(b) = 2 THEN PartialReport
  ELSE IF b[3] = "M" THEN X10Report(b)
  ELSE IF b[3] = "<" THEN DelimitedReport(b, 4, {"M", "m"})
  ELSE IF b[3] \in Digits THEN DelimitedReport(b, 3, {"M"})
  ELSE NoReport

\* One pass over the bytes: what goes on, and what is kept for the next read.
Filter(b) ==
  LET at[i \in 1 .. Len(b) + 1] ==
        IF i > Len(b) THEN [out |-> <<>>, keep |-> <<>>]
        ELSE LET r == ParseMouseReport(From(b, i))
             IN IF r.kind = "partial" THEN [out |-> <<>>, keep |-> From(b, i)]
                ELSE IF r.kind = "other" THEN [at[i + 1] EXCEPT !.out = <<b[i]>> \o @]
                ELSE IF r.row <= ChildRows
                THEN [at[i + r.size] EXCEPT !.out = SubSeq(b, i, i + r.size - 1) \o @]
                ELSE at[i + r.size]
  IN at[1]

-----------------------------------------------------------------------------
\* The decoder.
PasteStart == <<"esc", "[", "2", "0", "0", "~">>
PasteEnd == <<"esc", "[", "2", "0", "1", "~">>
KnownSeqs == {<<"esc", "[", "3", "~">>, <<"esc", "[", "A">>, <<"esc", "O", "A">>}
Keys == {"cr", "tab", "del"}

Event(kind, b, n) == [kind |-> kind, bytes |-> SubSeq(b, 1, n)]
Wait == [kind |-> "wait", bytes |-> <<>>]

IncompleteEscapeNever(b) == FALSE
IncompleteEscape(b) ==
  /\ Len(b) >= 2 /\ b[2] \in {"[", "O"}
  /\ \A i \in 3 .. Len(b) : b[i] \notin Finals

UnknownEscapeLen(b) ==
  LET ends == {i \in 3 .. Len(b) : b[i] \in Finals}
  IN IF ends = {} THEN Len(b) ELSE CHOOSE i \in ends : \A j \in ends : i <= j

\* Bytes of the character at the start of b; 0: none, -1: not all there yet.
RuneLen(b) ==
  CASE b[1] \in {"esc", "]", "ctl", "nul", "tail"} \cup Keys -> 0
    [] b[1] = "lead" -> IF Len(b) = 1 THEN -1 ELSE IF b[2] = "tail" THEN 2 ELSE 0
    [] OTHER -> 1

PrintableRunLen(b) ==
  LET run[i \in 1 .. Len(b) + 1] ==
        IF i > Len(b) THEN 0
        ELSE LET n == RuneLen(From(b, i)) IN IF n <= 0 THEN 0 ELSE n + run[i + n]
  IN run[1]

\* The first event of b, or Wait: a stream may go on, a buffer does not.
First(b, stream) ==
  LET More(kind, n) == IF stream THEN Wait ELSE Event(kind, b, n)
      ends == {i \in Len(PasteStart) + 1 .. Len(b) : IsPrefix(PasteEnd, From(b, i))}
      known == {s \in KnownSeqs : IsPrefix(s, b)}
  IN IF b[1] = "]"
     THEN IF Len(b) = 1 THEN More("unknown", 1) ELSE Event("control", b, 2)
     ELSE IF IsPrefix(PasteStart, b)
     THEN IF ends = {} THEN More("unknown", Len(b))
          ELSE Event("paste", b, (CHOOSE i \in ends : \A j \in ends : i <= j) + Len(PasteEnd) - 1)
     ELSE IF b[1] \in Keys THEN Event("key", b, 1)
     ELSE IF known # {} THEN Event("key", b, Len(CHOOSE s \in known : TRUE))
     ELSE IF stream /\ \E s \in KnownSeqs : IsStrictPrefix(b, s) THEN Wait
     ELSE IF b[1] = "esc"
     THEN IF Len(b) = 1 THEN More("key", 1)
          ELSE IF b[2] \notin {"[", "O"} THEN Event("key", b, 1)
          ELSE IF stream /\ IncompleteEscape(b) THEN Wait
          ELSE Event("unknown", b, UnknownEscapeLen(b))
     ELSE IF b[1] = "ctl" THEN Event("key", b, 1)
     ELSE IF PrintableRunLen(b) > 0 THEN Event("type", b, PrintableRunLen(b))
     ELSE IF RuneLen(b) = -1 THEN More("unknown", 1)
     ELSE Event("unknown", b, 1)

Decode(b, stream) ==
  LET at[i \in 1 .. Len(b) + 1] ==
        IF i > Len(b) THEN [events |-> <<>>, pending |-> <<>>]
        ELSE LET e == First(From(b, i), stream)
             IN IF e = Wait THEN [events |-> <<>>, pending |-> From(b, i)]
                ELSE [at[i + Len(e.bytes)] EXCEPT !.events = <<e>> \o @]
  IN at[1]

-----------------------------------------------------------------------------
Init ==
  /\ todo \in Typed
  /\ fed = <<>> /\ held = <<>> /\ passed = <<>> /\ pending = <<>> /\ decoded = <<>>
  /\ plain = TRUE

\* One read.  The status row comes and goes with the size of the terminal.
Read ==
  \E n \in 1 .. Len(todo), visible \in BOOLEAN :
    LET bytes == SubSeq(todo, 1, n)
        f == IF visible THEN Filter(held \o bytes) ELSE [out |-> held \o bytes, keep |-> <<>>]
        d == Decode(pending \o f.out, TRUE)
    IN /\ todo' = From(todo, n + 1)
       /\ fed' = fed \o bytes
       /\ held' = f.keep
       /\ passed' = passed \o f.out
       /\ pending' = d.pending
       /\ decoded' = decoded \o d.events
       /\ plain' = (plain /\ visible /\ bytes[n] # "esc")

\* While a marker is typed a lone ESC cancels it when nothing follows.
FlushEscape ==
  /\ pending = <<"esc">>
  /\ pending' = <<>>
  /\ fed' = held /\ passed' = <<>> /\ decoded' = <<>>
  /\ UNCHANGED <<todo, held, plain>>

Next == Read \/ FlushEscape
Spec == Init /\ [][Next]_vars

-----------------------------------------------------------------------------
\* Text that two reads cut in two is one text.
Joined(events) ==
  FoldLeft(LAMBDA es, e :
             IF e.kind = "type" /\ es # <<>> /\ Last(es).kind = "type"
             THEN [es EXCEPT ![Len(es)].bytes = @ \o e.bytes]
             ELSE Append(es, e),
           <<>>, events)

\* However the terminal cuts the bytes into reads, the recorder sees the keys,
\* texts, pastes and commands it would see in one read: no key is taken for
\* text, no command reaches the child because its prefix came alone.
ChunkFree ==
  Joined(decoded \o Decode(pending, FALSE).events) = Joined(Decode(passed, FALSE).events)

\* The filter takes away complete reports for rows below the child's and
\* nothing else: with the status row coming and going, between reads and
\* within one, every other byte gets through once and in order.
FilterKeepsInput ==
  LET through == passed \o held
      from[i \in 1 .. Len(fed) + 1, j \in 1 .. Len(through) + 1] ==
        IF i > Len(fed) THEN j > Len(through)
        ELSE LET r == ParseMouseReport(From(fed, i))
             IN \/ j <= Len(through) /\ fed[i] = through[j] /\ from[i + 1, j + 1]
                \/ r.kind = "mouse" /\ r.row > ChildRows /\ from[i + r.size, j]
  IN from[1, 1]

\* With the status row there all the time, and no read ending between ESC and
\* what follows it, the child gets no report for that row however the reads
\* cut the reports.
StatusRowIsHidden ==
  plain => Filter(fed) = [out |-> passed, keep |-> held]
=============================================================================
