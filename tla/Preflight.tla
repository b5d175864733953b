----------------------------- MODULE Preflight -----------------------------
(***************************************************************************)
(* twee play before the first frame (internal/play/preflight.go): it asks  *)
(* the terminal what graphics it can draw and reads the answers from the   *)
(* same terminal the keys come from.  The last question, primary DA, is    *)
(* answered by every terminal after the others, and so ends the reading;   *)
(* a deadline ends it when the answer does not come.                       *)
(*                                                                         *)
(* An item of the tty is a key or a whole reply.                           *)
(***************************************************************************)
EXTENDS Integers, Sequences, FiniteSets

Backends == {"kitty", "iterm2", "sixel"}

(* A terminal: what it can draw; the questions it answers; what the         *)
(* environment says of it (TERM_PROGRAM, KITTY_WINDOW_ID, TMUX); whether it *)
(* reports its pixel size; whether it may answer after the deadline.        *)
IsTerminal(t) ==
  /\ {t.draws, t.named} \subseteq SUBSET Backends
  /\ t.answers \subseteq {"kitty", "caps", "da"}
  /\ {t.mux, t.pixels, t.slow} \subseteq BOOLEAN

VARIABLES
  terminal,   \* the terminal
  requested,  \* --backend: "auto" or a backend
  owed,       \* answers the terminal has not sent yet
  tty,        \* what waits to be read from stdin
  replies,    \* the replies the probe has read
  backend     \* "probing", the selected backend, or "none" for an error

preflight == <<terminal, requested, owed, tty, replies, backend>>

(* probeQueries: what is asked; primary DA always comes last.               *)
Queries(r) ==
  CASE r = "kitty" -> {"kitty", "da"}
    [] r \in {"iterm2", "sixel"} -> {"caps", "da"}
    [] OTHER -> {"kitty", "caps", "da"}

InOrder(questions) ==
  LET Part(q) == IF q \in questions THEN <<q>> ELSE <<>>
  IN  Part("kitty") \o Part("caps") \o Part("da")

(* selectBackend refuses a multiplexer, and sixel without a pixel size,     *)
(* before it asks anything.                                                 *)
Refused(t, r) == t.mux \/ (r = "sixel" /\ ~t.pixels)

PreflightInit(t, r) ==
  /\ terminal = t /\ requested = r
  /\ owed = IF Refused(terminal, requested) THEN <<>>
            ELSE InOrder(Queries(requested) \cap terminal.answers)
  /\ tty = <<>> /\ replies = {}
  /\ backend = IF Refused(terminal, requested) THEN "none" ELSE "probing"

(* The terminal answers in the order of the questions.                      *)
Answer ==
  /\ owed # <<>> /\ tty' = Append(tty, Head(owed)) /\ owed' = Tail(owed)
  /\ UNCHANGED <<terminal, requested, replies, backend>>

(* probeRepliesComplete: read through primary DA.                           *)
Complete(read) == "da" \in read

(* parseBackendSupport and the environment.  The F feature of a report is   *)
(* ambiguous: only a terminal named iTerm2 is chosen for it unasked.        *)
Supports(read) ==
  [kitty  |-> ("kitty" \in read /\ "kitty" \in terminal.draws) \/ "kitty" \in terminal.named,
   iterm2 |-> "iterm2" \in terminal.named
                \/ (requested = "iterm2" /\ "caps" \in read /\ "iterm2" \in terminal.draws),
   sixel  |-> /\ terminal.pixels
              /\ \/ {"da", "caps"} \cap read # {} /\ "sixel" \in terminal.draws
                 \/ "sixel" \in terminal.named]

(* selectBackend: the one requested, or the first that is available.        *)
Selected(read) ==
  LET available == {b \in Backends : Supports(read)[b]}
      wanted    == IF requested = "auto" THEN available ELSE available \cap {requested}
  IN  IF wanted = {} THEN "none"
      ELSE IF "kitty" \in wanted THEN "kitty"
      ELSE IF "iterm2" \in wanted THEN "iterm2" ELSE "sixel"

(* readProbeFD: whatever comes is taken, keys as well.                      *)
ProbeReads ==
  /\ backend = "probing" /\ tty # <<>>
  /\ replies' = replies \cup {Head(tty)} /\ tty' = Tail(tty)
  /\ backend' = IF Complete(replies') THEN Selected(replies') ELSE backend
  /\ UNCHANGED <<terminal, requested, owed>>

(* The deadline of 200 ms: with nothing to read, and either nothing more to *)
(* come or a terminal that is slow.                                         *)
ProbeTimesOut ==
  /\ backend = "probing" /\ tty = <<>> /\ (owed = <<>> \/ terminal.slow)
  /\ backend' = Selected(replies)
  /\ UNCHANGED <<terminal, requested, owed, tty, replies>>

PreflightNext == Answer \/ ProbeReads \/ ProbeTimesOut
=============================================================================
