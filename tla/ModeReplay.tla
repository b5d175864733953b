---------------------------- MODULE ModeReplay ----------------------------
(***************************************************************************)
(* twee trace inspect --replay (internal/inspect/replay.go): where in the  *)
(* output the terminal's modes change.  The terminal is fed the output in  *)
(* slices that end with a control sequence and asked for its modes after   *)
(* each, so a scanner has to know where sequences end without knowing      *)
(* what they mean; output events cut them anywhere.                        *)
(*                                                                         *)
(* A byte is one of: "esc"; "[", "]" and "P" which begin CSI, OSC and the  *)
(* other strings; "sp", an intermediate; "1", a parameter; "h", any other  *)
(* final; "bs", a backslash; "bel"; "can", CAN or SUB; "ctl", another      *)
(* control.  Bytes over 0x7f are not modelled.                             *)
(***************************************************************************)
EXTENDS Integers, Sequences

CONSTANTS
  MaxModeTransitions,
  MaxSlice,     \* bound: bytes between two ends of sequences
  MaxChanges    \* bound: changes of modes

VARIABLES
  scanner,      \* controlSequenceScanner.state
  slice,        \* event.Bytes[start:byteOffset+1]
  model,        \* the terminal: what it has been fed
  previousModes,
  transitions,  \* the modes in ModeTransitions
  result,       \* "none" while it runs
  output        \* history: the terminal, had it been fed each byte at once

vars == <<scanner, slice, model, previousModes, transitions, result, output>>

Finals == {"[", "]", "P", "h", "bs"}       \* 0x40 to 0x7e
EscapeFinals == Finals \cup {"1"}          \* 0x30 to 0x7e
Bytes == EscapeFinals \cup {"esc", "sp", "bel", "can", "ctl"}

-----------------------------------------------------------------------------
\* The terminal's parser, and sequences that change modes: ESC 1 (such as
\* ESC =), ESC h (such as ESC c) and CSI 1 h.  A terminal leaves whatever it
\* is in at ESC, CAN and SUB.  Modes are counted: each change is a new value.
Terminal(state, modes) == [state |-> state, modes |-> modes]

Parse(t, b) ==
  CASE b = "esc" -> Terminal("escape", t.modes)
    [] b = "can" -> Terminal("ground", t.modes)
    [] OTHER ->
  CASE t.state = "escape" /\ b = "[" -> Terminal("csi", t.modes)
    [] t.state = "escape" /\ b = "]" -> Terminal("osc", t.modes)
    [] t.state = "escape" /\ b = "P" -> Terminal("string", t.modes)
    [] t.state = "escape" /\ b = "sp" -> Terminal("intermediate", t.modes)
    [] t.state = "escape" /\ b \in {"1", "h"} -> Terminal("ground", t.modes + 1)
    [] t.state = "escape" /\ b = "bs" -> Terminal("ground", t.modes)
    [] t.state = "intermediate" /\ b \in EscapeFinals -> Terminal("ground", t.modes)
    [] t.state = "csi" /\ b = "1" -> Terminal("csi 1", t.modes)
    [] t.state = "csi 1" /\ b \in {"1", "sp"} -> Terminal("csi", t.modes)
    [] t.state = "csi 1" /\ b = "h" -> Terminal("ground", t.modes + 1)
    [] t.state = "csi 1" /\ b \in Finals \ {"h"} -> Terminal("ground", t.modes)
    [] t.state = "csi" /\ b \in Finals -> Terminal("ground", t.modes)
    [] t.state = "osc" /\ b = "bel" -> Terminal("ground", t.modes)
    [] OTHER -> t

\* The terminal t after each of the bytes, and after all of them.
FedTo(t, bytes) ==
  LET fed[n \in 0 .. Len(bytes)] == IF n = 0 THEN t ELSE Parse(fed[n - 1], bytes[n])
  IN fed
Feed(t, bytes) == FedTo(t, bytes)[Len(bytes)]

-----------------------------------------------------------------------------
\* step: the next state, and whether the byte completes a sequence.
Step(state, completes) == [state |-> state, completes |-> completes]
Stay(state) == Step(state, FALSE)

\* What ends an escape sequence that is not complete.
Restart(state, b) ==
  IF b = "esc" THEN Stay("escape") ELSE IF b = "can" THEN Stay("ground") ELSE Stay(state)

InString(state, escape, b) == IF b = "esc" THEN Stay(escape) ELSE Restart(state, b)

StepEscape(b) ==
  CASE b = "[" -> Stay("csi")
    [] b = "]" -> Stay("osc")
    [] b = "P" -> Stay("string")
    [] b = "sp" -> Stay("intermediate")
    [] b \in EscapeFinals \ {"[", "]", "P"} -> Step("ground", TRUE)
    [] OTHER -> Restart("escape", b)

\* The byte after an ESC in a string, if it does not end it, begins a sequence.
StepStringEscape(b) == IF b = "bs" THEN Step("ground", TRUE) ELSE StepEscape(b)

Scan(state, b) ==
  CASE state = "ground" -> IF b = "esc" THEN Stay("escape") ELSE Stay("ground")
    [] state = "escape" -> StepEscape(b)
    [] state = "intermediate" ->
         IF b \in EscapeFinals THEN Step("ground", TRUE) ELSE Restart(state, b)
    [] state = "csi" -> IF b \in Finals THEN Step("ground", TRUE) ELSE Restart(state, b)
    [] state = "osc" -> IF b = "bel" THEN Step("ground", TRUE) ELSE InString(state, "osc escape", b)
    [] state = "string" -> InString(state, "string escape", b)
    [] state \in {"osc escape", "string escape"} -> StepStringEscape(b)

-----------------------------------------------------------------------------
Init ==
  /\ scanner = "ground" /\ slice = <<>>
  /\ model = Terminal("ground", 0) /\ output = model
  /\ previousModes = 0 /\ transitions = <<>> /\ result = "none"

\* One byte of an output event; modes are looked at where a sequence ends.
Byte ==
  /\ result = "none" /\ Len(slice) < MaxSlice
  /\ \E b \in Bytes :
       LET step == Scan(scanner, b)
           fed == Feed(model, Append(slice, b))
       IN /\ output' = Parse(output, b) /\ output'.modes <= MaxChanges
          /\ scanner' = step.state
          /\ IF ~step.completes
             THEN /\ slice' = Append(slice, b)
                  /\ UNCHANGED <<model, previousModes, transitions, result>>
             ELSE /\ slice' = <<>> /\ model' = fed
                  /\ IF fed.modes # previousModes /\ Len(transitions) >= MaxModeTransitions
                     THEN result' = "limit" /\ UNCHANGED <<previousModes, transitions>>
                     ELSE /\ transitions' = IF fed.modes # previousModes
                                            THEN Append(transitions, fed.modes)
                                            ELSE transitions
                          /\ previousModes' = fed.modes
                          /\ UNCHANGED result

\* The end of an event: what is left of it is fed, the scanner goes on.
CarryNothing(state) == "ground"
Carry(state) == state

EndEvent ==
  /\ result = "none"
  /\ slice' = <<>> /\ model' = Feed(model, slice) /\ scanner' = Carry(scanner)
  /\ UNCHANGED <<previousModes, transitions, result, output>>

Finish ==
  /\ result = "none" /\ slice = <<>>
  /\ result' = IF model.modes # previousModes THEN "changed outside" ELSE "replayed"
  /\ UNCHANGED <<scanner, slice, model, previousModes, transitions, output>>

Next == Byte \/ EndEvent \/ Finish
Spec == Init /\ [][Next]_vars

-----------------------------------------------------------------------------
\* A trace that could be recorded can be inspected: no mode ever changes where
\* the scanner sees no sequence end, whatever sequences are cut short by
\* others and wherever the events cut them.
NoChangeOutside == result # "changed outside"

\* Every change is reported with the byte that made it, and as one change: not
\* at the end of a later sequence, not together with another.
ChangesAreExact ==
  result # "limit" => transitions = [i \in 1 .. output.modes |-> i]
=============================================================================
