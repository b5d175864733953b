----------------------------- MODULE MCPlayback -----------------------------
(* The plays TLC checks Playback on: short traces with the events that meet *)
(* each other, terminals of every kind, commands by what they disturb.      *)
EXTENDS Playback

Small == [cols |-> 2, rows |-> 2]
Wide  == [cols |-> 5, rows |-> 2]
Host  == [cols |-> 6, rows |-> 5]
Tall  == [cols |-> 6, rows |-> 7]
Flat  == [cols |-> 6, rows |-> 1]  \* too small: ignored

Ev(type, t)    == [type |-> type, t |-> t, size |-> Small, at |-> [cols |-> 1, rows |-> 1]]
Resized(t)     == [Ev("resize", t) EXCEPT !.size = Wide]

(* Two markers at one time, a resize between, a pointer before the resize.  *)
Marked == <<Ev("output", 0), Ev("marker", 4), Ev("output", 4), Ev("marker", 4), Resized(12)>>
Pointed == <<Ev("mouse", 0), Ev("output", 8), Resized(12), Ev("mouse", 12), Ev("exit", 13)>>

Plain == [draws |-> {"kitty"}, named |-> {}, answers |-> {"kitty", "caps", "da"}, mux |-> FALSE,
          pixels |-> TRUE, slow |-> FALSE]

Show ==
  [trace |-> Marked, size |-> Small, step |-> FALSE, pauseOnMarker |-> FALSE,
   hideStatus |-> FALSE, viewport |-> Host, viewports |-> {}, keys |-> {}, typed |-> 0,
   clock |-> 1, fails |-> FALSE, hangup |-> FALSE, terminal |-> Plain, backend |-> "kitty"]

Seeks == [Show EXCEPT !.keys = {"pause", "prev", "next", "fwd"}, !.typed = 3]

AllTerminals ==
  [draws : {{"kitty"}, {"iterm2"}, {"sixel"}, {}}, named : {{}, {"iterm2"}},
   answers : {{"kitty", "caps", "da"}, {"caps", "da"}, {"caps"}, {}}, mux : {FALSE},
   pixels : BOOLEAN, slow : {FALSE}]

MCShows ==
  { Seeks,
    [Seeks EXCEPT !.pauseOnMarker = TRUE],
    [Seeks EXCEPT !.keys = {"step", "fwd", "restart", "prev"}, !.step = TRUE],
    [Show EXCEPT !.keys = {"slower", "faster", "pause", "list"}, !.typed = 3],
    [Show EXCEPT !.trace = Pointed, !.keys = {"status", "restart"}, !.typed = 2],
    [Show EXCEPT !.trace = Pointed, !.viewports = {Host, Tall}, !.keys = {"status"}, !.typed = 2],
    [Show EXCEPT !.trace = Pointed, !.viewports = {Host, Tall, Flat}, !.hideStatus = TRUE,
                 !.keys = {"status"}, !.typed = 1, !.backend = "sixel",
                 !.terminal.draws = {"sixel"}],
    [Show EXCEPT !.keys = {"quit", "pause"}, !.typed = 2, !.fails = TRUE, !.hangup = TRUE],
    [Show EXCEPT !.terminal.mux = TRUE],
    [Show EXCEPT !.terminal.slow = TRUE, !.keys = {"fwd"}, !.typed = 1] }
  \cup {[Show EXCEPT !.terminal = t, !.backend = b, !.trace = <<>>] : t \in AllTerminals, b \in Backends \cup {"auto"}}

(* A terminal behind a slow connection.                                     *)
MCSlow == {[Show EXCEPT !.terminal.slow = TRUE]}
=============================================================================
