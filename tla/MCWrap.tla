------------------------------- MODULE MCWrap -------------------------------
(* The sessions TLC checks Wrap on.  Each has what one question needs: the  *)
(* product of everything a user can do would be too large and tell no more. *)
EXTENDS Wrap, TLC

Opts(t, s, c) == [trace |-> t, script |-> s, whole |-> FALSE, waits |-> TRUE, compositor |-> c]

Env(kinds, n, chunks) ==
  [kinds |-> kinds, typed |-> n, chunks |-> chunks, resizes |-> 0, fails |-> FALSE,
   cancel |-> FALSE]

Session(o, e) == [opts |-> o, env |-> e]

MCSessions == {
  (* recording everything from the start, queries and replies included *)
  Session(Opts(TRUE, TRUE, TRUE), Env({"text", "unknown"}, 2, 2)),
  (* a trace that starts and stops within the session *)
  Session(Opts(FALSE, FALSE, FALSE), Env({"text", "esc", "t"}, 3, 1)),
  (* a script that starts and stops, no waits in another *)
  Session(Opts(FALSE, FALSE, FALSE), Env({"text", "s"}, 3, 1)),
  Session([Opts(FALSE, TRUE, TRUE) EXCEPT !.waits = FALSE], Env({"enter"}, 1, 1)),
  (* the marker prompt *)
  Session(Opts(TRUE, FALSE, TRUE), Env({"m", "text", "esc", "enter"}, 3, 0)),
  Session(Opts(TRUE, FALSE, TRUE), Env({"m"}, 1, 1)),
  (* quitting, a signal and a resize *)
  Session(Opts(TRUE, TRUE, TRUE), [Env({"q"}, 1, 1) EXCEPT !.resizes = 1, !.cancel = TRUE]),
  (* files that cannot be written *)
  Session(Opts(FALSE, FALSE, FALSE), [Env({"s", "t"}, 2, 0) EXCEPT !.fails = TRUE]),
  Session([Opts(TRUE, TRUE, TRUE) EXCEPT !.whole = TRUE],
          [Env({"t"}, 1, 1) EXCEPT !.fails = TRUE]) }

(* A user who pastes, a child that answers with more than it was given.     *)
MCEcho == {Session(Opts(FALSE, FALSE, FALSE), Env({"text"}, 3, 4))}
=============================================================================
