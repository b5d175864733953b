-------------------------- MODULE MCSessionServer --------------------------
(***************************************************************************)
(* SessionServer with two clients.  The plans put each pair of clients     *)
(* that can meet at the end of a session side by side, and let a daemon's  *)
(* trace be absent, saved or impossible to save.  In some of them Accept   *)
(* may fail.                                                               *)
(***************************************************************************)
EXTENDS SessionServer, TLC

CONSTANTS c1, c2

Script(ops) == [verb |-> "do", ops |-> ops]
Verb(verb, op) == [verb |-> verb, ops |-> <<op>>]
Mute == Verb("mute", "query")
Deaf == Verb("deaf", "query")
WaitExit == Verb("wait_exit", "wait_exit")

Traces == {"none", "good", "bad"}

Served(a, b, killed, traces) ==
  {[daemon |-> TRUE, trace |-> t # "none", saves |-> t # "bad", breaks |-> FALSE,
    verb |-> (c1 :> a.verb @@ c2 :> b.verb),
    ops |-> (c1 :> a.ops @@ c2 :> b.ops), killed |-> killed] : t \in traces}

\* In twee run there is no other client.
Alone(ops) ==
  {[daemon |-> FALSE, trace |-> t # "none", saves |-> t # "bad", breaks |-> FALSE,
    verb |-> (c1 :> "run" @@ c2 :> "do"),
    ops |-> (c1 :> ops @@ c2 :> <<>>), killed |-> {}] : t \in Traces}

Breaking(plans) == {[p EXCEPT !.breaks = TRUE] : p \in plans}

MCPlans ==
  UNION {Served(WaitExit, Verb("stop", "stop"), {}, {"good", "bad"}),
         Served(Script(<<"stop", "input">>), WaitExit, {}, {"none", "bad"}),
         Served(Script(<<"input", "wait">>), Verb("stop", "stop"), {}, {"good"}),
         Served(Script(<<"sleep">>), Verb("stop", "stop_quietly"), {c1}, {"good"}),
         Served(Script(<<"check", "malformed", "input">>), Verb("stop", "stop_other"), {}, {"good"}),
         Served(Verb("stop", "stop"), Verb("status", "query"), {c1}, {"good"}),
         Served(Mute, WaitExit, {}, {"good"}),
         Served(Mute, Verb("stop", "stop"), {c1}, {"none"}),
         Served(Deaf, WaitExit, {c1}, {"good"}),
         Served(Script(<<>>), Verb("stop", "stop"), {}, {"none"})}
  \cup UNION {Breaking(Served(Verb("stop", "stop"), Script(<<"query">>), {}, {"good"})),
              Breaking(Served(Deaf, WaitExit, {}, {"bad"})),
              Breaking(Alone(<<"input">>))}
  \cup UNION {Alone(ops) : ops \in {<<"input", "wait">>, <<"wait_exit">>, <<"stop", "input">>}}
=============================================================================
