--------------------------- MODULE MCConversions ---------------------------
(* Small inputs for each of the seven machines.                             *)
EXTENDS Conversions

-----------------------------------------------------------------------------
\* What a user types: every two of these and every three of the few that
\* depend on what comes next.
PasteStart == <<"esc", "[", "2", "0", "0", "~">>
PasteEnd == <<"esc", "[", "2", "0", "1", "~">>
Tokens ==
  {<<"esc">>, <<"esc", "[">>, <<"esc", "[", "A">>, <<"esc", "O", "A">>, <<"esc", "[", "3", "~">>,
   <<"esc", "[", "3">>, PasteStart, PasteEnd, <<"]">>, <<"A">>, <<"1">>, <<"2">>,
   <<"lead">>, <<"tail">>, <<"lead", "tail">>, <<"cr">>, <<"ctl">>, <<"nul">>,
   <<"esc", "[", "M", "0", "1">>, <<"esc", "[", "<", "1", ";", "1", ";", "1", "M">>,
   <<"esc", "[", "<", "1", ";", "1", ";", "2", "m">>, <<"esc", "[", "1", ";", "1", ";", "2", "M">>,
   <<"esc", "[", "1", ";", ";", "2", "M">>}
Few == {<<"esc">>, PasteStart, PasteEnd, <<"]">>, <<"lead">>, <<"tail">>, <<"A">>, <<"esc", "[", "3">>}
MCTyped == {a \o b : a \in Tokens, b \in Tokens} \cup {a \o b \o c : a \in Few, b \in Few, c \in Few}

\* Traces for a cast: whole code points, halves, and what may come between.
CastEvents ==
  {[type |-> "output", bytes |-> b] :
     b \in {<<"a">>, <<"two">>, <<"tail">>, <<"tail", "a">>, <<"three", "tail">>, <<"a", "two">>, <<>>,
            <<"tail", "three">>}}
  \cup {[type |-> x, bytes |-> <<>>] : x \in {"marker", "resize", "text", "key"}}
MCCastTraces ==
  {[i \in DOMAIN s |-> [type |-> s[i].type, bytes |-> s[i].bytes, t |-> i]] :
     s \in UNION {[1 .. n -> CastEvents] : n \in 1 .. 4}}

\* Traces to draw: changes, changes back and none, close together, a window
\* apart and with idle time between.
DrawnEvents ==
  {[type |-> "output", shows |-> s] : s \in {"blank", "x"}}
  \cup {[type |-> "resize", shows |-> "y"], [type |-> "input", shows |-> "none"],
        [type |-> "marker", shows |-> "none"]}
MCFrameTraces ==
  UNION {{[i \in 1 .. n |->
             [type |-> s[i].type, shows |-> s[i].shows,
              t |-> LET t[j \in 0 .. n] == IF j = 0 THEN 0 ELSE t[j - 1] + g[j] IN t[i]]] :
            s \in [1 .. n -> DrawnEvents], g \in [1 .. n -> {0, 1, 6}]} : n \in 0 .. 3}

\* Two frames; two markers at the boundary, one in idle time cut off.
MCDurations == <<2, 1>>
MCPositions == <<1, 1, 5>>

\* Screens with wide cells, cells of two bytes and blanks, and a small one.
A == [text |-> <<"a">>, width |-> 1]
B == [text |-> <<"b">>, width |-> 1]
E == [text |-> <<"a", "^">>, width |-> 1]
W == [text |-> <<"w1", "w2">>, width |-> 2]
S == [text |-> <<>>, width |-> 0]
K == [text |-> <<>>, width |-> 1]
MCMouseScreens ==
  {[cols |-> 5, rows |-> 3, lines |-> <<<<A, B, A, B, K>>, <<K, W, S, A, B>>, <<K, K, K, K, K>>>>],
   [cols |-> 5, rows |-> 3, lines |-> <<<<K, K, K, K, K>>, <<W, S, W, S, K>>, <<A, K, B, E, B>>>>],
   [cols |-> 2, rows |-> 2, lines |-> <<<<A, B>>, <<K, K>>>>]}
MCFinds ==
  [pattern : {<<"a", "b">>, <<"w1", "w2">>, <<"a", " ", "b">>, <<"a">>, <<"a", "^", "b">>,
              <<"w1", "w2", "a">>},
   selection : {"", "first", "last", "2", "0"}]

G == [kind |-> "click", point |-> <<0, 0>>, from |-> <<0, 0>>, to |-> <<0, 0>>,
      button |-> "none", modifiers |-> <<>>, direction |-> "none", ticks |-> 0]
Points == (0 .. 4) \X (0 .. 2)
Outside == {<<-1, 0>>, <<5, 0>>, <<0, 3>>}
MCGestures ==
  {[G EXCEPT !.kind = k, !.point = p] :
     k \in {"click", "hover"}, p \in {<<0, 0>>, <<1, 1>>, <<4, 2>>} \cup Outside}
  \cup {[G EXCEPT !.button = b, !.modifiers = m] :
          b \in {"right", "wheel-up"}, m \in {<<>>, <<"shift">>, <<"alt", "alt">>}}
  \cup {[G EXCEPT !.kind = "scroll", !.direction = "up", !.point = <<1, 1>>, !.ticks = n, !.modifiers = m] :
          n \in 0 .. MaxScrollTicks + 1, m \in {<<>>, <<"shift">>}}
  \cup {[G EXCEPT !.kind = "scroll", !.ticks = 1], [G EXCEPT !.ticks = 1], [G EXCEPT !.kind = "none"]}
  \cup {[G EXCEPT !.kind = "drag", !.from = p, !.to = q] :
          p \in {<<0, 0>>, <<2, 1>>, <<4, 2>>}, q \in Points}
  \cup {[G EXCEPT !.kind = "drag", !.from = p, !.to = <<1, 1>>] : p \in Outside}
  \cup {[G EXCEPT !.kind = "drag", !.from = <<1, 0>>, !.to = <<1, 1>>, !.modifiers = <<"ctrl">>]}

\* Rectangles on the screen, across its edges, and with the largest ints.
MCViewScreens ==
  {[cols |-> 3, rows |-> 2, marked |-> m] :
     m \in {{}, {<<0, 0>>}, {<<1, 0>>, <<1, 1>>, <<2, 0>>, <<2, 1>>}, (0 .. 2) \X (0 .. 1)}}
MCRects ==
  [x : {-IntMax - 1, -1, 0, 1, 2, IntMax}, y : {-IntMax - 1, 0, 1, IntMax},
   w : {-IntMax - 1, 0, 1, 2, IntMax - 1, IntMax}, h : {0, 1, IntMax}]
=============================================================================
