--------------------------- MODULE MCTraceBundle ---------------------------
EXTENDS TraceBundle

MCScreens == {<<0, 2>>, <<2, 2>>, <<4, 1>>, <<4, 2>>}

MCPCAP(bytes, packets) ==
  [regular |-> TRUE, header |-> TRUE, bytes |-> bytes, packets |-> packets, snapLen |-> 2]
MCPacket(included, original, present) ==
  [included |-> included, original |-> original, present |-> present]
MCPCAPs ==
  {MCPCAP(3, <<>>), MCPCAP(5, <<MCPacket(2, 2, 2)>>), MCPCAP(5, <<MCPacket(2, 2, 1)>>),
   MCPCAP(5, <<MCPacket(2, 1, 2)>>), MCPCAP(6, <<MCPacket(1, 2, 1), MCPacket(2, 2, 2)>>),
   MCPCAP(5, <<MCPacket(3, 3, 3)>>), MCPCAP(9, <<>>), [MCPCAP(3, <<>>) EXCEPT !.header = FALSE]}
MCMeta ==
  [format : BOOLEAN, byteLimit : {0, 6, 9}, captured : {-1, 3, 5, 7}, count : {-1, 0, 1},
   truncated : BOOLEAN, status : {"complete", "truncated"}]

\* What a run ends with: the runner may have failed, or staged no file.
MCCaptures ==
  {NoCapture} \cup
  [failed : {FALSE}, byteLimit : {0, 6, 9}, captured : {-1, 3, 5, 7}, count : {-1, 0, 1},
   truncated : BOOLEAN, pcap : MCPCAPs]
  \cup [failed : BOOLEAN, byteLimit : {6}, captured : {3}, count : {0}, truncated : {FALSE},
        pcap : {[MCPCAP(3, <<>>) EXCEPT !.regular = FALSE], MCPCAP(3, <<>>)}]

\* Bundles something else left: a sound one with one part of it replaced.
MCManifest == [known |-> TRUE, cols |-> 2, rows |-> 2, termios |-> {Captured}, network |-> NoCapture]
MCBundle ==
  [entries |-> <<Entry(Manifest, 1), Entry(Events, 5)>>, manifest |-> MCManifest,
   lines |-> <<Line(0, "output", 1, 0, 0, 0)>>, pcap |-> NoCapture]

MCEntries ==
  [name : {Manifest, Events, Stream, "other", "unsafe"}, size : {0, 1, 4, 15, 16}, regular : {TRUE}]
    \cup {[name |-> Events, size |-> 1, regular |-> FALSE]}
MCArchives ==
  {[MCBundle EXCEPT !.entries = e] :
     e \in UNION {[1 .. n -> MCEntries] : n \in 0 .. 2}
             \cup {<<Entry(Manifest, 1), Entry(Events, 1), a, b>> : a \in MCEntries, b \in MCEntries}
             \cup {<<Entry(Manifest, 1), Entry(Events, 1), Entry("other", 0), Entry("other", 0), Entry("other", 0)>>}}

MCTermios ==
  {{[status |-> st, chars |-> n, error |-> e]} :
     st \in {"captured", "unavailable", "other"}, n \in {-1, 0, 19, 65}, e \in BOOLEAN}
MCManifests ==
  {[MCBundle EXCEPT !.manifest = [MCManifest EXCEPT !.known = k, !.cols = s[1], !.rows = s[2],
                                                    !.termios = t]] :
     k \in BOOLEAN, s \in MCScreens \cup {<<6, 0>>}, t \in MCTermios}

MCForeignLines ==
  {[Line(t, "output", n, 0, 0, 0) EXCEPT !.form = f] :
     t \in {-1, 0, 1}, n \in {0, 1, 3, 6}, f \in {"good", "unparsed"}}
  \cup {Line(1, "resize", 0, s[1], s[2], 0) : s \in MCScreens}
  \cup {Line(1, "marker", 0, 0, 0, n) : n \in {0, 3}}
  \cup {Line(1, "other", 0, 0, 0, 0),
        [Line(0, "output", 0, 0, 0, 0) EXCEPT !.form = "blank"],
        [Line(0, "output", 0, 0, 0, 0) EXCEPT !.form = "headless"],
        [Line(0, "output", 3, 0, 0, 0) EXCEPT !.form = "undecoded"]}
MCLogs ==
  {[MCBundle EXCEPT !.lines = l] :
     l \in UNION {[1 .. n -> MCForeignLines] : n \in 0 .. 3}
            \cup [1 .. 4 -> {Line(0, "exit", 0, 0, 0, 0), Line(1, "exit", 0, 0, 0, 0)}]}

MCNetworks ==
  {[MCBundle EXCEPT !.entries = @ \o (IF s THEN <<Entry(Stream, 5)>> ELSE <<>>),
                    !.manifest.network = m, !.pcap = p] :
     s \in BOOLEAN, m \in MCMeta \cup {NoCapture}, p \in MCPCAPs}

MCForeign == {MCBundle} \cup MCArchives \cup MCManifests \cup MCLogs \cup MCNetworks

\* A bundle is only read, a capture only attached to a short recording, and
\* recordings are made over nothing or over the sound bundle.
MCInit ==
  \/ \E c \in Captures, b \in {Nothing, MCBundle} : Started(c, b)
  \/ \E b \in Foreign : Started(NoCapture, b)
MCNext ==
  /\ before \in {Nothing, MCBundle}
  /\ Next
  /\ capture # NoCapture => Len(lines') <= 1 /\ now' = 0
MCSpec == MCInit /\ [][MCNext]_vars
=============================================================================
