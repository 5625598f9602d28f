---------------------------- MODULE MCCommandLine ----------------------------
(***************************************************************************)
(* Command lines made of phrases: all of up to three of them, and the      *)
(* complete commands with one more phrase somewhere in between.            *)
(***************************************************************************)
EXTENDS CommandLine

MCWords == Names \cup {"a", "b", "pkg.rpm"}

MCPackageName == [w \in {"pkg.rpm"} |-> "a"]

Phrases == {<<>>, <<"--help">>, <<"--version">>, <<"put">>, <<"get">>, <<"apply">>, <<"b">>,
            <<"-n", "a">>, <<"-n", "b">>, <<"-n">>, <<"-k", "a">>, <<"-v", "b">>,
            <<"-v", "--help">>, <<"-f", "b">>, <<"-p", "pkg.rpm">>, <<"-p", "b">>,
            <<"-h", "b">>, <<"-x">>}

Complete == {<<c, "-n", "a", "-k", "a", "-v", "b">> : c \in {"put", "def"}}
            \cup {<<"get", "-n", "a", "-k", "a">>, <<"apply", "-n", "a", "-f", "b">>,
                  <<"apply", "-p", "pkg.rpm", "-f", "b">>}

\* s with the phrase ph between two of its own: its phrases end at 0, 1, 3, 5, ...
Extended(s, ph) == {SubSeq(s, 1, i) \o ph \o SubSeq(s, i + 1, Len(s)) :
                      i \in {j \in 0 .. Len(s) : j = 0 \/ j % 2 = 1}}

MCCommandLines == {a \o b \o c : a, b, c \in Phrases}
                  \cup UNION {Extended(s, ph) : s \in Complete, ph \in Phrases}

\* What the loop of __without_globals keeps is what SelectSeq would.
ASSUME WithoutGlobalsSelects ==
  \A line \in MCCommandLines :
     WithoutGlobals(line) = SelectSeq(line, LAMBDA a : a \notin Globals)
=============================================================================
