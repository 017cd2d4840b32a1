----------------------------- MODULE MCStartup -----------------------------
(* A good set of files, and the same with one file replaced. *)
EXTENDS Startup, TLC

MCKey == {"port", "MAL", "MA", "PMA", "a1", "a2", "1", "p", "x", "y", "z",
          "overlong", "longest", Comment, NoKey, Blank}
MCKnown == {"port", "MAL", "MA"}
MCDefault == "port" :> 9999 @@ "MAL" :> 4 @@ "MA" :> 5

\* Keys of 20 to 63 characters, and of 64 or more.
MCTooLong == "agents" :> {"overlong", "longest"} @@ "rooms" :> {} @@ "beacons" :> {"longest"}

Line(k, v) == [key |-> k, vals |-> v]
Remark == Line(Comment, <<>>)

Good == [conf   |-> <<Line("MAL", <<2>>)>>,
         agents |-> <<Line("a1", <<1, 50, 97, 1>>), Remark, Line("a2", <<2, 50, 361, 2>>)>>,
         rooms  |-> <<Line("1", <<180, 2, 90, 1>>)>>,
         beacons |-> <<Line("p", <<7, 8>>)>>]

ConfFiles == {
  <<>>, Missing,
  <<Line("port", <<8888>>), Line("MAL", <<2>>), Remark, Line("MAL", <<3>>)>>,
  <<Line("MAL", <<0>>), Line("PMA", <<10>>)>>,
  <<Line("MAL", <<-1>>), Line("port", <<7777>>)>>,
  <<Line("MA", <<7>>), Line(NoKey, <<>>), Line("MA", <<5>>), Line("MA", <<6>>)>>,
  <<Line("MAL", <<2>>), Line(Blank, <<>>)>>}

\* Empty, missing, with a line too short, too long, without a key or with blanks
\* for one, with keys too long for an id, and twice the same line.
ParameterFiles == {
  <<>>, Missing,
  <<Line("x", <<1, 2, 3, 4>>), Line("y", <<>>)>>,
  <<Line("x", <<1, 2, 3>>)>>,
  <<Line("x", <<1, 2, 3, 4, 5>>), Line("x", <<1, 2, 3, 4, 5>>), Line("z", <<6, 7, 8, 9>>)>>,
  <<Line(NoKey, <<>>), Line("x", <<4, 3, 2, 1>>), Remark>>,
  <<Line("x", <<1, 2, 3, 4>>), Line(Blank, <<>>)>>,
  <<Line("overlong", <<1, 2, 3, 4>>)>>,
  <<Line("x", <<1, 2, 3, 4>>), Line("longest", <<5, 6, 7, 8>>)>>}

MCConfigurations ==
  {Good} \cup {[Good EXCEPT !.conf = c] : c \in ConfFiles}
         \cup {[Good EXCEPT ![f] = c] : f \in DataFile, c \in ParameterFiles}

MCOptions == {[kind |-> "none"], [kind |-> "port", port |-> 8000],
              [kind |-> "help"], [kind |-> "unknown"]}
=============================================================================
