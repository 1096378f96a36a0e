------------------------------ MODULE MCPrograms ------------------------------
(* Instances of the programs' inputs for TLC.                               *)
EXTENDS Programs

MCMessages == {-40000, -3, 0, 2, 101, 10403, 15000}

MCKeys == {ExampleKey, [k \in 1 .. 40 |-> (7 * k) % 17], <<1, 2, 3>>}
MCTexts ==
  {<<>>, <<255>>, ExampleText, [k \in 1 .. 16 |-> k], [k \in 1 .. 31 |-> 200 + k],
   [k \in 1 .. 32 |-> 37]}

\* Lines of up to 3 characters around one that fgets() reads in two parts; a
\* file with more words than the table holds, some of them again after that.
Strings == BoundedSeq({0, 1, 2}, 3)
MCDocs ==
  {<<l, <<1, 0, 2, 0, 1>>, m>> : l \in Strings, m \in BoundedSeq({0, 1, 2}, 2)}
    \cup {<<<<1, 2, 0, 1, 1, 0, 2, 2>>, <<2, 0, 0, 2, 1>>, <<1, 1>> >>,
          <<<<1, 0, 2, 0>>, <<0, 1, 1>>, <<2, 2, 0, 2>>, <<2, 2, 0, 1>>, <<2>> >>,
          <<<<1, 0, 1, 0, 1, 0, 1, 0, 1>>, <<2>>, <<1, 2>> >>}

MCMails ==
  {Written(at, dot, u) : at \in AtNotations, dot \in DotNotations, u \in UnderscoreNotations}
    \cup {h \o Written(<<" ", "AT", " ">>, <<" ", "DOT", " ">>, u) :
            h \in Headings, u \in UnderscoreNotations}
    \cup {<<>>, <<"10", ".">>, <<"-", " ">>,
          <<"ann", "(", "at", "the", "rate", ")", "gm", " ", "com">>,
          <<"ann", "@", "gm", "l", ".", "com">>,
          <<"ann", " ", "at", " ", "gm", "l", " ", "dot", " ", "com">>,
          <<"look", " ", "at", " ", "me", ".">>,
          <<"ann", "@", "x", "_", "y", ".", "com", ",", "lee", "@", "gm", "ai", "l", ".",
            "com", "7">>,
          <<"in", " ", "google", " ", "mail", " ", "gm", "ai", " ", "gm", " ", "gm", "l",
            " ", "dot", " ", "com", " ", "at", " ", "at", " ", "@", "@", " ", "x", ".", ".">>}

\* Verbs shorter than the buffer, as long as it, and longer.
MCVerbs ==
  [t \in DOMAIN ThirdPerson |-> ThirdPerson[t].verb]
    \o << <<"b", "o", "x">>, <<"t", "e", "a", "c", "h">>, <<"c", "a", "r", "r", "y">>,
          <<"j", "u", "s", "t", "i", "f", "y">>, <<"m", "a", "g", "n", "i", "f", "y">>,
          <<"e", "x", "e", "r", "c", "i", "s", "e">>,
          <<"y">>, <<"u", "n", "d", "e", "r", "g", "o">>,
          <<"m", "u", "l", "t", "i", "p", "l", "y">> >>

MCRequests ==
  {<<"GET">> \o hs \o <<"">> \o bd :
     hs \in BoundedSeq({"Host: a", "Accept: b", "junk"}, 3),
     bd \in BoundedSeq({"", "text", "k: v"}, 2)}
    \cup {<<"GET">>, <<"GET", "Host: a">>}
MCWithColon == {"Host: a", "Accept: b", "k: v"}
===============================================================================
