---------------------------- MODULE MCTermDecoder ----------------------------
(* Instances of TermDecoder for TLC. *)
EXTENDS TermDecoder

\* Every kind at the first address, what hangs below it at the second, lists and a
\* binary at the third.
MCShape == <<{"none", "cons", "tuple", "flatmap", "hashmap", "sub"},
             {"none", "cons", "node"},
             {"none", "cell", "heapbin"}>>

MCFun(uniq) == <<"fun", <<97>>, <<"integer", 300>>, uniq>>
MCScalars == {Nil, <<"integer", 7>>, <<"integer", -2>>, <<"integer", 300>>, Atom(<<97, 98>>),
              Binary(<<1, 2>>), Binary(<<>>), <<"bigint", TRUE, <<1, 255>> >>,
              <<"bigint", FALSE, <<>> >>, Float(Zeros(8)), Float(Zeros(31)),
              <<"ref", 3, <<1, 2>> >>, <<"ref", 3, <<258>> >>,
              <<"pid", <<110>>, <<1, 2>>, 3>>, <<"port", <<110>>, <<258>>, 3>>,
              <<"export", <<97>>, <<98>>, 2>>,
              <<"old_fun", <<97>>, <<"integer", 300>>, <<"bigint", FALSE, <<1>> >> >>}
MCFuns == {MCFun(<<"integer", 300>>), MCFun(<<"bigint", FALSE, <<1>> >>)}
MCForeign ==
  LET one == <<"integer", 7>>  bytes == ConsCell(one, ConsCell(<<"integer", 255>>, Nil))
  IN  MCScalars \cup MCFuns \cup {Tuple(<<>>), <<"map", <<>> >>, bytes}
      \cup {Tuple(<<s, Nil>>) : s \in MCScalars \cup {bytes}}
      \cup {ConsCell(s, ConsCell(Nil, one)) : s \in MCScalars \cup {bytes}}
      \cup {ConsCell(s, ConsCell(one, Nil)) : s \in {Nil, one, <<"integer", 300>>}}
      \cup {<<"map", << <<Nil, s>>, <<Nil, Nil>> >> >> : s \in MCScalars \cup {bytes}}
      \cup {Tuple(<<ConsCell(Nil, Nil), <<"map", << <<Nil, Tuple(<<Nil>>)>> >> >> >>)}
      \cup {Tuple(<<MCFun(<<"integer", 300>>), one>>)}
=============================================================================
