---------------------------- MODULE MCJsonParam ----------------------------
(***************************************************************************)
(* Small instances of JsonParam: objects, arrays and scalars of up to two  *)
(* items, quoted in each way or not, with blanks, over-long, empty, nested *)
(* and with separators inside quotes; and every body of up to MCLength     *)
(* bytes over the characters the reader tells apart.                       *)
(***************************************************************************)
EXTENDS JsonParam, TLC

MCLength == 3
MCWild == {"{", "}", "[", "]", ":", ",", "'", "a"}
MCBytes == MCWild \cup Space \cup Quotes \cup {"b"} \cup {Digit[i] : i \in 1..10}
MCBodies == UNION { [1..n -> MCWild] : n \in 0..MCLength }
            \cup { <<"a", NUL, "b">>, <<"[", "a", ",", "b", "sp", "]", "sp">> }
MCNoBodies == {}

\* A name or a value: how it is written and what it is.
Bare(s) == [text |-> s, value |-> s, nested |-> FALSE]
Quoted(q, s) == [text |-> <<q>> \o s \o <<q>>, value |-> s, nested |-> FALSE]
Nested(s) == [text |-> s, value |-> s, nested |-> TRUE]
Spaced(v) == [v EXCEPT !.text = <<"sp">> \o v.text \o <<"sp">>]

MCNames == { Quoted("\"", <<"a", "b", "a">>), Spaced(Quoted("'", <<"a", ":">>)) }
MCValues == { Bare(<<"b">>), Spaced(Quoted("\"", <<"a", "sp", "'">>)),
              Quoted("'", <<>>), Quoted("'", <<"b", ":", "b", "\"">>),
              Quoted("\"", <<"a", ",", "b">>), Quoted("'", <<"}">>),
              Nested(<<"[", "a", ",", "b", "]">>), Nested(<<"{", "a", ":", "b", "}">>) }

Member(n, v) == [name |-> n.value, value |-> v.value, nested |-> v.nested,
                 text |-> n.text \o <<":">> \o v.text]
Element(v) == [name |-> <<>>] @@ v
Members == { Member(n, v) : n \in MCNames, v \in MCValues }
Elements == { Element(v) : v \in MCValues }

\* No item, one, or one and a second that is simple.
Items(S, second) == { <<>> } \cup { <<x>> : x \in S } \cup { <<x, second>> : x \in S }
MCObjects == { [open |-> <<"{">>, close |-> <<"}">>, items |-> s] :
               s \in Items(Members, Member(Bare(<<"b">>), Bare(<<"a">>))) }
MCArrays == { [open |-> <<"[">>, close |-> <<"]">>, items |-> s] :
              s \in Items(Elements, Element(Spaced(Bare(<<"a">>)))) }
MCScalars == { [open |-> <<>>, close |-> <<>>, items |-> <<e>>] :
               e \in { e \in Elements : ~e.nested } }
MCDocuments == MCObjects \cup MCArrays \cup MCScalars
=============================================================================
