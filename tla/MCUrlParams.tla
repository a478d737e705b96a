---------------------------- MODULE MCUrlParams ----------------------------
(***************************************************************************)
(* Small instances of UrlParams: queries of up to five bytes behind "/?":  *)
(* no parameter, one, two, empty and over-long ones, stray separators, and *)
(* escapes that are whole, cut or decode to a separator.                   *)
(***************************************************************************)
EXTENDS UrlParams

MCBytes == {"/", "?", "a", "=", "&", "%", "2", "6", "x", "sp", "\n"}
Plain == { <<>>, <<"a">>, <<"a", "=">>, <<"=", "a", "&">>, <<"&", "a", "=", "a">>,
           <<"a", "=", "&", "a", "=">>, <<"a", "=", "a", "&", "a">>,
           <<"a", "=", "a", "a", "&">>, <<"a", "a", "a", "=", "a">> }
Escapes == { <<"a", "=", "%", "2", "6">>, <<"%", "2", "6", "=", "a">>,
             <<"a", "=", "a", "%", "2">>, <<"a", "=", "a", "a", "%">> }
MCTokens == { <<"/", "?">> \o q : q \in Plain \cup Escapes }
            \cup { <<"/", "a">>, <<"/", "?", "a", "=", "?", "a", "=", "a">> }
MCPostTokens == { <<"/", "a">> }
MCBodies == { <<>>,
              <<"\n", "a", "=", "a", "a", "&", "a", "=", "%", "2", "6">>,
              <<"\n", "a", "=", "sp", "a", "&", "?", "a", "=">>,
              <<"=", "a", "&", "%", "sp">> }
Hexits == {"a", "2", "6"}

\* "%26" is "&"; without a hexadecimal digit strtol returns 0.
MCDecoded ==
  [p \in (MCBytes \cup {NUL}) \X (MCBytes \cup {NUL}) |->
     IF p = <<"2", "6">> THEN "&"
     ELSE IF p[1] \in Hexits THEN "x" ELSE NUL]
=============================================================================
