------------------------------ MODULE MCServer ------------------------------
(***************************************************************************)
(* Small instances of Server.  URLs are built from "/", "a" and "f"; the   *)
(* buffers are 5 and 3 bytes, so that tokens overflow both.                *)
(***************************************************************************)
EXTENDS Server

MCChars == {"/", "a", "b", "f"}
MCFaviconUrl == <<"/", "f">>

\* Registered URLs: two that agree as far as a page keeps them, one of them
\* too long for it; and one that is shorter.
MCRegUrls == { <<"/", "a", "a">>, <<"/", "a", "a", "b">> }
MCFewUrls == { <<"/", "a">> }

\* Requested: the root, with and without a query, a page, a longer URL, and
\* one that overflows the buffer.
MCTokens == { <<"/">>, <<"/", "?">>, <<"/", "a">>, <<"/", "a", "a">>,
              <<"/", "a", "a", "b", "b">> }
MCFewTokens == { <<"/">>, <<"/", "a">>, <<"/", "b", "/", "?">>, <<"b">> }

\* Pages compare the method with GET only; every other method is alike.
MCMethods == {"GET", "POST"}

MCCodes == {1, 202, 401, 510, 12345}
MCNoCodes == {200}
MCOneType == {2}
=============================================================================
