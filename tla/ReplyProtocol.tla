---------------------------- MODULE ReplyProtocol ----------------------------
(***************************************************************************)
(* What attoHTTP promises a client about the shape of replies: one         *)
(* exchange at a time, and in each exchange exactly one status line and at *)
(* most one block of headers, which follows the status line.  The body may *)
(* come in any number of pieces.                                           *)
(***************************************************************************)
EXTENDS Naturals, Sequences

VARIABLES
  open,   \* an exchange is under way
  reply   \* the parts sent in the current, or the last, exchange

Kinds == {"status", "headers", "body"}

\* No part but the body is repeated, and headers come after the status line.
Legal(s) ==
  /\ \A i, j \in DOMAIN s : s[i] = s[j] /\ s[i] # "body" => i = j
  /\ \A j \in DOMAIN s :
       s[j] = "headers" => \E i \in 1..j - 1 : s[i] = "status"

HasStatus(s) == \E i \in DOMAIN s : s[i] = "status"

Extends(s, t) ==
  /\ Len(s) <= Len(t)
  /\ \A i \in DOMAIN s : t[i] = s[i]

Init == open = FALSE /\ reply = <<>>

Open == ~open /\ open' /\ reply' = <<>>

Emit == open /\ open' /\ Extends(reply, reply') /\ Legal(reply')

Close ==
  open /\ ~open' /\ Extends(reply, reply') /\ Legal(reply') /\ HasStatus(reply')

\* The server is initialised again between two exchanges.
Restart == ~open /\ ~open' /\ reply' = <<>>

Next == Open \/ Emit \/ Close \/ Restart

Spec == Init /\ [][Next]_<<open, reply>>
=============================================================================
