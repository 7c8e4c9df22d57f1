----------------------------- MODULE MessageFeed -----------------------------
(***************************************************************************)
(* What request() promises, without octets, records or segments: it hands  *)
(* out the handshake messages the server meant, each once and in order,    *)
(* and stops at some point, after which it hands out nothing.              *)
(***************************************************************************)
EXTENDS Naturals, Sequences

VARIABLES
  msgs,   \* the messages the server meant
  handed, \* those handed out so far
  open    \* the client is still running

Init ==
  /\ handed = <<>>
  /\ open = TRUE

\* The last message may end the client: ServerHelloDone does.
Hand ==
  /\ open
  /\ Len(handed) < Len(msgs)
  /\ handed' = Append(handed, msgs[Len(handed) + 1])
  /\ open' \in BOOLEAN
  /\ UNCHANGED msgs

Close ==
  /\ open
  /\ open' = FALSE
  /\ UNCHANGED <<msgs, handed>>

Next == Hand \/ Close

Spec == Init /\ [][Next]_<<msgs, handed, open>>
=============================================================================
