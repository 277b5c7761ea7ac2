--------------------------- MODULE DeliveryStream ---------------------------
(***************************************************************************)
(* What a subscription promises its client, whatever happens underneath:  *)
(* a single stream that is only ever extended at its end, read in order   *)
(* from its beginning, and cut off once, after which it never grows.      *)
(* What has been read is never rewritten.                                 *)
(***************************************************************************)
EXTENDS Naturals, Sequences

CONSTANT Item      \* deliveries: records whose field n is the offer order

VARIABLES stream,  \* everything accepted and not withdrawn
          got,     \* how much of it the client has read
          open     \* further deliveries may be accepted

vars == <<stream, got, open>>

Init == stream = <<>> /\ got = 0 /\ open = TRUE

\* The server accepts one more delivery, newer than every earlier one.
Accept ==
  /\ open
  /\ Len(stream') = Len(stream) + 1
  /\ stream' \in Seq(Item)
  /\ \A i \in 1..Len(stream) : /\ stream'[i] = stream[i]
                               /\ stream[i].n < stream'[Len(stream) + 1].n
  /\ UNCHANGED <<got, open>>

\* The client reads the next one.
Deliver ==
  /\ got < Len(stream)
  /\ got' = got + 1
  /\ UNCHANGED <<stream, open>>

\* The loaded scrollback already showed some of it: those go, in place, and
\* only while the client has read nothing.
Withdraw ==
  /\ got = 0
  /\ stream' \in Seq(Item)
  /\ \E f \in [1..Len(stream') -> 1..Len(stream)] :
       /\ \A i, j \in 1..Len(stream') : i < j => f[i] < f[j]
       /\ \A i \in 1..Len(stream') : stream'[i] = stream[f[i]]
  /\ UNCHANGED <<got, open>>

\* The connection closes: what was not sent is dropped from the end.
Close ==
  /\ open' = FALSE
  /\ \E k \in got..Len(stream) : stream' = SubSeq(stream, 1, k)
  /\ UNCHANGED got

Next == Accept \/ Deliver \/ Withdraw \/ Close

Spec == Init /\ [][Next]_vars
=============================================================================
