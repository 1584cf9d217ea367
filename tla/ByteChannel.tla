----------------------------- MODULE ByteChannel -----------------------------
(***************************************************************************)
(* What a direction of the JTAG UART promises: bytes come out as they went *)
(* in, none lost, none twice, and no more than Capacity of them are under  *)
(* way.  What a call offers may be accepted in part; the rest of it goes    *)
(* when the call ends, never before.                                       *)
(***************************************************************************)
EXTENDS Integers, Sequences

CONSTANTS Byte, Capacity

VARIABLES calling,    \* the sender is in a call
          offered,    \* what the sender still has to hand over
          queue,      \* what is under way
          delivered   \* what the receiver has just got

vars == <<calling, offered, queue, delivered>>

First(s, m) == SubSeq(s, 1, m)
After(s, m) == SubSeq(s, m + 1, Len(s))

Init == calling = FALSE /\ offered = <<>> /\ queue = <<>> /\ delivered = <<>>

Offer == /\ ~calling /\ calling'
         /\ offered' \in Seq(Byte)
         /\ UNCHANGED <<queue, delivered>>

Withdraw == /\ calling /\ ~calling'
            /\ offered' = <<>>
            /\ UNCHANGED <<queue, delivered>>

Accept == \E m \in 1 .. Len(offered) :
            /\ Len(queue) + m <= Capacity
            /\ queue' = queue \o First(offered, m)
            /\ offered' = After(offered, m)
            /\ calling' => calling
            /\ UNCHANGED delivered

Deliver == \E m \in 1 .. Len(queue) :
             /\ delivered' = First(queue, m)
             /\ queue' = After(queue, m)
             /\ UNCHANGED <<calling, offered>>

\* The receiver makes use of what it got.
Use == delivered' = <<>> /\ UNCHANGED <<calling, offered, queue>>

Next == Offer \/ Withdraw \/ Accept \/ Deliver \/ Use

Spec == Init /\ [][Next]_vars
=============================================================================
