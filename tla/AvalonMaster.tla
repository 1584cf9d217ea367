----------------------------- MODULE AvalonMaster -----------------------------
(***************************************************************************)
(* The Avalon-MM master port, mkAvalonMaster of AvalonMaster.bsv, wired to *)
(* the slave port of AvalonSlave.  A client puts requests and gets the     *)
(* answers of its reads; behind the slave, each request is served after    *)
(* any delay.  A step is one clock cycle.                                  *)
(*                                                                         *)
(* The FIFOs of the master hold one entry and can be passed in no time: a  *)
(* request is on the wires in the cycle in which it is put, and stays there*)
(* until ackReq removes it; that is how `wires' changes.  An answer can be *)
(* got in the cycle in which it comes; respFIFO holds it when it is not.   *)
(* No rule holds back the slave when respFIFO is full.                     *)
(***************************************************************************)
EXTENDS AvalonSlave

VARIABLES client,     \* the kind of client, see handleReq and MasterCycle
          respFIFO,   \* the answer that the client has not got, or Nothing
          got         \* history: the answer it got in the last cycle, or Nothing

masterVars == <<wires, awaiting, reqFIFO, issued, client, respFIFO, got>>

\* An eager client gets each answer in the cycle in which it comes, a single one
\* has one read at a time.
Clients == {"eager", "single"}

IsRead(r) == r # Nothing /\ r.command = "Read"

\* Mutant: the request is dropped even if the slave cannot take it.
ackReqAlways == TRUE

ackReq == ~waitrequest

\* The client puts a request, or none, into an empty reqFIFO; handleReq shows
\* the FIFO on the wires.
handleReq ==
  IF wires # Nothing /\ ~ackReq
  THEN wires' = wires /\ issued' = Nothing
  ELSE /\ wires' \in Request \cup {Nothing}
       /\ IsRead(wires') => ~(client = "single" /\ awaiting')
       /\ issued' = wires'

\* Mutant: an answer overwrites the one that waits.
handleRespOver(answer) == answer

\* What the client finds in respFIFO, if the slave answers in this cycle.  The
\* rule does not fire when the FIFO is full: the answer is lost.
handleResp(answer) == IF respFIFO = Nothing THEN answer ELSE respFIFO

\* A request is served or not, and a read that is served is answered in the
\* same cycle.  An answer stands for the read that it belongs to.
MasterCycle(serve) ==
  LET answer == IF serve /\ IsRead(Head(reqFIFO)) THEN Head(reqFIFO) ELSE Nothing
      there == handleResp(answer)
  IN  /\ serve => reqFIFO # <<>>
      /\ QueueEdge(serve)
      /\ \/ there # Nothing /\ got' = there /\ respFIFO' = Nothing
         \/ (client = "eager" => there = Nothing) /\ got' = Nothing /\ respFIFO' = there
      /\ awaiting' = \/ Accepted /\ IsRead(wires)
                     \/ awaiting /\ got' = Nothing
      /\ handleReq
      /\ UNCHANGED client

MasterInit == BusInit /\ client \in Clients /\ respFIFO = Nothing /\ got = Nothing

MasterNext == \E serve \in BOOLEAN : MasterCycle(serve)

MasterSpec == MasterInit /\ [][MasterNext]_masterVars

FairMasterSpec == /\ MasterSpec
                  /\ WF_masterVars(MasterNext)
                  /\ SF_masterVars(reqFIFO # <<>> /\ MasterCycle(TRUE))
                  /\ SF_masterVars(MasterNext /\ got' # Nothing)

-----------------------------------------------------------------------------
ReadOf(r) == IF IsRead(r) THEN <<r>> ELSE <<>>

\* The reads among the requests that the slave holds, which are Depth at most.
Reads(s) == (IF Len(s) > 0 THEN ReadOf(s[1]) ELSE <<>>)
            \o (IF Len(s) > 1 THEN ReadOf(s[2]) ELSE <<>>)

\* The bus with both ports serves reads in order, each once.
ClientView == INSTANCE InOrderService
  WITH queue <- (IF respFIFO = Nothing THEN <<>> ELSE <<respFIFO>>) \o Reads(reqFIFO)
                \o ReadOf(wires),
       issued <- IF IsRead(issued) THEN issued ELSE Nothing, served <- got

\* Every read is answered to the client, in order and with its own answer, if
\* the client is one of the two kinds that the port can serve: nothing is lost
\* between the ports although neither FIFO of the master can refuse.
ReadsServedInOrder == ClientView!Spec

\* The answers do come.
EveryReadAnswered == IsRead(wires) ~> got # Nothing
=============================================================================
