---------------------------- MODULE InOrderService ----------------------------
(***************************************************************************)
(* What a bus slave promises its master: requests are served one at a      *)
(* time, each exactly once, in the order in which the master issued them.  *)
(* A step is one clock cycle, in which one request at most is served and   *)
(* one at most is issued; how long a request waits is left open.           *)
(***************************************************************************)
EXTENDS Sequences

CONSTANTS Request, Nothing

VARIABLES queue,    \* the requests issued and not served, oldest first
          issued,   \* the request issued in this cycle, or Nothing
          served    \* the request served in the last cycle, or Nothing

vars == <<queue, issued, served>>

Init == queue = <<>> /\ issued = Nothing /\ served = Nothing

\* The request that the master issues, if any, goes to the end.
New == IF issued' = Nothing THEN <<>> ELSE <<issued'>>

Wait == /\ served' = Nothing
        /\ queue' = queue \o New

Serve == /\ queue # <<>>
         /\ served' = Head(queue)
         /\ queue' = Tail(queue) \o New

Next == issued' \in Request \cup {Nothing} /\ (Wait \/ Serve)

Spec == Init /\ [][Next]_vars
=============================================================================
