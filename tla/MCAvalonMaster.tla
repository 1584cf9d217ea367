---------------------------- MODULE MCAvalonMaster ----------------------------
(***************************************************************************)
(* Requests for TLC: reads of three addresses, and two writes.             *)
(***************************************************************************)
EXTENDS AvalonMaster

Requests == [command : {"Read"}, addr : {0, 1, 2}] \cup [command : {"Write"}, addr : {0, 1}]
=============================================================================
