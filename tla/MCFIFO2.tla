------------------------------- MODULE MCFIFO2 -------------------------------
(* FIFO2 with words of two bits: four words, so that the merge of two of   *)
(* them is a third one.                                                    *)
EXTENDS FIFO2

=============================================================================
