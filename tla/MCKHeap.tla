------------------------------ MODULE MCKHeap ------------------------------
(***************************************************************************)
(* KHeap on a heap of a few blocks; the cfg file gives its constants.      *)
(***************************************************************************)
EXTENDS KHeap
=============================================================================
