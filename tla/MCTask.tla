------------------------------- MODULE MCTask -------------------------------
(***************************************************************************)
(* Task on small instances; the cfg files give its constants.              *)
(***************************************************************************)
EXTENDS Task
=============================================================================
