----------------------------- MODULE MCFdTable -----------------------------
(***************************************************************************)
(* FdTable with a file of two clusters that ends inside the second, and a  *)
(* directory of three entries; a cluster is two sectors of two bytes.      *)
(***************************************************************************)
EXTENDS FdTable

MCFiles    == {"file", "dir"}
MCSize     == [f \in MCFiles |-> IF f = "file" THEN 7 ELSE 0]
MCClusters == [f \in MCFiles |-> IF f = "file" THEN 2 ELSE 1]
MCEntries  == [f \in MCFiles |-> IF f = "file" THEN 0 ELSE 3]
=============================================================================
