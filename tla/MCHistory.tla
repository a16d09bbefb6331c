------------------------------ MODULE MCHistory ------------------------------
(***************************************************************************)
(* The instances of MCReplicas, with the history variable.                 *)
(***************************************************************************)
EXTENDS MCReplicas, AccessDBHistory
==============================================================================
