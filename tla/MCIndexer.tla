------------------------------ MODULE MCIndexer ------------------------------
(* Indexer with its constants from the configuration files: TLC takes the   *)
(* loop and the requests as model values.                                   *)
EXTENDS Indexer
=============================================================================
