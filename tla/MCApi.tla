-------------------------------- MODULE MCApi --------------------------------
(***************************************************************************)
(* Model-checking run of Api: its constants are given in the cfg.          *)
(***************************************************************************)
EXTENDS Api
=============================================================================
