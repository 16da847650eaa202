------------------------------ MODULE MCTimeline ------------------------------
(***************************************************************************)
(* Model-checking run of Timeline: its constants are given in the cfg.     *)
(***************************************************************************)
EXTENDS Timeline
=============================================================================
