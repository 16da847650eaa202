------------------------------ MODULE MCBidding ------------------------------
(* Bidding with its constants from the configuration file.                  *)
EXTENDS Bidding
=============================================================================
