------------------------------ MODULE MCRelayer ------------------------------
(***************************************************************************)
(* Bounds of the model-checking runs of Relayer.  The fee statistics are   *)
(* chosen so that a first attempt bids 2 or, in a surge, 4, and a retry    *)
(* bids 3 or is refused (6 > 5).                                           *)
(***************************************************************************)
EXTENDS Relayer

MCFeeCfg == [DefaultFeeConfig EXCEPT !.minFee = 2, !.maxFee = 5]
MCFeeStats == {[p50 |-> 2, p90 |-> 2], [p50 |-> 2, p90 |-> 4]}
=============================================================================
