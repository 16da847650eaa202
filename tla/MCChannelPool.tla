---------------------------- MODULE MCChannelPool ----------------------------
(***************************************************************************)
(* The model-checking run of ChannelPool: three clients on two channels,   *)
(* so that a client queues while both channels are out, and two account    *)
(* numbers.  The order among several waiters is left to the theorem        *)
(* Implements.  No symmetry, because the run checks liveness too.          *)
(***************************************************************************)
EXTENDS ChannelPool
=============================================================================
