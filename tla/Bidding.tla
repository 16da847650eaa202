------------------------------- MODULE Bidding -------------------------------
(***************************************************************************)
(* Bids of one submission for every network the bounds allow: an attempt   *)
(* reads the fee statistics and bids; the next attempt reads them anew,    *)
(* until a bid is over the cap or the attempts are used up.                *)
(***************************************************************************)
EXTENDS Fee

CONSTANTS
  MaxPercentile,  \* largest p50 and p90 tried
  MaxAttempts,    \* maxAttempts of the relayer
  MinFee, MaxFee  \* floor and cap of the configuration

\* The floor is 100 in main.ts:24.  With no floor, three halves of nothing are
\* still nothing.
ASSUME BiddingAssumption ==
  /\ MaxPercentile \in Nat /\ MaxAttempts \in Nat
  /\ MinFee \in Nat \ {0} /\ MaxFee \in Int

VARIABLES stats, attempt, bid

vars == <<stats, attempt, bid>>

Cfg == [DefaultFeeConfig EXCEPT !.minFee = MinFee, !.maxFee = MaxFee]

\* The percentiles of one distribution: p90 is at least p50.
Stats == {s \in [p50 : 0..MaxPercentile, p90 : 0..MaxPercentile] : s.p50 <= s.p90}

Init == /\ stats \in Stats
        /\ attempt = 0
        /\ bid = PickFee(stats, 0, Cfg)

Retry == /\ bid.ok
         /\ attempt + 1 < MaxAttempts
         /\ attempt' = attempt + 1
         /\ stats' \in Stats
         /\ bid' = PickFee(stats', attempt', Cfg)

Spec == Init /\ [][Retry]_vars

Wanted == IF bid.ok THEN bid.fee ELSE bid.wanted

(***************************************************************************)
(* Reference for "bid p50, in a surge p90, times 1.5 per retry, rounded up *)
(* to a stroop": the bid is the least whole number that is not below that  *)
(* product.  The code reaches it in floating point (fee.ts:33-38).         *)
(***************************************************************************)
BidIsLeast ==
  LET b == IF stats.p90 >= 2 * stats.p50 /\ stats.p50 # 0 THEN stats.p90 ELSE stats.p50
      exact == (IF b < MinFee THEN MinFee ELSE b) * Power(3, attempt)
  IN /\ Wanted * Power(2, attempt) >= exact
     /\ (Wanted - 1) * Power(2, attempt) < exact

(***************************************************************************)
(* The relayer answers a rejected bid with a dearer one: as long as the    *)
(* percentiles stand still, each retry strictly raises the bid, or refuses *)
(* - rounding never makes two attempts bid the same (relayer.ts:173-176).  *)
(***************************************************************************)
RetryBidsMore ==
  [][stats' = stats => (IF bid'.ok THEN bid'.fee ELSE bid'.wanted) > bid.fee]_vars
=============================================================================
