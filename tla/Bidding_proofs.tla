---------------------------- MODULE Bidding_proofs ----------------------------
(***************************************************************************)
(* Proofs about Bidding, for every positive floor, every cap, any          *)
(* percentiles and any number of attempts: the bid is the least whole      *)
(* number that is not below base * 1.5^attempt, and each retry raises it.  *)
(*                                                                         *)
(* Rounding up cannot make two attempts bid the same where half of         *)
(* base * 1.5^attempt is one stroop at least.  That leaves a base of one   *)
(* stroop, whose first bids are 1, 2 and 3.                                *)
(***************************************************************************)
EXTENDS Bidding, Arithmetic_proofs

\* The inductive invariant: the bid is pickFee of what the attempt has read.
IInv ==
  /\ stats \in FeeStatistics
  /\ attempt \in Nat
  /\ bid = PickFee(stats, attempt, Cfg)

-----------------------------------------------------------------------------
(* pickFee *)

LEMMA CfgTyped ==
  /\ Cfg \in FeeConfigs
  /\ Cfg.minFee = MinFee /\ Cfg.escNum = 3 /\ Cfg.escDen = 2
  /\ Cfg.surgeNum = 2 /\ Cfg.surgeDen = 1
<1> DEFINE D == DefaultFeeConfig
<1>1. D \in FeeConfigs /\ D.escNum = 3 /\ D.escDen = 2 /\ D.surgeNum = 2 /\ D.surgeDen = 1
  BY SMT DEF DefaultFeeConfig, FeeConfigs
<1> HIDE DEF D
<1>2. Cfg = [D EXCEPT !.minFee = MinFee, !.maxFee = MaxFee]
  BY DEF Cfg, D
<1> QED
  BY <1>1, <1>2, BiddingAssumption DEF FeeConfigs

LEMMA BaseFeeNat ==
  ASSUME NEW s \in FeeStatistics
  PROVE  BaseFee(s, Cfg) \in Nat /\ BaseFee(s, Cfg) >= 1
BY CfgTyped, BiddingAssumption DEF BaseFee, Greater, FeeStatistics

\* What is bid, or refused, is the escalated base.
LEMMA WantedIsEscalated ==
  ASSUME NEW s \in FeeStatistics, NEW n \in Nat
  PROVE  LET b == PickFee(s, n, Cfg)
         IN (IF b.ok THEN b.fee ELSE b.wanted) = Escalated(BaseFee(s, Cfg), n, Cfg)
BY DEF PickFee

LEMMA EscalatedLeast ==
  ASSUME NEW base \in Nat, NEW n \in Nat
  PROVE  /\ Escalated(base, n, Cfg) \in Int
         /\ Escalated(base, n, Cfg) * Power(2, n) >= base * Power(3, n)
         /\ (Escalated(base, n, Cfg) - 1) * Power(2, n) < base * Power(3, n)
<1>1. Power(2, n) \in Nat \ {0} /\ Power(3, n) \in Nat
  <2>1. \A b \in {2, 3} : b \in Nat /\ b > 0
    OBVIOUS
  <2>2. \A b \in {2, 3} : Power(b, n) \in Nat /\ Power(b, n) > 0
    BY <2>1, PowerNat
  <2> QED
    BY <2>2
<1>2. base * Power(3, n) \in Int
  BY <1>1
<1>3. Escalated(base, n, Cfg) = CeilDiv(base * Power(3, n), Power(2, n))
  BY CfgTyped DEF Escalated
<1> QED
  BY <1>1, <1>2, <1>3, CeilDivLeast

\* The first powers of 3 and 2.
LEMMA FirstPowers ==
  /\ Power(3, 0) = 1 /\ Power(2, 0) = 1
  /\ Power(3, 1) = 3 /\ Power(2, 1) = 2
<1>1. Power(3, 0) = 1 /\ Power(2, 0) = 1
  BY PowerZero
<1>2. Power(3, 0 + 1) = 3 * Power(3, 0) /\ Power(2, 0 + 1) = 2 * Power(2, 0)
  BY PowerNext
<1> QED
  BY <1>1, <1>2

\* (3/2)^2 is above 2.
LEMMA PowersApart ==
  ASSUME NEW n \in Nat, n >= 2
  PROVE  Power(3, n) >= 2 * Power(2, n)
<1>1. PICK k \in Nat : n = (k + 1) + 1
  BY n - 2 \in Nat
<1>2. /\ Power(3, n) = 3 * (3 * Power(3, k))
      /\ Power(2, n) = 2 * (2 * Power(2, k))
  BY <1>1, PowerNext
<1>3. Power(3, k) \in Nat /\ Power(2, k) \in Nat
  <2>1. 2 \in Nat /\ 3 \in Nat
    OBVIOUS
  <2> QED
    BY <2>1, PowerNat
<1>4. Power(2, k) <= Power(3, k)
  <2>1. 2 \in Nat /\ 3 \in Nat /\ 2 <= 3
    OBVIOUS
  <2> QED
    BY <2>1, PowerMonotone
<1> QED
  BY <1>2, <1>3, <1>4

(***************************************************************************)
(* With W the bid of attempt n and V that of the next one, for a base B:   *)
(* W - 1 < B * 3^n / 2^n, and V is not below 3/2 of that.  If V were not   *)
(* above W, B * 3^n would be below 2 * 2^n, and B and n below 2.           *)
(***************************************************************************)
LEMMA EscalatedGrows ==
  ASSUME NEW base \in Nat, base >= 1, NEW n \in Nat
  PROVE  Escalated(base, n + 1, Cfg) > Escalated(base, n, Cfg)
<1> DEFINE P == Power(3, n)
           Q == Power(2, n)
           W == Escalated(base, n, Cfg)
           V == Escalated(base, n + 1, Cfg)
<1>1. P \in Nat /\ Q \in Nat /\ Q > 0 /\ Q <= P
  BY PowerNat, PowerMonotone
<1>2. Power(3, n + 1) = 3 * P /\ Power(2, n + 1) = 2 * Q
  BY PowerNext
<1>3. W \in Int /\ (W - 1) * Q < base * P
  BY EscalatedLeast
<1>4. V \in Int /\ V * (2 * Q) >= base * (3 * P)
  BY <1>2, EscalatedLeast
<1> HIDE DEF P, Q, W, V
<1>5. CASE base >= 2 \/ n >= 2
  <2>1. base * P >= 2 * Q
    <3>1. CASE base >= 2
      <4>1. base * P >= 2 * P
        BY <1>1, <3>1
      <4> QED
        BY <1>1, <4>1
    <3>2. CASE n >= 2
      <4>1. base * P >= P
        BY <1>1
      <4> QED
        BY <1>1, <3>2, <4>1, PowersApart DEF P, Q
    <3> QED
      BY <1>5, <3>1, <3>2
  <2>2. SUFFICES ASSUME V <= W PROVE FALSE
    BY <1>3, <1>4 DEF V, W
  <2>3. V * Q <= W * Q
    BY <1>1, <1>3, <1>4, <2>2
  <2>4. /\ (W - 1) * Q = W * Q - Q
        /\ V * (2 * Q) = 2 * (V * Q)
        /\ base * (3 * P) = 3 * (base * P)
        /\ V * Q \in Int /\ W * Q \in Int /\ base * P \in Int
    BY <1>1, <1>3, <1>4
  <2> QED
    BY <1>1, <1>3, <1>4, <2>1, <2>3, <2>4
<1>6. CASE base = 1 /\ n \in {0, 1}
  <2>1. (n = 0 /\ P = 1 /\ Q = 1) \/ (n = 1 /\ P = 3 /\ Q = 2)
    BY <1>6, FirstPowers DEF P, Q
  <2>2. CASE P = 1 /\ Q = 1
    <3>1. W - 1 < 1 /\ V * 2 >= 3
      BY <1>3, <1>4, <1>6, <2>2
    <3> QED
      BY <1>3, <1>4, <3>1 DEF V, W
  <2>3. CASE P = 3 /\ Q = 2
    <3>1. (W - 1) * 2 < 3 /\ V * 4 >= 9
      BY <1>3, <1>4, <1>6, <2>3
    <3> QED
      BY <1>3, <1>4, <3>1 DEF V, W
  <2> QED
    BY <2>1, <2>2, <2>3
<1> QED
  BY <1>5, <1>6

-----------------------------------------------------------------------------
(* The invariant *)

LEMMA StatsTyped == Stats \subseteq FeeStatistics
BY BiddingAssumption DEF Stats, FeeStatistics

LEMMA Inductive == Spec => []IInv
<1>1. Init => IInv
  BY StatsTyped DEF Init, IInv
<1>2. IInv /\ [Retry]_vars => IInv'
  BY StatsTyped DEF IInv, Retry, vars
<1> QED
  BY <1>1, <1>2, PTL DEF Spec

\* What the submission bids, or declines to bid, is the least whole number of
\* stroops that is not below base * 1.5^attempt (fee.ts:33-38).
THEOREM BidLeast == Spec => []BidIsLeast
<1>1. IInv => BidIsLeast
  <2> SUFFICES ASSUME IInv PROVE BidIsLeast
    OBVIOUS
  <2>1. Wanted = Escalated(BaseFee(stats, Cfg), attempt, Cfg)
    BY WantedIsEscalated DEF IInv, Wanted
  <2>2. /\ Wanted * Power(2, attempt) >= BaseFee(stats, Cfg) * Power(3, attempt)
        /\ (Wanted - 1) * Power(2, attempt) < BaseFee(stats, Cfg) * Power(3, attempt)
    BY <2>1, BaseFeeNat, EscalatedLeast DEF IInv
  <2>3. BaseFee(stats, Cfg)
          = LET b == IF stats.p90 >= 2 * stats.p50 /\ stats.p50 # 0
                       THEN stats.p90 ELSE stats.p50
            IN IF b < MinFee THEN MinFee ELSE b
    BY CfgTyped, BiddingAssumption DEF IInv, FeeStatistics, BaseFee, Surge, Greater
  <2> QED
    BY <2>2, <2>3 DEF BidIsLeast
<1> QED
  BY <1>1, Inductive, PTL

\* As long as the percentiles stand still, a retry bids strictly more than the
\* attempt before, or is refused for wanting more (relayer.ts:173-176).
THEOREM RetryIsDearer == Spec => RetryBidsMore
<1>1. ASSUME IInv, IInv', Retry, stats' = stats
      PROVE  (IF bid'.ok THEN bid'.fee ELSE bid'.wanted) > bid.fee
  <2>1. attempt' = attempt + 1 /\ bid.ok /\ attempt \in Nat
    BY <1>1 DEF Retry, IInv
  <2>2. bid.fee = Escalated(BaseFee(stats, Cfg), attempt, Cfg)
    BY <1>1, <2>1, WantedIsEscalated DEF IInv
  <2>3. (IF bid'.ok THEN bid'.fee ELSE bid'.wanted)
          = Escalated(BaseFee(stats, Cfg), attempt + 1, Cfg)
    BY <1>1, <2>1, WantedIsEscalated DEF IInv
  <2> QED
    BY <1>1, <2>1, <2>2, <2>3, BaseFeeNat, EscalatedGrows DEF IInv
<1>2. IInv /\ IInv' /\ [Retry]_vars
        => [stats' = stats => (IF bid'.ok THEN bid'.fee ELSE bid'.wanted) > bid.fee]_vars
  BY <1>1
<1> QED
  BY <1>2, Inductive, PTL DEF Spec, RetryBidsMore
=============================================================================
