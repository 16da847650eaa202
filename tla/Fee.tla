--------------------------------- MODULE Fee ---------------------------------
(***************************************************************************)
(* pickFee of src/services/relayer/src/fee.ts: the inclusion fee bid by an *)
(* attempt, in stroops.  The configuration's escalation (1.5 by default)   *)
(* and surgeRatio are fractions here, so the arithmetic is exact; the      *)
(* code's doubles are exact too for fees below 2^53 / 2^attempt.           *)
(***************************************************************************)
EXTENDS Integers, Arithmetic

Greater(a, b) == IF a >= b THEN a ELSE b

\* defaultFeeConfig (fee.ts:14-19).
DefaultFeeConfig ==
  [minFee |-> 100, maxFee |-> 1000000,
   escNum |-> 3, escDen |-> 2, surgeNum |-> 2, surgeDen |-> 1]

\* What pickFee takes: whole stroops, positive denominators.  main.ts:24 passes
\* 1.5 and 2, and a cap that is any integer (main.ts:12).
FeeConfigs ==
  [minFee : Nat, maxFee : Int, escNum : Nat, escDen : Nat \ {0},
   surgeNum : Nat, surgeDen : Nat \ {0}]
FeeStatistics == [p50 : Nat, p90 : Nat]

\* Slips pickFee could contain: rounding down, and escalating from the
\* second retry only.
FloorFee(base, attempt, cfg) ==
  (base * Power(cfg.escNum, attempt)) \div Power(cfg.escDen, attempt)
LateEscalation(base, attempt, cfg) ==
  LET n == IF attempt = 0 THEN 0 ELSE attempt - 1
  IN CeilDiv(base * Power(cfg.escNum, n), Power(cfg.escDen, n))
SurgeIgnoresZero(stats, cfg) ==
  stats.p90 * cfg.surgeDen >= cfg.surgeNum * stats.p50

\* The network is surging: p90/p50 reaches the ratio, and p50 is not zero.
Surge(stats, cfg) ==
  stats.p50 > 0 /\ stats.p90 * cfg.surgeDen >= cfg.surgeNum * stats.p50

BaseFee(stats, cfg) ==
  Greater(cfg.minFee, IF Surge(stats, cfg) THEN stats.p90 ELSE stats.p50)

\* The base, escalated once per earlier attempt and rounded up at the end.
Escalated(base, attempt, cfg) ==
  CeilDiv(base * Power(cfg.escNum, attempt), Power(cfg.escDen, attempt))

PickFee(stats, attempt, cfg) ==
  LET wanted == Escalated(BaseFee(stats, cfg), attempt, cfg)
  IN IF wanted > cfg.maxFee
       THEN [ok |-> FALSE, wanted |-> wanted]
       ELSE [ok |-> TRUE, fee |-> wanted, surge |-> Surge(stats, cfg)]
=============================================================================
