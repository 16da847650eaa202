# TLA+ verification of the Elixir backend

Elixir is a treasury service for Soroban multi-signature accounts. Three processes share one
Postgres database: the **api** collects signatures on proposals, the **relayer** submits
signed invocations through a pool of channel accounts, and the **indexer** copies contract
events into the database. This directory models the parts of it that interleave, fail and
recover, checks them with TLC, and proves with TLAPS that their safety properties hold for any
number of calls, channels, signers, pages and faults.

Paths below are relative to the repository, `src/` being its root.

## 1. Inventory

| Component | State it keeps | Operations | What makes it correct |
| --- | --- | --- | --- |
| Channel pool (`relayer/src/channel-pool.ts`) | per channel: `busy`, cached `sequence`; the queue `waiters` | `acquire` (`next`, then `getSequence` when the number is unknown), `release`, `free` | one holder per channel, no leaked channel, nobody waits beside an idle channel, FIFO, the leased number is the channel's own |
| Fee policy (`fee.ts`) | none | `pickFee` | the bid is p50 (p90 in a surge) times 1.5 per retry rounded up, never above the cap |
| Submission (`relayer.ts`, `store.ts`) | per call: attempt, lease, outcome; table `submissions`; counters | `submit`, `build`, `confirm`, `finish` | never two accepted transactions per call, definite answers are final, books agree, the channel always comes back, numbers match the ledger |
| Relayer HTTP (`main.ts`), `metrics.ts`, `rpc.ts` | counters | `POST /submit` and its answers, shutdown, `POST /fallback`, text exposition, RPC calls | a 200 or 409 is final, a restart breaks nothing, the fee counter covers what the ledger charged |
| Proposal service (`api/src/proposals/service.ts`) | tables `accounts`, `proposals`, `partial_signatures` | `create`, `addSignature`, `invalidateForEpoch`, `expireStale`, `markExecuted`, reads | a ready proposal has a quorum, one active proposal per nonce, no signature under an old epoch, a quorum is noticed |
| HTTP api (`app.ts`) | none | the answers of each route | signers who were told 201 are counted, a quorum is not left open in silence |
| Signature verification (`verify.ts`), request auth (`request-auth.ts`) | none | verification | — |
| Indexer (`indexer/src/indexer.ts`, loop in `main.ts`) | `indexer_cursor`, `indexed_events`, `ledger_gaps`, `reconciliation_alerts`, and the api's `accounts` and `proposals` | `runOnce`, `backfill`, `reconcile`, `applyReconfigure` | no ledger passed in silence, the cursor never goes back, events are applied even after a crash, only the end of a full page is lost, drift is reported |
| Event source (`source.ts`, `decode.ts`) | none | paging, decoding | — |
| Read queries (`queries.ts`), read routes (`indexer/src/main.ts`) | none | `timeline`, `proposalHistory`, gaps, alerts | an export page by page is complete and ends, the derived status is that of the last event |
| Migration runner (`packages/core/src/db/migrate.ts`) | table of applied files | `migrate` | each file is applied once |
| Configuration, logger, types | none | parsing | — |

How they interact. The relayer's `submit` calls `acquire`/`release` of its pool around each
attempt and reaches the network through `rpc.ts` only. The api and the indexer never call each
other: they meet in the rows of `accounts` and `proposals`. The indexer runs its polling loop
and its HTTP handlers in one process; the api serves any number of requests at a time.

The hard behaviours:

- *Interleaving on one event loop.* Between two awaits the code is atomic; at each await any
  other call may run. Pool, relayer and indexer are of this kind.
- *Interleaving in the database.* No two statements of the api or of the indexer share a
  transaction or take a lock, so a request works with rows it read several statements ago.
- *Failure at any await.* An RPC rejects, answers late or from a node that is behind; the store
  rejects; a process dies between two statements.
- *Unanswered submissions.* The relayer may never learn whether the network kept a transaction.

`PROJECT.json` lists each hazard at its line, with the properties that cover it.

## 2. Modules

```
FifoLease  <--refines--  ChannelPool  <--INSTANCE Pool--  Relayer  --refines-->  Payment
                          |       |                         |    |
                          |  MCChannelPool        MCRelayer --    --EXTENDS-->  Fee  -->  Arithmetic
                          |                                Relayer_proofs        |
                  ChannelPool_proofs  <--INSTANCE PP--  RelayerPool_proofs    Bidding  <--  MCBidding
                                                                                 |
Proposals  <--EXTENDS--  Api                                               Bidding_proofs
     |                    | |
MCProposals           MCApi  Api_proofs            Indexer                     Timeline
                                                    |    |                      |    |
                                                    |  MCIndexer                |  MCTimeline
                                             Indexer_proofs             Timeline_proofs

Arithmetic_proofs is used by Bidding_proofs, Relayer_proofs, Indexer_proofs and Timeline_proofs.
```

**FifoLease** is the promise of the pool's class comment: channels are lent to one client
each, a newcomer queues only when all are lent, a channel given back goes to the head of the
queue.

**ChannelPool** is the pool. `pc[c]` follows one `acquire()`: `idle`, `waiting` (queued by
`next()`), `granted` (the promise of `next()` is resolved, its continuation has not run),
`fetching` (awaits `getSequence`), `leased`, `released`. `Free(ch, at)` is the method `free`,
used by `Release` and `FetchFail` as in the code. `Release` may be called again on a released
lease, which is the `released` flag's case. `Lease == INSTANCE FifoLease WITH ...` is the
refinement mapping: the holder of a channel is read off the clients, never off `busy`.

**Payment** is the promise to the caller of `POST /submit`, with no channels, fees, retries or
ledgers: an invocation is sent once and decided once, its caller is answered once, "paid" and
"unpaid" are said only when nothing can change them any more, and everything else leaves the outcome
open. `Promise == INSTANCE Payment WITH ...` in Relayer reads the fate of a call off the network and
what its caller was told off the answer.

**Fee** is `pickFee` as exact arithmetic; 1.5^n is 3^n / 2^n, with the powers of **Arithmetic**, a
recursive function. Below 2^53 the double the
code computes is exact for the few attempts the relayer makes, so rounding up agrees. **Bidding** is
the sequence of bids of one submission: every attempt reads the fee statistics anew.

**Relayer** runs calls of `submit` over `Pool == INSTANCE ChannelPool`. `step[r]` names the
await a call is at. The network is external and holds at most one pending transaction per
source account: `Accepted`, `BadSeq`, `TryAgain`, `Rejected` are the answers of `send`;
`Land`, `Drop` and `Tick` are its own steps. A request whose call has ended before its answer came (`send` rejected, or
the process stopped) is in `late`, and `Deliver` lets it arrive at any later time, or never. `Faults` selects what may fail. `finish()`
counts before it awaits the store, so `Finish` moves `counted` and leaves the row to
`Recorded` or `RecordThrows`, which also run the `finally` block. `counted` holds, per call, the
outcome and the fee that the two counters grew by. `Crash` is `shutdown` of `main.ts`, or a kill:
every call under way is lost, a request that was being sent (`late`) or a row that was being written may
still arrive, and the new process builds its pool from nothing (`PoolRestart`). `HttpCode` is the
server's answer.

**Proposals** is one account's proposals. Each SQL statement is one action; `at[w]` is the
statement request `w` runs next and `mem[w]` what it has read. The indexer's
`applyReconfigure` is `MirrorAccount`, then `MirrorVoid`; it may re-read earlier events, and leave some
out. `markExecuted` is `MarkExecuted`, then `MarkSiblings`, for any proposal at any time: the code asks for
nothing but the row. `Reconfigure` is the chain's step. The partial unique index is `NonceTaken`.
`Crashes` names the processes that may die between two statements.

**Api** adds to Proposals what the signers are told: as a request of
`POST /proposals/:id/signatures` ends, its answer goes to `accepted` (201) or `unsure` (500, or no
answer because the process died, after the signature was stored). Every step of Proposals is a step
of Api; only the answers are new.

**Indexer** is `ingestFrom`, `runOnce`, `backfill` and `reconcile`. `at[t]` is the call each task
is about to make: the loop `Live`, or an HTTP request. A page is the set of the first `PageSize`
events from a ledger on, seen by a node that may be behind (`seen`). `mem[t]` holds the events
still to write and the ledger the cursor goes to. `Prune` is retention, `Fail` a failing
statement, `Crash` the death of the process.

**Timeline** is the reader's side of `indexed_events`. The chain emits events in transactions and
ledgers; rows enter `table` in any order, as the loop and backfills write beside each other; a
client exports the account's timeline page by page. `Pages` is the result of
`where ledger < before order by ledger desc, event_index desc limit n`: a set of results, since rows
of two transactions in one ledger may have the same event index. `Derived` is the status
`proposalHistory` ends with.

The `MC*` modules only give constants their values. Operators under "Plausible slips" are mutated forms of later
definitions; they take no part in any specification and serve to show that each property can
be broken by a change of the code.

## 3. Runs

| Run | Configuration | Properties | Distinct states, about |
| --- | --- | --- | --- |
| `pool` | 3 clients, 2 channels, ledger numbers 5 and 6 | `TypeOK`, `MutualExclusion`, `BusyMeansHeld`, `NoIdleWhileWaiting`, `LeaseIsCurrent`, `SequenceStepwise`, `WaiterServed`, `ImplementsLease` | 43 000 |
| `fee` (MCBidding) | percentiles to 14, 4 attempts, floor 3, cap 40 | `BidIsLeast`, `RetryBidsMore` | 480 |
| `relayer` | 2 calls, 1 channel, 2 attempts, every fault, stop and restart | `TypeOK`, `OneAcceptedTx`, `DefiniteAnswer`, `BooksAgree`, `SpendCoversCharge`, `NoLeakedChannel`, `LeaseIsNext`, `NeverBehind`, `UsesPool`, `KeepsPromise`, `EveryCallAnswered` | 518 000 |
| `proposals` | 2 requests, 2 proposals on one nonce, 2 signers, thresholds 1 and 2, 1 reconfiguration, crashes | `TypeOK`, `MirrorIsConsistent`, `ReadyHasQuorum`, `OneActivePerNonce`, `NoStaleSignature` | 1 060 000 |
| `proposals_live` (MCApi) | 2 requests, 1 proposal, threshold 2, 2 reconfigurations, the api may crash | `EpochMonotone`, `AcceptedQuorumIsNoticed`, `QuorumNoticed` | 95 000 |
| `indexer` | loop and 1 request, 3 ledgers, 3 events, pages of 2, 1 fault | `TypeOK`, `LedgersSeen`, `EpochFollows`, `NeverBack`, `LosesOnlyTheCut` | 1 800 000 |
| `indexer_live` | loop and 1 request, 2 ledgers, 2 events, pages of 1, 1 fault, reconciliation every 2 ticks | `CatchesUp`, `DriftAlerted` | 63 000 |
| `timeline` | 4 events, 3 ledgers, 1 proposal, pages of 2 | `TypeOK`, `ExportComplete`, `StatusFollows`, `ExportEnds` | 1 030 000 |
| `relayer_reuse`, `relayer_unbooked`, `proposals_void`, `indexer_skip` | smallest instance that shows it | one each, violated | — |

Why the bounds are enough to meet the interesting cases:

- *Pool.* Three clients on two channels give an idle channel, a full pool and a client that waits
  (with four, checking liveness takes far more than five minutes; the order among several waiters
  is part of what the theorem `Implements` proves, for any number of them). With the ledger numbers
  5 and 6 a refetch can answer lower or higher than the cache. `Use` lets a client report `ok` only
  for a number the ledger may have given, which also bounds the numbers. The safety results are
  proved for all values (section 5).
- *Relayer.* One channel makes every second call wait and inherit the state the first one
  leaves; two attempts give one retry after each answer that allows it. A second channel adds
  nothing the pool's run does not have, as calls meet on one channel only.
- *Proposals.* Two signers complete a threshold of 2 concurrently; two proposals compete for
  one nonce; one reconfiguration falls between any two statements. `proposals_live` needs two
  reconfigurations for an old event to be re-read after a newer one; thresholds that differ from one epoch
  to the next are in `proposals`. The indexer's crash is left to
  `proposals`: it only forgets that a `MirrorVoid` is due, and what the indexer can do after it it can
  do without it.
- *Indexer.* Pages of two end between ledgers and inside one; three ledgers let retention
  overtake the cursor and a node fall behind it.
- *Timeline.* Four events in pages of two give a page that ends inside a ledger, a ledger that fills
  a page, and a third page; three ledgers let rows arrive above, inside and below a page that was read.

Deadlock is checked in `pool`, `relayer` (where `AllAnswered` marks the end),
`proposals` and `proposals_live`. Off in `fee`, `timeline` and the indexer runs: the inputs of a
submission, the events of the chain, and the ledgers and faults of a behaviour, are used up.

## 4. Fairness

- *ChannelPool.* Weak fairness on each client's continuations (resolved promises run; an RPC
  is answered or rejected) and on `Use` (every lease is released in the `finally` block of
  `relayer.ts:249-251`). Nobody is obliged to call `acquire`. Under this the pool also implements
  the abstract allocator's fairness.
- *Relayer.* Weak fairness on each call's `Progress`: RPC promises settle and the polling
  loop of `confirm` sees its deadline. Nothing is assumed of the network.
- *Proposals* and *Api.* Weak fairness on the statements of a request that has begun. Users, the chain
  and the indexer owe nothing; a crash may end any request.
- *Timeline.* Weak fairness on the exporting client's next page. The loop and the chain owe nothing.
- *Indexer.* Weak fairness on the database; strong fairness on a page answered by an up-to-date node
  and on a successful chain read: RPC trouble may recur, but it is not permanent, as the loop of
  `main.ts:35-49` retries for ever. Faults are bounded by `MaxFaults`.

## 5. Proofs

Every safety invariant, safety action property and refinement the runs check is also a theorem
(of `ImplementsLease` the part without fairness): it holds for every value of the constants. Each
proof module has one inductive invariant, or two in layers; the conjuncts that were not properties
already were first checked by TLC on small instances. A theorem of `Safe` needs no fairness.
`QueueIsWaiting` and `ApiTypeOK` are stated by theorems only: in the runs `ImplementsLease` and the
type invariant of Proposals say as much of the small instances.

| Module | Theorem | States | Lets one rely on |
| --- | --- | --- | --- |
| `Bidding_proofs` | `BidLeast` | `BidIsLeast` | a bid is never too low, and never a stroop too high |
| | `RetryIsDearer` | `RetryBidsMore` | rounding never hides the escalation |
| `ChannelPool_proofs` | `TypeCorrect` | `TypeOK` | |
| | `Exclusive` | `MutualExclusion` | a channel has one holder |
| | `NoLeak` | `BusyMeansHeld` | the busy flag |
| | `NoIdleChannel` | `NoIdleWhileWaiting` | `free` handing over blindly |
| | `QueueExact` | `QueueIsWaiting` | no promise of `next` is lost or resolved twice |
| | `LeaseStaysCurrent` | `LeaseIsCurrent` | the comparison in `release` |
| | `NumbersStepwise` | `SequenceStepwise` | numbers never jump without a refetch |
| | `Implements` | `Lease!Safe` | every step is one of the FIFO allocator, or a stutter |
| `Relayer_proofs` | `OneTransaction` | `OneAcceptedTx` | a retry never doubles a payment |
| | `AnswerIsFinal` | `DefiniteAnswer` | 200 and 409 are final |
| | `BooksAreRight` | `BooksAgree` | counter, row and answer agree |
| | `ChargesAreCounted` | `SpendCoversCharge` | the fee counter, but for calls that ended before `finish` |
| | `ImplementsPayment` | `KeepsPromise` | the relayer as a black box |
| `RelayerPool_proofs` | `TypeCorrect` | `TypeOK` | |
| | `PoolByItsRules` | `UsesPool` | all that is proved of the pool |
| | `ChannelsComeBack` | `NoLeakedChannel` | the `finally` block |
| | `NextIsLeased` | `LeaseIsNext` | local tracking of numbers |
| | `NumbersAreKept` | `NeverBehind` | a timed-out number is not reused |
| `Api_proofs` | `TypeCorrect` | `TypeOK` | |
| | `QuorumReady` | `ReadyHasQuorum` | `ready` |
| | `UniqueNonce` | `OneActivePerNonce` | the partial index |
| | `MirrorConsistent` | `MirrorIsConsistent` | the threshold of `accounts` |
| | `EpochGrows` | `EpochMonotone` | re-reading events |
| | `FreshSignatures` | `NoStaleSignature` | the epoch check of `addSignature` |
| | `ApiImplementsProposals` | `ApiSpec => Safe` | the theorems above, behind the api |
| | `ApiTypeCorrect` | `ApiTypeOK` | |
| | `ApiMirrorConsistent` | `MirrorIsConsistent`, `EpochMonotone` | |
| | `QuorumAcknowledged` | `AcceptedQuorumIsNoticed` | a 201 |
| `Indexer_proofs` | `TypeCorrect` | `TypeOK` | indexed events were emitted |
| | `NoSilentSkip` | `LedgersSeen` | the cursor and the gaps |
| | `ReplayApplies` | `EpochFollows` | the mirrored epoch, but for what a full page cut off |
| | `CursorNeverBack` | `NeverBack` | |
| | `OnlyTheCutIsLost` | `LosesOnlyTheCut` | everything but the end of a full page |
| `Timeline_proofs` | `TypeCorrect` | `TypeOK` | |
| | `ExportHasAll` | `ExportComplete` | an export by pages |
| | `StatusCorrect` | `StatusFollows` | the derived status, but for two transactions in one ledger |

`Arithmetic_proofs` holds what several of these share. A nonempty set of naturals has a least element,
as `<` is well-founded on the naturals. From it follows induction over a set of naturals
(`NatSetInduction`: a set with 0 and every successor has them all), which needs no operator as a
parameter. By it the function `Powers` exists and satisfies its recursive definition
(`PartialExists`, `PartialUnique`, `PowersDefined`: its restrictions to 0..n exist, one for each n, and
agree), a power is a positive natural, and the greater base has the greater power. `CeilDivLeast` says what
rounding up is.

**Assumptions on the constants.** `PoolAssumption`: at least one channel, as the constructor demands;
numbers are integers. `RelayerAssumption`: besides, at least one attempt, a fee configuration and fee
statistics of the types `pickFee` takes (`fee.ts:3-12`, `rpc.ts:41-45`); that a bid is a whole number of
stroops is then a lemma (`BidNat`). `BiddingAssumption`: the floor is positive
(`main.ts:24` passes 100); without one, three halves of nothing are still nothing. `ProposalsAssumption`: a threshold is positive, which is the account contract's
business (external; 1 is the default of `0001_init.sql:8`). `TimelineAssumption`: the
page limit is positive. `IndexerAssumption`: the loop is no request, page size, genesis and
reconciliation interval are positive. `None` is never a value of the kind it stands for the absence
of. The bounds (`MaxSequence`, `MaxEpoch`, `MaxEvents`, ...) are arbitrary naturals.

**Bidding.** The bid is `pickFee` of what the attempt has read, so `BidIsLeast` is `CeilDivLeast` for
3^n / 2^n. For `RetryBidsMore` let W be the bid at the product x, V the next at 3/2 x. If V were not above
W, then 3/2 x <= V <= W < x + 1, so x < 2. Such a product is a base of one stroop at attempt 0 or 1
(`PowersApart`: from the second power on 3^n is at least 2 * 2^n), and there the bids are 1, 2, 3
(`FirstPowers`). The property is about percentiles that stand still: when a surge ends between two attempts the base
drops from p90 to p50, and the retry may bid less.

**ChannelPool.** `IInv` conjoins the properties with `ChanOK` (a client that holds a channel
closes over a real one, and a lease is a number). No part is inductive alone: mutual exclusion at
`AcquireIdle` needs that an idle channel has no holder (`BusyMeansHeld`); the hand-over in `free`
needs that the head of the queue really waits (`QueueIsWaiting`), or a client would hold two
channels; `LeaseIsCurrent` across another client's release needs mutual exclusion.
`FreeKeeps` states what `free` preserves once, and both its callers use it. `SequenceStepwise` needs
`FetchesUnknown`: while one client fetches a number nobody else makes it known, which is mutual exclusion
again. The refinement argues step by step from `IInv`: `HeldFacts` turns it into facts
about the mapped variables, `FreeRefines` shows that a release is `GiveBack` or `HandOver`,
`SilentStep` that what happens between grant and release is a stutter.

**Relayer.** `CallInv` is about each call and the network, and needs nothing of the pool. Until it is
past `send` the network has nothing of a call, and a call returns to the fees only from there; so
there is one transaction at most (`OneTx`), it carries the call's last bid, and what the call has
noted of it before `finish()` awaits the store cannot change any more. `SpendCoversCharge` follows, with its
exception: a call that ends before `finish()`, because `send` or a poll rejects or the process stops, may leave
behind a transaction that lands and is charged, and nobody counts it. `RelayerPool_proofs` adds two
layers. `UseInv` ties the await each call is at to its place in the pool, and each transaction to its
call's lease: besides the holder's own, a transaction of a channel can only be of a call that ended without
hearing of it (`Unheard`), which may reach the network late. `ChannelPool_proofs` is instantiated there, so its invariant is kept by its own lemma, and
a restart begins the pool anew. `NumberInv` says where each channel's number stands against
the ledger: at the ledger's number while idle and one above while leased (`ExactOn`, `ExactFor`), as
long as no transaction of the channel that nobody followed has been taken by a ledger (`~Astray`); after a timeout still not behind it, nor
behind the number that timed out (`AheadOn`, `AheadFor`). It speaks of idle channels and of the holder of each busy one, because a number is handed
from one to the next in `free`.

The proof corrected the model's `NeverBehind`. It did not say that a restart forgets
the numbers, and its invariant could not be completed; TLC then found, with three calls, a
behaviour no run with two can show: a call times out and keeps its number, the process restarts under a
second call, a third refetches the ledger's number, fails and rolls back to it, and the transaction
of the first one lands. The channel is now behind its ledger, and the next lease gets `txBadSeq`. The
property excepts a restart after a timeout, and `NumbersAreKept` proves what is left.

`ImplementsPayment` needs no more than `CallInv`, before and after a step. `FateIs` says what a call's fate
is when the network has one transaction of it at most; `AnsweredOnce`, that no step changes an answer;
`Tells`, that a call which is answered as its fate stands still is answered rightly, because `CallInv`
holds after the step (`EndOK`). What is left are the steps of the network: `SendMoves` (a transaction that
is kept, also as the call throws or the process stops) and `SettleMoves`.

**Proposals.** No two statements share a transaction, so `RequestsOK` says what is left of what
a request read statements ago: the proposal still exists with that threshold; epochs it remembers
are not ahead of the account's, as they only grow; a quorum once counted stays one, as signatures are
never taken away. `VoidingEmitted` bounds what the indexer is about to void by what the chain emitted.
`Kept` states what a step must leave alone for a request's memory to stay true, and
`MovesKeep` what a blind change of statuses needs: a quorum if it makes something ready, and a free
nonce if it makes something active - which the partial index sees to, also when a late `setStatus`
revives an invalidated proposal (`proposals_void` of section 6).

**Api.** Every step is a step of Proposals. `AcceptedStored` and `SignerStored` say that who
was answered 201, or is past its write, is in the table. A request that answers 201 without
having made the proposal ready has counted fewer than the threshold; everybody answered before it is in
what it counted, and so is its own signature: together they are no quorum.

**Indexer.** While a page is being written the cursor has not moved, and nothing in the tables says
where it will. `Promised` relates the loop's memory to the tables: each ledger up to the
cursor's next value is closed, and its first event is written, or still to be written or
applied, or lies in a gap that is recorded or about to be. `PagePromise` shows that an answer
makes this true: a page is a prefix of what the source serves, so up to the ledger of its last event
every first event served is in it, and what is older than the source serves is the gap.
`WriteKeeps` shows that each write of the loop keeps it, `Keeps` that no request, failing statement,
crash or pruning can break it, since they take nothing out of the tables. `CursorClosed` is needed when
a ledger closes: its events must be ahead of the cursor. A backfill that races with the loop is part of
all this. `CutPromised` does the same for every event, not only the first of a ledger: it is written and applied, or
still to be, or in a gap - or it is in the last ledger of a page that was full before it (`FullBefore`).
`FullPage` and `PageWhole` find this in the answer: an event that is served and not on the page has `PageSize`
events of the page before it. `FullGrows` keeps it, since what is written was to be written. At `setCursor` nothing
is left to do, and `CutPromised` is `LosesOnlyTheCut`. For a `Reconfigured` event it is what `EpochFollows` says
from then on (`CutOffStays`: nothing leaves the table); that a cut event is not the first of its ledger is
`Promised`. The types need a second invariant, `TypeInv`, with what each task keeps (`Kept`) and with
`ChainEpoch <= MaxEpoch`: the epochs in the tables are those of events, and counting the new ledger's
events (`CloseLedgerTypes`) bounds them.

**Timeline.** `Pending`: what an export is owed and has not got is older than the next page's bound, or in
a ledger at which a full page ended. A page shorter than the limit has all there is
(`ShortPageIsLast`), after a full one the rest is older or cut (`FullPageGoesOn`). For
the status, `ChainOrdered` says that the query's order is the chain's, but for transactions of
one ledger; between those the event index decides, and `Overtaken` names when it decides wrongly.

**Only model-checked.**

- Liveness, and refinement under fairness: `WaiterServed`, the fairness part of
  `ImplementsLease`, `EveryCallAnswered`, `QuorumNoticed`, `CatchesUp`, `DriftAlerted`, `ExportEnds`.
  The prover handles neither `ENABLED` nor `WF` and `SF`.
- The findings of section 6 are counterexamples, not theorems.

## 6. Where code and documents disagree

Each has a run with a counterexample:

- `relayer_reuse` — `relayer.ts:195`: when a poll of `getTransaction` rejects, `outcome` is still
  `failed` although the network has accepted the transaction; its number is rolled back and
  leased again.
- `relayer_unbooked` — `relayer.ts:195` again: the same rejected poll ends the call without `finish()`. The
  transaction lands and is charged, and has neither a row nor a place in the fee counter, although "every
  attempt is written to `submissions`" (`docs/relayer.md:29`). `SpendCoversCharge` excepts these calls.
- `proposals_void` — `setStatus` has no condition on the status, so a request that counted its
  quorum before a reconfiguration makes an invalidated proposal ready (`service.ts:205`).
- `indexer_skip` — a full page that ends inside a ledger moves the cursor to that ledger, and its
  other events are never read; no gap is recorded (`indexer.ts:115-118`).

Seen while modelling, without a run:

- The expiry of auth entries is compared once, at intake (`relayer.ts:112-114`). Entries that expire while
  the call waits for a channel or retries are refused by the network, and the caller hears `tx_failed`, not
  `auth_expired`.
- Attempts that end in `continue`, and giving up, write no row, although "every attempt is written"
  (`docs/relayer.md:29`, `relayer.ts:166-193`, `261`).
- Calls enter the pool in the order their RPC answers arrive, not "by arrival at `POST /submit`"
  (`docs/relayer.md:63`).
- The timeline "paginates to genesis" (`docs/indexer.md:69`), but `before` is a ledger: when a page ends
  inside a ledger, the rest of that ledger is on no page (`queries.ts:29`). `ExportComplete` excepts
  exactly these ledgers.
- An event's index is its place within its transaction, and the queries order the rows of one ledger by
  nothing else. When two transactions of a ledger decide on a proposal, and the earlier one's event has the same
  index or a greater one, the status derived from "the last lifecycle event seen" (`queries.ts:36-37`) may
  be that of the earlier one. `StatusFollows` excepts exactly these.
- "The indexer role cannot write `proposals`" (`docs/SECURITY.md:22-23`), but `applyReconfigure` does
  (`indexer.ts:134-143`).
- The first update of `invalidateForEpoch` never changes anything when `addSignature` calls it: the epoch it
  passes was read from the same row, which only grows (`service.ts:216-218`; `BumpAccountKeeps` in the
  proofs).
- `markExecuted` and `expireStale` are called by tests only; nothing sets `resolved_at` of a gap or of
  an alert.
- The cap of `fee.ts:5` is compared before simulation attaches the resource fee (`rpc.ts:29`).
- A `create` that read the account before a reconfiguration inserts an open proposal with the old
  epoch afterwards (`service.ts:100-126`); the first signer's request voids it.
- A nonce that an executed proposal consumed can be proposed again: the index covers active rows
  only (`0002_proposals.sql:22-26`).
- A crash between storing the last signature and `setStatus` leaves an open proposal with a
  quorum (`service.ts:198-208`); `QuorumNoticed` says that this happens only to a proposal on which a
  signer got no answer, and may sign again.
- A `create` whose count fails after the insert answers 500, and a second attempt 409
  (`service.ts:106-125`).
- A backfill from before the source's retention records a gap for ledgers that are in the table
  (`indexer.ts:91-95`).
- `reconcile` reads the chain before the table, so an event ingested in between raises an alert
  with the index ahead (`indexer.ts:159-162`).
- A backfill request that fails after an insert leaves a `Reconfigured` event in the table that
  nobody has applied. The loop repairs this only for events on its own later pages; one that the loop's page
  cut off, or has yet to reach, stays as it is.

`LedgersSeen` is about the first event of a ledger because of `indexer_skip`: for the others the code makes no
such promise. `EpochFollows` is about every `Reconfigured` event behind the cursor, and names the same exception:
one that a full page cut off. `LosesOnlyTheCut` says how far the skip reaches: at most the rest of one ledger for each
full page, and nothing for any other reason.

What other properties leave open, on purpose: `NoStaleSignature` is about requests that begin after the account's
epoch has moved, and a request that passed its check just before may still store a signature of the old epoch;
`OneActivePerNonce` says nothing of what a repeated `create` answers; `CatchesUp` assumes that
every event can be applied; `DriftAlerted` is about a lag that lasts, not about the spurious alert of a race.

## 7. Not modelled

- Schema validation, request authentication, configuration, logging and the routes that only read:
  stateless. A request that is refused there changes nothing; one that is replayed within the clock
  skew is one more request of the model.
- Cryptography and XDR: a signature verifies or does not, assembly alters the auth entries or
  does not, an event is `Reconfigured` or not.
- The resource fee, latency quantiles, the metrics text. A fee is the bid of `pickFee`.
- `POST /fallback`: one read, one insert, one counter, without a branch or an interaction.
- `migrate`: every file runs in a transaction of its own with the row that records it, so a crash
  leaves a prefix of the files. Of two runs at the same time the second fails at a file the first has
  applied, or repeats it, depending on that file's SQL and not on steps of this code.
- `openGaps` and `openAlerts`, which list rows.
- Several relayer processes on the same channel secrets: the class comment of the pool scopes it to
  one process.
- Events of several contracts and accounts added later; roles, which no code writes;
  a Reconfigured event that cannot be decoded.
- Whether the RPC answers or rejects below its retention or above its latest ledger: a rejected
  `getEvents` changes nothing, and the model lets the source answer, as `EventSource` documents.

## 8. Plan

Done: FifoLease, ChannelPool, Fee, Bidding, Payment, Relayer with restarts, Proposals, Api, Indexer and
Timeline, each with its runs, and the proofs of section 5.

What could follow, all of it proofs:

1. `OneTransaction` and `NextIsLeased` as one statement about the ledger: what the network applied on a
   channel is a prefix of the leased numbers.
2. How far `proposals_void` and `relayer_reuse` can reach, for any number of actors, as
   `LosesOnlyTheCut` does for `indexer_skip`.
