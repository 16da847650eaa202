------------------------------- MODULE Relayer -------------------------------
(***************************************************************************)
(* Concurrent calls of Relayer.submit (src/services/relayer/src/relayer.ts)*)
(* over one ChannelPool, with the Stellar network they talk to.  Each      *)
(* action is the code between two awaits of one call; the network's own    *)
(* steps (a ledger closes, a pending transaction lands or is dropped) are  *)
(* external and happen in between.                                         *)
(*                                                                         *)
(* step[r] names the await a call is at:                                   *)
(*   new -> latest -> fees -> acquire -> prepare -> send -> confirm        *)
(*       -> record -> done, with a retry going back to fees.               *)
(* The pool's share of "acquire" is ChannelPool's own state.               *)
(*                                                                         *)
(* Faults names what may go wrong in a behaviour: an RPC method or the     *)
(* store rejects ("latest", "fees", "sequence", "prepare", "send",         *)
(* "confirm", "record"), assembly alters the auth entries ("mutate"), an   *)
(* accepted transaction outlives confirmTimeoutMs ("timeout") or is never  *)
(* included ("drop"), the process stops and is started again ("crash").    *)
(***************************************************************************)
EXTENDS Integers, Sequences, FiniteSets, Fee

CONSTANTS
  NumRequests,   \* calls of submit, numbered by arrival at POST /submit
  NumChannels,
  MaxAttempts,   \* opts.maxAttempts
  FeeCfg,        \* opts.fee, as DefaultFeeConfig in Fee
  FeeStats,      \* fee statistics the network may report
  Expiries,      \* earliest signatureExpirationLedger of a call, or None
  Margin,        \* opts.expiryMarginLedgers
  MaxLedger,     \* bound: the last ledger of a behaviour
  Faults,
  None

Requests == 1..NumRequests
FaultNames == {"latest", "fees", "sequence", "prepare", "mutate", "send", "confirm",
               "record", "timeout", "drop", "crash"}

\* Bound on account numbers: only an "ok" release keeps a number, and a call
\* releases "ok" at most once.
MaxSequence == 2 * NumRequests + 1

\* Error answers of submit; "threw" stands for any other rejection, and "lost"
\* for a connection that closes because the process stops.
Refusals == {"auth_expired", "fee_cap_exceeded", "payload_mutated", "tx_failed"}
Errors == Refusals \cup {"timeout", "threw"}
Answers == {"success", "lost"} \cup Errors

ASSUME RelayerAssumption ==
  /\ NumRequests \in Nat /\ NumChannels \in Nat \ {0}
  /\ MaxAttempts \in Nat \ {0}
  /\ FeeCfg \in FeeConfigs /\ FeeStats \subseteq FeeStatistics
  /\ Expiries \subseteq Int \cup {None}
  /\ Margin \in Nat /\ MaxLedger \in Nat
  /\ Faults \subseteq FaultNames
  /\ None \notin Int /\ None \notin Answers \cup {"ok", "bad_seq", "failed"}

VARIABLES
  sequence, busy, waiters, pc, chan, lease,    \* the ChannelPool
  step,      \* the await each call is at
  attempt,   \* loop counter of each call
  fee,       \* decision.fee
  expiry,    \* earliestExpiry(auth) of each call
  note,      \* what an awaited store.record writes, and what follows it
  answer,    \* what the HTTP caller was told
  rows,      \* rows of the submissions table, per call
  counted,   \* what finish() adds to the counters, per call: the outcome of
             \* relayer_submissions_total, the fee of relayer_fee_spend_...
  clock,     \* latest ledger
  chain,     \* sequence number of each channel account on the ledger
  late,      \* transactions on their way to the network, their call has ended
  mempool,   \* accepted transactions that are not in a ledger yet
  applied    \* transactions in a ledger, with their result

poolVars == <<sequence, busy, waiters, pc, chan, lease>>
callVars == <<step, attempt, fee, expiry, note, answer>>
bookVars == <<rows, counted>>
netVars  == <<clock, chain, late, mempool, applied>>
vars == <<poolVars, callVars, bookVars, netVars>>

Pool == INSTANCE ChannelPool WITH Clients <- Requests, Seqs <- 0..MaxSequence

\* What POST /submit makes of it.
HttpCode(a) ==
  CASE a = "success" -> 200
    [] a \in Refusals \cup {"timeout"} -> 409
    [] a = "threw" -> 500
    [] OTHER -> None

\* The transaction a call at "send" or later has signed.
TxOf(r) == [req |-> r, ch |-> chan[r], seq |-> lease[r], attempt |-> attempt[r],
            fee |-> fee[r]]
Txs == [req : Requests, ch : Pool!Channels, seq : Int, attempt : 0..(MaxAttempts - 1),
        fee : Nat]

Row(status, error) == [status |-> status, error |-> error]
Rows == [status : {"success", "failed", "expired"},
         error : {"none", "auth_expired", "code", "timeout", "FAILED"}]
NoNote == [row |-> None, outcome |-> None, then |-> None]

Counter == [outcome : {"success", "failed", "expired", "fee_cap"}, fee : Nat]
Note == [row : Rows, outcome : Pool!Outcomes \cup {None}, then : {"success"} \cup Errors]

CallsTyped ==
  /\ step \in [Requests -> {"new", "latest", "fees", "acquire", "prepare", "send",
                            "confirm", "record", "done"}]
  /\ attempt \in [Requests -> 0..(MaxAttempts - 1)]
  /\ fee \in [Requests -> Nat]
  /\ expiry \in [Requests -> Int \cup {None}]
  /\ note \in [Requests -> Note \cup {NoNote}]
  /\ answer \in [Requests -> Answers \cup {None}]
  /\ rows \in [Requests -> Seq(Rows)]
  /\ counted \in [Requests -> Seq(Counter)]

NetTyped ==
  /\ clock \in 0..MaxLedger
  /\ chain \in [Pool!Channels -> Nat]
  /\ late \subseteq Txs /\ mempool \subseteq Txs
  /\ \A e \in applied : e.tx \in Txs /\ e.result \in {"SUCCESS", "FAILED"}

TypeOK == Pool!TypeOK /\ CallsTyped /\ NetTyped

Init ==
  /\ Pool!Init
  /\ step = [r \in Requests |-> "new"]
  /\ attempt = [r \in Requests |-> 0]
  /\ fee = [r \in Requests |-> 0]
  /\ expiry = [r \in Requests |-> None]
  /\ note = [r \in Requests |-> NoNote]
  /\ answer = [r \in Requests |-> None]
  /\ rows = [r \in Requests |-> << >>]
  /\ counted = [r \in Requests |-> << >>]
  /\ clock = 0
  /\ chain = [ch \in Pool!Channels |-> 0]
  /\ late = {}
  /\ mempool = {}
  /\ applied = {}

-----------------------------------------------------------------------------
(* How a call moves on *)

Goto(r, s) ==
  /\ step' = [step EXCEPT ![r] = s]
  /\ UNCHANGED answer

\* submit returns or throws a.
Answer(r, a) ==
  /\ step' = [step EXCEPT ![r] = "done"]
  /\ answer' = [answer EXCEPT ![r] = a]

Count(r, label, spent) ==
  counted' = [counted EXCEPT ![r] = Append(@, [outcome |-> label, fee |-> spent])]

\* The call awaits store.record(row); outcome is None when it has no lease.
AwaitRecord(r, row, outcome, then) ==
  /\ note' = [note EXCEPT ![r] = [row |-> row, outcome |-> outcome, then |-> then]]
  /\ Goto(r, "record")

\* A slip: finish() counts the fee only when the transaction succeeded.
FinishCountsSuccess(r, row, outcome, then) ==
  /\ Count(r, row.status, IF then = "success" THEN fee[r] ELSE 0)
  /\ AwaitRecord(r, row, outcome, then)
  /\ UNCHANGED rows

\* finish(): the metrics move first, then the row is written.  The bid is
\* spent as far as the books go, also when the network refused it.
Finish(r, row, outcome, then) ==
  /\ Count(r, row.status, fee[r])
  /\ AwaitRecord(r, row, outcome, then)
  /\ UNCHANGED rows

\* Transactions that may still get into a ledger.
Alive == late \cup mempool

\* A channel account's transaction the network still holds.
PendingOn(ch) == {t \in mempool : t.ch = ch}

Included(tx, result) == [tx |-> tx, result |-> result] \in applied
\* getSequence, which Acquired reads through the pool.
LedgerSequence(ch) == chain[ch]

\* The auth entries of the call have expired at the latest ledger.
Expired(r) == expiry[r] # None /\ clock > expiry[r]

Succeeded(r) == \E e \in applied : e.tx.req = r /\ e.result = "SUCCESS"

-----------------------------------------------------------------------------
(* Plausible slips in this code, used to show that each property bites. *)

\* A timed-out confirmation is retried like TRY_AGAIN_LATER.
TimeOutRetries(r) ==
  /\ "timeout" \in Faults
  /\ step[r] = "confirm"
  /\ attempt[r] + 1 < MaxAttempts
  /\ Pool!Release(r, "ok")
  /\ attempt' = [attempt EXCEPT ![r] = @ + 1]
  /\ Goto(r, "fees")
  /\ UNCHANGED <<fee, expiry, note, bookVars, netVars>>

\* A rejected RPC leaves the try block without releasing the lease.
ThrowKeepsLease(r) ==
  /\ step[r] \in {"prepare", "confirm"} \cap Faults
  /\ Answer(r, "threw")
  /\ UNCHANGED <<poolVars, attempt, fee, expiry, note, bookVars, netVars>>

\* acquire() leases the account's current number, not the next one.
AcquiredSameNumber(r) ==
  /\ step[r] = "acquire"
  /\ Goto(r, "prepare")
  /\ \/ pc[r] = "fetching" /\ Pool!TakeLease(r, chain[chan[r]])
     \/ Pool!LeaseCached(r)
  /\ UNCHANGED <<attempt, fee, expiry, note, bookVars, netVars>>

\* Every answer that is not PENDING releases with "ok".
RetryKeepsNumber(r, o) ==
  /\ Pool!Release(r, "ok")
  /\ IF attempt[r] + 1 < MaxAttempts
       THEN /\ attempt' = [attempt EXCEPT ![r] = @ + 1]
            /\ Goto(r, "fees")
            /\ UNCHANGED bookVars
       ELSE /\ Count(r, "failed", 0)
            /\ Answer(r, "tx_failed")
            /\ UNCHANGED <<attempt, rows>>
  /\ UNCHANGED <<fee, expiry, note, netVars>>

\* The loop runs once more than maxAttempts allows.
RetryOnceMore(r, o) ==
  /\ Pool!Release(r, o)
  /\ IF attempt[r] < MaxAttempts
       THEN /\ attempt' = [attempt EXCEPT ![r] = @ + 1]
            /\ Goto(r, "fees")
            /\ UNCHANGED bookVars
       ELSE /\ Count(r, "failed", 0)
            /\ Answer(r, "tx_failed")
            /\ UNCHANGED <<attempt, rows>>
  /\ UNCHANGED <<fee, expiry, note, netVars>>

\* A timed-out transaction gives its number back.
TimedOutRollsBack(r) ==
  /\ "timeout" \in Faults
  /\ step[r] = "confirm"
  /\ Finish(r, Row("failed", "timeout"), "failed", "timeout")
  /\ UNCHANGED <<poolVars, attempt, fee, expiry, netVars>>

\* A transaction that is in a ledger counts as a success, applied or not.
ConfirmedIgnoresResult(r) ==
  /\ step[r] = "confirm"
  /\ \/ Included(TxOf(r), "SUCCESS")
     \/ Included(TxOf(r), "FAILED")
  /\ Finish(r, Row("success", "none"), "ok", "success")
  /\ UNCHANGED <<poolVars, attempt, fee, expiry, netVars>>

\* The row of a timed-out transaction is written, the metric is not moved.
TimedOutUncounted(r) ==
  /\ "timeout" \in Faults
  /\ step[r] = "confirm"
  /\ AwaitRecord(r, Row("failed", "timeout"), "ok", "timeout")
  /\ UNCHANGED <<poolVars, attempt, fee, expiry, bookVars, netVars>>

-----------------------------------------------------------------------------
(* Intake: relayer.ts:107-134 *)

\* A call arrives.  Calls are numbered by arrival, which loses no generality
\* because they differ in nothing else than what they draw from Expiries.
Arrive(r) ==
  /\ step[r] = "new"
  /\ \A q \in 1..(r - 1) : step[q] # "new"
  /\ \E e \in Expiries : expiry' = [expiry EXCEPT ![r] = e]
  /\ Goto(r, "latest")
  /\ UNCHANGED <<poolVars, attempt, fee, note, bookVars, netVars>>

TooLate(r) == expiry[r] # None /\ expiry[r] <= clock + Margin

\* getLatestLedger answers, and the auth entries are too close to expiry.
RefuseExpired(r) ==
  /\ step[r] = "latest"
  /\ TooLate(r)
  /\ Count(r, "expired", 0)
  /\ AwaitRecord(r, Row("expired", "auth_expired"), None, "auth_expired")
  /\ UNCHANGED <<poolVars, attempt, fee, expiry, rows, netVars>>

\* getLatestLedger answers, and there is headroom: enter the retry loop.
EnterLoop(r) ==
  /\ step[r] = "latest"
  /\ ~TooLate(r)
  /\ Goto(r, "fees")
  /\ UNCHANGED <<poolVars, attempt, fee, expiry, note, bookVars, netVars>>

\* getLatestLedger or getFeeStats rejects: the call holds nothing yet.
IntakeThrows(r) ==
  /\ step[r] \in {"latest", "fees"} \cap Faults
  /\ Answer(r, "threw")
  /\ UNCHANGED <<poolVars, attempt, fee, expiry, note, bookVars, netVars>>

-----------------------------------------------------------------------------
(* One attempt: relayer.ts:138-164 *)

\* getFeeStats answers; the bid is within the cap, so acquire() is called.
Bid(r) ==
  /\ step[r] = "fees"
  /\ \E s \in FeeStats :
       /\ PickFee(s, attempt[r], FeeCfg).ok
       /\ fee' = [fee EXCEPT ![r] = PickFee(s, attempt[r], FeeCfg).fee]
  /\ Pool!Acquire(r)
  /\ Goto(r, "acquire")
  /\ UNCHANGED <<attempt, expiry, note, bookVars, netVars>>

\* getFeeStats answers; the bid would be over the cap.
RefuseFee(r) ==
  /\ step[r] = "fees"
  /\ \E s \in FeeStats : ~PickFee(s, attempt[r], FeeCfg).ok
  /\ Count(r, "fee_cap", 0)
  /\ Answer(r, "fee_cap_exceeded")
  /\ UNCHANGED <<poolVars, attempt, fee, expiry, note, rows, netVars>>

\* acquire() asks for the account's number.
AskSequence(r) ==
  /\ step[r] = "acquire"
  /\ Pool!StartFetch(r)
  /\ UNCHANGED <<callVars, bookVars, netVars>>

\* acquire() resolves, after getSequence or from the cached number.
Acquired(r) ==
  /\ step[r] = "acquire"
  /\ Goto(r, "prepare")
  /\ \/ Pool!FetchOk(r, LedgerSequence(chan[r]))
     \/ Pool!LeaseCached(r)
  /\ UNCHANGED <<attempt, fee, expiry, note, bookVars, netVars>>

\* getSequence rejects: acquire() throws, outside of submit's try block.
AcquireThrows(r) ==
  /\ "sequence" \in Faults
  /\ step[r] = "acquire"
  /\ Pool!FetchFail(r)
  /\ Answer(r, "threw")
  /\ UNCHANGED <<attempt, fee, expiry, note, bookVars, netVars>>

\* Simulation answers and leaves the auth entries alone; the transaction is
\* signed and sent.  (The resource fee it attaches is not modelled.)
Prepared(r) ==
  /\ step[r] = "prepare"
  /\ Goto(r, "send")
  /\ UNCHANGED <<poolVars, attempt, fee, expiry, note, bookVars, netVars>>

\* The finally block when an exception leaves the try block: no row.
Abort(r, a) ==
  /\ Pool!Release(r, "failed")
  /\ Answer(r, a)
  /\ UNCHANGED <<attempt, fee, expiry, note, bookVars>>

\* prepare, or a poll of getTransaction, rejects.  In the second case the
\* transaction was accepted, and yet outcome is still "failed".
AttemptThrows(r) ==
  /\ step[r] \in {"prepare", "confirm"} \cap Faults
  /\ Abort(r, "threw")
  /\ UNCHANGED netVars

\* The assembled transaction carries other auth entries than the request.
RefuseMutated(r) ==
  /\ "mutate" \in Faults
  /\ step[r] = "prepare"
  /\ Abort(r, "payload_mutated")
  /\ UNCHANGED netVars

-----------------------------------------------------------------------------
(* Sending: relayer.ts:165-194.  The network's answer is external.  A node  *)
(* holds one pending transaction per source account, and otherwise wants    *)
(* the account's next number.  It may refuse for another reason before it   *)
(* looks at the number.                                                     *)

NextNumber(r) == lease[r] = chain[chan[r]] + 1
Acceptable(r) == NextNumber(r) /\ PendingOn(chan[r]) = {}

\* continue: the finally block releases, then the loop goes on or gives up.
Retry(r, o) ==
  /\ Pool!Release(r, o)
  /\ IF attempt[r] + 1 < MaxAttempts
       THEN /\ attempt' = [attempt EXCEPT ![r] = @ + 1]
            /\ Goto(r, "fees")
            /\ UNCHANGED bookVars
       ELSE /\ Count(r, "failed", 0)
            /\ Answer(r, "tx_failed")
            /\ UNCHANGED <<attempt, rows>>
  /\ UNCHANGED <<fee, expiry, note, netVars>>

\* PENDING (or DUPLICATE): the network keeps the transaction.
Accepted(r) ==
  /\ step[r] = "send"
  /\ Acceptable(r)
  /\ mempool' = mempool \cup {TxOf(r)}
  /\ Goto(r, "confirm")
  /\ UNCHANGED <<poolVars, attempt, fee, expiry, note, bookVars, clock, chain, late, applied>>

\* ERROR txBadSeq.
BadSeq(r) ==
  /\ step[r] = "send"
  /\ ~NextNumber(r) /\ PendingOn(chan[r]) = {}
  /\ Retry(r, "bad_seq")

\* ERROR txInsufficientFee, or TRY_AGAIN_LATER: the network is congested, or
\* it still holds a transaction of this channel.
TryAgain(r) ==
  /\ step[r] = "send"
  /\ Retry(r, "failed")

\* Any other ERROR code.
Rejected(r) ==
  /\ step[r] = "send"
  /\ Finish(r, Row("failed", "code"), "failed", "tx_failed")
  /\ UNCHANGED <<poolVars, attempt, fee, expiry, netVars>>

\* send rejects; the request may reach the network all the same.
SendThrows(r) ==
  /\ "send" \in Faults
  /\ step[r] = "send"
  /\ Abort(r, "threw")
  /\ late' = late \cup {TxOf(r)}
  /\ UNCHANGED <<clock, chain, mempool, applied>>

-----------------------------------------------------------------------------
(* Confirming and recording: relayer.ts:195-251, 282-319 *)

\* A poll finds the transaction in a ledger.
Confirmed(r) ==
  /\ step[r] = "confirm"
  /\ \/ /\ Included(TxOf(r), "SUCCESS")
        /\ Finish(r, Row("success", "none"), "ok", "success")
     \/ /\ Included(TxOf(r), "FAILED")
        /\ Finish(r, Row("failed", "FAILED"), "ok", "tx_failed")
  /\ UNCHANGED <<poolVars, attempt, fee, expiry, netVars>>

\* The deadline passes between two polls; the last one may have been before
\* the transaction landed.
TimedOut(r) ==
  /\ "timeout" \in Faults
  /\ step[r] = "confirm"
  /\ Finish(r, Row("failed", "timeout"), "ok", "timeout")
  /\ UNCHANGED <<poolVars, attempt, fee, expiry, netVars>>

\* The finally block after store.record, when the call has a lease.
ReleaseNoted(r) ==
  IF note[r].outcome = None THEN UNCHANGED poolVars
                            ELSE Pool!Release(r, note[r].outcome)

Recorded(r) ==
  /\ step[r] = "record"
  /\ rows' = [rows EXCEPT ![r] = Append(@, note[r].row)]
  /\ ReleaseNoted(r)
  /\ Answer(r, note[r].then)
  /\ UNCHANGED <<attempt, fee, expiry, note, counted, netVars>>

\* store.record rejects, with the row written or not: the caller sees the
\* store's error.
RecordThrows(r) ==
  /\ "record" \in Faults
  /\ step[r] = "record"
  /\ \/ UNCHANGED rows
     \/ rows' = [rows EXCEPT ![r] = Append(@, note[r].row)]
  /\ ReleaseNoted(r)
  /\ Answer(r, "threw")
  /\ UNCHANGED <<attempt, fee, expiry, note, counted, netVars>>

-----------------------------------------------------------------------------
(* Stop and start: main.ts:94-100 *)

InFlight(r) == step[r] \notin {"new", "done"}

\* The new process builds its pool from the same secrets; what the lost calls
\* closed over means nothing any more.
PoolRestart ==
  /\ sequence' = [ch \in Pool!Channels |-> None]
  /\ busy' = [ch \in Pool!Channels |-> FALSE]
  /\ waiters' = << >>
  /\ pc' = [r \in Requests |-> "idle"]
  /\ UNCHANGED <<chan, lease>>

\* The process stops at a signal, or dies, and is started again.  Requests
\* under way to the network or to the database may still get there.  (counted
\* is the history of the counters, which begin at zero again.)
Crash ==
  /\ "crash" \in Faults
  /\ \E r \in Requests : InFlight(r)
  /\ PoolRestart
  /\ step' = [r \in Requests |-> IF InFlight(r) THEN "done" ELSE step[r]]
  /\ answer' = [r \in Requests |-> IF InFlight(r) THEN "lost" ELSE answer[r]]
  /\ late' = late \cup {TxOf(r) : r \in {q \in Requests : step[q] = "send"}}
  /\ \E written \in SUBSET {r \in Requests : step[r] = "record"} :
       rows' = [r \in Requests |-> IF r \in written THEN Append(rows[r], note[r].row)
                                                   ELSE rows[r]]
  /\ UNCHANGED <<attempt, fee, expiry, note, counted, clock, chain, mempool, applied>>

-----------------------------------------------------------------------------
(* The network (external) *)

Tick ==
  /\ clock < MaxLedger
  /\ clock' = clock + 1
  /\ UNCHANGED <<poolVars, callVars, bookVars, chain, late, mempool, applied>>

\* A request whose call has ended arrives after all, and the network keeps its
\* transaction.  One that it refuses, or that never arrives, stays in late.
Deliver(tx) ==
  /\ tx.seq = chain[tx.ch] + 1 /\ PendingOn(tx.ch) = {}
  /\ late' = late \ {tx}
  /\ mempool' = mempool \cup {tx}
  /\ UNCHANGED <<poolVars, callVars, bookVars, clock, chain, applied>>

\* A pending transaction is included.  It succeeds only while its auth
\* entries are valid: not expired, and their nonce not consumed before.
Land(tx) ==
  /\ mempool' = mempool \ {tx}
  /\ chain' = [chain EXCEPT ![tx.ch] = tx.seq]
  /\ \/ /\ ~Expired(tx.req)
        /\ ~Succeeded(tx.req)
        /\ applied' = applied \cup {[tx |-> tx, result |-> "SUCCESS"]}
     \/ applied' = applied \cup {[tx |-> tx, result |-> "FAILED"]}
  /\ UNCHANGED <<poolVars, callVars, bookVars, clock, late>>

\* A pending transaction is evicted, or its time bounds pass.
Drop(tx) ==
  /\ "drop" \in Faults
  /\ mempool' = mempool \ {tx}
  /\ UNCHANGED <<poolVars, callVars, bookVars, clock, chain, late, applied>>

-----------------------------------------------------------------------------
\* What a call does by itself once it has arrived.
Progress(r) ==
  \/ RefuseExpired(r) \/ EnterLoop(r) \/ IntakeThrows(r)
  \/ Bid(r) \/ RefuseFee(r)
  \/ AskSequence(r) \/ Acquired(r) \/ AcquireThrows(r)
  \/ Prepared(r) \/ AttemptThrows(r) \/ RefuseMutated(r)
  \/ Accepted(r) \/ BadSeq(r) \/ TryAgain(r) \/ Rejected(r) \/ SendThrows(r)
  \/ Confirmed(r) \/ TimedOut(r)
  \/ Recorded(r) \/ RecordThrows(r)

\* Every call is answered: nothing is left to do.
AllAnswered ==
  /\ \A r \in Requests : step[r] = "done"
  /\ UNCHANGED vars

Next ==
  \/ \E r \in Requests : Arrive(r) \/ Progress(r)
  \/ Crash
  \/ Tick
  \/ \E tx \in late : Deliver(tx)
  \/ \E tx \in mempool : Land(tx) \/ Drop(tx)
  \/ AllAnswered

(***************************************************************************)
(* The event loop runs every continuation, every RPC promise settles (the  *)
(* SDK's HTTP client times out), and the polling loop sees its deadline    *)
(* pass.  Nothing is assumed of the network.                               *)
(***************************************************************************)
Safe == Init /\ [][Next]_vars
Spec == Safe /\ \A r \in Requests : WF_vars(Progress(r))

-----------------------------------------------------------------------------
(* Properties *)

\* What the network has, had or may get of a call.
TxsOf(r) ==
  {t \in Alive : t.req = r} \cup {e.tx : e \in {x \in applied : x.tx.req = r}}

(***************************************************************************)
(* A call never has two transactions with the network: every retry follows *)
(* an answer that says the previous transaction was not kept, so the same  *)
(* signed invocation is not paid for twice, whatever RPC calls fail or     *)
(* time out (the continue statements of relayer.ts:166-194).               *)
(***************************************************************************)
OneAcceptedTx ==
  \A r \in Requests : Cardinality(TxsOf(r)) <= 1

(***************************************************************************)
(* An answer that states an outcome states the final one: "success" means  *)
(* the invocation took effect in a ledger; auth_expired, fee_cap_exceeded, *)
(* payload_mutated and tx_failed mean it has not and never will through    *)
(* this call.  Only "timeout", HTTP 500 and a lost connection leave it open*)
(* (main.ts:67-75).                                                        *)
(***************************************************************************)
DefiniteAnswer ==
  \A r \in Requests :
    /\ HttpCode(answer[r]) = 200 => Succeeded(r)
    /\ HttpCode(answer[r]) = 409 /\ answer[r] # "timeout"
         => ~Succeeded(r) /\ \A t \in Alive : t.req # r

(***************************************************************************)
(* The books agree with each other and with the chain: an answered call    *)
(* was counted at most once, has at most one row, the row and the counter  *)
(* say the same, and a success row is about an invocation that took        *)
(* effect.  finish() moves the counters before it awaits the store.        *)
(***************************************************************************)
BooksAgree ==
  \A r \in Requests : step[r] = "done" =>
    /\ Len(counted[r]) <= 1 /\ Len(rows[r]) <= Len(counted[r])
    /\ rows[r] # << >> => rows[r][1].status = counted[r][1].outcome
    /\ rows[r] # << >> /\ rows[r][1].status = "success" => Succeeded(r)
    /\ answer[r] = "success" => rows[r] # << >> /\ rows[r][1].status = "success"

(***************************************************************************)
(* Whatever way submit ends, it gives its channel back: an answered call   *)
(* holds no channel and waits for none, and once all are answered every    *)
(* channel is idle again (the finally block, relayer.ts:249-251).          *)
(***************************************************************************)
NoLeakedChannel ==
  /\ \A r \in Requests : step[r] = "done" => pc[r] \in {"idle", "released"}
  /\ (\A r \in Requests : step[r] = "done") => \A ch \in Pool!Channels : ~busy[ch]

\* The call ended before it came to finish().
EndedEarly(r) == answer[r] \in {"threw", "lost"} /\ note[r] = NoNote

(***************************************************************************)
(* The fee books cover what the ledger charged: once a transaction is in a *)
(* ledger, also as a failure, its call has counted the bid it carries,     *)
(* unless it still polls, or ended before finish(): with HTTP 500 because  *)
(* send or a poll rejected, or with the process.  Whoever hears 200 or 409,*)
(* or 500 because only the row could not be written, was counted before    *)
(* (relayer.ts:303-307).  The books may hold more: a rejected transaction  *)
(* and one that is dropped after the timeout are counted as well.          *)
(***************************************************************************)
SpendCoversCharge ==
  \A e \in applied : LET r == e.tx.req IN
    \/ step[r] = "confirm" \/ EndedEarly(r)
    \/ \E i \in DOMAIN counted[r] : counted[r][i].fee = e.tx.fee

\* A call on the channel ended without an answer although the network had
\* accepted its transaction, or it timed out.
LeftOpen(ch) ==
  \E t \in mempool \cup {e.tx : e \in applied} :
    t.ch = ch /\ answer[t.req] \in {"threw", "lost"}
TimedOutOn(ch) == \E q \in Requests : chan[q] = ch /\ note[q].then = "timeout"

(***************************************************************************)
(* "The sequence number is tracked locally so two concurrent submissions   *)
(* never collide" (channel-pool.ts:22-23): a transaction about to be sent  *)
(* carries exactly the next number of its account, and no other one of     *)
(* that channel is pending - whatever failed before, as long as every      *)
(* transaction accepted on the channel was followed to its ledger.         *)
(***************************************************************************)
LeaseIsNext ==
  \A r \in Requests :
    step[r] \in {"prepare", "send"} /\ ~LeftOpen(chan[r]) /\ ~TimedOutOn(chan[r])
      => NextNumber(r) /\ PendingOn(chan[r]) = {}

\* The process was started again: only a stop loses an answer.
Restarted == \E q \in Requests : answer[q] = "lost"

(***************************************************************************)
(* A timed-out transaction keeps its number ("outcome = ok",               *)
(* relayer.ts:196-199): the cached number of an idle channel with nothing  *)
(* pending is never behind the ledger, so no number a ledger has consumed  *)
(* is handed out, unless a call was left open by an exception, or the      *)
(* process was started again and forgot the number a timed-out transaction *)
(* had kept.  It may be ahead, after a transaction was dropped; then       *)
(* txBadSeq makes the pool refetch.                                        *)
(***************************************************************************)
NeverBehind ==
  \A ch \in Pool!Channels :
    ~busy[ch] /\ sequence[ch] # None /\ PendingOn(ch) = {} /\ ~LeftOpen(ch)
    /\ ~(Restarted /\ TimedOutOn(ch))
      => sequence[ch] >= chain[ch]

(***************************************************************************)
(* The relayer uses the pool by its rules: between two restarts, every     *)
(* behaviour of the relayer is one of ChannelPool, so what is proved of    *)
(* the pool holds here.                                                    *)
(***************************************************************************)
UsesPool == Pool!Init /\ [][Pool!Next \/ PoolRestart]_poolVars

\* Where the invocation of a call stands with the network.  Payment knows no
\* "twice".
Fate(r) ==
  CASE \E t, u \in TxsOf(r) : t # u -> "twice"
    [] TxsOf(r) = {} -> "unsent"
    [] OTHER -> CASE Succeeded(r) -> "paid"
                  [] TxsOf(r) \subseteq Alive -> "kept"
                  [] OTHER -> "failed"

\* What its caller can conclude from the answer.
Told(r) ==
  CASE answer[r] = "success" -> "paid"
    [] answer[r] \in Refusals -> "unpaid"
    [] answer[r] = None -> None
    [] OTHER -> "open"

Promise == INSTANCE Payment
  WITH Calls <- Requests, fate <- [r \in Requests |-> Fate(r)], told <- [r \in Requests |-> Told(r)]

(***************************************************************************)
(* All of this together, as the caller sees it: the relayer implements     *)
(* Payment.  Over channels, retries, late answers and restarts, no call is *)
(* sent twice or answered twice, and nothing that follows a 200 or a       *)
(* refusal belies it (relayer.ts:107-280, main.ts:49-75).                  *)
(***************************************************************************)
KeepsPromise == Promise!Spec

\* Every call that arrives is answered, whatever fails, unless the process
\* stops: no call waits for a channel forever.
EveryCallAnswered ==
  \A r \in Requests : step[r] = "latest" ~> step[r] = "done"

-----------------------------------------------------------------------------
(* What comments and documents of the relayer say, and the code does not do *)

(***************************************************************************)
(* "The sequence number is tracked locally so two concurrent submissions   *)
(* never collide" (channel-pool.ts:22-23): a number carried by a           *)
(* transaction the network holds is not leased to another call.            *)
(***************************************************************************)
NoReuseOfAccepted ==
  \A r \in Requests : step[r] \in {"prepare", "send"} =>
    \A t \in mempool : t.ch = chan[r] => t.seq # lease[r]

(***************************************************************************)
(* "Every attempt is written to `submissions` with fee, latency, channel,  *)
(* and outcome" (docs/relayer.md:29): when a ledger has charged for a      *)
(* transaction, the table has a row of its call once that has ended.       *)
(***************************************************************************)
ChargeIsWritten ==
  \A e \in applied : step[e.tx.req] = "done" => rows[e.tx.req] # << >>

=============================================================================
