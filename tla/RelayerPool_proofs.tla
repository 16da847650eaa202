-------------------------- MODULE RelayerPool_proofs --------------------------
(***************************************************************************)
(* Proofs about what the calls of Relayer and its ChannelPool do together, *)
(* for every number of calls, channels and attempts and every set of       *)
(* faults: the pool is used by its rules, every channel comes back, and    *)
(* the numbers it hands out follow the ledger.                             *)
(*                                                                         *)
(* The argument has two layers over CallInv of Relayer_proofs.  UseInv     *)
(* ties the place a call is at to its place in the pool, and every         *)
(* transaction the network has to the lease of its call; with it, what is  *)
(* proved of the pool (IInv of ChannelPool_proofs) holds here.  NumberInv  *)
(* then says where the number of a channel stands against the ledger.      *)
(***************************************************************************)
EXTENDS Relayer_proofs

PP == INSTANCE ChannelPool_proofs WITH Clients <- Requests, Seqs <- 0..MaxSequence

\* The awaits at which a call has no channel, and those at which it has a lease.
Outside == {"new", "latest", "fees", "done"}
OnLease == {"prepare", "send", "confirm"}

\* Where a call is in submit says where it is in acquire() and release().
FollowsAt(r) ==
  /\ step[r] \in Outside => pc[r] \in {"idle", "released"}
  /\ step[r] = "acquire" => pc[r] \in {"waiting", "granted", "fetching"}
  /\ step[r] \in OnLease => pc[r] = "leased"
  /\ step[r] = "record" =>
       IF note[r].outcome = None THEN pc[r] \in {"idle", "released"} ELSE pc[r] = "leased"

\* A ledger has the transaction of call r.
InLedger(r) == \E e \in applied : e.tx.req = r
Charging == {r \in Requests : InLedger(r)}

\* A transaction carries the channel and the number of its call's lease.
Signed(t) == t \in Txs /\ t.ch = chan[t.req] /\ t.seq = lease[t.req]

\* The call ended while it sent, and has not heard what became of it.
Unheard(r) == answer[r] \in {"threw", "lost"} /\ note[r].then # "timeout"

\* A ledger has taken a transaction whose call ended without an answer.
Astray(ch) == \E e \in applied : e.tx.ch = ch /\ answer[e.tx.req] \in {"threw", "lost"}

\* A pending transaction's call waits for it, timed out, or was not answered.
Excused(r) ==
  \/ step[r] = "confirm"
  \/ note[r].then = "timeout"
  \/ answer[r] \in {"threw", "lost"}

\* What note says, for the release that follows it.
NoteFits(r) ==
  /\ note[r].then = "timeout" => step[r] \in {"record", "done"}
  /\ step[r] = "record" =>
       /\ note[r].outcome \in {"ok", "failed", None}
       /\ note[r].outcome # "ok" => Nothing(r) /\ note[r].then # "timeout"
       /\ note[r].outcome = "ok" /\ note[r].then # "timeout" => InLedger(r)

\* The call waits for its transaction, or knows what became of it ...
Awaits(r) == step[r] = "confirm" \/ (step[r] = "record" /\ note[r].outcome = "ok")

\* The ledger's number after which call r leases.
Due(r) == IF InLedger(r) THEN chain[chan[r]] ELSE chain[chan[r]] + 1

\* ... and until then its number is the ledger's last, or the next one, unless
\* an unheard transaction took its place; nobody else's is pending beside it.
AwaitsOK(r) ==
  Awaits(r) =>
    /\ \A t \in mempool : t.ch = chan[r] => t.req = r \/ Unheard(t.req)
    /\ lease[r] \in Nat /\ lease[r] <= chain[chan[r]] + 1
    /\ ~Astray(chan[r]) => lease[r] = Due(r)

\* What the network has of a channel: a pending transaction carries its next
\* number and is the only one, and there are no more numbers used than calls.
\* What is still on its way was sent by a call that ended.
NetOK ==
  /\ clock \in 0..MaxLedger
  /\ chain \in [Pool!Channels -> Nat]
  /\ \A ch \in Pool!Channels : chain[ch] <= Cardinality(Charging)
  /\ \A t \in mempool : Signed(t) /\ t.seq = chain[t.ch] + 1
  /\ \A e \in applied : Signed(e.tx) /\ e.result \in {"SUCCESS", "FAILED"}
  /\ \A t, u \in mempool : t.ch = u.ch => t = u
  /\ \A t \in mempool : Excused(t.req)
  /\ \A t \in late : Signed(t) /\ Unheard(t.req)

UseInv ==
  /\ CallInv
  /\ PP!IInv
  /\ NetOK
  /\ \A r \in Requests : FollowsAt(r) /\ NoteFits(r) /\ AwaitsOK(r)

-----------------------------------------------------------------------------
(* The pool, as the relayer calls it *)

\* What ChannelPool assumes of its constants holds of these.
LEMMA PoolConstants ==
  NumChannels \in Nat \ {0} /\ 0..MaxSequence \subseteq Int /\ None \notin Int
BY RelayerAssumption

LEMMA SameChannels == Pool!Channels = 1..NumChannels /\ PP!Channels = 1..NumChannels
BY DEF Pool!Channels, PP!Channels

\* The same module under two names.
LEMMA SamePool == [Pool!Next]_poolVars <=> [PP!Next]_(PP!vars)
<1>1. \A c, ch : \A at : Pool!Free(ch, at) <=> PP!Free(ch, at)
  BY DEF Pool!Free, PP!Free
<1>2. \A c : Pool!Acquire(c) <=> PP!Acquire(c)
  BY DEF Pool!Acquire, Pool!AcquireIdle, Pool!AcquireQueued, Pool!MayAcquire, Pool!Channels,
         PP!Acquire, PP!AcquireIdle, PP!AcquireQueued, PP!MayAcquire, PP!Channels
<1>3. \A c : Pool!StartFetch(c) <=> PP!StartFetch(c)
  BY DEF Pool!StartFetch, PP!StartFetch
<1>4. \A c, s : Pool!TakeLease(c, s) <=> PP!TakeLease(c, s)
  BY DEF Pool!TakeLease, PP!TakeLease
<1>5. \A c, n : Pool!FetchOk(c, n) <=> PP!FetchOk(c, n)
  BY <1>4 DEF Pool!FetchOk, PP!FetchOk
<1>6. \A c : Pool!FetchFail(c) <=> PP!FetchFail(c)
  BY <1>1 DEF Pool!FetchFail, PP!FetchFail
<1>7. \A c : Pool!LeaseCached(c) <=> PP!LeaseCached(c)
  BY <1>4 DEF Pool!LeaseCached, PP!LeaseCached
<1>8. \A c, o : Pool!Release(c, o) <=> PP!Release(c, o)
  BY <1>1 DEF Pool!Release, Pool!Released, Pool!AfterRelease, Pool!vars,
              PP!Release, PP!Released, PP!AfterRelease, PP!vars
<1>9. \A c : Pool!Use(c) <=> PP!Use(c)
  BY <1>8 DEF Pool!Use, PP!Use, Pool!Outcomes, PP!Outcomes
<1> QED
  BY <1>2, <1>3, <1>5, <1>6, <1>7, <1>9 DEF Pool!Next, PP!Next, poolVars, PP!vars

\* What is proved of the pool holds as long as the relayer uses it by its rules.
LEMMA PoolKeeps ==
  ASSUME PP!IInv, [Pool!Next]_poolVars
  PROVE  PP!IInv'
BY SamePool, PoolConstants, PP!NextIInv

\* What the proofs below use of the pool's invariant.
LEMMA PoolFacts ==
  ASSUME PP!IInv
  PROVE  /\ sequence \in [Pool!Channels -> Int \cup {None}]
         /\ pc \in [Requests -> {"idle", "waiting", "granted", "fetching", "leased", "released"}]
         /\ chan \in [Requests -> Pool!Channels \cup {None}]
         /\ lease \in [Requests -> Int \cup {None}]
         /\ \A r \in Requests : pc[r] \in {"granted", "fetching", "leased", "released"} =>
              chan[r] \in Pool!Channels
         /\ \A r \in Requests : pc[r] \in {"leased", "released"} => lease[r] \in Int
         /\ \A r, q \in Requests :
              /\ pc[r] \in {"granted", "fetching", "leased"}
              /\ pc[q] \in {"granted", "fetching", "leased"}
              /\ chan[r] = chan[q]
              => r = q
         /\ \A r \in Requests : pc[r] = "leased" => sequence[chan[r]] = lease[r]
BY SameChannels DEF PP!IInv, PP!TypeOK, PP!ChanOK, PP!MutualExclusion, PP!Holds, PP!Holding,
   PP!LeaseIsCurrent

\* A step of call r leaves the leases of the others alone; it may hand its
\* channel to one that waits.
OthersKept(r) ==
  \A q \in Requests \ {r} :
    /\ lease'[q] = lease[q]
    /\ \/ pc'[q] = pc[q] /\ chan'[q] = chan[q]
       \/ pc[q] = "waiting" /\ pc'[q] = "granted" /\ chan'[q] = chan[r]

\* free() gives the channel of r to the first waiter, or makes it idle.
LEMMA FreeMoves ==
  ASSUME PP!IInv, NEW r \in Requests, NEW at, pc[r] \in {"fetching", "leased"},
         Pool!Free(chan[r], [pc EXCEPT ![r] = at]), UNCHANGED lease
  PROVE  pc'[r] = at /\ chan'[r] = chan[r] /\ OthersKept(r)
<1>1. /\ waiters \in Seq(Requests)
      /\ \A c \in Requests :
           pc[c] = "waiting" <=> \E i \in 1..Len(waiters) : waiters[i] = c
  BY DEF PP!IInv, PP!TypeOK, PP!QueueIsWaiting
<1>2. CASE waiters = << >>
  BY <1>2, PoolFacts DEF Pool!Free, OthersKept
<1>3. CASE waiters # << >>
  <2> DEFINE h == Head(waiters)
  <2>1. h \in Requests /\ h = waiters[1] /\ Len(waiters) \in Nat \ {0}
    BY <1>1, <1>3, EmptySeq, LenProperties, HeadTailProperties
  <2>2. pc[h] = "waiting"
    BY <1>1, <2>1
  <2>3. /\ pc' = [[pc EXCEPT ![r] = at] EXCEPT ![h] = "granted"]
        /\ chan' = [chan EXCEPT ![h] = chan[r]]
    BY <1>3 DEF Pool!Free
  <2> HIDE DEF h
  <2> QED
    BY <2>1, <2>2, <2>3, PoolFacts DEF OthersKept
<1> QED
  BY <1>2, <1>3

-----------------------------------------------------------------------------
(* The numbers stay within the bound the pool is given *)

\* At most one number of a channel is used per call.
LEMMA FewCharges ==
  IsFiniteSet(Charging) /\ Cardinality(Charging) \in Nat /\ Cardinality(Charging) <= NumRequests
<1>1. /\ IsFiniteSet(Requests)
      /\ Cardinality(Requests) = NumRequests
  BY FS_Interval, RelayerAssumption DEF Requests
<1>2. Charging \in SUBSET Requests
  BY DEF Charging
<1>3. IsFiniteSet(Charging) /\ Cardinality(Charging) <= Cardinality(Requests)
  BY <1>1, <1>2, FS_Subset
<1> QED
  BY <1>1, <1>3, FS_CardinalityType

LEMMA Bounded ==
  ASSUME UseInv
  PROVE  /\ \A ch \in Pool!Channels : chain[ch] \in 0..MaxSequence
         /\ \A r \in Requests : Awaits(r) => lease[r] \in 0..MaxSequence
<1>1. /\ NumRequests \in Nat /\ chain \in [Pool!Channels -> Nat]
      /\ MaxSequence = 2 * NumRequests + 1
  BY RelayerAssumption DEF UseInv, NetOK, MaxSequence
<1>2. \A ch \in Pool!Channels : chain[ch] \in Nat /\ chain[ch] <= NumRequests
  BY <1>1, FewCharges DEF UseInv, NetOK
<1>3. ASSUME NEW r \in Requests, Awaits(r)
      PROVE  lease[r] \in 0..MaxSequence
  <2>1. lease[r] \in Nat /\ lease[r] <= chain[chan[r]] + 1
    BY <1>3 DEF UseInv, AwaitsOK
  <2>2. pc[r] = "leased"
    BY <1>3, RelayerAssumption DEF UseInv, FollowsAt, Awaits, OnLease
  <2>3. chan[r] \in Pool!Channels
    BY <2>2, PoolFacts DEF UseInv
  <2> QED
    BY <1>1, <1>2, <2>1, <2>3
<1> QED
  BY <1>1, <1>2, <1>3

LEMMA Releases ==
  ASSUME UseInv, NEW r \in Requests, NEW o \in Pool!Outcomes, Pool!Release(r, o),
         o = "ok" => Awaits(r)
  PROVE  Pool!Next
<1>1. Pool!Use(r)
  BY Bounded DEF Pool!Use
<1> QED
  BY <1>1 DEF Pool!Next

\* A release of the lease a call has.
LEMMA ReleaseMoves ==
  ASSUME UseInv, NEW r \in Requests, NEW o, pc[r] = "leased", Pool!Release(r, o)
  PROVE  /\ pc'[r] = "released" /\ chan'[r] = chan[r] /\ lease'[r] = lease[r]
         /\ sequence' = [sequence EXCEPT ![chan[r]] = Pool!AfterRelease(r, o)]
         /\ OthersKept(r)
<1>1. /\ sequence' = [sequence EXCEPT ![chan[r]] = Pool!AfterRelease(r, o)]
      /\ Pool!Free(chan[r], [pc EXCEPT ![r] = "released"])
      /\ UNCHANGED lease
  BY DEF Pool!Release, Pool!Released
<1> QED
  BY <1>1, FreeMoves DEF UseInv

-----------------------------------------------------------------------------
(* What every step has in common *)

\* The part of the invariant that is about one call.
CallFits(r) == FollowsAt(r) /\ NoteFits(r) /\ AwaitsOK(r)

\* What a call has not heard, and what went astray, stays so.
LEMMA Unchanging ==
  ASSUME UseInv, NEW r \in Requests, step[r] # "done", Alone(r), applied' = applied
  PROVE  /\ \A q \in Requests : Unheard(q) => q # r /\ Unheard(q)'
         /\ \A ch : Astray(ch) => Astray(ch)'
<1>1. answer[r] = None /\ None \notin {"threw", "lost"}
  BY RelayerAssumption DEF UseInv, CallInv, CallOK, Answers, Errors
<1>2. \A q \in Requests : answer[q] \in {"threw", "lost"} => q # r /\ answer'[q] = answer[q]
  BY <1>1 DEF Alone
<1>3. \A q \in Requests : Unheard(q) => q # r /\ Unheard(q)'
  BY <1>2 DEF Unheard, Alone
<1>4. \A ch : Astray(ch) => Astray(ch)'
  BY <1>2 DEF Astray, UseInv, CallInv, OneTx, Alive
<1> QED
  BY <1>3, <1>4

\* A step of call r keeps what is said of another call.
LEMMA OtherFits ==
  ASSUME UseInv, NEW r \in Requests, NEW q \in Requests \ {r}, step[r] # "done",
         Alone(r), OthersKept(r), UNCHANGED <<chain, applied>>,
         \A t \in mempool' : t \in mempool \/ (t.req = r /\ t.ch = chan[r]),
         \A t \in Alive' : t \in Alive \/ t.req = r,
         \A t \in mempool' : t \notin mempool => pc[r] = "leased"
  PROVE  CallFits(q)'
<1>1. /\ step'[q] = step[q] /\ note'[q] = note[q] /\ lease'[q] = lease[q]
      /\ CallFits(q)
  BY DEF Alone, OthersKept, UseInv, CallFits
<1>2. FollowsAt(q)'
  BY <1>1 DEF FollowsAt, CallFits, OthersKept, Outside, OnLease, UseInv, CallInv, CallsTyped
<1>3. NoteFits(q)'
  <2>1. (\A t \in Alive : t.req # q) => (\A t \in Alive' : t.req # q)
    OBVIOUS
  <2> QED
    BY <1>1, <2>1 DEF NoteFits, CallFits, Nothing, InLedger
<1>4. AwaitsOK(q)'
  <2>1. SUFFICES ASSUME Awaits(q)
                 PROVE  /\ \A t \in mempool' : t.ch = chan'[q] => t.req = q \/ Unheard(t.req)'
                        /\ lease'[q] \in Nat /\ lease'[q] <= chain[chan'[q]] + 1
                        /\ ~Astray(chan[q])' => lease'[q] = Due(q)'
    BY <1>1 DEF AwaitsOK, Awaits
  <2>2. pc[q] = "leased" /\ chan'[q] = chan[q]
    BY <1>1, <2>1, RelayerAssumption DEF Awaits, CallFits, FollowsAt, OnLease, OthersKept
  <2>3. pc[r] = "leased" => chan[r] # chan[q]
    BY <2>2, PoolFacts DEF UseInv
  <2>4. \A t \in mempool' : t.ch = chan[q] => t \in mempool /\ t.req \in Requests
    BY <2>3 DEF UseInv, CallInv, OneTx, Alive
  <2>5. Due(q)' = Due(q)
    BY <2>2 DEF Due, InLedger
  <2>6. PICK ch : ch = chan[q]
    OBVIOUS
  <2>7. /\ \A t \in mempool : t.ch = ch => t.req = q \/ Unheard(t.req)
        /\ lease[q] \in Nat /\ lease[q] <= chain[ch] + 1
        /\ ~Astray(ch) => lease[q] = Due(q)
    BY <1>1, <2>1, <2>6 DEF CallFits, AwaitsOK
  <2>8. ~Astray(ch)' => ~Astray(ch)
    BY Unchanging
  <2>9. ~Astray(ch)' => lease'[q] = Due(q)'
    BY <1>1, <2>5, <2>7, <2>8
  <2>10. \A t \in mempool' : t.ch = ch => t.req = q \/ Unheard(t.req)'
    BY <2>4, <2>6, <2>7, Unchanging
  <2> QED
    BY <1>1, <2>2, <2>6, <2>7, <2>9, <2>10 DEF Astray
<1> QED
  BY <1>2, <1>3, <1>4 DEF CallFits

\* A transaction of a call that is past "send" keeps its channel and number.
LEMMA SignedStays ==
  ASSUME UseInv, NEW r \in Requests, OthersKept(r),
         step[r] \notin Unsent => chan'[r] = chan[r] /\ lease'[r] = lease[r],
         NEW t, t.req \in Requests, step[t.req] \notin Unsent, Signed(t)
  PROVE  Signed(t)'
<1>1. CASE t.req = r
  BY <1>1 DEF Signed
<1>2. CASE t.req # r
  <2>1. pc[t.req] # "waiting"
    BY <1>2 DEF UseInv, FollowsAt, Outside, OnLease, Unsent, CallInv, CallsTyped
  <2> QED
    BY <1>2, <2>1 DEF Signed, OthersKept
<1> QED
  BY <1>1, <1>2

\* A step of call r in which the network has no part.
LEMMA QuietUse ==
  ASSUME UseInv, NEW r \in Requests, step[r] # "done", CallInv', PP!IInv', CallFits(r)',
         Alone(r), OthersKept(r), UNCHANGED <<clock, chain, late, mempool, applied>>,
         step[r] \notin Unsent => chan'[r] = chan[r] /\ lease'[r] = lease[r],
         \A t \in mempool : t.req = r => Excused(r)'
  PROVE  UseInv'
<1>1. \A q \in Requests : CallFits(q)'
  BY OtherFits DEF Alive
<1>2. \A t \in mempool : Excused(t.req)'
  BY DEF UseInv, NetOK, CallInv, OneTx, Alive, Excused, Alone
<1>3. NetOK'
  <2>1. \A t \in Alive : Signed(t)'
    BY SignedStays DEF UseInv, NetOK, CallInv, OneTx, Alive
  <2>2. \A e \in applied : Signed(e.tx)'
    BY SignedStays DEF UseInv, NetOK, CallInv, OneTx, Alive
  <2>3. Charging' = Charging
    BY DEF Charging, InLedger
  <2>4. \A t \in late : Unheard(t.req)'
    BY Unchanging DEF UseInv, NetOK, CallInv, OneTx, Alive
  <2>5. /\ \A t \in mempool' : Signed(t)' /\ t.seq = chain'[t.ch] + 1
        /\ \A t \in late' : Signed(t)' /\ Unheard(t.req)'
        /\ \A e \in applied' : Signed(e.tx)' /\ e.result \in {"SUCCESS", "FAILED"}
    BY <2>1, <2>2, <2>4 DEF UseInv, NetOK, Alive
  <2> QED
    BY <1>2, <2>3, <2>5 DEF UseInv, NetOK
<1> QED
  BY <1>1, <1>3 DEF UseInv, CallFits

-----------------------------------------------------------------------------
(* Steps of a call that the pool has no part in *)

LEMMA PoolIdle ==
  ASSUME UseInv, UNCHANGED poolVars, NEW r \in Requests
  PROVE  /\ PP!IInv' /\ [Pool!Next]_poolVars /\ OthersKept(r)
         /\ pc' = pc /\ chan' = chan /\ lease' = lease
BY PoolKeeps DEF UseInv, poolVars, OthersKept

\* A call goes on to an await before acquire(), or is answered without a lease.
LEMMA WalksOutside ==
  ASSUME UseInv, CallInv', NEW r \in Requests, step[r] \in Outside \ {"done"},
         NEW s \in Outside, step' = [step EXCEPT ![r] = s], Alone(r),
         UNCHANGED <<poolVars, note, netVars>>
  PROVE  UseInv' /\ [Pool!Next]_poolVars
<1>1. step'[r] = s /\ note' = note
  BY DEF UseInv, CallInv, CallsTyped
<1>2. step[r] \in Unsent /\ Nothing(r) /\ pc[r] \in {"idle", "released"} /\ NoteFits(r)
  BY UnsentNothing DEF UseInv, Outside, Unsent, FollowsAt
<1>3. FollowsAt(r)' /\ NoteFits(r)' /\ AwaitsOK(r)'
  BY <1>1, <1>2, PoolIdle
  DEF FollowsAt, NoteFits, AwaitsOK, Awaits, Outside, OnLease
<1>4. UNCHANGED <<clock, chain, late, mempool, applied>>
  BY DEF netVars
<1> QED
  BY <1>2, <1>3, <1>4, PoolIdle, QuietUse DEF CallFits, Nothing, Alive, Outside

LEMMA IntakeUses ==
  ASSUME UseInv, CallInv', NEW r \in Requests,
         Arrive(r) \/ EnterLoop(r) \/ IntakeThrows(r) \/ RefuseFee(r)
  PROVE  UseInv' /\ [Pool!Next]_poolVars
<1>1. PICK s \in Outside : step' = [step EXCEPT ![r] = s]
  BY DEF Arrive, EnterLoop, IntakeThrows, RefuseFee, Goto, Answer, Outside
<1>2. step[r] \in Outside \ {"done"} /\ UNCHANGED <<poolVars, note, netVars>>
  BY DEF Arrive, EnterLoop, IntakeThrows, RefuseFee, Outside
<1>3. Alone(r)
  BY DEF Arrive, EnterLoop, IntakeThrows, RefuseFee, Goto, Answer, Count, Alone, UseInv,
         CallInv, CallsTyped, bookVars
<1> QED
  BY <1>1, <1>2, <1>3, WalksOutside

\* Simulation answers: the lease is used for the transaction.
LEMMA PreparedUses ==
  ASSUME UseInv, CallInv', NEW r \in Requests, Prepared(r)
  PROVE  UseInv' /\ [Pool!Next]_poolVars
<1>1. /\ step[r] = "prepare" /\ step'[r] = "send" /\ note' = note
      /\ UNCHANGED <<poolVars, clock, chain, late, mempool, applied>>
  BY DEF Prepared, Goto, UseInv, CallInv, CallsTyped, netVars
<1>2. Alone(r)
  BY DEF Prepared, Goto, Alone, UseInv, CallInv, CallsTyped, bookVars
<1>3. Nothing(r) /\ FollowsAt(r) /\ NoteFits(r)
  BY <1>1, UnsentNothing DEF UseInv, Unsent
<1>4. FollowsAt(r)' /\ NoteFits(r)' /\ AwaitsOK(r)'
  BY <1>1, <1>3, PoolIdle DEF FollowsAt, NoteFits, AwaitsOK, Awaits, Outside, OnLease
<1> QED
  BY <1>1, <1>2, <1>3, <1>4, PoolIdle, QuietUse DEF CallFits, Nothing, Alive

\* finish(): the release that follows store.record is decided.
LEMMA NotesUse ==
  ASSUME UseInv, CallInv', NEW r \in Requests, step[r] \in {"latest", "send", "confirm"},
         NEW row, NEW outcome, NEW then, AwaitRecord(r, row, outcome, then), Alone(r),
         UNCHANGED <<poolVars, netVars>>,
         outcome = IF step[r] = "latest" THEN None
                   ELSE IF step[r] = "send" THEN "failed" ELSE "ok",
         then = "timeout" => step[r] = "confirm",
         step[r] = "confirm" /\ then # "timeout" => InLedger(r)
  PROVE  UseInv' /\ [Pool!Next]_poolVars
<1> DEFINE n == [row |-> row, outcome |-> outcome, then |-> then]
<1>1. n.outcome = outcome /\ n.then = then
  OBVIOUS
<1>2. step'[r] = "record" /\ note'[r] = n
  BY DEF AwaitRecord, Goto, UseInv, CallInv, CallsTyped
<1>3. UNCHANGED <<clock, chain, late, mempool, applied>> /\ FollowsAt(r) /\ NoteFits(r) /\ AwaitsOK(r)
  BY DEF UseInv, netVars
<1>4. step[r] # "confirm" => Nothing(r)
  BY UnsentNothing DEF UseInv, Unsent
<1> HIDE DEF n
<1>5. "ok" # None /\ "failed" # None
  BY RelayerAssumption
<1>6. FollowsAt(r)'
  BY <1>1, <1>2, <1>3, <1>5, PoolIdle DEF FollowsAt, Outside, OnLease
<1>7. NoteFits(r)'
  BY <1>1, <1>2, <1>3, <1>4, <1>5 DEF NoteFits, Nothing, Alive, InLedger
<1>8. AwaitsOK(r)'
  <2>1. SUFFICES ASSUME step[r] = "confirm"
                 PROVE  AwaitsOK(r)'
    BY <1>1, <1>2, <1>5 DEF AwaitsOK, Awaits
  <2>2. \A t \in mempool : t.req \in Requests
    BY DEF UseInv, CallInv, OneTx, Alive
  <2>3. (\A q \in Requests : Unheard(q) => Unheard(q)') /\ (\A ch : Astray(ch) => Astray(ch)')
    BY <1>3, <2>1, Unchanging
  <2>4. chan' = chan /\ lease' = lease /\ Due(r)' = Due(r)
    BY <1>3, PoolIdle DEF Due, InLedger
  <2>5. /\ \A t \in mempool : t.ch = chan[r] => t.req = r \/ Unheard(t.req)
        /\ lease[r] \in Nat /\ lease[r] <= chain[chan[r]] + 1
        /\ ~Astray(chan[r]) => lease[r] = Due(r)
    BY <1>3, <2>1 DEF AwaitsOK, Awaits
  <2>6. PICK c : c = chan[r]
    OBVIOUS
  <2>7. Astray(c)' \/ lease[r] = Due(r)
    BY <2>3, <2>5, <2>6
  <2> QED
    BY <1>3, <2>2, <2>3, <2>4, <2>5, <2>6, <2>7 DEF AwaitsOK, Astray
<1>9. \A t \in mempool : t.req = r => Excused(r)'
  <2>1. InLedger(r) => \A t \in mempool : t.req # r
    BY DEF UseInv, CallInv, OneTx, Alive, InLedger
  <2> QED
    BY <1>1, <1>2, <1>4, <2>1 DEF Excused, Nothing, Alive
<1> QED
  BY <1>3, <1>6, <1>7, <1>8, <1>9, PoolIdle, QuietUse DEF CallFits

LEMMA FinishUses ==
  ASSUME UseInv, CallInv', NEW r \in Requests,
         RefuseExpired(r) \/ Rejected(r) \/ Confirmed(r) \/ TimedOut(r)
  PROVE  UseInv' /\ [Pool!Next]_poolVars
<1>1. Alone(r)
  BY DEF RefuseExpired, Rejected, Confirmed, TimedOut, Finish, AwaitRecord, Goto, Count, Alone,
         UseInv, CallInv, CallsTyped, bookVars
<1>2. CASE RefuseExpired(r)
  BY <1>1, <1>2, NotesUse DEF RefuseExpired
<1>3. CASE Rejected(r)
  BY <1>1, <1>3, NotesUse DEF Rejected, Finish
<1>4. CASE Confirmed(r)
  <2>1. InLedger(r)
    BY <1>4 DEF Confirmed, Included, TxOf, InLedger
  <2> QED
    BY <1>1, <1>4, <2>1, NotesUse DEF Confirmed, Finish
<1>5. CASE TimedOut(r)
  BY <1>1, <1>5, NotesUse DEF TimedOut, Finish
<1> QED
  BY <1>2, <1>3, <1>4, <1>5

-----------------------------------------------------------------------------
(* acquire() *)

\* A call at "fees" or in acquire() goes on, or out, and has sent nothing.
LEMMA AcquiresUse ==
  ASSUME UseInv, CallInv', NEW r \in Requests, step[r] \in {"fees", "acquire"}, Alone(r),
         Pool!Next, OthersKept(r), UNCHANGED <<note, netVars>>,
         \/ step'[r] = "acquire" /\ pc'[r] \in {"waiting", "granted", "fetching"}
         \/ step'[r] = "prepare" /\ pc'[r] = "leased"
         \/ step'[r] = "done" /\ pc'[r] = "idle"
  PROVE  UseInv' /\ [Pool!Next]_poolVars
<1>1. Nothing(r) /\ NoteFits(r) /\ step[r] \in Unsent
  BY UnsentNothing DEF UseInv, Unsent
<1>2. FollowsAt(r)' /\ NoteFits(r)' /\ AwaitsOK(r)'
  BY <1>1 DEF FollowsAt, NoteFits, AwaitsOK, Awaits, Outside, OnLease
<1>3. PP!IInv'
  BY PoolKeeps DEF UseInv
<1>4. UNCHANGED <<clock, chain, late, mempool, applied>>
  BY DEF netVars
<1> QED
  BY <1>1, <1>2, <1>3, <1>4, QuietUse DEF CallFits, Nothing, Alive

LEMMA BidUses ==
  ASSUME UseInv, CallInv', NEW r \in Requests, Bid(r)
  PROVE  UseInv' /\ [Pool!Next]_poolVars
<1>1. /\ step[r] = "fees" /\ step'[r] = "acquire" /\ Pool!Acquire(r)
      /\ UNCHANGED <<note, netVars>>
  BY DEF Bid, Goto, UseInv, CallInv, CallsTyped
<1>2. Alone(r)
  BY DEF Bid, Goto, Alone, UseInv, CallInv, CallsTyped, bookVars
<1>3. pc'[r] \in {"waiting", "granted"} /\ OthersKept(r)
  BY <1>1, PoolFacts
  DEF UseInv, Pool!Acquire, Pool!AcquireIdle, Pool!AcquireQueued, OthersKept
<1>4. Pool!Next
  BY <1>1 DEF Pool!Next
<1> QED
  BY <1>1, <1>2, <1>3, <1>4, AcquiresUse

LEMMA AskUses ==
  ASSUME UseInv, CallInv', NEW r \in Requests, AskSequence(r)
  PROVE  UseInv' /\ [Pool!Next]_poolVars
<1>1. /\ step[r] = "acquire" /\ step'[r] = "acquire" /\ Pool!StartFetch(r)
      /\ UNCHANGED <<note, netVars>>
  BY DEF AskSequence, callVars
<1>2. Alone(r)
  BY DEF AskSequence, Alone, callVars, bookVars
<1>3. pc'[r] = "fetching" /\ OthersKept(r)
  BY <1>1, PoolFacts DEF UseInv, Pool!StartFetch, OthersKept
<1>4. Pool!Next
  BY <1>1 DEF Pool!Next
<1> QED
  BY <1>1, <1>2, <1>3, <1>4, AcquiresUse

\* How a lease begins: from what getSequence said, or from the cached number.
LEMMA LeaseBegins ==
  ASSUME UseInv, NEW r \in Requests, Acquired(r)
  PROVE  /\ chan[r] \in Pool!Channels /\ chan' = chan
         /\ pc' = [pc EXCEPT ![r] = "leased"] /\ pc[r] \in {"granted", "fetching"}
         /\ \E n \in Int : /\ lease' = [lease EXCEPT ![r] = n + 1]
                           /\ sequence' = [sequence EXCEPT ![chan[r]] = n + 1]
                           /\ \/ pc[r] = "fetching" /\ n = chain[chan[r]]
                              \/ pc[r] = "granted" /\ n = sequence[chan[r]]
         /\ Pool!Next
<1>1. CASE Pool!FetchOk(r, LedgerSequence(chan[r]))
  <2>1. pc[r] = "fetching" /\ Pool!TakeLease(r, chain[chan[r]] + 1)
    BY <1>1 DEF Pool!FetchOk, LedgerSequence
  <2>2. chan[r] \in Pool!Channels
    BY <2>1, PoolFacts DEF UseInv
  <2>3. chain[chan[r]] \in 0..MaxSequence
    BY <2>2, Bounded
  <2>4. chain[chan[r]] \in Int
    BY <2>3, PoolConstants
  <2>5. Pool!FetchOk(r, chain[chan[r]])
    BY <1>1 DEF LedgerSequence
  <2>6. Pool!Next
    BY <2>3, <2>5 DEF Pool!Next
  <2> QED
    BY <2>1, <2>2, <2>4, <2>6 DEF Pool!TakeLease
<1>2. CASE Pool!LeaseCached(r)
  <2>1. /\ pc[r] = "granted" /\ sequence[chan[r]] # None
        /\ Pool!TakeLease(r, sequence[chan[r]] + 1)
    BY <1>2 DEF Pool!LeaseCached
  <2>2. chan[r] \in Pool!Channels /\ sequence[chan[r]] \in Int
    BY <2>1, PoolFacts DEF UseInv
  <2>3. Pool!Next
    BY <1>2 DEF Pool!Next
  <2> QED
    BY <2>1, <2>2, <2>3 DEF Pool!TakeLease
<1> QED
  BY <1>1, <1>2 DEF Acquired

LEMMA AcquiredUses ==
  ASSUME UseInv, CallInv', NEW r \in Requests, Acquired(r)
  PROVE  UseInv' /\ [Pool!Next]_poolVars
<1>1. /\ step[r] = "acquire" /\ step'[r] = "prepare"
      /\ UNCHANGED <<note, netVars>>
  BY DEF Acquired, Goto, UseInv, CallInv, CallsTyped
<1>2. Alone(r)
  BY DEF Acquired, Goto, Alone, UseInv, CallInv, CallsTyped, bookVars
<1>3. pc'[r] = "leased" /\ OthersKept(r)
  BY LeaseBegins, PoolFacts DEF UseInv, OthersKept
<1> QED
  BY <1>1, <1>2, <1>3, LeaseBegins, AcquiresUse

LEMMA AcquireThrowsUses ==
  ASSUME UseInv, CallInv', NEW r \in Requests, AcquireThrows(r)
  PROVE  UseInv' /\ [Pool!Next]_poolVars
<1>1. /\ step[r] = "acquire" /\ step'[r] = "done" /\ Pool!FetchFail(r)
      /\ UNCHANGED <<note, netVars>>
  BY DEF AcquireThrows, Answer, UseInv, CallInv, CallsTyped
<1>2. Alone(r)
  BY DEF AcquireThrows, Answer, Alone, UseInv, CallInv, CallsTyped, bookVars
<1>3. pc'[r] = "idle" /\ OthersKept(r)
  BY <1>1, FreeMoves DEF UseInv, Pool!FetchFail
<1>4. Pool!Next
  BY <1>1 DEF Pool!Next
<1> QED
  BY <1>1, <1>2, <1>3, <1>4, AcquiresUse

-----------------------------------------------------------------------------
(* release() *)

LEMMA ReleasesUse ==
  ASSUME UseInv, CallInv', NEW r \in Requests, step'[r] \in {"fees", "done"}, Alone(r),
         pc[r] = "leased", NEW o \in Pool!Outcomes, Pool!Release(r, o),
         o = "ok" => Awaits(r),
         UNCHANGED <<note, netVars>>,
         note[r].then = "timeout" => step'[r] = "done",
         \A t \in mempool : t.req = r => Excused(r)'
  PROVE  UseInv' /\ [Pool!Next]_poolVars
<1>1. Pool!Next /\ PP!IInv'
  BY Releases, PoolKeeps DEF UseInv
<1>2. /\ pc'[r] = "released" /\ chan'[r] = chan[r] /\ lease'[r] = lease[r]
      /\ OthersKept(r)
  BY ReleaseMoves
<1>3. FollowsAt(r)' /\ NoteFits(r)' /\ AwaitsOK(r)'
  BY <1>2 DEF FollowsAt, NoteFits, AwaitsOK, Awaits, Outside, OnLease
<1>4. UNCHANGED <<clock, chain, late, mempool, applied>> /\ step[r] # "done"
  BY DEF netVars, UseInv, FollowsAt, Outside
<1> QED
  BY <1>1, <1>2, <1>3, <1>4, QuietUse DEF CallFits

LEMMA AbortUses ==
  ASSUME UseInv, CallInv', NEW r \in Requests, AttemptThrows(r) \/ RefuseMutated(r)
  PROVE  UseInv' /\ [Pool!Next]_poolVars
<1>1. PICK a \in {"threw", "payload_mutated"} :
        /\ Abort(r, a) /\ step[r] \in {"prepare", "confirm"} /\ UNCHANGED netVars
        /\ a = "threw" \/ step[r] = "prepare"
  BY DEF AttemptThrows, RefuseMutated
<1>2. /\ step'[r] = "done" /\ answer'[r] = a /\ note' = note
      /\ Pool!Release(r, "failed") /\ pc[r] = "leased" /\ note[r].then # "timeout"
  BY <1>1 DEF Abort, Answer, UseInv, CallInv, CallsTyped, FollowsAt, NoteFits, OnLease
<1>3. Alone(r)
  BY <1>1 DEF Abort, Answer, Alone, UseInv, CallInv, CallsTyped, bookVars
<1>4. \A t \in mempool : t.req = r => Excused(r)'
  <2>1. step[r] = "prepare" => Nothing(r)
    BY UnsentNothing DEF UseInv, Unsent
  <2> QED
    BY <1>1, <1>2, <2>1 DEF Excused, Nothing, Alive
<1>5. "failed" \in Pool!Outcomes /\ "failed" # "ok"
  BY DEF Pool!Outcomes
<1> QED
  BY <1>1, <1>2, <1>3, <1>4, <1>5, ReleasesUse

LEMMA RetryUses ==
  ASSUME UseInv, CallInv', NEW r \in Requests, BadSeq(r) \/ TryAgain(r)
  PROVE  UseInv' /\ [Pool!Next]_poolVars
<1>1. PICK o \in {"bad_seq", "failed"} : Retry(r, o) /\ step[r] = "send"
  BY DEF BadSeq, TryAgain
<1>2. /\ step'[r] \in {"fees", "done"} /\ UNCHANGED <<note, netVars>>
      /\ Pool!Release(r, o) /\ pc[r] = "leased" /\ note[r].then # "timeout"
  BY <1>1 DEF Retry, Goto, Answer, UseInv, CallInv, CallsTyped, FollowsAt, NoteFits, OnLease
<1>3. Alone(r)
  BY <1>1 DEF Retry, Goto, Answer, Count, Alone, UseInv, CallInv, CallsTyped, bookVars
<1>4. Nothing(r)
  BY <1>1, UnsentNothing DEF UseInv, Unsent
<1>5. o \in Pool!Outcomes /\ o # "ok"
  BY <1>1 DEF Pool!Outcomes
<1> QED
  BY <1>2, <1>3, <1>4, <1>5, ReleasesUse DEF Nothing, Alive

LEMMA RecordUses ==
  ASSUME UseInv, CallInv', NEW r \in Requests, Recorded(r) \/ RecordThrows(r)
  PROVE  UseInv' /\ [Pool!Next]_poolVars
<1>1. /\ step[r] = "record" /\ ReleaseNoted(r) /\ UNCHANGED <<note, netVars>>
      /\ \E a : Answer(r, a)
  BY DEF Recorded, RecordThrows
<1>2. step'[r] = "done" /\ FollowsAt(r) /\ NoteFits(r)
  BY <1>1 DEF Answer, UseInv, CallInv, CallsTyped
<1>3. Alone(r)
  BY DEF Recorded, RecordThrows, Answer, Alone, UseInv, CallInv, CallsTyped, bookVars
<1>4. \A t \in mempool : t.req = r => Excused(r)'
  <2>1. InLedger(r) => \A t \in mempool : t.req # r
    BY DEF UseInv, CallInv, OneTx, Alive, InLedger
  <2> QED
    BY <1>1, <1>2, <2>1 DEF NoteFits, Excused, Nothing, Alive
<1>5. CASE note[r].outcome = None
  <2>1. UNCHANGED poolVars /\ pc[r] \in {"idle", "released"}
    BY <1>1, <1>2, <1>5 DEF ReleaseNoted, FollowsAt
  <2>2. FollowsAt(r)' /\ NoteFits(r)' /\ AwaitsOK(r)'
    BY <1>1, <1>2, <2>1, PoolIdle
    DEF FollowsAt, NoteFits, AwaitsOK, Awaits, Outside, OnLease
  <2>3. UNCHANGED <<clock, chain, late, mempool, applied>>
    BY <1>1 DEF netVars
  <2> QED
    BY <1>1, <1>3, <1>4, <2>1, <2>2, <2>3, PoolIdle, QuietUse DEF CallFits
<1>6. CASE note[r].outcome # None
  <2> DEFINE o == note[r].outcome
  <2>1. o \in {"ok", "failed"} /\ Pool!Release(r, o) /\ pc[r] = "leased"
    BY <1>1, <1>2, <1>6 DEF ReleaseNoted, NoteFits, FollowsAt
  <2>2. o \in Pool!Outcomes /\ (o = "ok" => Awaits(r))
    BY <1>1, <2>1 DEF Pool!Outcomes, Awaits
  <2> HIDE DEF o
  <2> QED
    BY <1>1, <1>2, <1>3, <1>4, <2>1, <2>2, ReleasesUse
<1> QED
  BY <1>5, <1>6

-----------------------------------------------------------------------------
(* What reaches the network *)

\* The transaction of a call at "send" is one of its lease.
LEMMA SentIsSigned ==
  ASSUME UseInv, NEW r \in Requests, step[r] = "send"
  PROVE  /\ TxOf(r) \in Txs /\ TxOf(r).req = r /\ TxOf(r).ch = chan[r]
         /\ TxOf(r).seq = lease[r] /\ pc[r] = "leased" /\ chan[r] \in Pool!Channels
<1>1. pc[r] = "leased"
  BY DEF UseInv, FollowsAt, OnLease
<1>2. chan[r] \in Pool!Channels /\ lease[r] \in Int
  BY <1>1, PoolFacts DEF UseInv
<1>3. attempt[r] \in 0..(MaxAttempts - 1) /\ fee[r] \in Nat
  BY DEF UseInv, CallInv, CallsTyped
<1> QED
  BY <1>1, <1>2, <1>3 DEF TxOf, Txs

LEMMA AcceptedUses ==
  ASSUME UseInv, CallInv', NEW r \in Requests, Accepted(r)
  PROVE  UseInv' /\ [Pool!Next]_poolVars
<1>1. /\ step[r] = "send" /\ step'[r] = "confirm" /\ note' = note /\ Acceptable(r)
      /\ mempool' = mempool \cup {TxOf(r)}
      /\ UNCHANGED <<poolVars, clock, chain, late, applied>>
  BY DEF Accepted, Goto, UseInv, CallInv, CallsTyped
<1>2. Alone(r)
  BY DEF Accepted, Goto, Alone, UseInv, CallInv, CallsTyped, bookVars
<1>3. Nothing(r) /\ FollowsAt(r) /\ NoteFits(r)
  BY <1>1, UnsentNothing DEF UseInv, Unsent
<1>4. FollowsAt(r)' /\ NoteFits(r)'
  BY <1>1, <1>3, PoolIdle DEF FollowsAt, NoteFits, Outside, OnLease
<1> DEFINE tx == TxOf(r)
<1>5. /\ tx \in Txs /\ tx.req = r /\ tx.ch = chan[r] /\ tx.seq = lease[r]
      /\ pc[r] = "leased" /\ chan[r] \in Pool!Channels
  BY <1>1, SentIsSigned
<1>6. /\ lease[r] = chain[chan[r]] + 1 /\ chain[chan[r]] \in Nat
      /\ \A t \in mempool : t.ch # chan[r]
  BY <1>1, <1>5 DEF Acceptable, NextNumber, PendingOn, UseInv, NetOK
<1>7. chan' = chan /\ lease' = lease /\ mempool' = mempool \cup {tx}
  BY <1>1, PoolIdle
<1> HIDE DEF tx
<1>8. AwaitsOK(r)'
  <2>1. Due(r)' = chain[chan[r]] + 1
    BY <1>1, <1>3, <1>7 DEF Due, Nothing, InLedger
  <2> QED
    BY <1>1, <1>5, <1>6, <1>7, <2>1 DEF AwaitsOK
<1>9. \A q \in Requests : CallFits(q)'
  <2>1. \A t \in mempool' : t \in mempool \/ (t.req = r /\ t.ch = chan[r])
    BY <1>5, <1>7
  <2>2. \A t \in Alive' : t \in Alive \/ t.req = r
    BY <1>1, <1>5, <1>7 DEF Alive
  <2> QED
    BY <1>1, <1>2, <1>4, <1>5, <1>8, <2>1, <2>2, PoolIdle, OtherFits DEF CallFits
<1>10. NetOK'
  <2>1. \A t \in mempool' : Signed(t)' /\ t.seq = chain[t.ch] + 1
    BY <1>5, <1>6, <1>7 DEF UseInv, NetOK, Signed
  <2>2. \A e \in applied : Signed(e.tx)'
    BY <1>7 DEF UseInv, NetOK, Signed
  <2>3. \A t, u \in mempool' : t.ch = u.ch => t = u
    BY <1>5, <1>6, <1>7 DEF UseInv, NetOK
  <2>4. \A t \in mempool' : Excused(t.req)'
    BY <1>1, <1>2, <1>5, <1>7 DEF UseInv, NetOK, CallInv, OneTx, Alive, Excused, Alone
  <2>5. \A t \in late : Signed(t)' /\ Unheard(t.req)'
    BY <1>1, <1>2, <1>7, Unchanging DEF UseInv, NetOK, Signed, CallInv, OneTx, Alive
  <2>6. Charging' = Charging
    BY <1>1 DEF Charging, InLedger
  <2> QED
    BY <1>1, <2>1, <2>2, <2>3, <2>4, <2>5, <2>6 DEF UseInv, NetOK
<1>11. PP!IInv' /\ [Pool!Next]_poolVars
  BY <1>1, PoolKeeps DEF UseInv
<1> QED
  BY <1>9, <1>10, <1>11 DEF UseInv, CallFits

\* Calls end at "send" and leave their transactions on the way.
LEMMA LateNet ==
  ASSUME UseInv, NEW sent \in SUBSET {r \in Requests : step[r] = "send"},
         late' = late \cup {TxOf(r) : r \in sent}, UNCHANGED <<clock, chain, mempool, applied>>,
         \A q \in Requests : step[q] \notin Unsent \/ q \in sent =>
           chan'[q] = chan[q] /\ lease'[q] = lease[q],
         \A t \in mempool : Excused(t.req)',
         \A q \in Requests : Unheard(q) \/ q \in sent => Unheard(q)'
  PROVE  NetOK'
<1>1. \A t \in mempool \cup late : Signed(t)'
  BY DEF UseInv, NetOK, Signed, CallInv, OneTx, Alive
<1>2. \A e \in applied : Signed(e.tx)'
  BY DEF UseInv, NetOK, Signed, CallInv, OneTx, Alive
<1>3. \A t \in late : Unheard(t.req)'
  BY DEF UseInv, NetOK, CallInv, OneTx, Alive
<1>4. ASSUME NEW r \in sent, NEW t, t = TxOf(r)
      PROVE  Signed(t)' /\ Unheard(t.req)'
  <2>1. t \in Txs /\ t.req = r /\ t.ch = chan[r] /\ t.seq = lease[r]
    BY <1>4, SentIsSigned
  <2> QED
    BY <2>1 DEF Signed
<1>5. \A t \in late' : Signed(t)' /\ Unheard(t.req)'
  BY <1>1, <1>3, <1>4
<1>6. Charging' = Charging
  BY DEF Charging, InLedger
<1> QED
  BY <1>1, <1>2, <1>5, <1>6 DEF UseInv, NetOK

LEMMA SendThrowsUses ==
  ASSUME UseInv, CallInv', NEW r \in Requests, SendThrows(r)
  PROVE  UseInv' /\ [Pool!Next]_poolVars
<1>1. /\ step[r] = "send" /\ step'[r] = "done" /\ answer'[r] = "threw" /\ note' = note
      /\ Pool!Release(r, "failed") /\ pc[r] = "leased" /\ note[r].then # "timeout"
      /\ late' = late \cup {TxOf(r)} /\ UNCHANGED <<clock, chain, mempool, applied>>
  BY DEF SendThrows, Abort, Answer, UseInv, CallInv, CallsTyped, FollowsAt, NoteFits, OnLease
<1>2. Alone(r)
  BY DEF SendThrows, Abort, Answer, Alone, UseInv, CallInv, CallsTyped, bookVars
<1>3. "failed" \in Pool!Outcomes /\ "failed" # "ok"
  BY DEF Pool!Outcomes
<1>4. Pool!Next /\ PP!IInv'
  BY <1>1, <1>3, Releases, PoolKeeps DEF UseInv
<1>5. /\ pc'[r] = "released" /\ chan'[r] = chan[r] /\ lease'[r] = lease[r]
      /\ OthersKept(r)
  BY <1>1, ReleaseMoves
<1>6. CallFits(r)'
  BY <1>1, <1>5 DEF CallFits, FollowsAt, NoteFits, AwaitsOK, Awaits, Outside, OnLease
<1>7. \A q \in Requests : CallFits(q)'
  <2>1. TxOf(r).req = r
    BY DEF TxOf
  <2>2. \A t \in Alive' : t \in Alive \/ t.req = r
    BY <1>1, <2>1 DEF Alive
  <2> QED
    BY <1>1, <1>2, <1>5, <1>6, <2>2, OtherFits
<1>8. NetOK'
  <2>1. PICK sent \in SUBSET {q \in Requests : step[q] = "send"} :
          sent = {r} /\ late' = late \cup {TxOf(q) : q \in sent}
    <3>1. late' = late \cup {TxOf(q) : q \in {r}}
      BY <1>1
    <3> QED
      BY <1>1, <3>1
  <2>2. \A q \in Requests : step[q] \notin Unsent \/ q \in sent =>
          chan'[q] = chan[q] /\ lease'[q] = lease[q]
    BY <1>5, <2>1
    DEF OthersKept, UseInv, FollowsAt, Outside, OnLease, Unsent, CallInv, CallsTyped
  <2>3. \A t \in mempool : Excused(t.req)'
    BY <1>1, <1>2 DEF UseInv, NetOK, CallInv, OneTx, Alive, Excused, Alone
  <2>4. \A q \in Requests : Unheard(q) \/ q \in sent => Unheard(q)'
    BY <1>1, <1>2, <2>1, Unchanging DEF Unheard
  <2> QED
    BY <1>1, <2>1, <2>2, <2>3, <2>4, LateNet
<1> QED
  BY <1>4, <1>7, <1>8 DEF UseInv, CallFits

-----------------------------------------------------------------------------
(* Stop and start, and the network's own steps *)

\* An empty pool satisfies the pool's invariant, whatever the clients closed over.
LEMMA RestartKeeps ==
  ASSUME PP!IInv, PoolRestart
  PROVE  PP!IInv'
<1>1. /\ sequence' = [ch \in PP!Channels |-> None]
      /\ busy' = [ch \in PP!Channels |-> FALSE]
      /\ waiters' = << >> /\ pc' = [r \in Requests |-> "idle"]
      /\ chan' = chan /\ lease' = lease
  BY SameChannels DEF PoolRestart
<1>2. waiters' \in Seq(Requests) /\ Len(waiters') = 0
  BY <1>1, EmptySeq, LenEmpty
<1>3. PP!TypeOK'
  BY <1>1, <1>2 DEF PP!IInv, PP!TypeOK
<1>4. PP!ChanOK' /\ PP!MutualExclusion' /\ PP!BusyMeansHeld' /\ PP!LeaseIsCurrent'
  BY <1>1 DEF PP!ChanOK, PP!MutualExclusion, PP!BusyMeansHeld, PP!LeaseIsCurrent,
              PP!Holds, PP!Holding
<1>5. PP!NoIdleWhileWaiting' /\ PP!QueueIsWaiting'
  BY <1>1, <1>2 DEF PP!NoIdleWhileWaiting, PP!QueueIsWaiting
<1> QED
  BY <1>3, <1>4, <1>5 DEF PP!IInv

LEMMA CrashUses ==
  ASSUME UseInv, CallInv', Crash
  PROVE  UseInv'
<1>1. PICK sent \in SUBSET {r \in Requests : step[r] = "send"} :
        late' = late \cup {TxOf(r) : r \in sent}
  BY DEF Crash
<1>2. /\ step' = [r \in Requests |-> IF InFlight(r) THEN "done" ELSE step[r]]
      /\ answer' = [r \in Requests |-> IF InFlight(r) THEN "lost" ELSE answer[r]]
      /\ UNCHANGED <<note, clock, chain, mempool, applied>>
      /\ chan' = chan /\ lease' = lease /\ pc' = [r \in Requests |-> "idle"]
  BY DEF Crash, PoolRestart
<1>3. PP!IInv'
  BY RestartKeeps DEF UseInv, Crash
<1>4. \A r \in Requests : CallFits(r)'
  <2> SUFFICES ASSUME NEW r \in Requests
               PROVE  CallFits(r)'
    OBVIOUS
  <2>1. step'[r] \in {"new", "done"} /\ pc'[r] = "idle"
        /\ (step[r] \in {"record", "done"} => step'[r] = "done")
    BY <1>2 DEF InFlight
  <2>2. NoteFits(r)
    BY DEF UseInv
  <2> QED
    BY <1>2, <2>1, <2>2
    DEF CallFits, FollowsAt, NoteFits, AwaitsOK, Awaits, Outside, OnLease
<1>5. \A r \in Requests : Excused(r) => Excused(r)'
  BY <1>2 DEF Excused, InFlight
<1>6. \A t \in mempool : Excused(t.req)'
  BY <1>5 DEF UseInv, NetOK, CallInv, OneTx, Alive
<1>7. \A q \in Requests : Unheard(q) \/ q \in sent => Unheard(q)'
  BY <1>1, <1>2 DEF Unheard, InFlight, UseInv, NoteFits
<1>8. NetOK'
  BY <1>1, <1>2, <1>6, <1>7, LateNet
<1> QED
  BY <1>3, <1>4, <1>8 DEF UseInv, CallFits

\* A ledger closes, or nothing happens.
LEMMA IdleUses ==
  ASSUME UseInv, CallInv',
         UNCHANGED <<poolVars, callVars, bookVars, chain, late, mempool, applied>>,
         clock' \in 0..MaxLedger
  PROVE  UseInv' /\ [Pool!Next]_poolVars
<1>1. /\ step' = step /\ note' = note /\ answer' = answer
      /\ pc' = pc /\ chan' = chan /\ lease' = lease
  BY DEF poolVars, callVars
<1>2. PP!IInv'
  BY PoolKeeps DEF UseInv
<1>3. \A r \in Requests : FollowsAt(r)' /\ NoteFits(r)' /\ AwaitsOK(r)'
  BY <1>1, <1>2
  DEF UseInv, FollowsAt, NoteFits, AwaitsOK, Awaits, Due, Nothing, Alive, InLedger, Unheard, Astray
<1>4. Charging' = Charging
  BY DEF Charging, InLedger
<1>5. NetOK'
  BY <1>1, <1>4 DEF UseInv, NetOK, Signed, Excused, Unheard
<1> QED
  BY <1>2, <1>3, <1>5 DEF UseInv

\* A pending transaction reaches its ledger: its number is the ledger's last.
LEMMA LandUses ==
  ASSUME UseInv, CallInv', NEW tx \in mempool, Land(tx)
  PROVE  UseInv' /\ [Pool!Next]_poolVars
<1>1. PICK res \in {"SUCCESS", "FAILED"} : applied' = applied \cup {[tx |-> tx, result |-> res]}
  BY DEF Land
<1> DEFINE new == [tx |-> tx, result |-> res]
<1>2. /\ new.tx = tx /\ new.result = res /\ applied' = applied \cup {new}
      /\ mempool' = mempool \ {tx} /\ chain' = [chain EXCEPT ![tx.ch] = tx.seq]
      /\ UNCHANGED <<poolVars, callVars, bookVars, clock, late>>
  BY <1>1 DEF Land
<1> HIDE DEF new
<1>3. /\ step' = step /\ note' = note /\ answer' = answer
      /\ pc' = pc /\ chan' = chan /\ lease' = lease
  BY <1>2 DEF poolVars, callVars
<1>4. /\ tx.req \in Requests /\ tx.ch \in Pool!Channels /\ tx.ch = chan[tx.req]
      /\ tx.seq = lease[tx.req] /\ tx.seq = chain[tx.ch] + 1 /\ ~InLedger(tx.req)
      /\ chain \in [Pool!Channels -> Nat]
  BY DEF UseInv, NetOK, Signed, Txs, CallInv, OneTx, Alive, InLedger
<1>5. \A r \in Requests : InLedger(r)' <=> InLedger(r) \/ r = tx.req
  BY <1>2 DEF InLedger
<1>6. /\ chain' \in [Pool!Channels -> Nat] /\ chain'[tx.ch] = chain[tx.ch] + 1
      /\ \A ch \in Pool!Channels \ {tx.ch} : chain'[ch] = chain[ch]
  BY <1>2, <1>4
<1>7. \A ch \in Pool!Channels : chain'[ch] <= Cardinality(Charging')
  <2>1. Charging' = Charging \cup {tx.req} /\ tx.req \notin Charging
    BY <1>4, <1>5 DEF Charging
  <2>2. Cardinality(Charging') = Cardinality(Charging) + 1
    BY <2>1, FewCharges, FS_AddElement
  <2>3. \A ch \in Pool!Channels : chain[ch] \in Nat /\ chain[ch] <= Cardinality(Charging)
    BY DEF UseInv, NetOK
  <2> QED
    BY <1>4, <1>6, <2>2, <2>3, FewCharges
<1>8. \A t \in mempool' : t \in mempool /\ t.ch # tx.ch /\ t.req # tx.req
  BY <1>2 DEF UseInv, NetOK, CallInv, OneTx, Alive
<1>9. NetOK'
  <2>1. \A t \in mempool' : Signed(t)' /\ t.seq = chain'[t.ch] + 1
    BY <1>3, <1>6, <1>8 DEF UseInv, NetOK, Signed, Txs
  <2>2. \A e \in applied' : Signed(e.tx)' /\ e.result \in {"SUCCESS", "FAILED"}
    BY <1>2, <1>3 DEF UseInv, NetOK, Signed
  <2>3. /\ \A t, u \in mempool' : t.ch = u.ch => t = u
        /\ \A t \in mempool' : Excused(t.req)'
        /\ \A t \in late' : Signed(t)' /\ Unheard(t.req)'
    BY <1>2, <1>3, <1>8 DEF UseInv, NetOK, Excused, Signed, Unheard
  <2> QED
    BY <1>2, <1>6, <1>7, <2>1, <2>2, <2>3 DEF UseInv, NetOK
<1>10. ASSUME NEW r \in Requests
       PROVE  CallFits(r)'
  <2>1. FollowsAt(r)'
    BY <1>3 DEF UseInv, FollowsAt
  <2>2. NoteFits(r)'
    <3>1. Nothing(r) => Nothing(r)'
      BY <1>2, <1>8 DEF Nothing, Alive
    <3> QED
      BY <1>3, <1>5, <3>1 DEF UseInv, NoteFits
  <2>3. AwaitsOK(r)'
    <3>1. SUFFICES ASSUME Awaits(r)
                   PROVE  /\ \A t \in mempool' : t.ch = chan[r] => t.req = r \/ Unheard(t.req)
                          /\ lease[r] \in Nat /\ lease[r] <= chain'[chan[r]] + 1
                          /\ ~Astray(chan[r])' => lease[r] = Due(r)'
      BY <1>3 DEF AwaitsOK, Awaits, Unheard
    <3>2. /\ \A t \in mempool : t.ch = chan[r] => t.req = r \/ Unheard(t.req)
          /\ lease[r] \in Nat /\ lease[r] <= chain[chan[r]] + 1
          /\ ~Astray(chan[r]) => lease[r] = Due(r)
      BY <3>1 DEF UseInv, AwaitsOK
    <3>3. PICK c \in Pool!Channels : c = chan[r]
      BY <3>1, RelayerAssumption, PoolFacts DEF UseInv, FollowsAt, Awaits, OnLease
    <3>4. Astray(c) => Astray(c)'
      BY <1>2, <1>3 DEF Astray
    <3>5. chain[c] \in Nat /\ chain'[c] \in Nat /\ chain[c] <= chain'[c]
      BY <1>4, <1>6
    <3>6. lease[r] <= chain'[c] + 1
      BY <3>2, <3>3, <3>5
    <3>7. ~Astray(c)' => lease[r] = Due(r)'
      <4>1. CASE r = tx.req
        <5>1. InLedger(r)' /\ chain'[c] = lease[r]
          BY <1>4, <1>5, <1>6, <3>3, <4>1
        <5> QED
          BY <1>3, <3>3, <5>1 DEF Due
      <4>2. CASE r # tx.req /\ c = tx.ch
        <5>1. Unheard(tx.req)
          BY <3>2, <3>3, <4>2
        <5>2. new \in applied' /\ new.tx.ch = c /\ answer'[new.tx.req] \in {"threw", "lost"}
          BY <1>2, <1>3, <4>2, <5>1 DEF Unheard
        <5>3. Astray(c)'
          BY <5>2 DEF Astray
        <5> QED
          BY <5>3
      <4>3. CASE r # tx.req /\ c # tx.ch
        <5>1. Due(r)' = Due(r)
          BY <1>3, <1>5, <1>6, <3>3, <4>3 DEF Due
        <5> QED
          BY <3>2, <3>3, <3>4, <5>1
      <4> QED
        BY <4>1, <4>2, <4>3
    <3> QED
      BY <1>3, <1>8, <3>2, <3>3, <3>6, <3>7 DEF Astray
  <2> QED
    BY <2>1, <2>2, <2>3 DEF CallFits
<1>11. PP!IInv' /\ [Pool!Next]_poolVars
  BY <1>2, PoolKeeps DEF UseInv
<1> QED
  BY <1>9, <1>10, <1>11 DEF UseInv, CallFits

\* A transaction is dropped, or one on its way is kept: no call hears of it.
LEMMA NetUses ==
  ASSUME UseInv, CallInv', UNCHANGED <<poolVars, callVars, clock, chain, applied>>,
         Alive' \subseteq Alive, late' \subseteq late,
         \A t \in mempool' : Signed(t) /\ t.seq = chain[t.ch] + 1,
         \A t, u \in mempool' : t.ch = u.ch => t = u,
         \A t \in mempool' : t \in mempool \/ Unheard(t.req)
  PROVE  UseInv' /\ [Pool!Next]_poolVars
<1>1. /\ step' = step /\ note' = note /\ answer' = answer
      /\ pc' = pc /\ chan' = chan /\ lease' = lease
  BY DEF poolVars, callVars
<1>2. PP!IInv'
  BY PoolKeeps DEF UseInv
<1>3. \A r \in Requests : FollowsAt(r)'
  BY <1>1 DEF UseInv, FollowsAt
<1>4. \A r \in Requests : NoteFits(r)'
  BY <1>1 DEF UseInv, NoteFits, Nothing, InLedger
<1>5. \A r \in Requests : AwaitsOK(r)'
  <2>1. \A r \in Requests : Due(r)' = Due(r)
    BY <1>1 DEF Due, InLedger
  <2>2. \A ch : Astray(ch)' <=> Astray(ch)
    BY <1>1 DEF Astray
  <2> QED
    BY <1>1, <2>1, <2>2 DEF UseInv, AwaitsOK, Awaits, Unheard
<1>6. NetOK'
  <2>1. Charging' = Charging
    BY DEF Charging, InLedger
  <2>2. \A t \in mempool' : Excused(t.req)'
    BY <1>1 DEF UseInv, NetOK, Excused, Unheard
  <2> QED
    BY <1>1, <2>1, <2>2 DEF UseInv, NetOK, Signed, Unheard
<1> QED
  BY <1>2, <1>3, <1>4, <1>5, <1>6 DEF UseInv

LEMMA DropUses ==
  ASSUME UseInv, CallInv', NEW tx \in mempool, Drop(tx)
  PROVE  UseInv' /\ [Pool!Next]_poolVars
<1>1. Alive' \subseteq Alive /\ mempool' \subseteq mempool
  BY DEF Drop, Alive
<1> QED
  BY <1>1, NetUses DEF Drop, UseInv, NetOK

LEMMA DeliverUses ==
  ASSUME UseInv, CallInv', NEW tx \in late, Deliver(tx)
  PROVE  UseInv' /\ [Pool!Next]_poolVars
<1>1. /\ Alive' \subseteq Alive /\ late' \subseteq late /\ mempool' = mempool \cup {tx}
      /\ \A t \in mempool : t.ch # tx.ch
      /\ Signed(tx) /\ tx.seq = chain[tx.ch] + 1 /\ Unheard(tx.req)
  BY DEF Deliver, Alive, PendingOn, UseInv, NetOK
<1> QED
  BY <1>1, NetUses DEF Deliver, UseInv, NetOK

-----------------------------------------------------------------------------
(* The first layer *)

LEMMA InitUses == Init => UseInv
<1> SUFFICES ASSUME Init PROVE UseInv
  OBVIOUS
<1>1. PP!IInv
  <2>1. PP!Init
    BY DEF Init, Pool!Init, PP!Init, Pool!Channels, PP!Channels
  <2> QED
    BY <2>1, PoolConstants, PP!InitIInv
<1>2. NetOK
  <2>1. /\ clock = 0 /\ chain = [ch \in Pool!Channels |-> 0]
        /\ late = {} /\ mempool = {} /\ applied = {}
    BY DEF Init
  <2> QED
    BY <2>1, FewCharges, RelayerAssumption DEF NetOK
<1>3. \A r \in Requests : FollowsAt(r) /\ NoteFits(r) /\ AwaitsOK(r)
  <2>1. /\ \A r \in Requests : step[r] = "new" /\ pc[r] = "idle" /\ note[r].then = None
    BY DEF Init, Pool!Init, NoNote
  <2> QED
    BY <2>1, RelayerAssumption
    DEF FollowsAt, NoteFits, AwaitsOK, Awaits, Outside, OnLease, Answers, Errors
<1> QED
  BY <1>1, <1>2, <1>3, InitCallInv DEF UseInv

\* Every step keeps the invariant, and is a step of the pool or none of it,
\* unless the process stops.
LEMMA NextUses ==
  ASSUME UseInv, [Next]_vars
  PROVE  UseInv' /\ ([Pool!Next]_poolVars \/ PoolRestart)
<1>1. CallInv'
  BY NextKeeps DEF UseInv
<1>2. ASSUME NEW r \in Requests, Arrive(r) \/ Progress(r)
      PROVE  UseInv' /\ [Pool!Next]_poolVars
  BY <1>1, <1>2, IntakeUses, FinishUses, BidUses, AskUses, AcquiredUses, AcquireThrowsUses,
     PreparedUses, AbortUses, AcceptedUses, RetryUses, SendThrowsUses, RecordUses
  DEF Progress
<1>3. CASE Crash
  BY <1>1, <1>3, CrashUses DEF Crash
<1>4. CASE Tick
  <2>1. clock' \in 0..MaxLedger
    BY <1>4, RelayerAssumption DEF Tick, UseInv, NetOK
  <2> QED
    BY <1>1, <1>4, <2>1, IdleUses DEF Tick
<1>5. ASSUME NEW tx \in mempool, Land(tx) \/ Drop(tx)
      PROVE  UseInv' /\ [Pool!Next]_poolVars
  BY <1>1, <1>5, LandUses, DropUses
<1>6. ASSUME NEW tx \in late, Deliver(tx)
      PROVE  UseInv' /\ [Pool!Next]_poolVars
  BY <1>1, <1>6, DeliverUses
<1>7. CASE AllAnswered \/ UNCHANGED vars
  <2>1. UNCHANGED vars /\ clock \in 0..MaxLedger
    BY <1>7 DEF AllAnswered, UseInv, NetOK
  <2> QED
    BY <1>1, <2>1, IdleUses DEF vars, netVars
<1> QED
  BY <1>2, <1>3, <1>4, <1>5, <1>6, <1>7 DEF Next

LEMMA UseInvHolds == Safe => []UseInv
<1>1. Init => UseInv
  BY InitUses
<1>2. UseInv /\ [Next]_vars => UseInv'
  BY NextUses
<1> QED
  BY <1>1, <1>2, PTL DEF Safe

(***************************************************************************)
(* The variables of the calls, their books, the pool and the network keep  *)
(* their types (submit, relayer.ts:107-251; channel-pool.ts).              *)
(***************************************************************************)
THEOREM TypeCorrect == Safe => []TypeOK
<1>1. ASSUME UseInv
      PROVE  TypeOK
  <2>1. Pool!TypeOK
    BY <1>1 DEF UseInv, PP!IInv, PP!TypeOK, Pool!TypeOK, PP!Channels, Pool!Channels
  <2>2. NetTyped
    BY <1>1 DEF UseInv, NetOK, NetTyped, Signed
  <2> QED
    BY <1>1, <2>1, <2>2 DEF UseInv, CallInv, TypeOK
<1> QED
  BY <1>1, UseInvHolds, PTL

(***************************************************************************)
(* Between two restarts every behaviour of the relayer is one of           *)
(* ChannelPool: it acquires, releases once, and reports "ok" only for a    *)
(* number the ledger may have used (relayer.ts:151-251).                   *)
(***************************************************************************)
THEOREM PoolByItsRules == Safe => UsesPool
<1>1. Init => Pool!Init
  BY DEF Init
<1>2. UseInv /\ [Next]_vars => [Pool!Next \/ PoolRestart]_poolVars
  BY NextUses
<1> QED
  BY <1>1, <1>2, UseInvHolds, PTL DEF Safe, UsesPool

(***************************************************************************)
(* Whatever way submit ends, it gives its channel back (the finally block, *)
(* relayer.ts:249-251; acquire()'s catch, channel-pool.ts:63-66).          *)
(***************************************************************************)
THEOREM ChannelsComeBack == Safe => []NoLeakedChannel
<1>1. ASSUME UseInv
      PROVE  NoLeakedChannel
  <2>1. \A r \in Requests : step[r] = "done" => pc[r] \in {"idle", "released"}
    BY <1>1 DEF UseInv, FollowsAt, Outside
  <2>2. ASSUME \A r \in Requests : step[r] = "done", NEW ch \in Pool!Channels
        PROVE  ~busy[ch]
    BY <1>1, <2>1, <2>2, SameChannels
    DEF UseInv, PP!IInv, PP!BusyMeansHeld, PP!Holds, PP!Holding
  <2> QED
    BY <2>1, <2>2 DEF NoLeakedChannel
<1> QED
  BY <1>1, UseInvHolds, PTL

-----------------------------------------------------------------------------
(***************************************************************************)
(* The second layer: where the number of a channel stands.  Nothing can be *)
(* said once a ledger has taken a transaction that the pool thought had    *)
(* failed, because its call ended without an answer (Astray).  Otherwise   *)
(* the number is the ledger's as long as nothing timed out on the channel  *)
(* (Exact); and it counts the transactions that timed out as used, unless  *)
(* the process was started again and forgot them (AheadOn, AheadFor).      *)
(***************************************************************************)
\* A timed-out transaction is pending on the channel.
KeptOn(ch) == \E t \in mempool : t.ch = ch /\ note[t.req].then = "timeout"

\* The call is about to send, or has sent and was refused.
Tries(r) ==
  step[r] \in {"prepare", "send"} \/ (step[r] = "record" /\ note[r].outcome = "failed")

Unleased(ch) == \A r \in Requests : pc[r] = "leased" => chan[r] # ch

ExactOn(ch) ==
  ~Astray(ch) /\ ~TimedOutOn(ch) /\ Unleased(ch) => sequence[ch] \in {None, chain[ch]}
ExactFor(r) ==
  Tries(r) /\ ~Astray(chan[r]) /\ ~TimedOutOn(chan[r]) => lease[r] = chain[chan[r]] + 1

\* n is not behind the ledger, nor behind what a timed-out transaction keeps.
Ahead(ch, n) == n >= chain[ch] /\ (KeptOn(ch) => n >= chain[ch] + 1)

AheadOn(ch) ==
  ~Restarted /\ ~Astray(ch) /\ Unleased(ch) =>
    \/ sequence[ch] = None /\ ~KeptOn(ch)
    \/ sequence[ch] # None /\ Ahead(ch, sequence[ch])
AheadFor(r) == ~Restarted /\ Tries(r) /\ ~Astray(chan[r]) => Ahead(chan[r], lease[r] - 1)

\* acquire() asks the ledger only for a number it does not know.
FetchesUnknown == \A r \in Requests : pc[r] = "fetching" => sequence[chan[r]] = None

NumberInv ==
  /\ \A ch \in Pool!Channels : ExactOn(ch) /\ AheadOn(ch)
  /\ \A r \in Requests : ExactFor(r) /\ AheadFor(r)
  /\ FetchesUnknown

\* What a step never undoes.
Stable ==
  /\ \A ch \in Pool!Channels : (Astray(ch) => Astray(ch)') /\ (TimedOutOn(ch) => TimedOutOn(ch)')
  /\ Restarted => Restarted'

\* A step of one call undoes nothing: answers and noted timeouts are final.
LEMMA CallStable ==
  ASSUME UseInv, NEW r \in Requests, step[r] # "done", Alone(r), OthersKept(r),
         applied' = applied, step[r] = "record" => note'[r] = note[r] /\ chan'[r] = chan[r]
  PROVE  Stable
<1>1. \A ch \in Pool!Channels : Astray(ch) => Astray(ch)'
  BY Unchanging
<1>2. Restarted => Restarted'
  BY RelayerAssumption DEF Restarted, Alone, UseInv, CallInv, CallOK, Answers
<1>3. ASSUME NEW q \in Requests, note[q].then = "timeout"
      PROVE  note'[q] = note[q] /\ chan'[q] = chan[q]
  <2>1. step[q] \in {"record", "done"}
    BY <1>3 DEF UseInv, NoteFits
  <2>2. CASE q = r
    BY <2>1, <2>2
  <2>3. CASE q # r
    <3>1. pc[q] # "waiting"
      BY <2>1 DEF UseInv, FollowsAt, Outside
    <3> QED
      BY <2>3, <3>1 DEF Alone, OthersKept
  <2> QED
    BY <2>2, <2>3
<1>4. \A ch \in Pool!Channels : TimedOutOn(ch) => TimedOutOn(ch)'
  BY <1>3 DEF TimedOutOn
<1> QED
  BY <1>1, <1>2, <1>4 DEF Stable

\* The calls that are about to send, or were refused, are on their lease.
LEMMA TriesLeased ==
  ASSUME UseInv, NEW r \in Requests, Tries(r)
  PROVE  pc[r] = "leased" /\ chan[r] \in Pool!Channels
BY PoolFacts, RelayerAssumption DEF UseInv, Tries, FollowsAt, OnLease

(***************************************************************************)
(* A step that moves neither a channel's number nor the ledger's.          *)
(***************************************************************************)
LEMMA QuietNumbers ==
  ASSUME UseInv, NumberInv, Stable, UNCHANGED <<sequence, chain>>, FetchesUnknown',
         \A q \in Requests : /\ pc'[q] = "leased" <=> pc[q] = "leased"
                             /\ pc[q] = "leased" => chan'[q] = chan[q] /\ lease'[q] = lease[q]
                             /\ Tries(q)' => Tries(q),
         \A ch \in Pool!Channels : KeptOn(ch)' =>
           KeptOn(ch) \/ \E q \in Requests : pc[q] = "leased" /\ chan[q] = ch /\ ~Tries(q)'
  PROVE  NumberInv'
<1>1. ASSUME NEW ch \in Pool!Channels
      PROVE  ExactOn(ch)' /\ AheadOn(ch)'
  <2>1. Unleased(ch)' => Unleased(ch)
    BY DEF Unleased
  <2>2. Unleased(ch) /\ KeptOn(ch)' => KeptOn(ch)
    BY DEF Unleased
  <2>3. ExactOn(ch)'
    BY <2>1 DEF NumberInv, ExactOn, Stable
  <2>4. AheadOn(ch)'
    BY <2>1, <2>2 DEF NumberInv, AheadOn, Ahead, Stable
  <2> QED
    BY <2>3, <2>4
<1>2. ASSUME NEW r \in Requests
      PROVE  ExactFor(r)' /\ AheadFor(r)'
  <2>1. SUFFICES ASSUME Tries(r)'
                 PROVE  ExactFor(r)' /\ AheadFor(r)'
    BY DEF ExactFor, AheadFor
  <2>2. /\ Tries(r) /\ pc[r] = "leased" /\ chan[r] \in Pool!Channels
        /\ chan'[r] = chan[r] /\ lease'[r] = lease[r]
    BY <2>1, TriesLeased
  <2>3. KeptOn(chan[r])' => KeptOn(chan[r])
    <3>1. PICK ch \in Pool!Channels : ch = chan[r]
      BY <2>2
    <3>2. KeptOn(ch)' => KeptOn(ch)
      BY <2>1, <2>2, <3>1, PoolFacts DEF UseInv
    <3> QED
      BY <2>2, <3>1, <3>2
  <2>4. ExactFor(r)'
    BY <2>2 DEF NumberInv, ExactFor, Stable
  <2>5. AheadFor(r)'
    BY <2>2, <2>3 DEF NumberInv, AheadFor, Ahead, Stable
  <2> QED
    BY <2>4, <2>5
<1> QED
  BY <1>1, <1>2 DEF NumberInv

\* A step of a call that the pool has no part in.
LEMMA IdleNumbers ==
  ASSUME UseInv, NumberInv, NEW r \in Requests, step[r] # "done", Alone(r),
         UNCHANGED <<poolVars, chain, mempool, applied>>,
         step[r] = "record" => note'[r] = note[r],
         Tries(r)' => Tries(r),
         note'[r].then = "timeout" => note[r].then = "timeout" \/ step[r] = "confirm",
         step[r] = "confirm" => ~Tries(r)'
  PROVE  NumberInv'
<1>1. /\ OthersKept(r) /\ pc' = pc /\ chan' = chan /\ lease' = lease
  BY PoolIdle
<1>2. Stable
  BY <1>1, CallStable
<1>3. FetchesUnknown'
  BY <1>1 DEF NumberInv, FetchesUnknown, poolVars
<1>4. \A q \in Requests : Tries(q)' => Tries(q)
  BY DEF Alone, Tries
<1>5. ASSUME NEW ch \in Pool!Channels, KeptOn(ch)'
      PROVE  KeptOn(ch) \/ \E q \in Requests : pc[q] = "leased" /\ chan[q] = ch /\ ~Tries(q)'
  <2>1. PICK t \in mempool : t.ch = ch /\ note'[t.req].then = "timeout"
    BY <1>5 DEF KeptOn
  <2>2. t.req \in Requests /\ chan[t.req] = ch
    BY <2>1 DEF UseInv, NetOK, Signed, CallInv, OneTx, Alive
  <2>3. CASE t.req = r /\ step[r] = "confirm"
    BY <2>2, <2>3 DEF UseInv, FollowsAt, OnLease
  <2>4. CASE ~(t.req = r /\ step[r] = "confirm")
    BY <2>1, <2>2, <2>4 DEF KeptOn, Alone
  <2> QED
    BY <2>3, <2>4
<1>6. UNCHANGED <<sequence, chain>>
  BY DEF poolVars
<1> QED
  BY <1>1, <1>2, <1>3, <1>4, <1>5, <1>6, QuietNumbers

LEMMA OutsideNumbers ==
  ASSUME UseInv, NumberInv, NEW r \in Requests,
         \/ Arrive(r) \/ EnterLoop(r) \/ IntakeThrows(r) \/ RefuseFee(r) \/ Prepared(r)
         \/ RefuseExpired(r) \/ Rejected(r) \/ Confirmed(r) \/ TimedOut(r)
  PROVE  NumberInv'
<1>1. CASE Arrive(r) \/ EnterLoop(r) \/ IntakeThrows(r) \/ RefuseFee(r) \/ Prepared(r)
  <2>1. Alone(r)
    BY <1>1 DEF Arrive, EnterLoop, IntakeThrows, RefuseFee, Prepared, Goto, Answer, Count,
                Alone, UseInv, CallInv, CallsTyped, bookVars
  <2>2. /\ step[r] \in {"new", "latest", "fees", "prepare"} /\ note' = note
        /\ UNCHANGED <<poolVars, chain, mempool, applied>>
        /\ step'[r] \in {"latest", "fees", "done"} \/ step[r] = "prepare"
    BY <1>1 DEF Arrive, EnterLoop, IntakeThrows, RefuseFee, Prepared, Goto, Answer,
                UseInv, CallInv, CallsTyped, netVars
  <2>3. Tries(r)' => Tries(r)
    BY <2>2 DEF Tries
  <2> QED
    BY <2>1, <2>2, <2>3, IdleNumbers
<1>2. ASSUME NEW row, NEW outcome, NEW then, AwaitRecord(r, row, outcome, then),
             \E label, fee1 : Count(r, label, fee1),
             UNCHANGED <<poolVars, fee, rows, netVars>>,
             step[r] \in {"latest", "send", "confirm"},
             step[r] # "send" => outcome # "failed",
             then = "timeout" => step[r] = "confirm"
      PROVE  NumberInv'
  <2> DEFINE n == [row |-> row, outcome |-> outcome, then |-> then]
  <2>1. n.outcome = outcome /\ n.then = then
    OBVIOUS
  <2>2. step'[r] = "record" /\ note'[r] = n
    BY <1>2 DEF AwaitRecord, Goto, UseInv, CallInv, CallsTyped
  <2>3. Alone(r)
    BY <1>2 DEF AwaitRecord, Goto, Count, Alone, UseInv, CallInv, CallsTyped
  <2> HIDE DEF n
  <2>4. (Tries(r)' => Tries(r)) /\ (step[r] = "confirm" => ~Tries(r)')
    BY <1>2, <2>1, <2>2 DEF Tries
  <2>5. UNCHANGED <<poolVars, chain, mempool, applied>>
    BY <1>2 DEF netVars
  <2> QED
    BY <1>2, <2>1, <2>2, <2>3, <2>4, <2>5, IdleNumbers
<1>3. CASE RefuseExpired(r)
  <2>1. None # "failed"
    BY RelayerAssumption
  <2> QED
    BY <1>2, <1>3, <2>1 DEF RefuseExpired
<1>4. CASE Rejected(r)
  BY <1>2, <1>4 DEF Rejected, Finish
<1>5. CASE Confirmed(r)
  BY <1>2, <1>5 DEF Confirmed, Finish
<1>6. CASE TimedOut(r)
  BY <1>2, <1>6 DEF TimedOut, Finish
<1> QED
  BY <1>1, <1>3, <1>4, <1>5, <1>6

\* acquire() up to the lease moves no number.
LEMMA WaitsNumbers ==
  ASSUME UseInv, NumberInv, NEW r \in Requests, step[r] \in {"fees", "acquire"}, Alone(r),
         OthersKept(r), UNCHANGED <<sequence, lease, note, chain, mempool, applied>>,
         pc[r] # "leased" /\ pc'[r] # "leased", step'[r] \in {"acquire", "done"},
         pc'[r] = "fetching" => sequence[chan'[r]] = None
  PROVE  NumberInv'
<1>1. Stable
  BY CallStable
<1>2. \A q \in Requests : /\ pc'[q] = "leased" <=> pc[q] = "leased"
                          /\ pc[q] = "leased" => chan'[q] = chan[q] /\ lease'[q] = lease[q]
                          /\ Tries(q)' => Tries(q)
  BY DEF OthersKept, Alone, Tries
<1>3. FetchesUnknown'
  BY DEF NumberInv, FetchesUnknown, OthersKept
<1>4. \A ch \in Pool!Channels : KeptOn(ch)' => KeptOn(ch)
  BY DEF KeptOn
<1> QED
  BY <1>1, <1>2, <1>3, <1>4, QuietNumbers

LEMMA AcquireNumbers ==
  ASSUME UseInv, NumberInv, NEW r \in Requests, Bid(r) \/ AskSequence(r) \/ AcquireThrows(r)
  PROVE  NumberInv'
<1>1. Alone(r)
  BY DEF Bid, AskSequence, AcquireThrows, Goto, Answer, Alone, UseInv, CallInv, CallsTyped,
         callVars, bookVars
<1>2. /\ step[r] \in {"fees", "acquire"} /\ step'[r] \in {"acquire", "done"}
      /\ UNCHANGED <<note, chain, mempool, applied>> /\ pc[r] # "leased"
  BY DEF Bid, AskSequence, AcquireThrows, Goto, Answer, UseInv, CallInv, CallsTyped,
         FollowsAt, Outside, callVars, netVars
<1>3. CASE Bid(r)
  <2>1. Pool!Acquire(r)
    BY <1>3 DEF Bid
  <2>2. /\ pc'[r] \in {"waiting", "granted"} /\ OthersKept(r) /\ UNCHANGED <<sequence, lease>>
    BY <2>1, PoolFacts
    DEF UseInv, Pool!Acquire, Pool!AcquireIdle, Pool!AcquireQueued, OthersKept
  <2> QED
    BY <1>1, <1>2, <2>2, WaitsNumbers
<1>4. CASE AskSequence(r)
  <2>1. Pool!StartFetch(r)
    BY <1>4 DEF AskSequence
  <2>2. /\ pc'[r] = "fetching" /\ OthersKept(r) /\ UNCHANGED <<sequence, lease, chan>>
        /\ sequence[chan[r]] = None
    BY <2>1, PoolFacts DEF UseInv, Pool!StartFetch, OthersKept
  <2> QED
    BY <1>1, <1>2, <2>2, WaitsNumbers
<1>5. CASE AcquireThrows(r)
  <2>1. Pool!FetchFail(r)
    BY <1>5 DEF AcquireThrows
  <2>2. pc'[r] = "idle" /\ OthersKept(r) /\ UNCHANGED <<sequence, lease>>
    BY <2>1, FreeMoves DEF UseInv, Pool!FetchFail
  <2> QED
    BY <1>1, <1>2, <2>2, WaitsNumbers
<1> QED
  BY <1>3, <1>4, <1>5

\* A lease begins with the number after the channel's, or after the ledger's.
LEMMA AcquiredNumbers ==
  ASSUME UseInv, NumberInv, NEW r \in Requests, Acquired(r)
  PROVE  NumberInv'
<1>1. PICK n \in Int :
        /\ lease' = [lease EXCEPT ![r] = n + 1]
        /\ sequence' = [sequence EXCEPT ![chan[r]] = n + 1]
        /\ \/ pc[r] = "fetching" /\ n = chain[chan[r]]
           \/ pc[r] = "granted" /\ n = sequence[chan[r]]
  BY LeaseBegins
<1>2. PICK c \in Pool!Channels : c = chan[r]
  BY LeaseBegins
<1>3. /\ chan' = chan /\ pc' = [pc EXCEPT ![r] = "leased"]
      /\ pc[r] \in {"granted", "fetching"}
  BY LeaseBegins
<1>4. /\ step[r] = "acquire" /\ step'[r] = "prepare"
      /\ UNCHANGED <<note, chain, mempool, applied>>
  BY DEF Acquired, Goto, UseInv, CallInv, CallsTyped, netVars
<1>5. Alone(r)
  BY DEF Acquired, Goto, Alone, UseInv, CallInv, CallsTyped, bookVars
<1>6. OthersKept(r)
  BY <1>1, <1>3, PoolFacts DEF UseInv, OthersKept
<1>7. Stable
  BY <1>4, <1>5, <1>6, CallStable
<1>8. /\ sequence'[c] = n + 1 /\ lease'[r] = n + 1 /\ pc'[r] = "leased"
      /\ \A ch \in Pool!Channels \ {c} : sequence'[ch] = sequence[ch]
      /\ \A q \in Requests \ {r} : lease'[q] = lease[q] /\ pc'[q] = pc[q]
  BY <1>1, <1>2, <1>3, PoolFacts DEF UseInv
<1>9. Unleased(c)
  BY <1>2, <1>3, PoolFacts DEF UseInv, Unleased
<1>10. \A ch \in Pool!Channels : KeptOn(ch)' <=> KeptOn(ch)
  BY <1>4 DEF KeptOn
<1>11. ASSUME NEW ch \in Pool!Channels
       PROVE  ExactOn(ch)' /\ AheadOn(ch)'
  <2>1. CASE ch = c
    BY <1>2, <1>3, <1>8, <2>1 DEF ExactOn, AheadOn, Unleased
  <2>2. CASE ch # c
    <3>1. Unleased(ch)' => Unleased(ch)
      BY <1>2, <1>3, <1>8, <2>2 DEF Unleased
    <3>2. ExactOn(ch)'
      BY <1>4, <1>7, <1>8, <2>2, <3>1 DEF NumberInv, ExactOn, Stable
    <3>3. AheadOn(ch)'
      BY <1>4, <1>7, <1>8, <1>10, <2>2, <3>1 DEF NumberInv, AheadOn, Ahead, Stable
    <3> QED
      BY <3>2, <3>3
  <2> QED
    BY <2>1, <2>2
<1>12. ASSUME NEW q \in Requests \ {r}
       PROVE  ExactFor(q)' /\ AheadFor(q)'
  <2>1. SUFFICES ASSUME Tries(q)'
                 PROVE  ExactFor(q)' /\ AheadFor(q)'
    BY DEF ExactFor, AheadFor
  <2>2. Tries(q) /\ chan[q] \in Pool!Channels
    BY <1>5, <2>1, TriesLeased DEF Alone, Tries
  <2>3. ExactFor(q)'
    BY <1>3, <1>4, <1>7, <1>8, <2>2 DEF NumberInv, ExactFor, Stable
  <2>4. AheadFor(q)'
    BY <1>3, <1>4, <1>7, <1>8, <1>10, <2>2 DEF NumberInv, AheadFor, Ahead, Stable
  <2> QED
    BY <2>3, <2>4
<1>13. n \in Int /\ chain[c] \in Nat
  BY DEF UseInv, NetOK
<1>14. ExactFor(r)'
  <2>1. SUFFICES ASSUME ~Astray(c)', ~TimedOutOn(c)'
                 PROVE  n + 1 = chain[c] + 1
    BY <1>2, <1>3, <1>4, <1>8 DEF ExactFor
  <2>2. sequence[c] \in {None, chain[c]}
    BY <1>7, <1>9, <2>1 DEF NumberInv, ExactOn, Stable
  <2> QED
    BY <1>1, <1>2, <1>13, <2>2, PoolConstants
<1>15. AheadFor(r)'
  <2>1. SUFFICES ASSUME ~Restarted', ~Astray(c)'
                 PROVE  Ahead(c, n)'
    <3>1. lease'[r] - 1 = n
      BY <1>8, <1>13
    <3> QED
      BY <1>2, <1>3, <3>1 DEF AheadFor
  <2>2. \/ sequence[c] = None /\ ~KeptOn(c)
        \/ sequence[c] # None /\ Ahead(c, sequence[c])
    BY <1>7, <1>9, <2>1 DEF NumberInv, AheadOn, Stable
  <2>3. CASE pc[r] = "granted"
    <3>1. n = sequence[c] /\ n # None
      BY <1>1, <1>2, <2>3, PoolConstants
    <3>2. Ahead(c, n)
      BY <2>2, <3>1
    <3> QED
      BY <1>4, <1>10, <3>2 DEF Ahead
  <2>4. CASE pc[r] = "fetching"
    <3>1. sequence[c] = None /\ n = chain[c]
      BY <1>1, <1>2, <2>4 DEF NumberInv, FetchesUnknown
    <3>2. ~KeptOn(c)
      BY <2>2, <3>1
    <3> QED
      BY <1>4, <1>10, <1>13, <3>1, <3>2 DEF Ahead
  <2> QED
    BY <1>3, <2>3, <2>4
<1>16. FetchesUnknown'
  <2> SUFFICES ASSUME NEW q \in Requests, pc'[q] = "fetching"
               PROVE  sequence'[chan'[q]] = None
    BY DEF FetchesUnknown
  <2>1. pc[q] = "fetching" /\ q # r
    BY <1>8
  <2>2. chan[q] \in Pool!Channels \ {c}
    BY <1>2, <1>3, <2>1, PoolFacts DEF UseInv
  <2> QED
    BY <1>3, <1>8, <2>1, <2>2 DEF NumberInv, FetchesUnknown
<1> QED
  BY <1>11, <1>12, <1>14, <1>15, <1>16 DEF NumberInv

(***************************************************************************)
(* release() moves the number of one channel, c: what is left to show is   *)
(* that its new number n is where NumberInv wants it.                      *)
(***************************************************************************)
LEMMA ReleaseNumbers ==
  ASSUME UseInv, NumberInv, NEW r \in Requests, pc[r] = "leased", step[r] # "done", Alone(r),
         NEW o, Pool!Release(r, o), UNCHANGED <<note, chain, mempool, applied>>,
         step'[r] \in {"fees", "done"},
         NEW c \in Pool!Channels, c = chan[r], NEW n, n = Pool!AfterRelease(r, o),
         note[r].then = "timeout" => step[r] = "record",
         ~Astray(c)' /\ ~TimedOutOn(c)' => n \in {None, chain[c]},
         ~Restarted' /\ ~Astray(c)' =>
           \/ n = None /\ ~KeptOn(c)
           \/ n # None /\ Ahead(c, n)
  PROVE  NumberInv'
<1>1. /\ pc'[r] = "released" /\ chan'[r] = chan[r] /\ lease'[r] = lease[r]
      /\ sequence' = [sequence EXCEPT ![c] = n] /\ OthersKept(r)
  BY ReleaseMoves
<1>2. Stable
  BY <1>1, CallStable
<1>3. sequence'[c] = n /\ \A ch \in Pool!Channels \ {c} : sequence'[ch] = sequence[ch]
  BY <1>1, PoolFacts DEF UseInv
<1>4. \A ch \in Pool!Channels : KeptOn(ch)' <=> KeptOn(ch)
  BY DEF KeptOn
<1>5. ASSUME NEW ch \in Pool!Channels
      PROVE  ExactOn(ch)' /\ AheadOn(ch)'
  <2>1. CASE ch = c
    BY <1>3, <1>4, <2>1 DEF ExactOn, AheadOn, Ahead
  <2>2. CASE ch # c
    <3>1. Unleased(ch)' => Unleased(ch)
      BY <1>1, <2>2 DEF Unleased, OthersKept
    <3>2. ExactOn(ch)'
      BY <1>2, <1>3, <2>2, <3>1 DEF NumberInv, ExactOn, Stable
    <3>3. AheadOn(ch)'
      BY <1>2, <1>3, <1>4, <2>2, <3>1 DEF NumberInv, AheadOn, Ahead, Stable
    <3> QED
      BY <3>2, <3>3
  <2> QED
    BY <2>1, <2>2
<1>6. ~Tries(r)'
  BY DEF Tries
<1>7. ASSUME NEW q \in Requests \ {r}, Tries(q)'
      PROVE  ExactFor(q)' /\ AheadFor(q)'
  <2>1. Tries(q)
    BY <1>7 DEF Alone, Tries
  <2>2. PICK d \in Pool!Channels \ {c} : d = chan[q] /\ chan'[q] = d /\ lease'[q] = lease[q]
    BY <1>1, <2>1, TriesLeased, PoolFacts DEF UseInv, OthersKept
  <2>3. ExactFor(q)'
    BY <1>2, <2>1, <2>2 DEF NumberInv, ExactFor, Stable
  <2>4. AheadFor(q)'
    BY <1>2, <1>4, <2>1, <2>2 DEF NumberInv, AheadFor, Ahead, Stable
  <2> QED
    BY <2>3, <2>4
<1>8. FetchesUnknown'
  <2> SUFFICES ASSUME NEW q \in Requests, pc'[q] = "fetching"
               PROVE  sequence'[chan'[q]] = None
    BY DEF FetchesUnknown
  <2>1. pc[q] = "fetching" /\ q # r /\ chan'[q] = chan[q]
    BY <1>1 DEF OthersKept
  <2>2. chan[q] \in Pool!Channels \ {c}
    BY <2>1, PoolFacts DEF UseInv
  <2> QED
    BY <1>3, <2>1, <2>2 DEF NumberInv, FetchesUnknown
<1> QED
  BY <1>5, <1>6, <1>7, <1>8 DEF NumberInv, ExactFor, AheadFor

\* The number a channel has after each outcome: the lease is current.
LEMMA AfterOutcome ==
  ASSUME UseInv, NEW r \in Requests, pc[r] = "leased"
  PROVE  /\ Pool!AfterRelease(r, "bad_seq") = None
         /\ Pool!AfterRelease(r, "failed") = lease[r] - 1
         /\ Pool!AfterRelease(r, "ok") = lease[r]
         /\ lease[r] \in Int
BY PoolFacts DEF UseInv, Pool!AfterRelease

\* What the rolled-back number of a call that had not sent, or was refused, is.
LEMMA RollsBack ==
  ASSUME UseInv, NumberInv, Stable, NEW r \in Requests, Tries(r),
         NEW c \in Pool!Channels, c = chan[r], NEW n, n = lease[r] - 1,
         chain' = chain
  PROVE  /\ ~Astray(c)' /\ ~TimedOutOn(c)' => n \in {None, chain[c]}
         /\ ~Restarted' /\ ~Astray(c)' => n # None /\ Ahead(c, n)
<1>1. lease[r] \in Int /\ chain[c] \in Nat /\ n \in Int /\ n # None
  BY TriesLeased, AfterOutcome, PoolConstants DEF UseInv, NetOK
<1>2. ASSUME ~Astray(c)', ~TimedOutOn(c)'
      PROVE  n = chain[c]
  <2>1. lease[r] = chain[c] + 1
    BY <1>2 DEF NumberInv, ExactFor, Stable
  <2> QED
    BY <1>1, <2>1
<1>3. ASSUME ~Restarted', ~Astray(c)'
      PROVE  Ahead(c, n)
  BY <1>3 DEF NumberInv, AheadFor, Stable
<1> QED
  BY <1>1, <1>2, <1>3

\* Steps that give the lease back as "failed" before the network took anything.
LEMMA GivesUpNumbers ==
  ASSUME UseInv, NumberInv, NEW r \in Requests, step[r] \in {"prepare", "send"},
         Alone(r), Pool!Release(r, "failed"), UNCHANGED <<note, chain, mempool, applied>>,
         step'[r] \in {"fees", "done"}
  PROVE  NumberInv'
<1>1. pc[r] = "leased" /\ note[r].then # "timeout"
  BY DEF UseInv, FollowsAt, NoteFits, OnLease
<1>2. Tries(r)
  BY DEF Tries
<1>3. PICK c \in Pool!Channels : c = chan[r]
  BY <1>2, TriesLeased
<1>4. Stable
  BY <1>1, ReleaseMoves, CallStable
<1>5. Pool!AfterRelease(r, "failed") = lease[r] - 1
  BY <1>1, AfterOutcome
<1>6. PICK n : n = lease[r] - 1
  OBVIOUS
<1>7. /\ ~Astray(c)' /\ ~TimedOutOn(c)' => n \in {None, chain[c]}
      /\ ~Restarted' /\ ~Astray(c)' => n # None /\ Ahead(c, n)
  BY <1>2, <1>3, <1>4, <1>6, RollsBack
<1> QED
  BY <1>1, <1>3, <1>5, <1>6, <1>7, ReleaseNumbers

LEMMA AbortNumbers ==
  ASSUME UseInv, NumberInv, NEW r \in Requests, AttemptThrows(r) \/ RefuseMutated(r)
  PROVE  NumberInv'
<1>1. PICK a \in {"threw", "payload_mutated"} :
        /\ Abort(r, a) /\ step[r] \in {"prepare", "confirm"} /\ UNCHANGED netVars
        /\ a = "threw" \/ step[r] = "prepare"
  BY DEF AttemptThrows, RefuseMutated
<1>2. /\ step'[r] = "done" /\ answer'[r] = a /\ note' = note
      /\ UNCHANGED <<chain, mempool, applied>>
      /\ Pool!Release(r, "failed") /\ pc[r] = "leased" /\ note[r].then # "timeout"
  BY <1>1 DEF Abort, Answer, UseInv, CallInv, CallsTyped, FollowsAt, NoteFits, OnLease, netVars
<1>3. Alone(r)
  BY <1>1 DEF Abort, Answer, Alone, UseInv, CallInv, CallsTyped, bookVars
<1>4. CASE step[r] = "prepare"
  BY <1>2, <1>3, <1>4, GivesUpNumbers
<1>5. CASE step[r] = "confirm"
  <2>1. PICK c \in Pool!Channels : c = chan[r]
    BY <1>2, PoolFacts DEF UseInv
  <2>2. PICK n : n = lease[r] - 1
    OBVIOUS
  <2>3. Pool!AfterRelease(r, "failed") = n /\ lease[r] \in Int
    BY <1>2, <2>2, AfterOutcome
  <2>4. /\ \A t \in mempool : t.ch = c => t.req = r \/ Unheard(t.req)
        /\ ~Astray(c) => lease[r] = Due(r)
        /\ chain[c] \in Nat
    BY <1>5, <2>1 DEF UseInv, AwaitsOK, Awaits, NetOK
  <2>5. InLedger(r) => Astray(c)'
    <3>1. ASSUME InLedger(r)
          PROVE  \E e \in applied' : e.tx.ch = c /\ answer'[e.tx.req] \in {"threw", "lost"}
      <4>1. PICK e \in applied : e.tx.req = r
        BY <3>1 DEF InLedger
      <4>2. e.tx.ch = c
        BY <2>1, <4>1 DEF UseInv, NetOK, Signed
      <4> QED
        BY <1>1, <1>2, <1>5, <4>1, <4>2
    <3> QED
      BY <3>1 DEF Astray
  <2>6. ~KeptOn(c)
    BY <1>2, <2>4 DEF KeptOn, Unheard
  <2>7. ~Astray(c)' => lease[r] = chain[c] + 1
    <3>1. Astray(c) => Astray(c)'
      BY <1>2, <1>3, <1>5, Unchanging
    <3> QED
      BY <2>1, <2>4, <2>5, <3>1 DEF Due
  <2>8. ~Astray(c)' => n = chain[c] /\ n # None
    BY <2>2, <2>3, <2>4, <2>7, PoolConstants
  <2>9. ~Astray(c)' => Ahead(c, n)
    BY <2>4, <2>6, <2>8 DEF Ahead
  <2> QED
    BY <1>2, <1>3, <1>5, <2>1, <2>3, <2>8, <2>9, ReleaseNumbers
<1> QED
  BY <1>1, <1>4, <1>5

LEMMA RetryNumbers ==
  ASSUME UseInv, NumberInv, NEW r \in Requests, BadSeq(r) \/ TryAgain(r)
  PROVE  NumberInv'
<1>1. PICK o \in {"bad_seq", "failed"} :
        /\ Retry(r, o) /\ step[r] = "send"
        /\ o = "bad_seq" => PendingOn(chan[r]) = {}
  BY DEF BadSeq, TryAgain
<1>2. /\ step'[r] \in {"fees", "done"} /\ UNCHANGED <<note, chain, mempool, applied>>
      /\ Pool!Release(r, o) /\ pc[r] = "leased" /\ note[r].then # "timeout"
  BY <1>1 DEF Retry, Goto, Answer, UseInv, CallInv, CallsTyped, FollowsAt, NoteFits, OnLease,
              netVars
<1>3. Alone(r)
  BY <1>1 DEF Retry, Goto, Answer, Count, Alone, UseInv, CallInv, CallsTyped, bookVars
<1>4. CASE o = "failed"
  BY <1>1, <1>2, <1>3, <1>4, GivesUpNumbers
<1>5. CASE o = "bad_seq"
  <2>1. PICK c \in Pool!Channels : c = chan[r]
    BY <1>2, PoolFacts DEF UseInv
  <2>2. Pool!AfterRelease(r, o) = None
    BY <1>2, <1>5, AfterOutcome
  <2>3. ~KeptOn(c)
    BY <1>1, <1>5, <2>1 DEF PendingOn, KeptOn
  <2> QED
    BY <1>1, <1>2, <1>3, <2>1, <2>2, <2>3, ReleaseNumbers
<1> QED
  BY <1>4, <1>5

LEMMA SendThrowsNumbers ==
  ASSUME UseInv, NumberInv, NEW r \in Requests, SendThrows(r)
  PROVE  NumberInv'
<1>1. /\ step[r] = "send" /\ step'[r] = "done" /\ Pool!Release(r, "failed")
      /\ UNCHANGED <<note, chain, mempool, applied>>
  BY DEF SendThrows, Abort, Answer, UseInv, CallInv, CallsTyped
<1>2. Alone(r)
  BY DEF SendThrows, Abort, Answer, Alone, UseInv, CallInv, CallsTyped, bookVars
<1> QED
  BY <1>1, <1>2, GivesUpNumbers

LEMMA RecordNumbers ==
  ASSUME UseInv, NumberInv, NEW r \in Requests, Recorded(r) \/ RecordThrows(r)
  PROVE  NumberInv'
<1>1. /\ step[r] = "record" /\ ReleaseNoted(r) /\ UNCHANGED <<note, chain, mempool, applied>>
      /\ \E a : Answer(r, a)
  BY DEF Recorded, RecordThrows, netVars
<1>2. step'[r] = "done" /\ FollowsAt(r) /\ NoteFits(r)
  BY <1>1 DEF Answer, UseInv, CallInv, CallsTyped
<1>3. Alone(r)
  BY DEF Recorded, RecordThrows, Answer, Alone, UseInv, CallInv, CallsTyped, bookVars
<1>4. CASE note[r].outcome = None
  <2>1. UNCHANGED poolVars /\ ~Tries(r)'
    BY <1>1, <1>2, <1>4 DEF ReleaseNoted, Tries
  <2> QED
    BY <1>1, <1>3, <2>1, IdleNumbers
<1>5. CASE note[r].outcome # None
  <2>1. PICK o \in {"ok", "failed"} :
          o = note[r].outcome /\ Pool!Release(r, o) /\ pc[r] = "leased"
    BY <1>1, <1>2, <1>5 DEF ReleaseNoted, NoteFits, FollowsAt
  <2>2. PICK c \in Pool!Channels : c = chan[r]
    BY <2>1, PoolFacts DEF UseInv
  <2>3. chan'[r] = c
    BY <2>1, <2>2, ReleaseMoves
  <2>4. CASE o = "failed"
    <3>1. Tries(r)
      BY <1>1, <2>1, <2>4 DEF Tries
    <3>2. Stable
      BY <1>1, <1>3, <2>1, ReleaseMoves, CallStable
    <3>3. PICK n : n = lease[r] - 1
      OBVIOUS
    <3>4. /\ ~Astray(c)' /\ ~TimedOutOn(c)' => n \in {None, chain[c]}
          /\ ~Restarted' /\ ~Astray(c)' => n # None /\ Ahead(c, n)
      BY <1>1, <2>2, <3>1, <3>2, <3>3, RollsBack
    <3>5. n = Pool!AfterRelease(r, o)
      BY <2>1, <2>4, <3>3, AfterOutcome
    <3> QED
      BY <1>1, <1>2, <1>3, <2>1, <2>2, <3>4, <3>5, ReleaseNumbers
  <2>5. CASE o = "ok"
    <3>1. PICK n : n = lease[r]
      OBVIOUS
    <3>2. n = Pool!AfterRelease(r, o) /\ n \in Int /\ n # None /\ chain[c] \in Nat
      BY <2>1, <2>5, <3>1, AfterOutcome, PoolConstants DEF UseInv, NetOK
    <3>3. /\ \A t \in mempool : t.ch = c => t.req = r \/ Unheard(t.req)
          /\ ~Astray(c) => n = Due(r)
      BY <1>1, <2>1, <2>2, <2>5, <3>1 DEF UseInv, AwaitsOK, Awaits
    <3>4. ~Astray(c)' => n = IF InLedger(r) THEN chain[c] ELSE chain[c] + 1
      <4>1. Astray(c) => Astray(c)'
        BY <1>1, <1>3, Unchanging
      <4> QED
        BY <2>2, <3>3, <4>1 DEF Due
    <3>5. ~Astray(c)' /\ ~TimedOutOn(c)' => n = chain[c]
      <4>1. ~TimedOutOn(c)' => note[r].then # "timeout"
        BY <1>1, <2>3 DEF TimedOutOn
      <4> QED
        BY <1>1, <1>2, <2>1, <2>5, <3>4, <4>1 DEF NoteFits
    <3>6. KeptOn(c) => ~InLedger(r)
      <4>1. ASSUME NEW t \in mempool, t.ch = c, note[t.req].then = "timeout"
            PROVE  ~InLedger(r)
        <5>1. t.req = r
          BY <3>3, <4>1 DEF Unheard
        <5> QED
          BY <5>1 DEF InLedger, UseInv, CallInv, OneTx, Alive
      <4> QED
        BY <4>1 DEF KeptOn
    <3>7. ~Astray(c)' => Ahead(c, n)
      BY <3>2, <3>4, <3>6 DEF Ahead
    <3> QED
      BY <1>1, <1>2, <1>3, <2>1, <2>2, <3>2, <3>5, <3>7, ReleaseNumbers
  <2> QED
    BY <2>4, <2>5
<1> QED
  BY <1>4, <1>5

LEMMA AcceptedNumbers ==
  ASSUME UseInv, NumberInv, NEW r \in Requests, Accepted(r)
  PROVE  NumberInv'
<1>1. /\ step[r] = "send" /\ step'[r] = "confirm" /\ note' = note
      /\ mempool' = mempool \cup {TxOf(r)} /\ UNCHANGED <<poolVars, chain, applied>>
  BY DEF Accepted, Goto, UseInv, CallInv, CallsTyped
<1>2. Alone(r)
  BY DEF Accepted, Goto, Alone, UseInv, CallInv, CallsTyped, bookVars
<1>3. OthersKept(r) /\ pc' = pc /\ chan' = chan /\ lease' = lease
  BY <1>1, PoolIdle
<1>4. Stable
  BY <1>1, <1>2, <1>3, CallStable
<1>5. /\ pc[r] = "leased" /\ note[r].then # "timeout"
      /\ TxOf(r).req = r /\ TxOf(r).ch = chan[r]
  BY <1>1 DEF UseInv, FollowsAt, NoteFits, OnLease, TxOf
<1>6. FetchesUnknown'
  BY <1>1, <1>3 DEF NumberInv, FetchesUnknown, poolVars
<1>7. \A q \in Requests : Tries(q)' => Tries(q)
  BY <1>1, <1>2 DEF Alone, Tries
<1>8. \A ch \in Pool!Channels : KeptOn(ch)' => KeptOn(ch)
  BY <1>1, <1>5 DEF KeptOn
<1>9. UNCHANGED <<sequence, chain>>
  BY <1>1 DEF poolVars
<1> QED
  BY <1>3, <1>4, <1>6, <1>7, <1>8, <1>9, QuietNumbers

\* A ledger closes, a transaction is dropped or arrives late, or nothing happens.
LEMMA QuietNetNumbers ==
  ASSUME UseInv, NumberInv, UNCHANGED <<poolVars, callVars, chain, applied>>,
         \A t \in mempool' : t \in mempool \/ note[t.req].then # "timeout"
  PROVE  NumberInv'
<1>1. /\ UNCHANGED <<sequence, chain>> /\ pc' = pc /\ chan' = chan /\ lease' = lease
      /\ step' = step /\ note' = note /\ answer' = answer
  BY DEF poolVars, callVars
<1>2. Stable
  BY <1>1 DEF Stable, Astray, TimedOutOn, Restarted
<1>3. FetchesUnknown'
  BY <1>1 DEF NumberInv, FetchesUnknown
<1>4. \A q \in Requests : Tries(q)' => Tries(q)
  BY <1>1 DEF Tries
<1>5. \A ch \in Pool!Channels : KeptOn(ch)' => KeptOn(ch)
  BY <1>1 DEF KeptOn
<1> QED
  BY <1>1, <1>2, <1>3, <1>4, <1>5, QuietNumbers

(***************************************************************************)
(* A ledger takes a number: its call waits for it on the lease, kept it    *)
(* when it timed out, or was not answered, and then the channel is astray. *)
(***************************************************************************)
LEMMA LandNumbers ==
  ASSUME UseInv, NumberInv, NEW tx \in mempool, Land(tx)
  PROVE  NumberInv'
<1>1. PICK res : applied' = applied \cup {[tx |-> tx, result |-> res]}
  BY DEF Land
<1> DEFINE new == [tx |-> tx, result |-> res]
<1>2. /\ new.tx = tx /\ applied' = applied \cup {new}
      /\ mempool' = mempool \ {tx} /\ chain' = [chain EXCEPT ![tx.ch] = tx.seq]
      /\ UNCHANGED <<poolVars, callVars>>
  BY <1>1 DEF Land
<1> HIDE DEF new
<1>3. /\ sequence' = sequence /\ step' = step /\ note' = note /\ answer' = answer
      /\ pc' = pc /\ chan' = chan /\ lease' = lease
  BY <1>2 DEF poolVars, callVars
<1>4. PICK c \in Pool!Channels : c = tx.ch
  BY DEF UseInv, NetOK, Signed, Txs
<1>5. PICK q \in Requests : q = tx.req /\ chan[q] = c
  BY <1>4 DEF UseInv, NetOK, Signed, CallInv, OneTx, Alive
<1>6. /\ chain \in [Pool!Channels -> Nat] /\ chain'[c] = chain[c] + 1
      /\ \A ch \in Pool!Channels \ {c} : chain'[ch] = chain[ch]
  BY <1>2, <1>4 DEF UseInv, NetOK
<1>7. Stable
  <2>1. \A ch \in Pool!Channels : Astray(ch) => Astray(ch)'
    BY <1>2, <1>3 DEF Astray
  <2>2. \A ch \in Pool!Channels : TimedOutOn(ch) => TimedOutOn(ch)'
    BY <1>3 DEF TimedOutOn
  <2> QED
    BY <1>3, <2>1, <2>2 DEF Stable, Restarted
<1>8. ~KeptOn(c)'
  BY <1>2, <1>3, <1>4 DEF KeptOn, UseInv, NetOK
<1>9. \A ch \in Pool!Channels \ {c} : KeptOn(ch)' => KeptOn(ch)
  BY <1>2, <1>3, <1>4 DEF KeptOn
<1>10. Excused(q)
  BY <1>5 DEF UseInv, NetOK
<1>11. answer[q] \in {"threw", "lost"} => Astray(c)'
  BY <1>2, <1>3, <1>4, <1>5 DEF Astray
<1>12. note[q].then = "timeout" => TimedOutOn(c)' /\ KeptOn(c)
  BY <1>3, <1>4, <1>5 DEF TimedOutOn, KeptOn
<1>13. step[q] = "confirm" => pc[q] = "leased" /\ ~Tries(q)
  BY DEF UseInv, FollowsAt, OnLease, Tries
<1>14. ASSUME NEW ch \in Pool!Channels
       PROVE  ExactOn(ch)' /\ AheadOn(ch)'
  <2>1. Unleased(ch)' => Unleased(ch)
    BY <1>3 DEF Unleased
  <2>2. CASE ch = c
    <3>1. ASSUME ~Astray(c)', Unleased(c)
          PROVE  note[q].then = "timeout"
      BY <1>5, <1>10, <1>11, <1>13, <3>1 DEF Excused, Unleased
    <3>2. ExactOn(c)'
      BY <1>12, <2>1, <2>2, <3>1 DEF ExactOn
    <3>3. ASSUME ~Restarted', ~Astray(c)', Unleased(c)
          PROVE  sequence[c] # None /\ sequence[c] >= chain'[c]
      <4>1. sequence[c] # None /\ Ahead(c, sequence[c])
        BY <1>7, <1>12, <3>1, <3>3 DEF NumberInv, AheadOn, Stable
      <4>2. sequence[c] >= chain[c] + 1
        BY <1>12, <3>1, <3>3, <4>1 DEF Ahead
      <4> QED
        BY <1>6, <4>1, <4>2
    <3>4. AheadOn(c)'
      BY <1>3, <1>8, <2>1, <2>2, <3>3 DEF AheadOn, Ahead
    <3> QED
      BY <2>2, <3>2, <3>4
  <2>3. CASE ch # c
    <3>1. ExactOn(ch)'
      BY <1>3, <1>6, <1>7, <2>1, <2>3 DEF NumberInv, ExactOn, Stable
    <3>2. AheadOn(ch)'
      BY <1>3, <1>6, <1>7, <1>9, <2>1, <2>3 DEF NumberInv, AheadOn, Ahead, Stable
    <3> QED
      BY <3>1, <3>2
  <2> QED
    BY <2>2, <2>3
<1>15. ASSUME NEW r \in Requests, Tries(r)'
       PROVE  ExactFor(r)' /\ AheadFor(r)'
  <2>1. Tries(r) /\ pc[r] = "leased"
    BY <1>3, <1>15, TriesLeased DEF Tries
  <2>2. PICK d \in Pool!Channels : d = chan[r]
    BY <2>1, TriesLeased
  <2>3. CASE d = c
    <3>1. step[q] # "confirm"
      BY <1>5, <1>13, <2>1, <2>2, <2>3, PoolFacts DEF UseInv
    <3>2. Astray(c)' \/ note[q].then = "timeout"
      BY <1>10, <1>11, <3>1 DEF Excused
    <3>3. ExactFor(r)'
      BY <1>3, <1>12, <2>2, <2>3, <3>2 DEF ExactFor
    <3>4. ASSUME ~Restarted', ~Astray(c)'
          PROVE  lease[r] - 1 >= chain'[c]
      <4>1. Ahead(c, lease[r] - 1)
        BY <1>7, <2>1, <2>2, <2>3, <3>4 DEF NumberInv, AheadFor, Stable
      <4> QED
        BY <1>6, <1>12, <3>2, <3>4, <4>1 DEF Ahead
    <3>5. AheadFor(r)'
      BY <1>3, <1>8, <2>2, <2>3, <3>4 DEF AheadFor, Ahead
    <3> QED
      BY <3>3, <3>5
  <2>4. CASE d # c
    <3>1. ExactFor(r)'
      BY <1>3, <1>6, <1>7, <2>1, <2>2, <2>4 DEF NumberInv, ExactFor, Stable
    <3>2. AheadFor(r)'
      BY <1>3, <1>6, <1>7, <1>9, <2>1, <2>2, <2>4 DEF NumberInv, AheadFor, Ahead, Stable
    <3> QED
      BY <3>1, <3>2
  <2> QED
    BY <2>3, <2>4
<1>16. FetchesUnknown'
  BY <1>3 DEF NumberInv, FetchesUnknown
<1> QED
  BY <1>14, <1>15, <1>16 DEF NumberInv, ExactFor, AheadFor

LEMMA CrashNumbers ==
  ASSUME UseInv, Crash
  PROVE  NumberInv'
<1>1. /\ step' = [r \in Requests |-> IF InFlight(r) THEN "done" ELSE step[r]]
      /\ answer' = [r \in Requests |-> IF InFlight(r) THEN "lost" ELSE answer[r]]
      /\ sequence' = [ch \in Pool!Channels |-> None]
      /\ pc' = [r \in Requests |-> "idle"]
      /\ \E r \in Requests : InFlight(r)
  BY DEF Crash, PoolRestart
<1>2. Restarted'
  BY <1>1 DEF Restarted
<1>3. \A r \in Requests : ~Tries(r)'
  BY <1>1 DEF Tries, InFlight
<1> QED
  BY <1>1, <1>2, <1>3
  DEF NumberInv, ExactOn, ExactFor, AheadOn, AheadFor, FetchesUnknown

LEMMA InitNumbers == Init => NumberInv
<1> SUFFICES ASSUME Init PROVE NumberInv
  OBVIOUS
<1>1. /\ \A ch \in Pool!Channels : sequence[ch] = None
      /\ \A r \in Requests : step[r] = "new" /\ pc[r] = "idle"
      /\ mempool = {}
  BY DEF Init, Pool!Init
<1> QED
  BY <1>1 DEF NumberInv, ExactOn, ExactFor, AheadOn, AheadFor, FetchesUnknown, Tries, KeptOn

LEMMA NextNumbers ==
  ASSUME UseInv, NumberInv, [Next]_vars
  PROVE  NumberInv'
<1>1. ASSUME NEW r \in Requests, Arrive(r) \/ Progress(r)
      PROVE  NumberInv'
  BY <1>1, OutsideNumbers, AcquireNumbers, AcquiredNumbers, AbortNumbers, AcceptedNumbers,
     RetryNumbers, SendThrowsNumbers, RecordNumbers
  DEF Progress
<1>2. CASE Crash
  BY <1>2, CrashNumbers
<1>3. CASE Tick
  BY <1>3, QuietNetNumbers DEF Tick
<1>4. ASSUME NEW tx \in mempool, Land(tx) \/ Drop(tx)
      PROVE  NumberInv'
  BY <1>4, LandNumbers, QuietNetNumbers DEF Drop
<1>5. ASSUME NEW tx \in late, Deliver(tx)
      PROVE  NumberInv'
  <2>1. \A t \in mempool' : t \in mempool \/ note[t.req].then # "timeout"
    BY <1>5 DEF Deliver, UseInv, NetOK, Unheard
  <2> QED
    BY <1>5, <2>1, QuietNetNumbers DEF Deliver
<1>6. CASE AllAnswered \/ UNCHANGED vars
  BY <1>6, QuietNetNumbers DEF AllAnswered, vars, netVars
<1> QED
  BY <1>1, <1>2, <1>3, <1>4, <1>5, <1>6 DEF Next

LEMMA NumberInvHolds == Safe => []NumberInv
<1>1. Init => NumberInv
  BY InitNumbers
<1>2. UseInv /\ NumberInv /\ [Next]_vars => NumberInv'
  BY NextNumbers
<1> QED
  BY <1>1, <1>2, UseInvHolds, PTL DEF Safe

(***************************************************************************)
(* "The sequence number is tracked locally so two concurrent submissions   *)
(* never collide" (channel-pool.ts:22-23): as long as every transaction of *)
(* a channel was followed to its ledger, a transaction about to be sent    *)
(* carries the next number of its account and finds nothing pending.       *)
(***************************************************************************)
THEOREM NextIsLeased == Safe => []LeaseIsNext
<1>1. ASSUME UseInv, NumberInv
      PROVE  LeaseIsNext
  <2> SUFFICES ASSUME NEW r \in Requests, step[r] \in {"prepare", "send"},
                      ~LeftOpen(chan[r]), ~TimedOutOn(chan[r])
               PROVE  NextNumber(r) /\ PendingOn(chan[r]) = {}
    BY DEF LeaseIsNext
  <2>1. ~Astray(chan[r])
    BY DEF Astray, LeftOpen
  <2>2. Tries(r) /\ pc[r] = "leased"
    BY <1>1 DEF Tries, UseInv, FollowsAt, OnLease
  <2>3. lease[r] = chain[chan[r]] + 1
    BY <1>1, <2>1, <2>2 DEF NumberInv, ExactFor
  <2>4. ASSUME NEW t \in mempool, t.ch = chan[r]
        PROVE  FALSE
    <3>1. t.req \in Requests /\ chan[t.req] = chan[r] /\ Excused(t.req)
      BY <1>1, <2>4 DEF UseInv, NetOK, Signed, CallInv, OneTx, Alive
    <3>2. CASE step[t.req] = "confirm"
      BY <1>1, <2>2, <3>1, <3>2, PoolFacts DEF UseInv, FollowsAt, OnLease
    <3>3. CASE note[t.req].then = "timeout"
      BY <3>1, <3>3 DEF TimedOutOn
    <3>4. CASE answer[t.req] \in {"threw", "lost"}
      BY <2>4, <3>4 DEF LeftOpen
    <3> QED
      BY <3>1, <3>2, <3>3, <3>4 DEF Excused
  <2> QED
    BY <2>3, <2>4 DEF NextNumber, PendingOn
<1> QED
  BY <1>1, UseInvHolds, NumberInvHolds, PTL

(***************************************************************************)
(* A timed-out transaction keeps its number (relayer.ts:196-199): an idle  *)
(* channel with nothing pending is never behind its ledger, unless a call  *)
(* was left open, or a restart forgot what a timed-out transaction kept.   *)
(***************************************************************************)
THEOREM NumbersAreKept == Safe => []NeverBehind
<1>1. ASSUME UseInv, NumberInv
      PROVE  NeverBehind
  <2> SUFFICES ASSUME NEW ch \in Pool!Channels, ~busy[ch], sequence[ch] # None,
                      PendingOn(ch) = {}, ~LeftOpen(ch), ~(Restarted /\ TimedOutOn(ch))
               PROVE  sequence[ch] >= chain[ch]
    BY DEF NeverBehind
  <2>1. ~Astray(ch)
    BY DEF Astray, LeftOpen
  <2>2. Unleased(ch)
    BY <1>1, SameChannels
    DEF UseInv, PP!IInv, PP!BusyMeansHeld, PP!Holds, PP!Holding, Unleased
  <2>3. chain[ch] \in Nat
    BY <1>1 DEF UseInv, NetOK
  <2>4. CASE ~TimedOutOn(ch)
    <3>1. sequence[ch] = chain[ch]
      BY <1>1, <2>1, <2>2, <2>4 DEF NumberInv, ExactOn
    <3> QED
      BY <2>3, <3>1
  <2>5. CASE ~Restarted
    BY <1>1, <2>1, <2>2, <2>5 DEF NumberInv, AheadOn, Ahead
  <2> QED
    BY <2>4, <2>5
<1> QED
  BY <1>1, UseInvHolds, NumberInvHolds, PTL
=============================================================================
