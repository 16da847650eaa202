-------------------------- MODULE ChannelPool_proofs --------------------------
(***************************************************************************)
(* Proofs about ChannelPool for every set of clients, every number of      *)
(* channels and every set of sequence numbers.                             *)
(*                                                                         *)
(* None of the safety invariants is inductive alone: mutual exclusion      *)
(* needs that an idle channel has no holder (BusyMeansHeld), a hand-over   *)
(* needs that the head of the queue really waits (QueueIsWaiting), and the *)
(* number in a lease needs both mutual exclusion and that the client's     *)
(* channel is a channel (ChanOK).  IInv is their conjunction.              *)
(***************************************************************************)
EXTENDS ChannelPool, SequenceTheorems, TLAPS

\* A client that holds, or held, a channel closes over a real one; a lease
\* carries a number.
ChanOK ==
  \A c \in Clients :
    /\ pc[c] \in Holding \cup {"released"} => chan[c] \in Channels
    /\ pc[c] \in {"leased", "released"} => lease[c] \in Int

IInv ==
  /\ TypeOK
  /\ ChanOK
  /\ MutualExclusion
  /\ BusyMeansHeld
  /\ NoIdleWhileWaiting
  /\ QueueIsWaiting
  /\ LeaseIsCurrent

\* The first waiter, and what is left of the queue behind it.
LEMMA QueueHead ==
  ASSUME NEW q \in Seq(Clients), q # << >>
  PROVE  /\ Head(q) \in Clients
         /\ Head(q) = q[1]
         /\ Len(q) \in Nat \ {0}
         /\ Tail(q) \in Seq(Clients)
         /\ Len(Tail(q)) = Len(q) - 1
         /\ \A i \in 1..Len(Tail(q)) : Tail(q)[i] = q[i+1]
<1>1. Len(q) \in Nat /\ Len(q) # 0
  BY EmptySeq, LenProperties
<1> QED
  BY <1>1, HeadTailProperties

\* An arrival goes to the end of the queue and moves nobody.
LEMMA QueueAppend ==
  ASSUME NEW q \in Seq(Clients), NEW c \in Clients
  PROVE  /\ Append(q, c) \in Seq(Clients)
         /\ Len(Append(q, c)) = Len(q) + 1
         /\ Len(q) \in Nat
         /\ \A i \in 1..Len(q) : Append(q, c)[i] = q[i]
         /\ Append(q, c)[Len(q) + 1] = c
BY AppendProperties, LenProperties

\* The initial state satisfies the inductive invariant.
LEMMA InitIInv == Init => IInv
BY PoolAssumption
   DEF Init, IInv, TypeOK, ChanOK, MutualExclusion, BusyMeansHeld,
       NoIdleWhileWaiting, QueueIsWaiting, LeaseIsCurrent, Holds, Holding, Channels

(***************************************************************************)
(* A holder that gives its channel back through free() keeps every part of *)
(* the invariant that does not mention sequence numbers.  Both acquire()'s *)
(* catch block (q = "idle") and release() (q = "released") are instances.  *)
(***************************************************************************)
LEMMA FreeKeeps ==
  ASSUME IInv, NEW c \in Clients, NEW q \in {"idle", "released"},
         pc[c] \in Holding,
         q = "released" => pc[c] = "leased",
         UNCHANGED lease,
         sequence' \in [Channels -> Int \cup {None}],
         Free(chan[c], [pc EXCEPT ![c] = q])
  PROVE  /\ TypeOK' /\ ChanOK' /\ MutualExclusion' /\ BusyMeansHeld'
         /\ NoIdleWhileWaiting' /\ QueueIsWaiting'
         /\ \A d \in Clients : pc'[d] = "leased" =>
              d # c /\ pc[d] = "leased" /\ chan'[d] = chan[d]
<1> DEFINE h == Head(waiters)
<1> USE DEF Holding
<1>0. /\ chan[c] \in Channels
      /\ q = "released" => lease[c] \in Int
      /\ pc \in [Clients -> {"idle", "waiting", "granted", "fetching", "leased", "released"}]
      /\ chan \in [Clients -> Channels \cup {None}]
      /\ busy \in [Channels -> BOOLEAN]
      /\ waiters \in Seq(Clients)
  BY DEF IInv, TypeOK, ChanOK
<1>1. CASE waiters = << >>
  <2>1. /\ busy' = [busy EXCEPT ![chan[c]] = FALSE]
        /\ pc' = [pc EXCEPT ![c] = q]
        /\ waiters' = waiters /\ chan' = chan
    BY <1>1 DEF Free
  <2>2. TypeOK'
    BY <2>1 DEF IInv, TypeOK
  <2>3. ChanOK' /\ MutualExclusion'
    BY <2>1, <1>0 DEF IInv, ChanOK, MutualExclusion, Holds
  <2>4. BusyMeansHeld'
    BY <2>1, <1>0 DEF IInv, MutualExclusion, BusyMeansHeld, Holds
  <2>5. NoIdleWhileWaiting'
    BY <2>1, <1>1 DEF NoIdleWhileWaiting
  <2>6. QueueIsWaiting'
    BY <2>1, <1>0 DEF IInv, QueueIsWaiting
  <2> QED
    BY <2>1, <2>2, <2>3, <2>4, <2>5, <2>6, <1>0
<1>2. CASE waiters # << >>
  <2>1. /\ waiters' = Tail(waiters)
        /\ pc' = [[pc EXCEPT ![c] = q] EXCEPT ![h] = "granted"]
        /\ chan' = [chan EXCEPT ![h] = chan[c]]
        /\ busy' = busy
    BY <1>2 DEF Free
  <2>2. /\ h \in Clients /\ h = waiters[1] /\ Len(waiters) \in Nat \ {0}
        /\ Tail(waiters) \in Seq(Clients)
        /\ Len(Tail(waiters)) = Len(waiters) - 1
        /\ \A i \in 1..Len(Tail(waiters)) : Tail(waiters)[i] = waiters[i+1]
    BY <1>0, <1>2, QueueHead
  <2>3. pc[h] = "waiting" /\ h # c
    BY <2>2 DEF IInv, QueueIsWaiting
  <2>4. TypeOK'
    BY <2>1, <2>2, <1>0 DEF IInv, TypeOK
  <2>5. /\ pc'[c] = q /\ pc'[h] = "granted" /\ chan'[h] = chan[c]
        /\ \A d \in Clients \ {c, h} : pc'[d] = pc[d]
        /\ \A d \in Clients \ {h} : chan'[d] = chan[d]
    BY <2>1, <2>2, <2>3, <1>0
  <2>6. ChanOK' /\ MutualExclusion'
    BY <2>5, <2>3, <2>2, <1>0 DEF IInv, ChanOK, MutualExclusion, Holds
  <2>7. BusyMeansHeld'
    BY <2>1, <2>5, <2>3, <2>2, <1>0 DEF IInv, MutualExclusion, BusyMeansHeld, Holds
  <2>8. NoIdleWhileWaiting'
    BY <2>1, <1>2 DEF IInv, NoIdleWhileWaiting
  <2>9. QueueIsWaiting'
    <3>1. \A i, j \in 1..Len(waiters') : waiters'[i] = waiters'[j] => i = j
      BY <2>1, <2>2 DEF IInv, QueueIsWaiting
    <3>2. ASSUME NEW d \in Clients
          PROVE  pc'[d] = "waiting" <=> \E i \in 1..Len(waiters') : waiters'[i] = d
      <4>1. CASE d \in {c, h}
        <5>1. pc'[d] # "waiting"
          BY <4>1, <2>5
        <5>2. \A i \in 1..Len(waiters) : waiters[i] = d => i = 1
          BY <4>1, <2>2, <2>3 DEF IInv, QueueIsWaiting
        <5>3. \A i \in 1..Len(waiters') : waiters'[i] # d
          BY <5>2, <2>1, <2>2
        <5> QED BY <5>1, <5>3
      <4>2. CASE d \notin {c, h}
        <5>1. pc'[d] = pc[d]
          BY <4>2, <2>5
        <5>2. ASSUME NEW i \in 1..Len(waiters), waiters[i] = d
              PROVE  \E k \in 1..Len(waiters') : waiters'[k] = d
          <6>1. i # 1
            BY <5>2, <4>2, <2>2
          <6>2. /\ i - 1 \in 1..Len(waiters')
                /\ waiters'[i - 1] = waiters[i]
            BY <6>1, <2>1, <2>2
          <6> QED BY <6>2, <5>2
        <5>3. ASSUME NEW i \in 1..Len(waiters'), waiters'[i] = d
              PROVE  \E k \in 1..Len(waiters) : waiters[k] = d
          <6>1. i + 1 \in 1..Len(waiters) /\ waiters[i + 1] = d
            BY <5>3, <2>1, <2>2
          <6> QED BY <6>1
        <5>4. pc[d] = "waiting" <=> \E i \in 1..Len(waiters) : waiters[i] = d
          BY DEF IInv, QueueIsWaiting
        <5> QED BY <5>1, <5>2, <5>3, <5>4
      <4> QED BY <4>1, <4>2
    <3> QED BY <3>1, <3>2 DEF QueueIsWaiting
  <2> QED
    BY <2>4, <2>5, <2>6, <2>7, <2>8, <2>9
<1> QED
  BY <1>1, <1>2

\* acquire() keeps the invariant, whether a channel is idle or not.
LEMMA AcquireKeeps ==
  ASSUME IInv, NEW c \in Clients, Acquire(c)
  PROVE  IInv'
<1> USE DEF Holding
<1>0. /\ pc \in [Clients -> {"idle", "waiting", "granted", "fetching", "leased", "released"}]
      /\ chan \in [Clients -> Channels \cup {None}]
      /\ busy \in [Channels -> BOOLEAN]
      /\ waiters \in Seq(Clients)
      /\ pc[c] \in {"idle", "released"}
  BY DEF IInv, TypeOK, Acquire, AcquireIdle, AcquireQueued, MayAcquire
<1>1. CASE AcquireIdle(c)
  <2>1. PICK ch \in Channels :
          /\ ~busy[ch]
          /\ busy' = [busy EXCEPT ![ch] = TRUE]
          /\ chan' = [chan EXCEPT ![c] = ch]
          /\ pc' = [pc EXCEPT ![c] = "granted"]
          /\ UNCHANGED <<sequence, waiters, lease>>
    BY <1>1 DEF AcquireIdle
  <2>2. \A d \in Clients : ~Holds(d, ch)
    BY <2>1 DEF IInv, BusyMeansHeld
  <2>3. waiters = << >>
    BY <2>1 DEF IInv, NoIdleWhileWaiting
  <2>4. TypeOK' /\ ChanOK'
    BY <2>1, <1>0 DEF IInv, TypeOK, ChanOK
  <2>5. MutualExclusion'
    BY <2>1, <2>2, <1>0 DEF IInv, MutualExclusion, Holds
  <2>6. BusyMeansHeld'
    BY <2>1, <2>2, <1>0 DEF IInv, BusyMeansHeld, Holds
  <2>7. NoIdleWhileWaiting' /\ QueueIsWaiting' /\ LeaseIsCurrent'
    BY <2>1, <2>3, <1>0 DEF IInv, NoIdleWhileWaiting, QueueIsWaiting, LeaseIsCurrent
  <2> QED
    BY <2>4, <2>5, <2>6, <2>7 DEF IInv
<1>2. CASE AcquireQueued(c)
  <2>1. /\ \A ch \in Channels : busy[ch]
        /\ waiters' = Append(waiters, c)
        /\ pc' = [pc EXCEPT ![c] = "waiting"]
        /\ UNCHANGED <<sequence, busy, chan, lease>>
    BY <1>2 DEF AcquireQueued
  <2>2. /\ Append(waiters, c) \in Seq(Clients)
        /\ Len(Append(waiters, c)) = Len(waiters) + 1
        /\ Len(waiters) \in Nat
        /\ \A i \in 1..Len(waiters) : Append(waiters, c)[i] = waiters[i]
        /\ Append(waiters, c)[Len(waiters) + 1] = c
    BY <1>0, QueueAppend
  <2>3. TypeOK' /\ ChanOK'
    BY <2>1, <2>2, <1>0 DEF IInv, TypeOK, ChanOK
  <2>4. MutualExclusion' /\ BusyMeansHeld' /\ NoIdleWhileWaiting' /\ LeaseIsCurrent'
    BY <2>1, <1>0
       DEF IInv, MutualExclusion, BusyMeansHeld, NoIdleWhileWaiting, LeaseIsCurrent, Holds
  <2>5. \A i \in 1..Len(waiters) : waiters[i] # c
    BY <1>0 DEF IInv, QueueIsWaiting
  <2>6. QueueIsWaiting'
    <3>1. \A i, j \in 1..Len(waiters') : waiters'[i] = waiters'[j] => i = j
      BY <2>1, <2>2, <2>5 DEF IInv, QueueIsWaiting
    <3>2. ASSUME NEW d \in Clients
          PROVE  pc'[d] = "waiting" <=> \E i \in 1..Len(waiters') : waiters'[i] = d
      <4>1. CASE d = c
        BY <4>1, <2>1, <2>2, <1>0
      <4>2. CASE d # c
        <5>1. pc'[d] = pc[d]
          BY <4>2, <2>1, <1>0
        <5>2. (\E i \in 1..Len(waiters') : waiters'[i] = d)
                <=> \E i \in 1..Len(waiters) : waiters[i] = d
          BY <4>2, <2>1, <2>2
        <5> QED BY <5>1, <5>2 DEF IInv, QueueIsWaiting
      <4> QED BY <4>1, <4>2
    <3> QED BY <3>1, <3>2 DEF QueueIsWaiting
  <2> QED
    BY <2>3, <2>4, <2>6 DEF IInv
<1> QED
  BY <1>1, <1>2 DEF Acquire

\* Taking a lease moves the number of a channel that only this client holds.
LEMMA TakeLeaseKeeps ==
  ASSUME IInv, NEW c \in Clients, pc[c] \in {"granted", "fetching"},
         NEW s \in Int, TakeLease(c, s)
  PROVE  IInv'
<1> USE DEF Holding
<1>1. /\ chan[c] \in Channels
      /\ pc' = [pc EXCEPT ![c] = "leased"]
      /\ sequence' = [sequence EXCEPT ![chan[c]] = s]
      /\ lease' = [lease EXCEPT ![c] = s]
      /\ UNCHANGED <<busy, waiters, chan>>
  BY DEF IInv, ChanOK, TakeLease
<1>2. TypeOK' /\ ChanOK'
  BY <1>1 DEF IInv, TypeOK, ChanOK
<1>3. MutualExclusion' /\ BusyMeansHeld' /\ NoIdleWhileWaiting' /\ QueueIsWaiting'
  BY <1>1 DEF IInv, TypeOK, MutualExclusion, BusyMeansHeld, NoIdleWhileWaiting,
              QueueIsWaiting, Holds
<1>4. \A d \in Clients \ {c} : pc[d] = "leased" => chan[d] # chan[c]
  BY <1>1 DEF IInv, MutualExclusion, Holds
<1>5. LeaseIsCurrent'
  BY <1>1, <1>4 DEF IInv, TypeOK, ChanOK, LeaseIsCurrent
<1> QED
  BY <1>2, <1>3, <1>5 DEF IInv

\* release(outcome) by the holder of a lease, or once more on a dead lease.
LEMMA ReleaseKeeps ==
  ASSUME IInv, NEW c \in Clients, NEW o \in Outcomes, Release(c, o)
  PROVE  IInv'
<1> USE DEF Holding
<1>1. CASE pc[c] = "released"
  <2>1. UNCHANGED vars
    BY <1>1 DEF Release, Released
  <2> QED
    BY <2>1 DEF IInv, TypeOK, ChanOK, MutualExclusion, BusyMeansHeld, NoIdleWhileWaiting,
                QueueIsWaiting, LeaseIsCurrent, Holds, vars
<1>2. CASE pc[c] # "released"
  <2>1. /\ pc[c] = "leased"
        /\ sequence' = [sequence EXCEPT ![chan[c]] = AfterRelease(c, o)]
        /\ Free(chan[c], [pc EXCEPT ![c] = "released"])
        /\ UNCHANGED lease
    BY <1>2 DEF Release, Released
  <2>2. /\ chan[c] \in Channels /\ lease[c] \in Int
        /\ sequence \in [Channels -> Int \cup {None}]
    BY <2>1 DEF IInv, ChanOK, TypeOK
  <2>3. AfterRelease(c, o) \in Int \cup {None}
    BY <2>2 DEF AfterRelease
  <2>4. /\ TypeOK' /\ ChanOK' /\ MutualExclusion' /\ BusyMeansHeld'
        /\ NoIdleWhileWaiting' /\ QueueIsWaiting'
        /\ \A d \in Clients : pc'[d] = "leased" =>
             d # c /\ pc[d] = "leased" /\ chan'[d] = chan[d]
    BY <2>1, <2>2, <2>3, FreeKeeps
  <2>5. \A d \in Clients \ {c} : pc[d] = "leased" => chan[d] # chan[c] /\ chan[d] \in Channels
    BY <2>1, <2>2 DEF IInv, MutualExclusion, ChanOK, Holds
  <2>6. LeaseIsCurrent'
    BY <2>1, <2>2, <2>4, <2>5 DEF IInv, LeaseIsCurrent
  <2> QED
    BY <2>4, <2>6 DEF IInv
<1> QED
  BY <1>1, <1>2

\* Every step of the pool keeps the inductive invariant.
LEMMA NextIInv == IInv /\ [Next]_vars => IInv'
<1> SUFFICES ASSUME IInv, [Next]_vars PROVE IInv'
  OBVIOUS
<1>1. ASSUME NEW c \in Clients, Acquire(c) PROVE IInv'
  BY <1>1, AcquireKeeps
<1>2. ASSUME NEW c \in Clients, StartFetch(c) PROVE IInv'
  BY <1>2 DEF StartFetch, Holding, IInv, TypeOK, ChanOK, MutualExclusion, BusyMeansHeld,
              NoIdleWhileWaiting, QueueIsWaiting, LeaseIsCurrent, Holds
<1>3. ASSUME NEW c \in Clients, NEW n \in Seqs, FetchOk(c, n) PROVE IInv'
  <2>1. n + 1 \in Int /\ pc[c] = "fetching" /\ TakeLease(c, n + 1)
    BY <1>3, PoolAssumption DEF FetchOk
  <2> QED
    BY <2>1, TakeLeaseKeeps
<1>4. ASSUME NEW c \in Clients, FetchFail(c) PROVE IInv'
  <2>1. /\ pc[c] = "fetching"
        /\ Free(chan[c], [pc EXCEPT ![c] = "idle"])
        /\ UNCHANGED <<sequence, lease>>
    BY <1>4 DEF FetchFail
  <2>2. sequence' \in [Channels -> Int \cup {None}]
    BY <2>1 DEF IInv, TypeOK
  <2>3. /\ TypeOK' /\ ChanOK' /\ MutualExclusion' /\ BusyMeansHeld'
        /\ NoIdleWhileWaiting' /\ QueueIsWaiting'
        /\ \A d \in Clients : pc'[d] = "leased" =>
             d # c /\ pc[d] = "leased" /\ chan'[d] = chan[d]
    BY <2>1, <2>2, FreeKeeps DEF Holding
  <2>4. LeaseIsCurrent'
    BY <2>1, <2>3 DEF IInv, LeaseIsCurrent
  <2> QED
    BY <2>3, <2>4 DEF IInv
<1>5. ASSUME NEW c \in Clients, LeaseCached(c) PROVE IInv'
  <2>1. /\ pc[c] = "granted" /\ sequence[chan[c]] # None
        /\ TakeLease(c, sequence[chan[c]] + 1)
    BY <1>5 DEF LeaseCached
  <2>2. sequence[chan[c]] + 1 \in Int
    BY <2>1 DEF IInv, TypeOK, ChanOK, Holding
  <2> QED
    BY <2>1, <2>2, TakeLeaseKeeps
<1>6. ASSUME NEW c \in Clients, Use(c) PROVE IInv'
  BY <1>6, ReleaseKeeps DEF Use
<1>7. CASE UNCHANGED vars
  BY <1>7 DEF vars, IInv, TypeOK, ChanOK, MutualExclusion, BusyMeansHeld,
              NoIdleWhileWaiting, QueueIsWaiting, LeaseIsCurrent, Holds
<1> QED
  BY <1>1, <1>2, <1>3, <1>4, <1>5, <1>6, <1>7 DEF Next

-----------------------------------------------------------------------------
\* The inductive invariant holds in every reachable state of the pool.
THEOREM Invariance == Safe => []IInv
<1>1. Init => IInv
  BY InitIInv
<1>2. IInv /\ [Next]_vars => IInv'
  BY NextIInv
<1> QED
  BY <1>1, <1>2, PTL DEF Safe

(***************************************************************************)
(* The pool's variables keep their types: what next(), free() and          *)
(* release() store is a channel, a client or a number (channel-pool.ts).   *)
(***************************************************************************)
THEOREM TypeCorrect == Safe => []TypeOK
<1>1. IInv => TypeOK
  BY DEF IInv
<1> QED
  BY <1>1, Invariance, PTL

(***************************************************************************)
(* "One channel is leased to at most one in-flight transaction at a time"  *)
(* (channel-pool.ts:21-22), for any number of clients and channels.        *)
(***************************************************************************)
THEOREM Exclusive == Safe => []MutualExclusion
<1>1. IInv => MutualExclusion
  BY DEF IInv
<1> QED
  BY <1>1, Invariance, PTL

(***************************************************************************)
(* No channel leaks, whatever RPC calls fail: a channel is marked busy     *)
(* exactly while a client holds it (acquire's catch, release(), free();    *)
(* channel-pool.ts:63-66, 74-82, 95-102).                                  *)
(***************************************************************************)
THEOREM NoLeak == Safe => []BusyMeansHeld
<1>1. IInv => BusyMeansHeld
  BY DEF IInv
<1> QED
  BY <1>1, Invariance, PTL

(***************************************************************************)
(* No channel lies idle while a client waits, so free() may give a channel *)
(* to a waiter without looking for an idle one (channel-pool.ts:86-102).   *)
(***************************************************************************)
THEOREM NoIdleChannel == Safe => []NoIdleWhileWaiting
<1>1. IInv => NoIdleWhileWaiting
  BY DEF IInv
<1> QED
  BY <1>1, Invariance, PTL

(***************************************************************************)
(* The queue of resolvers holds each waiting client once and nobody else:  *)
(* no promise of next() is resolved twice or forgotten                     *)
(* (channel-pool.ts:86-102).                                               *)
(***************************************************************************)
THEOREM QueueExact == Safe => []QueueIsWaiting
<1>1. IInv => QueueIsWaiting
  BY DEF IInv
<1> QED
  BY <1>1, Invariance, PTL

(***************************************************************************)
(* The comparison in release() always succeeds: nobody moves a channel's   *)
(* number under a live lease (channel-pool.ts:68-81).                      *)
(***************************************************************************)
THEOREM LeaseStaysCurrent == Safe => []LeaseIsCurrent
<1>1. IInv => LeaseIsCurrent
  BY DEF IInv
<1> QED
  BY <1>1, Invariance, PTL

\* The number is asked for only while it is unknown.
FetchesUnknown ==
  \A c \in Clients : pc[c] = "fetching" => sequence[chan[c]] = None

\* free() sends nobody to the RPC, and moves no one who is there.
LEMMA FreeFetches ==
  ASSUME IInv, NEW ch, NEW c \in Clients, NEW q,
         Free(ch, [pc EXCEPT ![c] = q]), q # "fetching",
         NEW d \in Clients, pc'[d] = "fetching"
  PROVE  d # c /\ pc[d] = "fetching" /\ chan'[d] = chan[d]
<1>1. pc \in [Clients -> {"idle", "waiting", "granted", "fetching", "leased", "released"}]
      /\ chan \in [Clients -> Channels \cup {None}]
  BY DEF IInv, TypeOK
<1> QED
  BY <1>1 DEF Free

\* No step makes the number of a channel known under a running fetch: a step
\* moves the number of a channel its client holds, and the fetch holds another.
LEMMA FetchesStayUnknown ==
  ASSUME IInv, FetchesUnknown, [Next]_vars
  PROVE  FetchesUnknown'
<1>0. /\ pc \in [Clients -> {"idle", "waiting", "granted", "fetching", "leased", "released"}]
      /\ chan \in [Clients -> Channels \cup {None}]
      /\ sequence \in [Channels -> Int \cup {None}]
      /\ \A c, d \in Clients : pc[c] \in Holding /\ pc[d] \in Holding /\ c # d => chan[c] # chan[d]
      /\ \A c \in Clients : pc[c] \in Holding => chan[c] \in Channels
  BY DEF IInv, TypeOK, ChanOK, MutualExclusion, Holds
<1> USE DEF FetchesUnknown, Holding
<1>1. ASSUME NEW c \in Clients, Acquire(c) \/ StartFetch(c)
      PROVE  FetchesUnknown'
  BY <1>0, <1>1 DEF Acquire, AcquireIdle, AcquireQueued, StartFetch
<1>2. ASSUME NEW c \in Clients, NEW s, pc[c] \in Holding, TakeLease(c, s)
      PROVE  FetchesUnknown'
  BY <1>0, <1>2 DEF TakeLease
<1>3. ASSUME NEW c \in Clients, FetchFail(c)
      PROVE  FetchesUnknown'
  BY <1>0, <1>3, FreeFetches DEF FetchFail
<1>4. ASSUME NEW c \in Clients, NEW o \in Outcomes, Release(c, o)
      PROVE  FetchesUnknown'
  <2>1. CASE Released(c)
    BY <1>4, <2>1 DEF Release, vars
  <2>2. CASE ~Released(c)
    <3>1. /\ pc[c] = "leased"
          /\ sequence' = [sequence EXCEPT ![chan[c]] = AfterRelease(c, o)]
          /\ Free(chan[c], [pc EXCEPT ![c] = "released"])
      BY <1>4, <2>2 DEF Release, Released
    <3>2. ASSUME NEW d \in Clients, pc'[d] = "fetching"
          PROVE  d # c /\ pc[d] = "fetching" /\ chan'[d] = chan[d]
      BY <3>1, <3>2, FreeFetches
    <3> QED
      BY <1>0, <3>1, <3>2
  <2> QED
    BY <2>1, <2>2
<1>5. CASE UNCHANGED vars
  BY <1>5 DEF vars
<1>6. ASSUME NEW c \in Clients, (\E n \in Seqs : FetchOk(c, n)) \/ LeaseCached(c)
      PROVE  FetchesUnknown'
  BY <1>2, <1>6 DEF FetchOk, LeaseCached
<1> QED
  BY <1>1, <1>3, <1>4, <1>5, <1>6 DEF Next, Use

\* A known number that stays known moves by at most one.
Stepwise ==
  \A ch \in Channels :
    sequence[ch] # None /\ sequence'[ch] # None
      => sequence'[ch] - sequence[ch] \in {-1, 0, 1}

\* Each step moves a known number by its lease only: up by one when it is
\* leased from the cache, down by one when a failed lease is still current.
LEMMA StepIsStepwise ==
  ASSUME IInv, FetchesUnknown, [Next]_vars
  PROVE  Stepwise
<1>0. sequence \in [Channels -> Int \cup {None}] /\ None \notin Int
  BY PoolAssumption DEF IInv, TypeOK
<1>1. ASSUME NEW c \in Clients, Acquire(c) \/ StartFetch(c) \/ FetchFail(c)
      PROVE  Stepwise
  BY <1>0, <1>1 DEF Stepwise, Acquire, AcquireIdle, AcquireQueued, StartFetch, FetchFail
<1>2. ASSUME NEW c \in Clients, NEW n \in Seqs, FetchOk(c, n)
      PROVE  Stepwise
  <2>1. /\ chan[c] \in Channels /\ sequence[chan[c]] = None
        /\ sequence' = [sequence EXCEPT ![chan[c]] = n + 1]
    BY <1>2 DEF FetchOk, TakeLease, IInv, ChanOK, Holding, FetchesUnknown
  <2> QED
    BY <1>0, <2>1 DEF Stepwise
<1>3. ASSUME NEW c \in Clients, LeaseCached(c)
      PROVE  Stepwise
  <2>1. sequence' = [sequence EXCEPT ![chan[c]] = sequence[chan[c]] + 1]
    BY <1>3 DEF LeaseCached, TakeLease
  <2> QED
    BY <1>0, <2>1 DEF Stepwise
<1>4. ASSUME NEW c \in Clients, NEW o \in Outcomes, Release(c, o)
      PROVE  Stepwise
  <2>1. CASE Released(c)
    BY <1>0, <1>4, <2>1 DEF Release, Stepwise, vars
  <2>2. CASE ~Released(c)
    <3>1. /\ pc[c] = "leased" /\ chan[c] \in Channels
          /\ sequence' = [sequence EXCEPT ![chan[c]] = AfterRelease(c, o)]
      BY <1>4, <2>2 DEF Release, Released, IInv, ChanOK, Holding
    <3>2. sequence[chan[c]] = lease[c]
      BY <3>1 DEF IInv, LeaseIsCurrent
    <3>3. AfterRelease(c, o) \in {None, lease[c] - 1, sequence[chan[c]]}
      BY DEF AfterRelease
    <3> QED
      BY <1>0, <3>1, <3>2, <3>3 DEF Stepwise
  <2> QED
    BY <2>1, <2>2
<1>5. CASE UNCHANGED vars
  BY <1>0, <1>5 DEF vars, Stepwise
<1> QED
  BY <1>1, <1>2, <1>3, <1>4, <1>5 DEF Next, Use

(***************************************************************************)
(* The cached number of a channel never jumps: it goes up by one when it   *)
(* is leased, down by one when the lease failed, and anything else needs a *)
(* refetch after bad_seq (channel-pool.ts:58-82).                          *)
(***************************************************************************)
THEOREM NumbersStepwise == Safe => SequenceStepwise
<1>1. Init => FetchesUnknown
  BY DEF Init, FetchesUnknown
<1>2. IInv /\ FetchesUnknown /\ [Next]_vars => FetchesUnknown' /\ [Stepwise]_vars
  BY StepIsStepwise, FetchesStayUnknown
<1> QED
  BY <1>1, <1>2, Invariance, PTL DEF Safe, SequenceStepwise, Stepwise

-----------------------------------------------------------------------------
(* Refinement: the pool is a FIFO lease allocator. *)

\* The abstract holder, as the refinement mapping of ChannelPool reads it.
held == [c \in Clients |-> IF pc[c] \in Holding THEN chan[c] ELSE None]

\* What the mapping says of the channels, the idle ones and the queue.
LEMMA HeldFacts ==
  ASSUME IInv
  PROVE  /\ \A c \in Clients : held[c] # None <=> pc[c] \in Holding
         /\ \A c \in Clients : pc[c] \in Holding => held[c] = chan[c]
         /\ \A ch \in Channels : busy[ch] <=> \E c \in Clients : held[c] = ch
<1> USE DEF held
<1>1. \A ch \in Channels : ch # None
  BY PoolAssumption DEF Channels
<1>2. \A c \in Clients : pc[c] \in Holding => chan[c] \in Channels
  BY DEF IInv, ChanOK
<1>3. \A ch \in Channels : (\E c \in Clients : Holds(c, ch)) <=> \E c \in Clients : held[c] = ch
  BY <1>1, <1>2 DEF Holds
<1> QED
  BY <1>1, <1>2, <1>3 DEF IInv, BusyMeansHeld

\* free() is an abstract return, or a hand-over to the head of the queue.
LEMMA FreeRefines ==
  ASSUME IInv, NEW c \in Clients, NEW q \in {"idle", "released"},
         pc[c] \in Holding,
         Free(chan[c], [pc EXCEPT ![c] = q])
  PROVE  Lease!GiveBack(c) \/ Lease!HandOver(c)
<1> USE DEF Holding
<1>0. /\ pc \in [Clients -> {"idle", "waiting", "granted", "fetching", "leased", "released"}]
      /\ chan \in [Clients -> Channels \cup {None}]
      /\ waiters \in Seq(Clients)
      /\ held[c] = chan[c] /\ held[c] # None
  BY HeldFacts DEF IInv, TypeOK
<1>1. CASE waiters = << >>
  <2>1. pc' = [pc EXCEPT ![c] = q] /\ waiters' = waiters /\ chan' = chan
    BY <1>1 DEF Free
  <2>2. held' = [held EXCEPT ![c] = None]
    BY <2>1, <1>0 DEF held
  <2> QED
    BY <2>1, <2>2, <1>0, <1>1 DEF Lease!GiveBack, held
<1>2. CASE waiters # << >>
  <2> DEFINE h == Head(waiters)
  <2>1. /\ waiters' = Tail(waiters)
        /\ pc' = [[pc EXCEPT ![c] = q] EXCEPT ![h] = "granted"]
        /\ chan' = [chan EXCEPT ![h] = chan[c]]
    BY <1>2 DEF Free
  <2>2. h \in Clients /\ pc[h] = "waiting"
    BY <1>0, <1>2, QueueHead DEF IInv, QueueIsWaiting
  <2>3. held' = [held EXCEPT ![c] = None, ![h] = held[c]]
    BY <2>1, <2>2, <1>0 DEF held
  <2> QED
    BY <2>1, <2>3, <1>0, <1>2 DEF Lease!HandOver, held
<1> QED
  BY <1>1, <1>2

\* A step that leaves the holders and the queue alone is an abstract stutter.
LEMMA SilentStep ==
  ASSUME IInv, NEW c \in Clients, pc[c] \in {"granted", "fetching"},
         NEW q \in {"fetching", "leased"},
         pc' = [pc EXCEPT ![c] = q], UNCHANGED <<chan, waiters>>
  PROVE  held' = held /\ waiters' = waiters
BY DEF held, Holding, IInv, TypeOK

\* Every step of the pool maps to a step of the allocator or to a stutter.
LEMMA StepRefines == IInv /\ [Next]_vars => [Lease!Next]_(Lease!vars)
<1> SUFFICES ASSUME IInv, [Next]_vars PROVE [Lease!Next]_(Lease!vars)
  OBVIOUS
<1> USE DEF Holding
<1>a. /\ pc \in [Clients -> {"idle", "waiting", "granted", "fetching", "leased", "released"}]
      /\ chan \in [Clients -> Channels \cup {None}]
      /\ waiters \in Seq(Clients)
  BY DEF IInv, TypeOK
<1>1. ASSUME NEW c \in Clients, AcquireIdle(c) PROVE Lease!Grab(c)
  <2>1. PICK ch \in Channels :
          /\ ~busy[ch]
          /\ chan' = [chan EXCEPT ![c] = ch]
          /\ pc' = [pc EXCEPT ![c] = "granted"]
          /\ waiters' = waiters
    BY <1>1 DEF AcquireIdle
  <2>2. pc[c] \in {"idle", "released"}
    BY <1>1 DEF AcquireIdle, MayAcquire
  <2>3. waiters = << >> /\ held[c] = None
    BY <2>1, <2>2, HeldFacts DEF IInv, NoIdleWhileWaiting
  <2>4. ch \notin {held[d] : d \in Clients}
    BY <2>1, HeldFacts
  <2>5. held' = [held EXCEPT ![c] = ch]
    BY <2>1, <2>2, <1>a DEF held
  <2>6. ~Lease!Waiting(c)
    BY <2>3 DEF Lease!Waiting
  <2> QED
    BY <2>1, <2>3, <2>4, <2>5, <2>6 DEF Lease!Grab, Lease!Lent, Lease!Channels, Channels, held
<1>2. ASSUME NEW c \in Clients, AcquireQueued(c) PROVE Lease!Join(c)
  <2>1. /\ \A ch \in Channels : busy[ch]
        /\ waiters' = Append(waiters, c)
        /\ pc' = [pc EXCEPT ![c] = "waiting"]
        /\ chan' = chan
        /\ pc[c] \in {"idle", "released"}
    BY <1>2 DEF AcquireQueued, MayAcquire
  <2>2. held[c] = None /\ held' = held
    BY <2>1, <1>a, HeldFacts DEF held
  <2>3. Channels \subseteq {held[d] : d \in Clients} \ {None}
    <3>1. ASSUME NEW ch \in Channels PROVE ch \in {held[d] : d \in Clients} \ {None}
      BY <2>1, HeldFacts, PoolAssumption DEF Channels
    <3> QED BY <3>1
  <2>4. ~Lease!Waiting(c)
    BY <2>1 DEF Lease!Waiting, IInv, QueueIsWaiting
  <2> QED
    BY <2>1, <2>2, <2>3, <2>4 DEF Lease!Join, Lease!Lent, Lease!Channels, Channels, held
<1>3. ASSUME NEW c \in Clients, StartFetch(c) PROVE UNCHANGED Lease!vars
  BY <1>3, SilentStep DEF StartFetch, Lease!vars, held
<1>4. ASSUME NEW c \in Clients, NEW n \in Seqs, FetchOk(c, n) PROVE UNCHANGED Lease!vars
  BY <1>4, SilentStep DEF FetchOk, TakeLease, Lease!vars, held
<1>5. ASSUME NEW c \in Clients, LeaseCached(c) PROVE UNCHANGED Lease!vars
  BY <1>5, SilentStep DEF LeaseCached, TakeLease, Lease!vars, held
<1>6. ASSUME NEW c \in Clients, FetchFail(c)
      PROVE  Lease!GiveBack(c) \/ Lease!HandOver(c)
  BY <1>6, FreeRefines DEF FetchFail
<1>7. ASSUME NEW c \in Clients, Use(c)
      PROVE  Lease!GiveBack(c) \/ Lease!HandOver(c) \/ UNCHANGED Lease!vars
  <2>1. CASE pc[c] = "released"
    BY <1>7, <2>1 DEF Use, Release, Released, vars, Lease!vars
  <2>2. CASE pc[c] # "released"
    BY <1>7, <2>2, FreeRefines DEF Use, Release, Released
  <2> QED BY <2>1, <2>2
<1>8. CASE UNCHANGED vars
  BY <1>8 DEF vars, Lease!vars
<1> QED
  BY <1>1, <1>2, <1>3, <1>4, <1>5, <1>6, <1>7, <1>8 DEF Next, Acquire, Lease!Next

(***************************************************************************)
(* The pool implements the FIFO lease allocator (safety part): nobody      *)
(* overtakes the queue, a returned channel goes to its head, and "busy"    *)
(* is exactly "lent" ("Waiters queue FIFO", channel-pool.ts:23).           *)
(***************************************************************************)
THEOREM Implements == Safe => Lease!Safe
<1>1. Init => Lease!Init
  BY DEF Init, Lease!Init, Holding
<1>2. IInv /\ [Next]_vars => [Lease!Next]_(Lease!vars)
  BY StepRefines
<1> QED
  BY <1>1, <1>2, Invariance, PTL DEF Safe, Lease!Safe

=============================================================================
