----------------------------- MODULE ChannelPool -----------------------------
(***************************************************************************)
(* The relayer's pool of funded channel accounts, class ChannelPool of     *)
(* src/services/relayer/src/channel-pool.ts.  The pool runs on one event   *)
(* loop: code between two awaits is one action, and every await is a point *)
(* where another client may run.                                           *)
(*                                                                         *)
(* An acquire() is followed through pc:                                    *)
(*   idle -> [waiting ->] granted -> [fetching ->] leased -> released      *)
(* where "granted" is a resolved promise of next() whose continuation has  *)
(* not run yet, and "fetching" awaits the getSequence RPC.                 *)
(* Sequence numbers are bigint in the code, so they do not wrap.           *)
(***************************************************************************)
EXTENDS Integers, Sequences

CONSTANTS
  Clients,      \* callers of acquire()
  NumChannels,  \* number of channel secrets the pool was built with
  Seqs,         \* account sequence numbers getSequence may return
  None          \* no sequence number (null in the code), or no channel

Channels == 1..NumChannels
Outcomes == {"ok", "bad_seq", "failed"}

\* The constructor refuses an empty pool (channel-pool.ts:38).
ASSUME PoolAssumption ==
  /\ NumChannels \in Nat \ {0}
  /\ Seqs \subseteq Int
  /\ None \notin Int

VARIABLES
  sequence,  \* sequence[ch]: last number handed out, or None when unknown
  busy,      \* busy[ch]: leased, or on its way to a client
  waiters,   \* clients whose next() found every channel busy, first in first
  pc,        \* where each client's acquire() is
  chan,      \* chan[c]: the channel the client's acquire() or lease closes over
  lease      \* lease[c]: the sequence number in the client's lease

vars == <<sequence, busy, waiters, pc, chan, lease>>

TypeOK ==
  /\ sequence \in [Channels -> Int \cup {None}]
  /\ busy \in [Channels -> BOOLEAN]
  /\ waiters \in Seq(Clients)
  /\ pc \in [Clients -> {"idle", "waiting", "granted", "fetching", "leased", "released"}]
  /\ chan \in [Clients -> Channels \cup {None}]
  /\ lease \in [Clients -> Int \cup {None}]

Init ==
  /\ sequence = [ch \in Channels |-> None]
  /\ busy = [ch \in Channels |-> FALSE]
  /\ waiters = << >>
  /\ pc = [c \in Clients |-> "idle"]
  /\ chan = [c \in Clients |-> None]
  /\ lease = [c \in Clients |-> None]

-----------------------------------------------------------------------------
(* Plausible slips in this code, used to show that each property bites.    *)

\* free() clears busy although it hands the channel to a waiter.
FreeClearsBusy(ch, at) ==
  IF waiters = << >>
    THEN /\ busy' = [busy EXCEPT ![ch] = FALSE]
         /\ pc' = at
         /\ UNCHANGED <<waiters, chan>>
    ELSE /\ waiters' = Tail(waiters)
         /\ pc' = [at EXCEPT ![Head(waiters)] = "granted"]
         /\ chan' = [chan EXCEPT ![Head(waiters)] = ch]
         /\ busy' = [busy EXCEPT ![ch] = FALSE]

\* free() marks the channel idle and forgets the waiters.
FreeForgetsWaiters(ch, at) ==
  /\ busy' = [busy EXCEPT ![ch] = FALSE]
  /\ pc' = at
  /\ UNCHANGED <<waiters, chan>>

\* acquire() throws without freeing the channel when getSequence fails.
FetchFailKeepsChannel(c) ==
  /\ pc[c] = "fetching"
  /\ pc' = [pc EXCEPT ![c] = "idle"]
  /\ UNCHANGED <<sequence, busy, waiters, chan, lease>>

\* release() has no "if (released) return".
ReleasedNever(c) == FALSE

\* free() reads the first waiter without taking it out of the queue.
FreePeeks(ch, at) ==
  IF waiters = << >>
    THEN /\ busy' = [busy EXCEPT ![ch] = FALSE]
         /\ pc' = at
         /\ UNCHANGED <<waiters, chan>>
    ELSE /\ pc' = [at EXCEPT ![Head(waiters)] = "granted"]
         /\ chan' = [chan EXCEPT ![Head(waiters)] = ch]
         /\ UNCHANGED <<busy, waiters>>

\* acquire() asks the RPC on every lease, not only when the number is unknown.
StartFetchAlways(c) ==
  /\ pc[c] = "granted"
  /\ pc' = [pc EXCEPT ![c] = "fetching"]
  /\ UNCHANGED <<sequence, busy, waiters, chan, lease>>

\* next() queues the channel it last looked at, not the caller.
QueuesChannel(c) ==
  /\ pc[c] \in {"idle", "released"}
  /\ \A ch \in Channels : busy[ch]
  /\ waiters' = Append(waiters, chan[c])
  /\ pc' = [pc EXCEPT ![c] = "waiting"]
  /\ UNCHANGED <<sequence, busy, chan, lease>>

-----------------------------------------------------------------------------
(***************************************************************************)
(* free(channel), called from an action that moves the clients to at: the  *)
(* first waiter is given the channel, which stays busy; without a waiter   *)
(* the channel becomes idle.                                               *)
(***************************************************************************)
Free(ch, at) ==
  IF waiters = << >>
    THEN /\ busy' = [busy EXCEPT ![ch] = FALSE]
         /\ pc' = at
         /\ UNCHANGED <<waiters, chan>>
    ELSE /\ waiters' = Tail(waiters)
         /\ pc' = [at EXCEPT ![Head(waiters)] = "granted"]
         /\ chan' = [chan EXCEPT ![Head(waiters)] = ch]
         /\ UNCHANGED busy

\* acquire() may be called by a client that has no lease outstanding.
MayAcquire(c) == pc[c] \in {"idle", "released"}

\* acquire() -> next(): the first idle channel in array order.
AcquireIdle(c) ==
  /\ MayAcquire(c)
  /\ \E ch \in Channels :
       /\ ~busy[ch]
       /\ \A k \in Channels : k < ch => busy[k]
       /\ busy' = [busy EXCEPT ![ch] = TRUE]
       /\ chan' = [chan EXCEPT ![c] = ch]
  /\ pc' = [pc EXCEPT ![c] = "granted"]
  /\ UNCHANGED <<sequence, waiters, lease>>

\* acquire() -> next(): every channel is busy, so the promise is queued.
AcquireQueued(c) ==
  /\ MayAcquire(c)
  /\ \A ch \in Channels : busy[ch]
  /\ waiters' = Append(waiters, c)
  /\ pc' = [pc EXCEPT ![c] = "waiting"]
  /\ UNCHANGED <<sequence, busy, chan, lease>>

Acquire(c) == AcquireIdle(c) \/ AcquireQueued(c)

\* next() has resolved and the channel's number is not known: ask the RPC.
StartFetch(c) ==
  /\ pc[c] = "granted"
  /\ sequence[chan[c]] = None
  /\ pc' = [pc EXCEPT ![c] = "fetching"]
  /\ UNCHANGED <<sequence, busy, waiters, chan, lease>>

\* The rest of acquire(): the channel's number goes up to s and is leased.
TakeLease(c, s) ==
  /\ sequence' = [sequence EXCEPT ![chan[c]] = s]
  /\ lease' = [lease EXCEPT ![c] = s]
  /\ pc' = [pc EXCEPT ![c] = "leased"]
  /\ UNCHANGED <<busy, waiters, chan>>

\* getSequence answers n.
FetchOk(c, n) ==
  /\ pc[c] = "fetching"
  /\ TakeLease(c, n + 1)

\* getSequence rejects: the channel is freed and acquire() throws.
FetchFail(c) ==
  /\ pc[c] = "fetching"
  /\ Free(chan[c], [pc EXCEPT ![c] = "idle"])
  /\ UNCHANGED <<sequence, lease>>

\* next() has resolved and the channel's number is known: no RPC.
LeaseCached(c) ==
  /\ pc[c] = "granted"
  /\ sequence[chan[c]] # None
  /\ TakeLease(c, sequence[chan[c]] + 1)

\* The lease's own "released" flag.
Released(c) == pc[c] = "released"

\* The channel's number after release(outcome).
AfterRelease(c, outcome) ==
  CASE outcome = "bad_seq" -> None
    [] outcome = "failed" /\ sequence[chan[c]] = lease[c] -> lease[c] - 1
    [] OTHER -> sequence[chan[c]]

\* release(outcome); calling it again on the same lease does nothing.
Release(c, outcome) ==
  /\ pc[c] \in {"leased", "released"}
  /\ IF Released(c)
       THEN UNCHANGED vars
       ELSE /\ sequence' = [sequence EXCEPT ![chan[c]] = AfterRelease(c, outcome)]
            /\ Free(chan[c], [pc EXCEPT ![c] = "released"])
            /\ UNCHANGED lease

\* A client only reports "ok" for a number the ledger may have consumed, that
\* is one getSequence may return: this is also what bounds the runs.
Use(c) ==
  \E o \in Outcomes :
    /\ o = "ok" => lease[c] \in Seqs
    /\ Release(c, o)

Next ==
  \E c \in Clients :
    \/ Acquire(c)
    \/ StartFetch(c)
    \/ \E n \in Seqs : FetchOk(c, n)
    \/ FetchFail(c)
    \/ LeaseCached(c)
    \/ Use(c)

-----------------------------------------------------------------------------
(***************************************************************************)
(* Continuations of resolved promises run, an RPC is answered or rejected, *)
(* and the relayer releases every lease in a finally block                 *)
(* (relayer.ts:249-251).  Nothing obliges a client to acquire.             *)
(***************************************************************************)
Continue(c) ==
  \/ StartFetch(c)
  \/ \E n \in Seqs : FetchOk(c, n)
  \/ FetchFail(c)
  \/ LeaseCached(c)

Fairness ==
  \A c \in Clients :
    /\ WF_vars(Continue(c))
    /\ WF_vars(Use(c))

Safe == Init /\ [][Next]_vars
Spec == Safe /\ Fairness

-----------------------------------------------------------------------------
(* Properties *)

\* A channel is in the hands of c from the moment next() gives it to c until
\* c's release.
Holding == {"granted", "fetching", "leased"}
Holds(c, ch) == pc[c] \in Holding /\ chan[c] = ch

(***************************************************************************)
(* "One channel is leased to at most one in-flight transaction at a time"  *)
(* (channel-pool.ts:21-22): no two clients hold the same channel, whatever *)
(* the order in which RPC answers, failures and releases interleave.       *)
(***************************************************************************)
MutualExclusion ==
  \A c, d \in Clients : \A ch \in Channels :
    Holds(c, ch) /\ Holds(d, ch) => c = d

(***************************************************************************)
(* No channel leaks: the busy flag, which next() trusts, is set exactly    *)
(* while some client holds the channel - also after a failed getSequence   *)
(* and after a hand-over in free(), where nobody clears the flag.          *)
(***************************************************************************)
BusyMeansHeld ==
  \A ch \in Channels : busy[ch] <=> \E c \in Clients : Holds(c, ch)

(***************************************************************************)
(* next() only looks for an idle channel and never at the queue, so a      *)
(* newcomer can overtake the waiters (and a waiter sleep beside an idle    *)
(* channel) unless waiters and idle channels never coexist.                *)
(***************************************************************************)
NoIdleWhileWaiting ==
  waiters # << >> => \A ch \in Channels : busy[ch]

(***************************************************************************)
(* The number a client signs with is still the channel's own number when   *)
(* it releases: the comparison in release() (channel-pool.ts:80) never     *)
(* fails, so a rolled-back number can only be one nobody else was given.   *)
(***************************************************************************)
LeaseIsCurrent ==
  \A c \in Clients : pc[c] = "leased" => sequence[chan[c]] = lease[c]

(***************************************************************************)
(* A queued client is queued once: every waiting acquire() has exactly one *)
(* entry in waiters, and no one else is in it, so no channel is handed to  *)
(* a promise nobody awaits.                                                *)
(***************************************************************************)
QueueIsWaiting ==
  /\ \A i, j \in 1..Len(waiters) : waiters[i] = waiters[j] => i = j
  /\ \A c \in Clients :
       pc[c] = "waiting" <=> \E i \in 1..Len(waiters) : waiters[i] = c

(***************************************************************************)
(* The numbers of a channel only move by its lease: up by one when leased  *)
(* from the cached number, down by one on a failed release; anything else  *)
(* needs a refetch, which goes through None.                               *)
(***************************************************************************)
SequenceStepwise ==
  [][\A ch \in Channels :
       sequence[ch] # None /\ sequence'[ch] # None
         => sequence'[ch] - sequence[ch] \in {-1, 0, 1}]_vars

(***************************************************************************)
(* Every queued client is handed a channel in the end, as long as those    *)
(* who hold channels release them ("Waiters queue FIFO").                  *)
(***************************************************************************)
WaiterServed ==
  \A c \in Clients : pc[c] = "waiting" ~> pc[c] \in Holding

(***************************************************************************)
(* The pool implements the FIFO lease allocator: the abstract holder of a  *)
(* channel is read off the clients, never off the busy flags.              *)
(***************************************************************************)
Lease == INSTANCE FifoLease WITH
  holds <- [c \in Clients |-> IF pc[c] \in Holding THEN chan[c] ELSE None],
  queue <- waiters

ImplementsLease == Lease!Spec
=============================================================================
