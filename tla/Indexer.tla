------------------------------- MODULE Indexer -------------------------------
(***************************************************************************)
(* The indexer of one network: Indexer of                                  *)
(* src/services/indexer/src/indexer.ts, driven by the polling loop and the *)
(* HTTP handlers of main.ts, which run in one process over one database.   *)
(* Every await is a step: the page, each statement, the chain read.        *)
(*                                                                         *)
(* One contract is followed; a run that finds no contract returns at once  *)
(* and changes nothing (indexer.ts:88).  An event is its position, <<ledger*)
(* , index>>; of its content only whether it is Reconfigured matters.  What*)
(* applyReconfigure does to proposals is in Proposals.                     *)
(***************************************************************************)
EXTENDS Integers, Sequences, FiniteSets

CONSTANTS
  Requests,        \* HTTP requests served at the same time as the loop
  PageSize,        \* limit of a page of getEvents
  Genesis,         \* first ledger to read when there is no cursor
  ReconcileEvery,  \* successful ticks between two reconciliations
  MaxLedger,       \* bound: last ledger of a behaviour
  MaxEvents,       \* bound: events of the contract in a behaviour
  MaxEpoch,        \* bound: last configuration epoch of a behaviour
  MaxFaults,       \* bound: failing statements and crashes of a behaviour
  Live,            \* the polling loop
  None

ASSUME IndexerAssumption ==
  /\ Live \notin Requests /\ None \notin Int
  /\ {PageSize, Genesis, ReconcileEvery, MaxLedger} \subseteq Nat \ {0}
  /\ {MaxEvents, MaxEpoch, MaxFaults} \subseteq Nat

VARIABLES
  chain,    \* the ledgers closed so far, each the kinds of its events
  oldest,   \* the oldest ledger the source still serves
  cursor,   \* indexer_cursor.last_ledger, None before the first page
  events,   \* indexed_events
  gaps,     \* ledger_gaps, as <<from_ledger, to_ledger>>
  epoch,    \* accounts.config_epoch
  alerts,   \* reconciliation_alerts
  at,       \* the call each task of the process is about to make
  mem,      \* what each task keeps in memory
  ticks,    \* successful ticks since the last reconciliation
  faults    \* failing statements and crashes so far

ledgers == <<chain, oldest>>
tables  == <<cursor, events, gaps, epoch, alerts>>
tasks   == <<at, mem, ticks>>
vars == <<ledgers, tables, tasks, faults>>

Tasks == Requests \cup {Live}
Ledgers == 1..MaxLedger
Events == Ledgers \X (1..MaxEvents)
Epochs == 0..MaxEpoch

Latest == Len(chain)
Emitted == {e \in Events : e[1] <= Latest /\ e[2] <= Len(chain[e[1]])}
Reconfigures == {e \in Emitted : chain[e[1]][e[2]] = "reconfigure"}
Before(e, f) == e[1] < f[1] \/ (e[1] = f[1] /\ e[2] < f[2])

\* config_epoch in a Reconfigured event: one more than in the one before.
EpochOf(e) == Cardinality({f \in Reconfigures : ~Before(e, f)})
ChainEpoch == Cardinality(Reconfigures)

\* The ledger the loop's next page begins with.
Start == IF cursor = None THEN Genesis ELSE cursor + 1

Larger(a, b) == IF a > b THEN a ELSE b

TypeOK ==
  /\ chain \in Seq(Seq({"plain", "reconfigure"})) /\ Latest <= MaxLedger
  /\ oldest \in Ledgers
  /\ cursor \in Nat \cup {None}
  /\ events \subseteq Emitted
  /\ gaps \subseteq Ledgers \X Ledgers /\ \A g \in gaps : g[1] <= g[2]
  /\ epoch \in Epochs
  /\ alerts \subseteq [indexed : Epochs, onchain : Epochs]
  /\ at \in [Tasks -> {"idle", "gap", "insert", "apply", "cursor", "read", "compare"}]
  /\ ticks \in 0..ReconcileEvery - 1
  /\ faults \in 0..MaxFaults

Init ==
  /\ chain = <<>>
  /\ oldest = 1
  /\ cursor = None
  /\ events = {} /\ gaps = {} /\ alerts = {}
  /\ epoch = 0
  /\ at = [t \in Tasks |-> "idle"]
  /\ mem = [t \in Tasks |-> None]
  /\ ticks = 0
  /\ faults = 0

-----------------------------------------------------------------------------
(* Helpers *)

Await(t, call, m) ==
  /\ at' = [at EXCEPT ![t] = call]
  /\ mem' = [mem EXCEPT ![t] = m]

Finish(t) == Await(t, "idle", None)

\* On to the next event of the page, then to the cursor; a backfill ends.
Proceed(t, m) ==
  CASE m.todo # {} -> Await(t, "insert", m)
    [] m.todo = {} /\ t = Live -> Await(t, "cursor", m)
    [] OTHER -> Finish(t)

\* The first PageSize events the source has from a ledger on.
Page(from, seen) ==
  LET served == {e \in Emitted : from <= e[1] /\ oldest <= e[1] /\ e[1] <= seen}
  IN {e \in served : Cardinality({f \in served : Before(f, e)}) < PageSize}

\* The events of a page come in order.
First(todo) == CHOOSE e \in todo : \A f \in todo : ~Before(f, e)

\* reached: the last event's ledger, or the source's latest on an empty page.
Reached(page, seen) ==
  IF page = {} THEN seen
               ELSE CHOOSE l \in {e[1] : e \in page} : \A e \in page : e[1] <= l

-----------------------------------------------------------------------------
(* Plausible slips in this code, used to show that each property bites. *)

\* The cursor follows the source's latest ledger.
LatestReached(page, from, seen) == Larger(seen, Larger(oldest - 1, from - 1))

\* A page without events leaves the cursor where it is.
EmptyPageStays(page, from, seen) ==
  IF page = {} THEN from - 1 ELSE Larger(Reached(page, seen), Larger(oldest - 1, from - 1))

\* The answer of a node that is behind is taken as it is.
NoLowerBound(page, from, seen) == Larger(Reached(page, seen), oldest - 1)

\* Retention that has just reached the start counts as a gap.
GapWhenEqual(from) == oldest >= from

\* An event already in the table is not applied again.
InsertNewOnly(t) ==
  /\ at[t] = "insert"
  /\ LET e == First(mem[t].todo) IN
       /\ events' = events \cup {e}
       /\ IF e \in Reconfigures /\ e \notin events
            THEN Await(t, "apply", mem[t])
            ELSE Proceed(t, [mem[t] EXCEPT !.todo = @ \ {e}])
  /\ UNCHANGED <<ledgers, cursor, gaps, epoch, alerts, ticks, faults>>

\* An event that cannot be written is passed over, not the page.
FailSkipsEvent(t) ==
  /\ faults < MaxFaults
  /\ at[t] # "idle"
  /\ IF at[t] \in {"insert", "apply"}
       THEN Proceed(t, [mem[t] EXCEPT !.todo = @ \ {First(@)}])
       ELSE Finish(t)
  /\ faults' = faults + 1
  /\ UNCHANGED <<ledgers, tables, ticks>>

\* Only an indexed epoch ahead of the chain is reported.
CompareOneWay(t) ==
  /\ at[t] = "compare"
  /\ alerts' = IF epoch > mem[t].onchain
                 THEN alerts \cup {[indexed |-> epoch, onchain |-> mem[t].onchain]}
                 ELSE alerts
  /\ Finish(t)
  /\ UNCHANGED <<ledgers, cursor, events, gaps, epoch, ticks, faults>>

-----------------------------------------------------------------------------
(* ingestFrom: indexer.ts:75-120 *)

ToLedger(page, from, seen) ==
  Larger(Reached(page, seen), Larger(oldest - 1, from - 1))

PastRetention(from) == oldest > from

\* getEvents answers, from a node that has seen the ledgers up to seen.
Fetch(t, from, seen) ==
  /\ at[t] = "idle"
  /\ LET page == Page(from, seen)
         m == [todo |-> page,
               to   |-> IF t = Live THEN ToLedger(page, from, seen) ELSE None,
               gap  |-> IF PastRetention(from) THEN <<from, oldest - 1>> ELSE None]
     IN IF PastRetention(from) THEN Await(t, "gap", m) ELSE Proceed(t, m)
  /\ UNCHANGED <<ledgers, tables, ticks, faults>>

\* runOnce reads on from the cursor; backfill from any ledger it is asked for.
RunOnce == \E seen \in oldest..Latest : Fetch(Live, Start, seen)

Backfill(t) ==
  /\ t \in Requests
  /\ \E from \in Ledgers, seen \in oldest..Latest : Fetch(t, from, seen)

\* insert into ledger_gaps, also when the range has been recorded before.
RecordGap(t) ==
  /\ at[t] = "gap"
  /\ gaps' = gaps \cup {mem[t].gap}
  /\ Proceed(t, [mem[t] EXCEPT !.gap = None])
  /\ UNCHANGED <<ledgers, cursor, events, epoch, alerts, ticks, faults>>

\* insert into indexed_events ... on conflict do nothing.
Insert(t) ==
  /\ at[t] = "insert"
  /\ LET e == First(mem[t].todo) IN
       /\ events' = events \cup {e}
       /\ IF e \in Reconfigures
            THEN Await(t, "apply", mem[t])
            ELSE Proceed(t, [mem[t] EXCEPT !.todo = @ \ {e}])
  /\ UNCHANGED <<ledgers, cursor, gaps, epoch, alerts, ticks, faults>>

\* applyReconfigure, whether or not the event was new.
Apply(t) ==
  /\ at[t] = "apply"
  /\ LET e == First(mem[t].todo) IN
       /\ epoch' = Larger(epoch, EpochOf(e))
       /\ Proceed(t, [mem[t] EXCEPT !.todo = @ \ {e}])
  /\ UNCHANGED <<ledgers, cursor, events, gaps, alerts, ticks, faults>>

\* setCursor.  The tick has succeeded; every ReconcileEvery of them main.ts
\* reconciles.
SetCursor ==
  /\ at[Live] = "cursor"
  /\ cursor' = mem[Live].to
  /\ ticks' = (ticks + 1) % ReconcileEvery
  /\ IF ticks' = 0 THEN Await(Live, "read", None) ELSE Finish(Live)
  /\ UNCHANGED <<ledgers, events, gaps, epoch, alerts, faults>>

-----------------------------------------------------------------------------
(* reconcile: indexer.ts:155-177 *)

\* The loop gets here from a tick, a request at its start.
ReadChain(t) ==
  /\ IF t = Live THEN at[t] = "read" ELSE at[t] = "idle"
  /\ Await(t, "compare", [onchain |-> ChainEpoch])
  /\ UNCHANGED <<ledgers, tables, ticks, faults>>

\* getAccountConfig answers null on any error, and the account is passed over.
ChainUnread ==
  /\ at[Live] = "read"
  /\ Finish(Live)
  /\ UNCHANGED <<ledgers, tables, ticks, faults>>

\* The accounts row is read after the chain.  Nothing but the operators reads
\* alerts, so the insert is not a step of its own.
Compare(t) ==
  /\ at[t] = "compare"
  /\ alerts' = IF epoch # mem[t].onchain
                 THEN alerts \cup {[indexed |-> epoch, onchain |-> mem[t].onchain]}
                 ELSE alerts
  /\ Finish(t)
  /\ UNCHANGED <<ledgers, cursor, events, gaps, epoch, ticks, faults>>

-----------------------------------------------------------------------------
(* Faults.  A getEvents that rejects changes nothing and is not a step.     *)

\* A statement fails: the loop logs it and ticks again, a request answers 500.
Fail(t) ==
  /\ faults < MaxFaults
  /\ at[t] # "idle"
  /\ Finish(t)
  /\ faults' = faults + 1
  /\ UNCHANGED <<ledgers, tables, ticks>>

\* The process dies and is started again.
Crash ==
  /\ faults < MaxFaults
  /\ at' = [t \in Tasks |-> "idle"]
  /\ mem' = [t \in Tasks |-> None]
  /\ ticks' = 0
  /\ faults' = faults + 1
  /\ UNCHANGED <<ledgers, tables>>

-----------------------------------------------------------------------------
(* The network and the source (external) *)

CloseLedger ==
  /\ Latest < MaxLedger
  /\ \E n \in 0..MaxEvents - Cardinality(Emitted) : \E kinds \in [1..n -> {"plain", "reconfigure"}] :
       /\ ChainEpoch + Cardinality({i \in 1..n : kinds[i] = "reconfigure"}) <= MaxEpoch
       /\ chain' = Append(chain, kinds)
  /\ UNCHANGED <<oldest, tables, tasks, faults>>

\* The source stops serving its oldest ledger.
Prune ==
  /\ oldest < Latest
  /\ oldest' = oldest + 1
  /\ UNCHANGED <<chain, tables, tasks, faults>>

-----------------------------------------------------------------------------
\* A task that waits for the database is answered.
Continue(t) ==
  \/ RecordGap(t) \/ Insert(t) \/ Apply(t) \/ Compare(t)
  \/ t = Live /\ SetCursor

Next ==
  \/ RunOnce
  \/ \E t \in Tasks :
       Backfill(t) \/ ReadChain(t) \/ Continue(t) \/ Fail(t)
  \/ ChainUnread \/ Crash
  \/ CloseLedger \/ Prune

(***************************************************************************)
(* The loop never stops ticking and the database answers.  The RPC may be  *)
(* behind, or fail to read the chain, any number of times, not for ever.   *)
(***************************************************************************)
Safe == Init /\ [][Next]_vars

Spec ==
  /\ Safe
  /\ \A t \in Tasks : WF_vars(Continue(t))
  /\ SF_vars(Fetch(Live, Start, Latest))
  /\ WF_vars(ReadChain(Live) \/ ChainUnread)
  /\ SF_vars(ReadChain(Live))

-----------------------------------------------------------------------------
(* Properties *)

InGap(l) == \E g \in gaps : g[1] <= l /\ l <= g[2]

(***************************************************************************)
(* The cursor passes no ledger in silence: a ledger behind it that has     *)
(* events is in the table, with its first event at least, or in a recorded *)
(* gap, whatever crashes, stale answers and pruning come between a page    *)
(* and its cursor (indexer.ts:90-118).                                     *)
(***************************************************************************)
LedgersSeen ==
  \A l \in Genesis..Start - 1 :
    <<l, 1>> \in Emitted => <<l, 1>> \in events \/ InGap(l)

(***************************************************************************)
(* The cursor never moves back, with backfills under way and a source that *)
(* answers from a node behind the last one (indexer.ts:117-118).           *)
(***************************************************************************)
NeverBack == [][Start' >= Start]_vars

\* Of its ledger a page held the first events, and then it had no more room.
CutOff(e) ==
  /\ e[2] > 1
  /\ Cardinality({f \in Emitted : f \in events /\ Before(f, e)}) >= PageSize

(***************************************************************************)
(* Every Reconfigured event behind the cursor has been applied, unless it  *)
(* is in a recorded gap or was cut off a full page: it is not the first of *)
(* its ledger, and a page's worth of events before it is in the table.  A  *)
(* crash between the insert of an event and its application loses nothing: *)
(* the replay applies what it finds in the table (indexer.ts:103-112).     *)
(***************************************************************************)
EpochFollows ==
  \A e \in Reconfigures :
    Genesis <= e[1] /\ e[1] < Start /\ epoch < EpochOf(e) => InGap(e[1]) \/ CutOff(e)

\* The events of the ledgers from one to another.
Between(from, to) == {e \in Emitted : from <= e[1] /\ e[1] <= to}

\* An event is not in the table, or it was never applied.
Lost(e) == e \notin events \/ (e \in Reconfigures /\ epoch < EpochOf(e))

(***************************************************************************)
(* What a page may lose: when the cursor moves, every event of the ledgers *)
(* it passes is in the table, and applied, or in a recorded gap - all but  *)
(* those of one ledger, the last one of a full page, that come after the   *)
(* page's last event.  Nothing else is ever lost, whatever fails or writes *)
(* at the same time (indexer.ts:90-118).                                   *)
(***************************************************************************)
LosesOnlyTheCut ==
  [][\A e \in Between(Start, Start' - 1) : Lost(e) /\ ~InGap(e[1]) =>
       /\ e[1] = cursor'
       /\ Cardinality({f \in Between(Start, cursor') \cap events : Before(f, e)})
            >= PageSize]_vars

(***************************************************************************)
(* The loop catches up with every ledger the network closes, quiet ledgers *)
(* and pruned ones too (indexer.ts:115-118, main.ts:35-49).                *)
(***************************************************************************)
CatchesUp == \A l \in Ledgers : Latest >= l ~> Start > l

(***************************************************************************)
(* A lasting divergence is reported: when the accounts row stays behind the*)
(* chain, because a gap or a cut page swallowed a Reconfigured event, an   *)
(* alert names both epochs in the end (indexer.ts:155-177).                *)
(***************************************************************************)
DriftAlerted ==
  \A i, n \in Epochs :
    i < n => ([](epoch = i /\ ChainEpoch = n) ~> [indexed |-> i, onchain |-> n] \in alerts)

-----------------------------------------------------------------------------
(* What the documentation says, and the code does not do *)

(***************************************************************************)
(* "indexer_cursor.last_ledger is the highest ledger fully ingested"       *)
(* (docs/indexer.md:34): all events behind the cursor are in the table,    *)
(* except those of a recorded gap.                                         *)
(***************************************************************************)
FullyIngested ==
  \A e \in Emitted : Genesis <= e[1] /\ e[1] < Start => e \in events \/ InGap(e[1])
=============================================================================
