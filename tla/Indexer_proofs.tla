---------------------------- MODULE Indexer_proofs ----------------------------
(***************************************************************************)
(* Proofs about the cursor of Indexer, for every page size, every number   *)
(* of concurrent requests and every bound: it never moves back, it passes  *)
(* no ledger with events in silence, and no event, Reconfigured or not,    *)
(* but one that a full page had no room for.                               *)
(*                                                                         *)
(* None of this is inductive alone.  Between the answer of getEvents and   *)
(* setCursor, the loop owes every ledger up to the cursor's next value     *)
(* something it has in memory: an event still to write or to apply, or a   *)
(* gap still to record.  Promised says so of the first event of a ledger,  *)
(* CutPromised of every event; LedgersSeen and EpochFollows are what is    *)
(* left of them when the cursor moves.                                     *)
(***************************************************************************)
EXTENDS Indexer, Arithmetic_proofs, FiniteSetTheorems, SequenceTheorems, TLAPS

Calls == {"idle", "gap", "insert", "apply", "cursor", "read", "compare"}
Kinds == {"plain", "reconfigure"}

\* The loop is between the answer of getEvents and setCursor.
Paging == at[Live] \in {"gap", "insert", "apply", "cursor"}

\* As much of the types as the argument needs.
Shape ==
  /\ chain \in Seq(Seq(Kinds))
  /\ oldest \in Int
  /\ cursor \in Int \cup {None}
  /\ epoch \in Int
  /\ at \in [Tasks -> Calls]
  /\ DOMAIN mem = Tasks
  /\ Paging => mem[Live] \in [todo : SUBSET Events, to : Int, gap : (Int \X Int) \cup {None}]

\* The gap the loop is about to record.
ToRecord(l) ==
  at[Live] = "gap" /\ mem[Live].gap[1] <= l /\ l <= mem[Live].gap[2]

\* The accounts row is not behind the configuration of an event.
Applied(e) == epoch >= EpochOf(e)

\* What the loop owes the ledgers the cursor is about to pass.
Promised ==
  Paging =>
    /\ mem[Live].to >= Start - 1
    /\ at[Live] = "cursor" => mem[Live].todo = {}
    /\ at[Live] = "gap" => mem[Live].gap \in Int \X Int
    /\ at[Live] = "apply" => First(mem[Live].todo) \in events
    /\ \A l \in Start..mem[Live].to :
         /\ l <= Latest
         /\ <<l, 1>> \in Emitted =>
              <<l, 1>> \in events \cup mem[Live].todo \/ InGap(l) \/ ToRecord(l)
         /\ <<l, 1>> \in Reconfigures =>
              Applied(<<l, 1>>) \/ <<l, 1>> \in mem[Live].todo \/ InGap(l) \/ ToRecord(l)

\* The loop's page was full before it came to an event: its events, written or
\* still to write, come before that one.
FullBefore(e) ==
  Cardinality({f \in Between(Start, mem[Live].to) \cap (events \cup mem[Live].todo) :
                 Before(f, e)}) >= PageSize

\* What the loop owes each event of the ledgers the cursor is about to pass.
CutPromised ==
  Paging =>
    \A e \in Between(Start, mem[Live].to) :
      \/ e \in mem[Live].todo
      \/ e \in events /\ (e \in Reconfigures => Applied(e))
      \/ InGap(e[1]) \/ ToRecord(e[1])
      \/ e[1] = mem[Live].to /\ FullBefore(e)

\* The cursor is not ahead of the network.
CursorClosed == \A l \in Genesis..Start - 1 : l <= Latest

\* The inductive invariant.
IInv == Shape /\ Promised /\ CutPromised /\ CursorClosed /\ LedgersSeen /\ EpochFollows

-----------------------------------------------------------------------------
(* Least and greatest elements *)

\* A nonempty set of ledgers has a greatest one.
LEMMA GreatestLedger ==
  ASSUME NEW S \in SUBSET Ledgers, S # {}
  PROVE  \E l \in S : \A k \in S : k <= l
<1> DEFINE T == {MaxLedger - k : k \in S}
<1>1. MaxLedger \in Nat
  BY IndexerAssumption
<1>2. T \in SUBSET Nat /\ T # {}
  <2>1. \A k \in S : MaxLedger - k \in Nat
    BY <1>1 DEF Ledgers
  <2>2. PICK k \in S : TRUE
    OBVIOUS
  <2>3. MaxLedger - k \in T
    BY <2>2
  <2> QED
    BY <2>1, <2>3
<1> HIDE DEF T
<1>3. PICK n \in T : \A k \in T : n <= k
  BY <1>2, LeastNat
<1>4. PICK l \in S : n = MaxLedger - l
  BY DEF T
<1>5. \A k \in S : MaxLedger - l <= MaxLedger - k
  BY <1>3, <1>4 DEF T
<1> QED
  BY <1>1, <1>5 DEF Ledgers

\* A nonempty set of events has one that comes before all others.
LEMMA EarliestEvent ==
  ASSUME NEW S \in SUBSET Events, S # {}
  PROVE  \E e \in S : \A f \in S : ~Before(f, e)
<1>1. \A e \in S : e[1] \in Nat /\ e[2] \in Nat /\ e = <<e[1], e[2]>>
  BY IndexerAssumption DEF Events, Ledgers
<1>2. PICK l \in {e[1] : e \in S} : \A k \in {e[1] : e \in S} : l <= k
  <2> DEFINE T == {e[1] : e \in S}
  <2>1. T \in SUBSET Nat /\ T # {}
    BY <1>1
  <2> HIDE DEF T
  <2>2. \E n \in T : \A k \in T : n <= k
    BY <2>1, LeastNat
  <2> QED
    BY <2>2 DEF T
<1>3. PICK i \in {e[2] : e \in {f \in S : f[1] = l}} :
             \A k \in {e[2] : e \in {f \in S : f[1] = l}} : i <= k
  <2> DEFINE T == {e[2] : e \in {f \in S : f[1] = l}}
  <2>1. T \in SUBSET Nat /\ T # {}
    BY <1>1, <1>2
  <2> HIDE DEF T
  <2>2. \E n \in T : \A k \in T : n <= k
    BY <2>1, LeastNat
  <2> QED
    BY <2>2 DEF T
<1>4. PICK e \in S : e[1] = l /\ e[2] = i
  BY <1>3
<1>5. ASSUME NEW f \in S PROVE ~Before(f, e)
  <2>1. l <= f[1] /\ (f[1] = l => i <= f[2])
    BY <1>2, <1>3
  <2> QED
    BY <2>1, <1>4, <1>1 DEF Before
<1> QED
  BY <1>4, <1>5

LEMMA EventsFinite == IsFiniteSet(Events)
<1>1. IsFiniteSet(Ledgers) /\ IsFiniteSet(1..MaxEvents)
  BY FS_Interval, IndexerAssumption DEF Ledgers
<1> QED
  BY <1>1, FS_Product DEF Events

LEMMA EpochOfNat ==
  ASSUME NEW e PROVE EpochOf(e) \in Nat
<1>1. {f \in Reconfigures : ~Before(e, f)} \in SUBSET Events
  BY DEF Reconfigures, Emitted
<1> QED
  BY <1>1, EventsFinite, FS_Subset, FS_CardinalityType DEF EpochOf

-----------------------------------------------------------------------------
(* What a page holds *)

\* The events a node that has seen the ledgers up to seen can serve.
Served(from, seen) == {e \in Emitted : from <= e[1] /\ oldest <= e[1] /\ e[1] <= seen}

\* A page is a prefix of what is served, and empty only when nothing is.
LEMMA PagePrefix ==
  ASSUME NEW from, NEW seen
  PROVE  /\ Page(from, seen) \subseteq Served(from, seen)
         /\ \A e \in Page(from, seen) : \A f \in Served(from, seen) :
              Before(f, e) => f \in Page(from, seen)
         /\ Served(from, seen) # {} => Page(from, seen) # {}
<1> DEFINE S == Served(from, seen)
           Earlier(e) == {f \in S : Before(f, e)}
<1>1. S \subseteq Events
  BY DEF Served, Emitted
<1>2. Page(from, seen) = {e \in S : Cardinality(Earlier(e)) < PageSize}
  BY DEF Page, Served
<1>3. \A e \in S : IsFiniteSet(Earlier(e)) /\ Cardinality(Earlier(e)) \in Nat
  <2> TAKE e \in S
  <2>1. Earlier(e) \in SUBSET Events
    BY <1>1
  <2>2. IsFiniteSet(Earlier(e))
    BY <2>1, EventsFinite, FS_Subset
  <2> QED
    BY <2>2, FS_CardinalityType
<1>4. PageSize \in Nat /\ PageSize > 0
  BY IndexerAssumption
<1>5. ASSUME NEW e \in Page(from, seen), NEW f \in S, Before(f, e)
      PROVE  f \in Page(from, seen)
  <2>1. Earlier(f) \subseteq Earlier(e)
    <3> SUFFICES ASSUME NEW g \in S, Before(g, f) PROVE Before(g, e)
      OBVIOUS
    <3>1. /\ e[1] \in Int /\ e[2] \in Int /\ f[1] \in Int /\ f[2] \in Int
          /\ g[1] \in Int /\ g[2] \in Int
      BY <1>1, <1>2, <1>5, IndexerAssumption DEF Events, Ledgers
    <3> QED
      BY <3>1, <1>5 DEF Before
  <2>2. e \in S /\ Cardinality(Earlier(e)) < PageSize
    BY <1>2, <1>5
  <2>3. Cardinality(Earlier(f)) <= Cardinality(Earlier(e))
    BY <2>1, <2>2, <1>3, FS_Subset
  <2>4. Cardinality(Earlier(f)) < PageSize
    BY <2>2, <2>3, <1>3, <1>4, <1>5
  <2> QED
    BY <2>4, <1>2, <1>5
<1>6. ASSUME S # {} PROVE Page(from, seen) # {}
  <2>1. PICK e \in S : \A f \in S : ~Before(f, e)
    BY <1>1, <1>6, EarliestEvent
  <2>2. Earlier(e) = {}
    BY <2>1
  <2>3. Cardinality(Earlier(e)) = 0
    BY <2>2, FS_EmptySet
  <2> QED
    BY <2>3, <1>2, <1>4
<1> QED
  BY <1>2, <1>5, <1>6

\* reached is the ledger of a page's last event, seen when there is none.
LEMMA ReachedLast ==
  ASSUME NEW page \in SUBSET Events, NEW seen \in Int
  PROVE  /\ Reached(page, seen) \in Int
         /\ page = {} => Reached(page, seen) = seen
         /\ page # {} => \E e \in page : e[1] = Reached(page, seen)
         /\ \A e \in page : e[1] <= Reached(page, seen)
<1>1. CASE page = {}
  BY <1>1 DEF Reached
<1>2. CASE page # {}
  <2> DEFINE L == {e[1] : e \in page}
  <2>1. L \subseteq Ledgers /\ L # {}
    BY <1>2 DEF Events
  <2> HIDE DEF L
  <2>2. \E l \in L : \A k \in L : k <= l
    BY <2>1, GreatestLedger
  <2> USE DEF L
  <2>3. \E l \in L : \A e \in page : e[1] <= l
    BY <2>2
  <2>4. Reached(page, seen) = CHOOSE l \in L : \A e \in page : e[1] <= l
    BY <1>2 DEF Reached
  <2>5. Reached(page, seen) \in L /\ \A e \in page : e[1] <= Reached(page, seen)
    BY <2>3, <2>4
  <2>6. L \subseteq Int
    BY <2>1, IndexerAssumption DEF Ledgers
  <2> QED
    BY <1>2, <2>5, <2>6
<1> QED
  BY <1>1, <1>2

(***************************************************************************)
(* The cursor's next value promises nothing that the answer does not hold: *)
(* every ledger up to it is closed, and one with events has its first event*)
(* in the page or is older than what the source serves.                    *)
(***************************************************************************)
LEMMA PagePromise ==
  ASSUME chain \in Seq(Seq(Kinds)), oldest \in Int,
         NEW from \in Int, NEW seen \in oldest..Latest
  PROVE  /\ Page(from, seen) \in SUBSET Events
         /\ ToLedger(Page(from, seen), from, seen) \in Int
         /\ ToLedger(Page(from, seen), from, seen) >= from - 1
         /\ \A l \in from..ToLedger(Page(from, seen), from, seen) :
              /\ l <= Latest
              /\ <<l, 1>> \in Emitted => <<l, 1>> \in Page(from, seen) \/ l <= oldest - 1
<1> DEFINE page == Page(from, seen)
           R == Reached(page, seen)
           to == ToLedger(page, from, seen)
<1>1. Latest \in Nat /\ seen \in Int /\ oldest <= seen /\ seen <= Latest
  BY LenProperties DEF Latest
<1>2. page \in SUBSET Events /\ page \subseteq Served(from, seen)
  BY PagePrefix DEF Served, Emitted
<1> HIDE DEF page
<1>3. /\ R \in Int
      /\ page = {} => R = seen
      /\ page # {} => \E e \in page : e[1] = R
      /\ \A e \in page : e[1] <= R
  BY <1>1, <1>2, ReachedLast
<1> HIDE DEF R
<1>4. R <= seen
  BY <1>1, <1>2, <1>3 DEF Served
<1>5. /\ to \in Int /\ to >= from - 1
      /\ to = R \/ to = oldest - 1 \/ to = from - 1
  BY <1>3 DEF ToLedger, Larger, R
<1> HIDE DEF to
<1>6. ASSUME NEW l \in from..to
      PROVE  /\ l <= Latest
             /\ <<l, 1>> \in Emitted => <<l, 1>> \in page \/ l <= oldest - 1
  <2>1. l \in Int /\ from <= l /\ l <= to
    BY <1>5
  <2>2. l <= Latest
    BY <2>1, <1>1, <1>3, <1>4, <1>5
  <2>3. ASSUME <<l, 1>> \in Emitted, oldest <= l
        PROVE  <<l, 1>> \in page
    <3>1. l <= R
      BY <2>1, <2>3, <1>3, <1>5
    <3>2. <<l, 1>> \in Served(from, seen)
      BY <2>1, <2>3, <3>1, <1>1, <1>3, <1>4 DEF Served
    <3>3. page # {}
      BY <3>2, PagePrefix DEF page
    <3>4. PICK e \in page : e[1] = R
      BY <3>3, <1>3
    <3>5. e \in Events
      BY <1>2
    <3>6. e = <<l, 1>> \/ Before(<<l, 1>>, e)
      BY <3>1, <3>4, <3>5, <2>1, <1>3, IndexerAssumption DEF Before, Events
    <3> QED
      BY <3>2, <3>4, <3>6, PagePrefix DEF page
  <2> QED
    BY <2>1, <2>2, <2>3
<1> QED
  BY <1>2, <1>5, <1>6 DEF page, to

\* When an event that is served is not on the page, the page is full.
LEMMA FullPage ==
  ASSUME NEW from, NEW seen, Served(from, seen) \ Page(from, seen) # {}
  PROVE  Cardinality(Page(from, seen)) >= PageSize
<1> DEFINE S == Served(from, seen)
           Earlier(e) == {f \in S : Before(f, e)}
<1>1. S \subseteq Events
  BY DEF Served, Emitted
<1>2. Page(from, seen) = {e \in S : Cardinality(Earlier(e)) < PageSize}
  BY DEF Page, Served
<1>3. PICK e \in S \ Page(from, seen) :
             \A f \in S \ Page(from, seen) : ~Before(f, e)
  BY <1>1, EarliestEvent
<1>4. Earlier(e) \subseteq Page(from, seen)
  BY <1>3
<1>5. IsFiniteSet(Page(from, seen)) /\ IsFiniteSet(Earlier(e))
  BY <1>1, <1>2, EventsFinite, FS_Subset
<1>6. /\ Cardinality(Earlier(e)) <= Cardinality(Page(from, seen))
      /\ Cardinality(Earlier(e)) \in Nat /\ Cardinality(Page(from, seen)) \in Nat
  BY <1>4, <1>5, FS_Subset, FS_CardinalityType
<1>7. ~(Cardinality(Earlier(e)) < PageSize)
  BY <1>2, <1>3
<1> QED
  BY <1>6, <1>7, IndexerAssumption

(***************************************************************************)
(* Every event up to the cursor's next value is on the page, or older than *)
(* what the source serves, or of the last ledger of a full page.           *)
(***************************************************************************)
LEMMA PageWhole ==
  ASSUME chain \in Seq(Seq(Kinds)), oldest \in Int,
         NEW from \in Int, NEW seen \in oldest..Latest
  PROVE  LET page == Page(from, seen)
             to == ToLedger(page, from, seen)
         IN /\ page \subseteq Emitted
            /\ \A e \in page : from <= e[1] /\ e[1] <= to
            /\ \A e \in Between(from, to) :
                 \/ e \in page \/ e[1] <= oldest - 1
                 \/ /\ e[1] = to /\ Cardinality(page) >= PageSize
                    /\ \A f \in page : Before(f, e)
<1> DEFINE page == Page(from, seen)
           R == Reached(page, seen)
           to == ToLedger(page, from, seen)
<1>1. Latest \in Nat /\ seen \in Int /\ oldest <= seen /\ seen <= Latest
  BY LenProperties DEF Latest
<1>2. page \in SUBSET Events /\ page \subseteq Served(from, seen)
  BY PagePrefix DEF Served, Emitted
<1> HIDE DEF page
<1>3. /\ R \in Int
      /\ page = {} => R = seen
      /\ page # {} => \E e \in page : e[1] = R
      /\ \A e \in page : e[1] <= R
  BY <1>1, <1>2, ReachedLast
<1> HIDE DEF R
<1>4. R <= seen
  BY <1>1, <1>2, <1>3 DEF Served
<1>5. /\ to \in Int /\ to >= R
      /\ to = R \/ to = oldest - 1 \/ to = from - 1
  BY <1>3 DEF ToLedger, Larger, R
<1> HIDE DEF to
<1>6. ASSUME NEW e \in page PROVE from <= e[1] /\ e[1] <= to
  <2>1. e \in Events /\ from <= e[1] /\ e[1] <= R
    BY <1>2, <1>3 DEF Served
  <2>2. e[1] \in Int
    BY <2>1, IndexerAssumption DEF Events, Ledgers
  <2> QED
    BY <2>1, <2>2, <1>3, <1>5
<1>7. ASSUME NEW e \in Between(from, to), e \notin page, oldest <= e[1]
      PROVE  /\ e[1] = to /\ Cardinality(page) >= PageSize
             /\ \A f \in page : Before(f, e)
  <2>1. e \in Emitted /\ e \in Events /\ from <= e[1] /\ e[1] <= to
    BY DEF Between, Emitted
  <2>2. e[1] \in Int
    BY <2>1, IndexerAssumption DEF Events, Ledgers
  <2>3. to = R
    BY <2>1, <2>2, <1>3, <1>5, <1>7
  <2>4. e \in Served(from, seen)
    BY <2>1, <2>2, <2>3, <1>1, <1>3, <1>4, <1>7 DEF Served
  <2>5. page # {}
    BY <2>4, PagePrefix DEF page
  <2>6. PICK p \in page : p[1] = R
    BY <2>5, <1>3
  <2>7. ~Before(e, p)
    BY <2>4, <1>7, PagePrefix DEF page
  <2>8. e[1] = to
    BY <2>1, <2>2, <2>3, <2>6, <2>7, <1>3 DEF Before
  <2>9. Cardinality(page) >= PageSize
    BY <2>4, <1>7, FullPage DEF page
  <2>10. ASSUME NEW f \in page PROVE Before(f, e)
    <3>1. ~Before(e, f)
      BY <2>4, <1>7, PagePrefix DEF page
    <3>2. f \in Events /\ f # e
      BY <1>2, <1>7
    <3>3. /\ e = <<e[1], e[2]>> /\ f = <<f[1], f[2]>>
          /\ e[1] \in Int /\ e[2] \in Int /\ f[1] \in Int /\ f[2] \in Int
      BY <2>1, <3>2, IndexerAssumption DEF Events, Ledgers
    <3> QED
      BY <3>1, <3>2, <3>3 DEF Before
  <2> QED
    BY <2>8, <2>9, <2>10
<1>8. ASSUME NEW e \in Between(from, to), ~(oldest <= e[1])
      PROVE  e[1] <= oldest - 1
  <2>1. e[1] \in Int
    BY IndexerAssumption DEF Between, Emitted, Events, Ledgers
  <2> QED
    BY <2>1, <1>8
<1>9. page \subseteq Emitted
  BY <1>2 DEF Served
<1> QED
  BY <1>6, <1>7, <1>8, <1>9 DEF page, to

\* A set of events that has a full page in it is full.
LEMMA FullGrows ==
  ASSUME NEW S, NEW T \in SUBSET Events, S \subseteq T, Cardinality(S) >= PageSize
  PROVE  Cardinality(T) >= PageSize
<1>1. S \in SUBSET Events /\ IsFiniteSet(T) /\ IsFiniteSet(S)
  BY EventsFinite, FS_Subset
<1>2. /\ Cardinality(S) <= Cardinality(T)
      /\ Cardinality(S) \in Nat /\ Cardinality(T) \in Nat
  BY <1>1, FS_Subset, FS_CardinalityType
<1> QED
  BY <1>2, IndexerAssumption

\* An event cut off a page stays so: nothing leaves the table.
LEMMA CutOffStays ==
  ASSUME NEW e, events \subseteq events', Emitted \subseteq Emitted', CutOff(e)
  PROVE  CutOff(e)'
<1> DEFINE S == {f \in Emitted : f \in events /\ Before(f, e)}
           T == {f \in Emitted' : f \in events' /\ Before(f, e)}
<1>1. S \subseteq T /\ T \in SUBSET Events
  BY DEF Emitted
<1>2. e[2] > 1 /\ Cardinality(S) >= PageSize
  BY DEF CutOff
<1>3. CutOff(e)' <=> e[2] > 1 /\ Cardinality(T) >= PageSize
  BY DEF CutOff, Before
<1> HIDE DEF S, T
<1> QED
  BY <1>1, <1>2, <1>3, FullGrows

-----------------------------------------------------------------------------
(* The calls of one task *)

\* A task's next call, and what it keeps, is its own.
LEMMA AwaitTask ==
  ASSUME Shape, NEW t \in Tasks, NEW c \in Calls, NEW m, Await(t, c, m)
  PROVE  /\ at' \in [Tasks -> Calls] /\ DOMAIN mem' = Tasks
         /\ at'[t] = c /\ mem'[t] = m
         /\ \A u \in Tasks \ {t} : at'[u] = at[u] /\ mem'[u] = mem[u]
BY DEF Shape, Await

\* The loop goes on to the next event, or to the cursor when there is none.
LEMMA ProceedTask ==
  ASSUME Shape, NEW t \in Tasks, NEW m, Proceed(t, m)
  PROVE  /\ at' \in [Tasks -> Calls] /\ DOMAIN mem' = Tasks
         /\ \A u \in Tasks \ {t} : at'[u] = at[u] /\ mem'[u] = mem[u]
         /\ t = Live => /\ at'[Live] \in {"insert", "cursor"} /\ mem'[Live] = m
                        /\ at'[Live] = "cursor" => m.todo = {}
<1>1. \/ m.todo # {} /\ Await(t, "insert", m)
      \/ m.todo = {} /\ t = Live /\ Await(t, "cursor", m)
      \/ m.todo = {} /\ t # Live /\ Await(t, "idle", None)
  BY DEF Proceed, Finish
<1> QED
  BY <1>1, AwaitTask DEF Calls

LEMMA LiveIsTask == Live \in Tasks /\ \A t \in Requests : t \in Tasks /\ t # Live
BY IndexerAssumption DEF Tasks

LEMMA StartInt ==
  ASSUME Shape PROVE Start \in Int
BY IndexerAssumption DEF Shape, Start

LEMMA ChainSame ==
  ASSUME chain' = chain
  PROVE  /\ Latest' = Latest /\ Emitted' = Emitted /\ Reconfigures' = Reconfigures
         /\ \A e : EpochOf(e)' = EpochOf(e)
BY DEF Latest, Emitted, Reconfigures, EpochOf

\* What has been applied stays applied, since the epoch only grows.
LEMMA AppliedStays ==
  ASSUME chain' = chain, epoch \in Int, epoch' \in Int, epoch' >= epoch,
         NEW e, Applied(e)
  PROVE  Applied(e)'
BY ChainSame, EpochOfNat DEF Applied

(***************************************************************************)
(* The same page, a step later: what left the loop's memory is written and *)
(* applied, and nothing was taken out of the tables.                       *)
(***************************************************************************)
LEMMA CutStays ==
  ASSUME CutPromised, Paging, Start' = Start, mem'[Live].to = mem[Live].to,
         NEW B, B = Between(Start, mem[Live].to), B = Between(Start, mem[Live].to)',
         events \subseteq events',
         \A e \in B : e \in Reconfigures' => e \in Reconfigures,
         \A e \in B : Applied(e) => Applied(e)',
         \A l : InGap(l) \/ ToRecord(l) => (InGap(l) \/ ToRecord(l))',
         \A e \in B \cap mem[Live].todo :
           e \in mem'[Live].todo \/ (e \in events' /\ (e \in Reconfigures => Applied(e)'))
  PROVE  CutPromised'
<1>1. B' = B /\ B \subseteq Events
  BY DEF Between, Emitted
<1>2. ASSUME NEW e, FullBefore(e) PROVE FullBefore(e)'
  <2> DEFINE S == {f \in B \cap (events \cup mem[Live].todo) : Before(f, e)}
             T == {f \in B \cap (events' \cup mem'[Live].todo) : Before(f, e)}
  <2>1. S \subseteq T /\ T \in SUBSET Events
    BY <1>1
  <2>2. Cardinality(S) >= PageSize
    BY <1>2 DEF FullBefore
  <2>3. FullBefore(e)' <=> Cardinality(T) >= PageSize
    BY DEF FullBefore, Before
  <2> HIDE DEF S, T
  <2> QED
    BY <2>1, <2>2, <2>3, FullGrows
<1>3. ASSUME NEW e \in B
      PROVE  \/ e \in mem'[Live].todo
             \/ e \in events' /\ (e \in Reconfigures' => Applied(e)')
             \/ InGap(e[1])' \/ ToRecord(e[1])'
             \/ e[1] = mem'[Live].to /\ FullBefore(e)'
  <2>1. \/ e \in mem[Live].todo
        \/ e \in events /\ (e \in Reconfigures => Applied(e))
        \/ InGap(e[1]) \/ ToRecord(e[1])
        \/ e[1] = mem[Live].to /\ FullBefore(e)
    BY <1>3 DEF CutPromised
  <2> QED
    BY <2>1, <1>2, <1>3
<1> QED
  BY <1>3 DEF CutPromised

\* What a step that leaves the chain and the cursor alone has to preserve.
LEMMA FollowsStays ==
  ASSUME EpochFollows, chain' = chain, cursor' = cursor, events \subseteq events',
         gaps \subseteq gaps', epoch \in Int, epoch' \in Int, epoch' >= epoch
  PROVE  EpochFollows'
<1>1. Start' = Start /\ Emitted' = Emitted /\ Reconfigures' = Reconfigures
  BY ChainSame DEF Start
<1>2. ASSUME NEW e \in Reconfigures, Genesis <= e[1], e[1] < Start,
             epoch' < EpochOf(e)'
      PROVE  InGap(e[1])' \/ CutOff(e)'
  <2>1. EpochOf(e)' = EpochOf(e) /\ EpochOf(e) \in Nat
    BY ChainSame, EpochOfNat
  <2>2. epoch < EpochOf(e)
    BY <2>1, <1>2
  <2>3. InGap(e[1]) \/ CutOff(e)
    BY <2>2, <1>2 DEF EpochFollows
  <2>4. InGap(e[1]) => InGap(e[1])'
    BY DEF InGap
  <2> QED
    BY <2>3, <2>4, <1>1, CutOffStays
<1> QED
  BY <1>1, <1>2 DEF EpochFollows

(***************************************************************************)
(* A step that leaves the chain and the cursor alone, takes nothing out of *)
(* the tables, and leaves the loop's page alone or ends it.                *)
(***************************************************************************)
LEMMA Keeps ==
  ASSUME IInv, chain' = chain, cursor' = cursor, oldest' \in Int,
         events \subseteq events', gaps \subseteq gaps',
         epoch' \in Int, epoch' >= epoch,
         at' \in [Tasks -> Calls], DOMAIN mem' = Tasks,
         Paging' => at'[Live] = at[Live] /\ mem'[Live] = mem[Live]
  PROVE  IInv'
<1>1. /\ Start' = Start /\ Latest' = Latest /\ Emitted' = Emitted
      /\ Reconfigures' = Reconfigures
      /\ \A e : Applied(e) => Applied(e)'
  BY ChainSame, AppliedStays DEF IInv, Shape, Start
<1>2. \A l : InGap(l) => InGap(l)'
  BY DEF InGap
<1>3. Paging' => Paging
  BY DEF Paging
<1>4. Shape'
  BY <1>3 DEF IInv, Shape
<1>5. Promised'
  <2> SUFFICES ASSUME Paging' PROVE Promised'
    BY DEF Promised
  <2>1. at'[Live] = at[Live] /\ mem'[Live] = mem[Live] /\ Paging
    BY <1>3
  <2>2. \A l : ToRecord(l)' <=> ToRecord(l)
    BY <2>1 DEF ToRecord
  <2> QED
    BY <2>1, <2>2, <1>1, <1>2 DEF IInv, Promised
<1>6. CursorClosed' /\ LedgersSeen' /\ EpochFollows'
  BY <1>1, <1>2, FollowsStays DEF IInv, CursorClosed, LedgersSeen, Shape
<1>7. CutPromised'
  <2> SUFFICES ASSUME Paging' PROVE CutPromised'
    BY DEF CutPromised
  <2>1. at'[Live] = at[Live] /\ mem'[Live] = mem[Live] /\ Paging
    BY <1>3
  <2>2. \A l : ToRecord(l)' <=> ToRecord(l)
    BY <2>1 DEF ToRecord
  <2>3. Between(Start, mem[Live].to)' = Between(Start, mem[Live].to)
    BY <1>1, <2>1 DEF Between
  <2> QED
    BY <2>1, <2>2, <2>3, <1>1, <1>2, CutStays DEF IInv
<1> QED
  BY <1>4, <1>5, <1>6, <1>7 DEF IInv

-----------------------------------------------------------------------------
(* The steps of the loop that move its page, and the network's *)

LEMMA InitIInv == Init => IInv
<1> SUFFICES ASSUME Init PROVE IInv
  OBVIOUS
<1>1. ~Paging
  BY LiveIsTask DEF Init, Paging
<1>2. Shape
  BY <1>1, EmptySeq DEF Init, Shape, Calls
<1>3. CursorClosed /\ LedgersSeen /\ EpochFollows
  <2>1. Start = Genesis /\ Genesis \in Int
    BY IndexerAssumption DEF Init, Start
  <2>2. \A e \in Reconfigures : e[1] \in Int
    BY IndexerAssumption DEF Reconfigures, Emitted, Events, Ledgers
  <2> QED
    BY <2>1, <2>2 DEF CursorClosed, LedgersSeen, EpochFollows
<1> QED
  BY <1>1, <1>2, <1>3 DEF IInv, Promised, CutPromised

\* The answer of getEvents is promised before anything of it is written.
LEMMA RunOnceKeeps ==
  ASSUME IInv, RunOnce
  PROVE  IInv'
<1> DEFINE from == Start
<1>1. PICK seen \in oldest..Latest : Fetch(Live, Start, seen)
  BY DEF RunOnce
<1> DEFINE page == Page(from, seen)
           to == ToLedger(page, from, seen)
           m == [todo |-> page, to |-> to,
                 gap |-> IF PastRetention(from) THEN <<from, oldest - 1>> ELSE None]
<1>2. /\ UNCHANGED <<chain, oldest, cursor, events, gaps, epoch>>
      /\ IF PastRetention(from) THEN Await(Live, "gap", m) ELSE Proceed(Live, m)
  BY <1>1 DEF Fetch, ledgers, tables
<1>3. Shape /\ Start \in Int /\ oldest \in Int
  BY StartInt DEF IInv, Shape
<1>4. /\ page \in SUBSET Events /\ to \in Int /\ to >= from - 1
      /\ \A l \in from..to :
           /\ l <= Latest
           /\ <<l, 1>> \in Emitted => <<l, 1>> \in page \/ l <= oldest - 1
  BY <1>3, PagePromise DEF Shape
<1> HIDE DEF page, to
<1>5. /\ m.todo = page /\ m.to = to
      /\ m \in [todo : SUBSET Events, to : Int, gap : (Int \X Int) \cup {None}]
      /\ PastRetention(from) => m.gap = <<from, oldest - 1>>
  BY <1>3, <1>4
<1> HIDE DEF m
<1>6. /\ at' \in [Tasks -> Calls] /\ DOMAIN mem' = Tasks /\ mem'[Live] = m
      /\ PastRetention(from) => at'[Live] = "gap"
      /\ ~PastRetention(from) => at'[Live] \in {"insert", "cursor"}
      /\ at'[Live] = "cursor" => m.todo = {}
  BY <1>2, <1>3, AwaitTask, ProceedTask, LiveIsTask DEF Calls
<1>7. /\ Start' = Start /\ Latest' = Latest /\ Emitted' = Emitted
      /\ Reconfigures' = Reconfigures /\ Reconfigures \subseteq Emitted
      /\ \A e : Applied(e)' <=> Applied(e)
  BY <1>2, ChainSame DEF Start, Reconfigures, Applied
<1>8. \A l : InGap(l)' <=> InGap(l)
  BY <1>2 DEF InGap
<1>9. Shape'
  BY <1>2, <1>3, <1>5, <1>6 DEF Shape
<1>10. Promised'
  <2>1. mem'[Live].to >= Start' - 1
    BY <1>4, <1>5, <1>6, <1>7
  <2>2. at'[Live] = "gap" => mem'[Live].gap \in Int \X Int
    BY <1>3, <1>5, <1>6
  <2>3. at'[Live] # "apply"
    BY <1>6
  <2>4. ASSUME NEW l \in Start'..mem'[Live].to
        PROVE  /\ l <= Latest'
               /\ <<l, 1>> \in Emitted' =>
                    <<l, 1>> \in events' \cup mem'[Live].todo \/ InGap(l)' \/ ToRecord(l)'
               /\ <<l, 1>> \in Reconfigures' =>
                    Applied(<<l, 1>>)' \/ <<l, 1>> \in mem'[Live].todo \/ InGap(l)' \/ ToRecord(l)'
    <3>1. l \in from..to /\ l \in Int /\ from <= l
      BY <1>3, <1>4, <1>5, <1>6, <1>7
    <3>2. l <= oldest - 1 => ToRecord(l)'
      <4> SUFFICES ASSUME l <= oldest - 1 PROVE ToRecord(l)'
        OBVIOUS
      <4>1. PastRetention(from)
        BY <3>1, <1>3 DEF PastRetention
      <4> QED
        BY <4>1, <3>1, <1>5, <1>6 DEF ToRecord
    <3> QED
      BY <3>1, <3>2, <1>4, <1>5, <1>6, <1>7
  <2> QED
    BY <2>1, <2>2, <2>3, <2>4, <1>6 DEF Promised
<1>11. CursorClosed' /\ LedgersSeen' /\ EpochFollows'
  BY <1>2, <1>3, <1>7, <1>8, FollowsStays DEF IInv, CursorClosed, LedgersSeen, Shape
<1>12. CutPromised'
  <2>1. /\ page \subseteq Emitted
        /\ \A e \in page : from <= e[1] /\ e[1] <= to
        /\ \A e \in Between(from, to) :
             \/ e \in page \/ e[1] <= oldest - 1
             \/ /\ e[1] = to /\ Cardinality(page) >= PageSize
                /\ \A f \in page : Before(f, e)
    BY <1>3, PageWhole DEF Shape, page, to
  <2>2. /\ mem'[Live].todo = page /\ mem'[Live].to = to
        /\ Between(Start, mem[Live].to)' = Between(from, to)
    BY <1>5, <1>6, <1>7 DEF Between
  <2>3. ASSUME NEW e, Cardinality(page) >= PageSize, \A f \in page : Before(f, e)
        PROVE  FullBefore(e)'
    <3> DEFINE T == {f \in Between(from, to) \cap (events' \cup page) : Before(f, e)}
    <3>1. page \subseteq T
      BY <2>1, <2>3 DEF Between
    <3>2. T \in SUBSET Events
      BY DEF Between, Emitted
    <3>3. FullBefore(e)' <=> Cardinality(T) >= PageSize
      BY <2>2 DEF FullBefore, Before
    <3> HIDE DEF T
    <3> QED
      BY <2>3, <3>1, <3>2, <3>3, FullGrows
  <2>4. ASSUME NEW e \in Between(from, to), e[1] <= oldest - 1
        PROVE  ToRecord(e[1])'
    <3>1. e[1] \in Int /\ from <= e[1]
      BY IndexerAssumption DEF Between, Emitted, Events, Ledgers
    <3>2. PastRetention(from)
      BY <3>1, <2>4, <1>3 DEF PastRetention
    <3> QED
      BY <3>1, <3>2, <2>4, <1>5, <1>6 DEF ToRecord
  <2> QED
    BY <2>1, <2>2, <2>3, <2>4 DEF CutPromised
<1> QED
  BY <1>9, <1>10, <1>11, <1>12 DEF IInv

(***************************************************************************)
(* A write of the loop: what leaves its memory is in the tables, and it    *)
(* goes on with what is left.                                              *)
(***************************************************************************)
LEMMA WriteKeeps ==
  ASSUME IInv, Paging, chain' = chain, cursor' = cursor, oldest' = oldest,
         events \subseteq events', gaps \subseteq gaps',
         epoch' \in Int, epoch' >= epoch,
         NEW m, m \in [todo : SUBSET Events, to : Int, gap : (Int \X Int) \cup {None}],
         m.to = mem[Live].to,
         mem[Live].todo \subseteq m.todo \cup events',
         \A e \in (mem[Live].todo \cap Reconfigures) \ m.todo : Applied(e)',
         at[Live] = "gap" => mem[Live].gap \in gaps',
         at' \in [Tasks -> Calls], DOMAIN mem' = Tasks, mem'[Live] = m,
         at'[Live] \in {"insert", "apply", "cursor"},
         at'[Live] = "cursor" => m.todo = {},
         at'[Live] = "apply" => First(m.todo) \in events'
  PROVE  IInv'
<1>1. /\ Start' = Start /\ Latest' = Latest /\ Emitted' = Emitted
      /\ Reconfigures' = Reconfigures
      /\ \A e : Applied(e) => Applied(e)'
  BY ChainSame, AppliedStays DEF IInv, Shape, Start
<1>2. \A l : InGap(l) \/ ToRecord(l) => InGap(l)'
  BY DEF InGap, ToRecord
<1>3. Shape'
  BY DEF IInv, Shape
<1>4. Promised'
  <2>1. ASSUME NEW l \in Start'..mem'[Live].to
        PROVE  /\ l <= Latest'
               /\ <<l, 1>> \in Emitted' =>
                    <<l, 1>> \in events' \cup mem'[Live].todo \/ InGap(l)'
               /\ <<l, 1>> \in Reconfigures' =>
                    Applied(<<l, 1>>)' \/ <<l, 1>> \in mem'[Live].todo \/ InGap(l)'
    BY <1>1, <1>2 DEF IInv, Promised
  <2>2. mem'[Live].to >= Start' - 1
    BY <1>1 DEF IInv, Promised
  <2> QED
    BY <2>1, <2>2 DEF Promised
<1>5. CursorClosed' /\ LedgersSeen' /\ EpochFollows'
  BY <1>1, <1>2, FollowsStays DEF IInv, CursorClosed, LedgersSeen, Shape
<1>6. CutPromised'
  <2>1. Between(Start, mem[Live].to)' = Between(Start, mem[Live].to)
    BY <1>1 DEF Between
  <2>2. \A e \in mem[Live].todo :
          e \in m.todo \/ (e \in events' /\ (e \in Reconfigures => Applied(e)'))
    OBVIOUS
  <2> QED
    BY <2>1, <2>2, <1>1, <1>2, CutStays DEF IInv
<1> QED
  BY <1>3, <1>4, <1>5, <1>6 DEF IInv

LEMMA RecordGapKeeps ==
  ASSUME IInv, RecordGap(Live)
  PROVE  IInv'
<1> DEFINE m == [mem[Live] EXCEPT !.gap = None]
<1>1. /\ at[Live] = "gap" /\ gaps' = gaps \cup {mem[Live].gap} /\ Proceed(Live, m)
      /\ UNCHANGED <<chain, oldest, cursor, events, epoch>>
  BY DEF RecordGap, ledgers
<1>2. Shape /\ Paging /\ epoch \in Int
  BY <1>1 DEF IInv, Paging, Shape
<1>3. /\ m \in [todo : SUBSET Events, to : Int, gap : (Int \X Int) \cup {None}]
      /\ m.to = mem[Live].to /\ m.todo = mem[Live].todo
  BY <1>2 DEF Shape
<1> HIDE DEF m
<1>4. /\ at' \in [Tasks -> Calls] /\ DOMAIN mem' = Tasks /\ mem'[Live] = m
      /\ at'[Live] \in {"insert", "cursor"}
      /\ at'[Live] = "cursor" => m.todo = {}
  BY <1>1, <1>2, ProceedTask, LiveIsTask
<1> QED
  BY <1>1, <1>2, <1>3, <1>4, WriteKeeps

LEMMA InsertKeeps ==
  ASSUME IInv, Insert(Live)
  PROVE  IInv'
<1> DEFINE e == First(mem[Live].todo)
           m == [mem[Live] EXCEPT !.todo = @ \ {e}]
<1>1. /\ at[Live] = "insert" /\ events' = events \cup {e}
      /\ Await(Live, "apply", mem[Live]) \/ (e \notin Reconfigures /\ Proceed(Live, m))
      /\ UNCHANGED <<chain, oldest, cursor, gaps, epoch>>
  BY DEF Insert, ledgers
<1>2. Shape /\ Paging /\ at[Live] # "gap" /\ epoch \in Int
  BY <1>1 DEF IInv, Paging, Shape
<1>3. mem[Live] \in [todo : SUBSET Events, to : Int, gap : (Int \X Int) \cup {None}]
  BY <1>2 DEF Shape
<1>4. CASE Await(Live, "apply", mem[Live])
  <2>1. /\ at' \in [Tasks -> Calls] /\ DOMAIN mem' = Tasks
        /\ mem'[Live] = mem[Live] /\ at'[Live] = "apply"
    BY <1>2, <1>4, AwaitTask, LiveIsTask DEF Calls
  <2> QED
    BY <2>1, <1>1, <1>2, <1>3, WriteKeeps
<1>5. CASE e \notin Reconfigures /\ Proceed(Live, m)
  <2>1. /\ m \in [todo : SUBSET Events, to : Int, gap : (Int \X Int) \cup {None}]
        /\ m.to = mem[Live].to /\ m.todo = mem[Live].todo \ {e}
    BY <1>3
  <2> HIDE DEF m
  <2>2. /\ at' \in [Tasks -> Calls] /\ DOMAIN mem' = Tasks /\ mem'[Live] = m
        /\ at'[Live] \in {"insert", "cursor"}
        /\ at'[Live] = "cursor" => m.todo = {}
    BY <1>2, <1>5, ProceedTask, LiveIsTask
  <2>3. /\ mem[Live].todo \subseteq m.todo \cup events'
        /\ (mem[Live].todo \cap Reconfigures) \ m.todo = {}
    BY <1>5, <2>1, <1>1
  <2> QED
    BY <2>1, <2>2, <2>3, <1>1, <1>2, WriteKeeps
<1> QED
  BY <1>1, <1>4, <1>5

LEMMA ApplyKeeps ==
  ASSUME IInv, Apply(Live)
  PROVE  IInv'
<1> DEFINE e == First(mem[Live].todo)
           m == [mem[Live] EXCEPT !.todo = @ \ {e}]
<1>1. /\ at[Live] = "apply" /\ epoch' = Larger(epoch, EpochOf(e)) /\ Proceed(Live, m)
      /\ UNCHANGED <<chain, oldest, cursor, events, gaps>>
  BY DEF Apply, ledgers
<1>2. Shape /\ Paging /\ at[Live] # "gap" /\ e \in events /\ epoch \in Int
  BY <1>1 DEF IInv, Paging, Promised, Shape
<1>3. /\ m \in [todo : SUBSET Events, to : Int, gap : (Int \X Int) \cup {None}]
      /\ m.to = mem[Live].to /\ m.todo = mem[Live].todo \ {e}
  BY <1>2 DEF Shape
<1> HIDE DEF m
<1>4. /\ at' \in [Tasks -> Calls] /\ DOMAIN mem' = Tasks /\ mem'[Live] = m
      /\ at'[Live] \in {"insert", "cursor"}
      /\ at'[Live] = "cursor" => m.todo = {}
  BY <1>1, <1>2, ProceedTask, LiveIsTask
<1>5. /\ mem[Live].todo \subseteq m.todo \cup events'
      /\ mem[Live].todo \ m.todo \subseteq {e}
  BY <1>1, <1>2, <1>3
<1>6. epoch' \in Int /\ epoch' >= epoch /\ epoch' >= EpochOf(e)
  BY <1>1, <1>2, EpochOfNat DEF Larger
<1>7. \A f \in mem[Live].todo \ m.todo : Applied(f)'
  <2> SUFFICES ASSUME NEW f, f = e PROVE Applied(f)'
    BY <1>5
  <2>1. epoch' >= EpochOf(f) /\ EpochOf(f)' = EpochOf(f)
    BY <1>1, <1>6, ChainSame
  <2> QED
    BY <2>1 DEF Applied
<1> QED
  BY <1>1, <1>2, <1>3, <1>4, <1>5, <1>6, <1>7, WriteKeeps

\* The cursor moves to what has been promised, and the promise is kept.
LEMMA SetCursorKeeps ==
  ASSUME IInv, SetCursor
  PROVE  IInv' /\ Start' >= Start
<1>1. /\ at[Live] = "cursor" /\ cursor' = mem[Live].to
      /\ Await(Live, "read", None) \/ Await(Live, "idle", None)
      /\ UNCHANGED <<chain, oldest, events, gaps, epoch>>
  BY DEF SetCursor, Finish, ledgers
<1>2. Shape /\ Paging /\ Start \in Int
  BY <1>1, StartInt DEF IInv, Paging
<1>3. /\ mem[Live].to \in Int /\ mem[Live].to >= Start - 1 /\ mem[Live].todo = {}
      /\ \A l \in Start..mem[Live].to :
           /\ l <= Latest
           /\ <<l, 1>> \in Emitted => <<l, 1>> \in events \/ InGap(l)
           /\ <<l, 1>> \in Reconfigures => Applied(<<l, 1>>) \/ InGap(l)
  BY <1>1, <1>2 DEF IInv, Shape, Promised, ToRecord
<1>4. /\ Start' = mem[Live].to + 1 /\ Latest' = Latest /\ Emitted' = Emitted
      /\ Reconfigures' = Reconfigures
      /\ \A e : Applied(e)' <=> Applied(e)
  BY <1>1, <1>3, IndexerAssumption, ChainSame DEF Start, Applied
<1>5. \A l : InGap(l)' <=> InGap(l)
  BY <1>1 DEF InGap
<1>6. /\ at' \in [Tasks -> Calls] /\ DOMAIN mem' = Tasks
      /\ at'[Live] \in {"read", "idle"}
  BY <1>1, <1>2, AwaitTask, LiveIsTask DEF Calls
<1>7. ~Paging'
  BY <1>6 DEF Paging
<1>8. Shape'
  BY <1>1, <1>2, <1>3, <1>6, <1>7 DEF Shape
<1>9. ASSUME NEW l \in Genesis..Start' - 1
      PROVE  /\ l <= Latest
             /\ <<l, 1>> \in Emitted => <<l, 1>> \in events \/ InGap(l)
  <2>1. l \in Genesis..Start - 1 \/ l \in Start..mem[Live].to
    BY <1>2, <1>3, <1>4, IndexerAssumption
  <2> QED
    BY <2>1, <1>3 DEF IInv, CursorClosed, LedgersSeen
<1>10. CursorClosed' /\ LedgersSeen'
  BY <1>1, <1>4, <1>5, <1>9 DEF CursorClosed, LedgersSeen
<1>11. ASSUME NEW e \in Reconfigures, Genesis <= e[1], e[1] < Start', epoch < EpochOf(e)
       PROVE  InGap(e[1]) \/ CutOff(e)
  <2>1. e \in Emitted /\ e = <<e[1], e[2]>> /\ e[1] \in Int /\ e[2] \in Nat \ {0}
    BY IndexerAssumption DEF Reconfigures, Emitted, Events, Ledgers
  <2>2. ~Applied(e)
    BY <1>2, <1>11, EpochOfNat DEF Applied, Shape
  <2>3. CASE e[1] < Start
    BY <2>3, <1>11 DEF IInv, EpochFollows
  <2>4. CASE e[1] >= Start
    <3>1. e[1] \in Start..mem[Live].to /\ e \in Between(Start, mem[Live].to)
      BY <2>1, <2>4, <1>2, <1>3, <1>4, <1>11 DEF Between
    <3>2. e[2] = 1 => InGap(e[1])
      BY <2>1, <2>2, <3>1, <1>3
    <3>3. \A l : ~ToRecord(l)
      BY <1>1 DEF ToRecord
    <3>4. InGap(e[1]) \/ FullBefore(e)
      BY <2>2, <3>1, <3>3, <1>2, <1>3 DEF IInv, CutPromised
    <3>5. FullBefore(e) => Cardinality({f \in Emitted : f \in events /\ Before(f, e)}) >= PageSize
      <4> DEFINE S == {f \in Between(Start, mem[Live].to) \cap events : Before(f, e)}
                 T == {f \in Emitted : f \in events /\ Before(f, e)}
      <4>1. S \subseteq T /\ T \in SUBSET Events
        BY DEF Between, Emitted
      <4>2. FullBefore(e) => Cardinality(S) >= PageSize
        BY <1>3 DEF FullBefore
      <4> HIDE DEF S
      <4>3. FullBefore(e) => Cardinality(T) >= PageSize
        BY <4>1, <4>2, FullGrows
      <4> QED
        BY <4>3
    <3> QED
      BY <2>1, <3>2, <3>4, <3>5 DEF CutOff
  <2> QED
    BY <2>1, <2>3, <2>4, <1>2
<1>12. EpochFollows'
  <2>1. \A e : /\ EpochOf(e)' = EpochOf(e)
               /\ CutOff(e)' <=> CutOff(e)
    BY <1>1, <1>4, ChainSame DEF CutOff, Before
  <2> QED
    BY <2>1, <1>1, <1>4, <1>5, <1>11 DEF EpochFollows
<1> QED
  BY <1>2, <1>3, <1>4, <1>7, <1>8, <1>10, <1>12 DEF IInv, Promised, CutPromised

\* A new ledger is ahead of the cursor and of every promise.
LEMMA CloseLedgerKeeps ==
  ASSUME IInv, CloseLedger
  PROVE  IInv'
<1>1. PICK kinds \in Seq(Kinds) : chain' = Append(chain, kinds)
  <2>1. PICK n \in 0..MaxEvents - Cardinality(Emitted) :
          \E kinds \in [1..n -> Kinds] : chain' = Append(chain, kinds)
    BY DEF CloseLedger, Kinds
  <2>2. IsFiniteSet(Emitted)
    BY EventsFinite, FS_Subset DEF Emitted
  <2>3. MaxEvents - Cardinality(Emitted) \in Int
    BY <2>2, FS_CardinalityType, IndexerAssumption
  <2>4. n \in Nat
    BY <2>3
  <2>5. \A kinds \in [1..n -> Kinds] : kinds \in Seq(Kinds)
    BY <2>4
  <2> QED
    BY <2>1, <2>5
<1>2. UNCHANGED <<oldest, cursor, events, gaps, epoch, at, mem>>
  BY DEF CloseLedger, tables, tasks
<1>3. chain \in Seq(Seq(Kinds)) /\ Shape
  BY DEF IInv, Shape
<1>4. /\ chain' \in Seq(Seq(Kinds)) /\ Latest \in Nat /\ Latest' = Latest + 1
      /\ \A l \in 1..Latest : chain'[l] = chain[l]
  BY <1>1, <1>3, AppendProperties, LenProperties DEF Latest
<1>5. ASSUME NEW e \in Events, e[1] <= Latest
      PROVE  /\ e \in Emitted' <=> e \in Emitted
             /\ e \in Reconfigures' <=> e \in Reconfigures
             /\ Applied(e)' <=> Applied(e)
             /\ EpochOf(e)' = EpochOf(e)
  <2>1. \A f \in Events : f[1] \in 1..MaxLedger /\ f[1] \in Int
    BY IndexerAssumption DEF Events, Ledgers
  <2>2. ASSUME NEW f \in Events, f[1] <= Latest
        PROVE  f \in Emitted' <=> f \in Emitted
    <3>1. f[1] \in 1..Latest
      BY <2>1, <2>2, <1>4
    <3> QED
      BY <3>1, <1>4 DEF Emitted
  <2>3. ASSUME NEW f \in Events, f[1] <= Latest
        PROVE  f \in Reconfigures' <=> f \in Reconfigures
    <3>1. f[1] \in 1..Latest
      BY <2>1, <2>3, <1>4
    <3> QED
      BY <3>1, <2>2, <2>3, <1>4 DEF Reconfigures
  <2>4. \A f \in Events : ~Before(e, f) => f[1] <= Latest
    BY <2>1, <1>4, <1>5 DEF Before
  <2>5. {f \in Reconfigures' : ~Before(e, f)} = {f \in Reconfigures : ~Before(e, f)}
    <3>1. Reconfigures \subseteq Events /\ Reconfigures' \subseteq Events
      BY DEF Reconfigures, Emitted
    <3> QED
      BY <3>1, <2>3, <2>4
  <2>6. EpochOf(e)' = EpochOf(e)
    BY <2>5 DEF EpochOf, Before
  <2> QED
    BY <1>5, <2>2, <2>3, <2>6, <1>2 DEF Applied
<1>6. ASSUME NEW l \in Int, l <= Latest
       PROVE  /\ <<l, 1>> \in Emitted' => <<l, 1>> \in Emitted
              /\ <<l, 1>> \in Reconfigures' => <<l, 1>> \in Reconfigures
              /\ Applied(<<l, 1>>) /\ <<l, 1>> \in Reconfigures => Applied(<<l, 1>>)'
  <2>1. Emitted \subseteq Events /\ Emitted' \subseteq Events
    BY DEF Emitted
  <2>2. Reconfigures \subseteq Events /\ Reconfigures' \subseteq Events
    BY <2>1 DEF Reconfigures
  <2> QED
    BY <2>1, <2>2, <1>5, <1>6
<1>7. Start' = Start /\ Start \in Int
  BY <1>2, <1>3, StartInt DEF Start
<1>8. \A l : (InGap(l)' <=> InGap(l)) /\ (ToRecord(l)' <=> ToRecord(l))
  BY <1>2 DEF InGap, ToRecord
<1>9. Shape'
  BY <1>2, <1>3, <1>4 DEF Shape, Paging
<1>10. Promised'
  <2> SUFFICES ASSUME Paging PROVE Promised'
    BY <1>2 DEF Promised, Paging
  <2>1. mem[Live].to \in Int
    BY <1>3 DEF Shape
  <2>2. ASSUME NEW l \in Start..mem[Live].to
        PROVE  /\ l \in Int /\ l <= Latest'
               /\ <<l, 1>> \in Emitted' =>
                    <<l, 1>> \in events \cup mem[Live].todo \/ InGap(l) \/ ToRecord(l)
               /\ <<l, 1>> \in Reconfigures' =>
                    Applied(<<l, 1>>)' \/ <<l, 1>> \in mem[Live].todo \/ InGap(l) \/ ToRecord(l)
    <3>1. /\ l <= Latest
          /\ <<l, 1>> \in Emitted =>
               <<l, 1>> \in events \cup mem[Live].todo \/ InGap(l) \/ ToRecord(l)
          /\ <<l, 1>> \in Reconfigures =>
               Applied(<<l, 1>>) \/ <<l, 1>> \in mem[Live].todo \/ InGap(l) \/ ToRecord(l)
      BY DEF IInv, Promised
    <3>2. l \in Int /\ l <= Latest'
      BY <1>4, <1>7, <2>1, <3>1
    <3> QED
      BY <1>6, <3>1, <3>2
  <2>3. /\ mem[Live].to >= Start - 1
        /\ at[Live] = "cursor" => mem[Live].todo = {}
        /\ at[Live] = "gap" => mem[Live].gap \in Int \X Int
        /\ at[Live] = "apply" => First(mem[Live].todo) \in events
    BY DEF IInv, Promised
  <2> QED
    BY <2>2, <2>3, <1>2, <1>7, <1>8 DEF Promised
<1>11. CursorClosed' /\ LedgersSeen' /\ EpochFollows'
  <2>1. ASSUME NEW l \in Genesis..Start - 1
        PROVE  /\ l \in Int /\ l <= Latest /\ l <= Latest'
               /\ <<l, 1>> \in Emitted' => <<l, 1>> \in events \/ InGap(l)
    BY <1>4, <1>6, <1>7, IndexerAssumption DEF IInv, CursorClosed, LedgersSeen
  <2>2. ASSUME NEW e \in Reconfigures', Genesis <= e[1], e[1] < Start,
               epoch < EpochOf(e)'
        PROVE  InGap(e[1]) \/ CutOff(e)'
    <3>1. e \in Events /\ e[1] \in Int
      BY IndexerAssumption DEF Reconfigures, Emitted, Events, Ledgers
    <3>2. e[1] <= Latest
      <4>1. e[1] \in Genesis..Start - 1
        BY <3>1, <2>2, <1>7, IndexerAssumption
      <4> QED
        BY <4>1, <2>1
    <3>3. e \in Reconfigures /\ EpochOf(e)' = EpochOf(e)
      BY <3>1, <3>2, <1>5
    <3>4. InGap(e[1]) \/ CutOff(e)
      BY <3>3, <2>2 DEF IInv, EpochFollows
    <3>5. Emitted \subseteq Emitted'
      <4> SUFFICES ASSUME NEW f \in Emitted PROVE f \in Emitted'
        OBVIOUS
      <4>1. f \in Events /\ f[1] <= Latest
        BY DEF Emitted
      <4> QED
        BY <4>1, <1>5
    <3> QED
      BY <3>4, <3>5, <1>2, CutOffStays
  <2> QED
    BY <2>1, <2>2, <1>2, <1>7, <1>8 DEF CursorClosed, LedgersSeen, EpochFollows
<1>12. CutPromised'
  <2> SUFFICES ASSUME Paging PROVE CutPromised'
    BY <1>2 DEF CutPromised, Paging
  <2> DEFINE B == Between(Start, mem[Live].to)
  <2>1. mem[Live].to \in Int
    BY <1>3 DEF Shape
  <2>2. ASSUME NEW e \in Events, Start <= e[1], e[1] <= mem[Live].to
        PROVE  e[1] <= Latest
    <3>1. e[1] \in Start..mem[Live].to
      BY <2>1, <2>2, <1>7, IndexerAssumption DEF Events, Ledgers
    <3> QED
      BY <3>1 DEF IInv, Promised
  <2>3. Between(Start, mem[Live].to)' = B
    BY <2>2, <1>2, <1>5, <1>7 DEF Between, Emitted
  <2>4. \A e \in B : e \in Events /\ e[1] <= Latest
    BY <2>2 DEF Between, Emitted
  <2> HIDE DEF B
  <2>5. \A e \in B : (e \in Reconfigures' => e \in Reconfigures) /\ (Applied(e) => Applied(e)')
    BY <2>4, <1>5
  <2>6. \A e \in B \cap mem[Live].todo : e \in mem'[Live].todo
    BY <1>2
  <2>7. B = Between(Start, mem[Live].to)
    BY DEF B
  <2> QED
    BY <2>3, <2>5, <2>6, <2>7, <1>2, <1>7, <1>8, CutStays DEF IInv
<1> QED
  BY <1>9, <1>10, <1>11, <1>12 DEF IInv

-----------------------------------------------------------------------------
(* The steps that leave the loop's page alone, or give it up *)

\* A request's step in a backfill touches nothing the loop relies on.
LEMMA RequestKeeps ==
  ASSUME IInv, NEW t \in Requests,
         Backfill(t) \/ RecordGap(t) \/ Insert(t) \/ Apply(t)
  PROVE  IInv' /\ cursor' = cursor
<1>1. t \in Tasks /\ Live \in Tasks \ {t} /\ Shape
  BY LiveIsTask DEF IInv
<1>2. /\ chain' = chain /\ cursor' = cursor /\ oldest' = oldest
      /\ events \subseteq events' /\ gaps \subseteq gaps'
      /\ epoch' = epoch \/ \E e : epoch' = Larger(epoch, EpochOf(e))
  BY DEF Backfill, Fetch, RecordGap, Insert, Apply, ledgers, tables
<1>3. \/ \E m : Await(t, "gap", m) \/ Await(t, "apply", m)
      \/ \E m : Proceed(t, m)
  BY DEF Backfill, Fetch, RecordGap, Insert, Apply
<1>4. /\ at' \in [Tasks -> Calls] /\ DOMAIN mem' = Tasks
      /\ at'[Live] = at[Live] /\ mem'[Live] = mem[Live]
  BY <1>1, <1>3, AwaitTask, ProceedTask DEF Calls
<1>5. oldest' \in Int /\ epoch' \in Int /\ epoch' >= epoch
  BY <1>1, <1>2, EpochOfNat DEF Shape, Larger
<1> QED
  BY <1>2, <1>4, <1>5, Keeps

\* A task that reconciles, fails or gives up a tick is at no page afterwards.
LEMMA OffPageKeeps ==
  ASSUME IInv, NEW t \in Tasks,
         ReadChain(t) \/ Compare(t) \/ Fail(t) \/ (t = Live /\ ChainUnread)
  PROVE  IInv' /\ cursor' = cursor
<1>1. Shape
  BY DEF IInv
<1>2. UNCHANGED <<chain, cursor, oldest, events, gaps, epoch>>
  BY DEF ReadChain, Compare, Fail, ChainUnread, ledgers, tables
<1>3. \E m : Await(t, "compare", m) \/ Await(t, "idle", m)
  BY DEF ReadChain, Compare, Fail, ChainUnread, Finish
<1>4. /\ at' \in [Tasks -> Calls] /\ DOMAIN mem' = Tasks
      /\ at'[t] \in {"compare", "idle"}
      /\ Live # t => at'[Live] = at[Live] /\ mem'[Live] = mem[Live]
  BY <1>1, <1>3, AwaitTask, LiveIsTask DEF Calls
<1>5. Paging' => at'[Live] = at[Live] /\ mem'[Live] = mem[Live]
  BY <1>4 DEF Paging
<1>6. oldest' \in Int /\ epoch' \in Int /\ epoch' >= epoch
  BY <1>1, <1>2 DEF Shape
<1> QED
  BY <1>2, <1>4, <1>5, <1>6, Keeps

\* What the process had in memory is lost, and the cursor has not moved.
LEMMA CrashKeeps ==
  ASSUME IInv, Crash
  PROVE  IInv' /\ cursor' = cursor
<1>1. /\ UNCHANGED <<chain, cursor, oldest, events, gaps, epoch>>
      /\ at' \in [Tasks -> Calls] /\ DOMAIN mem' = Tasks
      /\ at'[Live] = "idle"
  BY LiveIsTask DEF Crash, ledgers, tables, Calls
<1>2. oldest' \in Int /\ ~Paging' /\ epoch' \in Int /\ epoch' >= epoch
  BY <1>1 DEF IInv, Shape, Paging
<1> QED
  BY <1>1, <1>2, Keeps

\* Pruning never touches what is already indexed.
LEMMA PruneKeeps ==
  ASSUME IInv, Prune \/ UNCHANGED vars
  PROVE  IInv' /\ cursor' = cursor
<1>1. /\ UNCHANGED <<chain, cursor, events, gaps, epoch, at, mem>>
      /\ oldest' = oldest + 1 \/ oldest' = oldest
  BY DEF Prune, vars, ledgers, tables, tasks
<1>2. /\ oldest' \in Int /\ at' \in [Tasks -> Calls] /\ DOMAIN mem' = Tasks
      /\ epoch' \in Int /\ epoch' >= epoch
  BY <1>1 DEF IInv, Shape
<1> QED
  BY <1>1, <1>2, Keeps

-----------------------------------------------------------------------------
(***************************************************************************)
(* Types.  What a statement writes was put into its task's memory steps    *)
(* before: TypeOK is inductive only together with what the tasks keep, and *)
(* with the bound on the chain's epoch, which the events carry.            *)
(***************************************************************************)

Onpage == {"gap", "insert", "apply", "cursor"}

\* The memory of a backfill or of a tick.
PageMem == [todo : SUBSET Emitted, to : Nat \cup {None}, gap : (Ledgers \X Ledgers) \cup {None}]

\* What a task keeps fits the call it is about to make.
Kept(t) ==
  /\ at[t] \in Onpage => mem[t] \in PageMem /\ (t = Live => mem[t].to \in Nat)
  /\ at[t] \in {"insert", "apply"} => mem[t].todo # {}
  /\ at[t] = "apply" => First(mem[t].todo) \in Reconfigures
  /\ at[t] = "gap" => mem[t].gap \in Ledgers \X Ledgers /\ mem[t].gap[1] <= mem[t].gap[2]
  /\ at[t] = "cursor" => t = Live
  /\ at[t] = "compare" => mem[t].onchain \in Epochs

TypeInv == TypeOK /\ ChainEpoch <= MaxEpoch /\ \A t \in Tasks : Kept(t)

LEMMA ReconfiguresFinite ==
  /\ IsFiniteSet(Reconfigures) /\ ChainEpoch \in Nat
  /\ \A e : EpochOf(e) \in Nat /\ EpochOf(e) <= ChainEpoch
<1>1. Reconfigures \in SUBSET Events
  BY DEF Reconfigures, Emitted
<1>2. IsFiniteSet(Reconfigures)
  BY <1>1, EventsFinite, FS_Subset
<1>3. ASSUME NEW e
      PROVE  EpochOf(e) \in Nat /\ EpochOf(e) <= ChainEpoch
  <2>1. {f \in Reconfigures : ~Before(e, f)} \in SUBSET Reconfigures
    OBVIOUS
  <2> QED
    BY <2>1, <1>2, FS_Subset, EpochOfNat DEF EpochOf, ChainEpoch
<1> QED
  BY <1>2, <1>3, FS_CardinalityType DEF ChainEpoch

\* The next event of a page is one of its events.
LEMMA FirstOfPage ==
  ASSUME NEW S \in SUBSET Events, S # {}
  PROVE  First(S) \in S
<1>1. \E e \in S : \A f \in S : ~Before(f, e)
  BY EarliestEvent
<1> QED
  BY <1>1 DEF First

\* A task that does not move keeps what it has, as the chain only grows.
LEMMA KeptStays ==
  ASSUME NEW t, Kept(t), at'[t] = at[t], mem'[t] = mem[t],
         Emitted \subseteq Emitted', Reconfigures \subseteq Reconfigures'
  PROVE  Kept(t)'
<1>1. First(mem'[t].todo) = First(mem[t].todo)
  BY DEF First
<1>2. First(mem[t].todo)' = First(mem'[t].todo)
  BY DEF First, Before
<1> QED
  BY <1>1, <1>2 DEF Kept, PageMem, Onpage, Ledgers, Epochs

\* A task that goes idle, or goes on with m, keeps what it needs.
LEMMA AwaitKeeps ==
  ASSUME Shape, TypeInv, chain' = chain, NEW t \in Tasks,
         NEW c \in Calls, NEW m, Await(t, c, m),
         c \in Onpage => m \in PageMem /\ (t = Live => m.to \in Nat),
         c \in {"insert", "apply"} => m.todo # {},
         c = "apply" => First(m.todo) \in Reconfigures,
         c = "gap" => m.gap \in Ledgers \X Ledgers /\ m.gap[1] <= m.gap[2],
         c = "cursor" => t = Live,
         c = "compare" => m.onchain \in Epochs
  PROVE  /\ at' \in [Tasks -> Calls] /\ (ChainEpoch <= MaxEpoch)'
         /\ \A u \in Tasks : Kept(u)'
<1>1. /\ at' \in [Tasks -> Calls]
      /\ at'[t] = c /\ mem'[t] = m
      /\ \A u \in Tasks \ {t} : at'[u] = at[u] /\ mem'[u] = mem[u]
  BY AwaitTask
<1>2. Emitted' = Emitted /\ Reconfigures' = Reconfigures
  BY ChainSame
<1>3. \A u \in Tasks \ {t} : Kept(u)'
  BY <1>1, <1>2, KeptStays DEF TypeInv
<1>4. Kept(t)'
  <2>1. First(m.todo) = First(mem[t].todo)'
    BY <1>1 DEF First, Before
  <2> QED
    BY <1>1, <1>2, <2>1 DEF Kept, PageMem, Onpage, Ledgers, Epochs
<1> QED
  BY <1>1, <1>2, <1>3, <1>4 DEF TypeInv, ChainEpoch

LEMMA ProceedKeeps ==
  ASSUME Shape, TypeInv, chain' = chain, NEW t \in Tasks, NEW m \in PageMem,
         t = Live => m.to \in Nat, Proceed(t, m)
  PROVE  /\ at' \in [Tasks -> Calls] /\ (ChainEpoch <= MaxEpoch)'
         /\ \A u \in Tasks : Kept(u)'
<1>1. CASE m.todo # {} /\ Await(t, "insert", m)
  BY <1>1, AwaitKeeps DEF Calls, Onpage
<1>2. CASE t = Live /\ Await(t, "cursor", m)
  BY <1>2, AwaitKeeps DEF Calls, Onpage
<1>3. CASE Await(t, "idle", None)
  BY <1>3, AwaitKeeps DEF Calls, Onpage
<1> QED
  BY <1>1, <1>2, <1>3 DEF Proceed, Finish

\* The answer of getEvents: a page of events, and a gap inside the bounds.
LEMMA FetchTypes ==
  ASSUME IInv, TypeInv, NEW t \in Tasks, NEW from \in Nat \ {0},
         NEW seen \in oldest..Latest, Fetch(t, from, seen)
  PROVE  TypeInv'
<1> DEFINE page == Page(from, seen)
           to == ToLedger(page, from, seen)
           m == [todo |-> page,
                 to   |-> IF t = Live THEN to ELSE None,
                 gap  |-> IF PastRetention(from) THEN <<from, oldest - 1>> ELSE None]
<1>1. /\ UNCHANGED <<chain, oldest, cursor, events, gaps, epoch, alerts, ticks, faults>>
      /\ IF PastRetention(from) THEN Await(t, "gap", m) ELSE Proceed(t, m)
  BY DEF Fetch, ledgers, tables
<1>2. page \subseteq Emitted
  BY PagePrefix DEF Served
<1>3. to \in Nat
  <2>1. to \in Int /\ to >= from - 1
    BY PagePromise DEF IInv, Shape
  <2> HIDE DEF to
  <2> QED
    BY <2>1
<1> HIDE DEF page, to
<1>4. PastRetention(from) =>
        from \in Ledgers /\ oldest - 1 \in Ledgers /\ from <= oldest - 1
  BY IndexerAssumption DEF PastRetention, TypeInv, TypeOK, Ledgers
<1>5. /\ m \in PageMem /\ (t = Live => m.to \in Nat)
      /\ PastRetention(from) => m.gap \in Ledgers \X Ledgers /\ m.gap[1] <= m.gap[2]
  BY <1>2, <1>3, <1>4 DEF PageMem
<1> HIDE DEF m
<1>6. at' \in [Tasks -> Calls] /\ (ChainEpoch <= MaxEpoch)' /\ \A u \in Tasks : Kept(u)'
  BY <1>1, <1>5, AwaitKeeps, ProceedKeeps DEF IInv, Calls, Onpage
<1> QED
  BY <1>1, <1>6, ChainSame DEF TypeInv, TypeOK, Calls, Ledgers, Epochs, Latest

\* The statements of a page, of the loop and of a backfill.
LEMMA WriteTypes ==
  ASSUME IInv, TypeInv, NEW t \in Tasks, RecordGap(t) \/ Insert(t) \/ Apply(t)
  PROVE  TypeInv'
<1>1. /\ mem[t] \in PageMem /\ (t = Live => mem[t].to \in Nat) /\ Shape
      /\ UNCHANGED <<chain, oldest, cursor, alerts, ticks, faults>>
  BY DEF TypeInv, Kept, Onpage, IInv, RecordGap, Insert, Apply, ledgers
<1> DEFINE e == First(mem[t].todo)
           rest == [mem[t] EXCEPT !.todo = @ \ {e}]
<1>2. rest \in PageMem /\ (t = Live => rest.to \in Nat)
  BY <1>1 DEF PageMem
<1>3. at[t] \in {"insert", "apply"} => e \in Emitted /\ mem[t].todo # {}
  <2>1. mem[t].todo \in SUBSET Events
    BY <1>1 DEF PageMem, Emitted
  <2> QED
    BY <1>1, <2>1, FirstOfPage DEF TypeInv, Kept, PageMem
<1>4. CASE RecordGap(t)
  <2> DEFINE m == [mem[t] EXCEPT !.gap = None]
  <2>1. m \in PageMem /\ (t = Live => m.to \in Nat)
    BY <1>1 DEF PageMem
  <2>2. /\ at[t] = "gap" /\ Proceed(t, m)
        /\ gaps' = gaps \cup {mem[t].gap} /\ UNCHANGED <<events, epoch>>
    BY <1>4 DEF RecordGap
  <2>3. mem[t].gap \in Ledgers \X Ledgers /\ mem[t].gap[1] <= mem[t].gap[2]
    BY <2>2 DEF TypeInv, Kept
  <2> HIDE DEF m
  <2>4. at' \in [Tasks -> Calls] /\ (ChainEpoch <= MaxEpoch)' /\ \A u \in Tasks : Kept(u)'
    BY <1>1, <2>1, <2>2, ProceedKeeps
  <2> QED
    BY <1>1, <2>2, <2>3, <2>4, ChainSame DEF TypeInv, TypeOK, Calls, Ledgers, Epochs, Latest
<1>5. CASE Insert(t)
  <2>1. /\ at[t] = "insert" /\ events' = events \cup {e} /\ UNCHANGED <<gaps, epoch>>
        /\ IF e \in Reconfigures THEN Await(t, "apply", mem[t]) ELSE Proceed(t, rest)
    BY <1>5 DEF Insert
  <2> HIDE DEF rest
  <2>2. at' \in [Tasks -> Calls] /\ (ChainEpoch <= MaxEpoch)' /\ \A u \in Tasks : Kept(u)'
    BY <1>1, <1>2, <1>3, <2>1, AwaitKeeps, ProceedKeeps DEF Calls, Onpage
  <2> QED
    BY <1>1, <1>3, <2>1, <2>2, ChainSame DEF TypeInv, TypeOK, Calls, Ledgers, Epochs, Latest
<1>6. CASE Apply(t)
  <2>1. /\ at[t] = "apply" /\ epoch' = Larger(epoch, EpochOf(e)) /\ UNCHANGED <<events, gaps>>
        /\ Proceed(t, rest)
    BY <1>6 DEF Apply
  <2>2. epoch' \in Epochs
    BY <2>1, ReconfiguresFinite, IndexerAssumption DEF TypeInv, TypeOK, Epochs, Larger
  <2> HIDE DEF rest
  <2>3. at' \in [Tasks -> Calls] /\ (ChainEpoch <= MaxEpoch)' /\ \A u \in Tasks : Kept(u)'
    BY <1>1, <1>2, <2>1, ProceedKeeps
  <2> QED
    BY <1>1, <2>1, <2>2, <2>3, ChainSame DEF TypeInv, TypeOK, Calls, Ledgers, Epochs, Latest
<1> QED
  BY <1>4, <1>5, <1>6

\* setCursor, the reconciliation, and a failing statement.
LEMMA OffPageTypes ==
  ASSUME IInv, TypeInv, NEW t \in Tasks,
         (t = Live /\ (SetCursor \/ ChainUnread)) \/ ReadChain(t) \/ Compare(t) \/ Fail(t)
  PROVE  TypeInv'
<1> DEFINE Ok == at' \in [Tasks -> Calls] /\ (ChainEpoch <= MaxEpoch)' /\ \A u \in Tasks : Kept(u)'
<1>1. Shape
  BY DEF IInv
<1>2. CASE t = Live /\ SetCursor
  <2>1. /\ UNCHANGED <<chain, oldest, events, gaps, epoch, alerts, faults>>
        /\ at[Live] = "cursor" /\ cursor' = mem[Live].to
        /\ ticks' = (ticks + 1) % ReconcileEvery
        /\ Await(Live, "read", None) \/ Await(Live, "idle", None)
    BY <1>2 DEF SetCursor, ledgers, Finish
  <2>2. cursor' \in Nat
    BY <1>2, <2>1 DEF TypeInv, Kept, Onpage
  <2>3. ticks' \in 0..ReconcileEvery - 1
    BY <2>1, IndexerAssumption DEF TypeInv, TypeOK
  <2>4. Ok
    BY <1>1, <1>2, <2>1, AwaitKeeps DEF Calls, Onpage
  <2> QED
    BY <2>1, <2>2, <2>3, <2>4, ChainSame DEF TypeInv, TypeOK, Calls, Ledgers, Epochs, Latest
<1>3. CASE ReadChain(t)
  <2> DEFINE m == [onchain |-> ChainEpoch]
  <2>1. UNCHANGED <<chain, oldest, cursor, events, gaps, epoch, alerts, ticks, faults>>
        /\ Await(t, "compare", m)
    BY <1>3 DEF ReadChain, ledgers, tables
  <2>2. m.onchain \in Epochs
    BY ReconfiguresFinite, IndexerAssumption DEF TypeInv, Epochs
  <2> HIDE DEF m
  <2>3. Ok
    BY <1>1, <2>1, <2>2, AwaitKeeps DEF Calls, Onpage
  <2> QED
    BY <2>1, <2>3, ChainSame DEF TypeInv, TypeOK, Calls, Ledgers, Epochs, Latest
<1>4. CASE Compare(t)
  <2>1. /\ UNCHANGED <<chain, oldest, cursor, events, gaps, epoch, ticks, faults>>
        /\ Await(t, "idle", None) /\ at[t] = "compare"
        /\ alerts' \subseteq alerts \cup {[indexed |-> epoch, onchain |-> mem[t].onchain]}
    BY <1>4 DEF Compare, ledgers, Finish
  <2>2. mem[t].onchain \in Epochs /\ epoch \in Epochs
    BY <2>1 DEF TypeInv, TypeOK, Kept
  <2>3. alerts' \subseteq [indexed : Epochs, onchain : Epochs]
    BY <2>1, <2>2 DEF TypeInv, TypeOK
  <2>4. Ok
    BY <1>1, <2>1, AwaitKeeps DEF Calls, Onpage
  <2> QED
    BY <2>1, <2>3, <2>4, ChainSame DEF TypeInv, TypeOK, Calls, Ledgers, Epochs, Latest
<1>5. CASE (t = Live /\ ChainUnread) \/ Fail(t)
  <2>1. /\ UNCHANGED <<chain, oldest, cursor, events, gaps, epoch, alerts, ticks>>
        /\ Await(t, "idle", None)
        /\ faults' = faults \/ (faults < MaxFaults /\ faults' = faults + 1)
    BY <1>5 DEF ChainUnread, Fail, ledgers, tables, Finish
  <2>2. faults' \in 0..MaxFaults
    BY <2>1, IndexerAssumption DEF TypeInv, TypeOK
  <2>3. Ok
    BY <1>1, <2>1, AwaitKeeps DEF Calls, Onpage
  <2> QED
    BY <2>1, <2>2, <2>3, ChainSame DEF TypeInv, TypeOK, Calls, Ledgers, Epochs, Latest
<1> QED
  BY <1>2, <1>3, <1>4, <1>5

\* A new ledger adds its own Reconfigured events to the chain's epoch.
LEMMA CloseLedgerTypes ==
  ASSUME IInv, TypeInv, CloseLedger
  PROVE  TypeInv'
<1>0. PICK n \in 0..MaxEvents - Cardinality(Emitted) : \E kinds \in [1..n -> Kinds] :
        /\ ChainEpoch + Cardinality({i \in 1..n : kinds[i] = "reconfigure"}) <= MaxEpoch
        /\ chain' = Append(chain, kinds)
  BY DEF CloseLedger, Kinds
<1>1. PICK kinds \in [1..n -> Kinds] :
        /\ ChainEpoch + Cardinality({i \in 1..n : kinds[i] = "reconfigure"}) <= MaxEpoch
        /\ chain' = Append(chain, kinds)
  BY <1>0
<1>2. /\ UNCHANGED <<oldest, cursor, events, gaps, epoch, alerts, at, mem, ticks, faults>>
      /\ Latest < MaxLedger
  BY DEF CloseLedger, tables, tasks
<1>3. n \in Nat
  <2>1. IsFiniteSet(Emitted)
    BY EventsFinite, FS_Subset DEF Emitted
  <2>2. MaxEvents - Cardinality(Emitted) \in Int
    BY <2>1, FS_CardinalityType, IndexerAssumption
  <2> QED
    BY <2>2
<1>4. kinds \in Seq(Kinds) /\ Len(kinds) = n
  BY <1>3
<1>5. chain \in Seq(Seq(Kinds))
  BY DEF IInv, Shape
<1>6. /\ chain' \in Seq(Seq(Kinds)) /\ Latest \in Nat /\ Latest' = Latest + 1
      /\ \A l \in 1..Latest : chain'[l] = chain[l]
      /\ chain'[Latest + 1] = kinds
  BY <1>1, <1>4, <1>5, AppendProperties, LenProperties DEF Latest
<1>7. \A e \in Events : e[1] \in Int /\ e[1] >= 1 /\ e[2] \in Int /\ e[2] >= 1 /\ e = <<e[1], e[2]>>
  BY IndexerAssumption DEF Events, Ledgers
<1>8. Emitted \subseteq Emitted' /\ Reconfigures \subseteq Reconfigures'
  <2>1. ASSUME NEW e \in Emitted
        PROVE  e \in Emitted' /\ chain'[e[1]] = chain[e[1]]
    <3>1. e \in Events /\ e[1] \in 1..Latest /\ e[2] <= Len(chain[e[1]])
      BY <2>1, <1>6, <1>7 DEF Emitted
    <3> QED
      BY <3>1, <1>6 DEF Emitted
  <2> QED
    BY <2>1 DEF Reconfigures
<1> DEFINE I == {i \in 1..n : kinds[i] = "reconfigure"}
           New == {<<Latest + 1, i>> : i \in I}
<1>9. Reconfigures' \subseteq Reconfigures \cup New
  <2> SUFFICES ASSUME NEW e \in Reconfigures', e \notin Reconfigures
               PROVE  e \in New
    OBVIOUS
  <2>1. /\ e \in Events /\ e[1] <= Latest + 1 /\ e[2] <= Len(chain'[e[1]])
        /\ chain'[e[1]][e[2]] = "reconfigure"
    BY <1>6 DEF Reconfigures, Emitted
  <2>2. e[1] \notin 1..Latest
    <3> SUFFICES ASSUME e[1] \in 1..Latest PROVE FALSE
      OBVIOUS
    <3>1. chain'[e[1]] = chain[e[1]] /\ e[1] <= Latest
      BY <1>6
    <3> QED
      BY <3>1, <2>1 DEF Reconfigures, Emitted
  <2>3. e[1] = Latest + 1
    BY <2>1, <2>2, <1>6, <1>7
  <2>4. e[2] \in I
    BY <2>1, <2>3, <1>3, <1>4, <1>6, <1>7
  <2> QED
    BY <2>1, <2>3, <2>4, <1>7
<1>10. IsFiniteSet(I) /\ IsFiniteSet(New) /\ Cardinality(New) <= Cardinality(I)
  <2>1. IsFiniteSet(I)
    BY <1>3, FS_Interval, FS_Subset
  <2> DEFINE f == [i \in I |-> <<Latest + 1, i>>]
  <2>2. f \in Surjection(I, New)
    BY DEF Surjection
  <2> QED
    BY <2>1, <2>2, FS_Surjection
<1>11. (ChainEpoch <= MaxEpoch)'
  <2> HIDE DEF I, New
  <2>1. /\ Cardinality(Reconfigures') <= Cardinality(Reconfigures \cup New)
        /\ IsFiniteSet(Reconfigures')
    BY <1>9, <1>10, ReconfiguresFinite, FS_Union, FS_Subset
  <2>2. Cardinality(Reconfigures \cup New) <= Cardinality(Reconfigures) + Cardinality(New)
    <3>1. IsFiniteSet(Reconfigures \cap New)
      BY ReconfiguresFinite, FS_Intersection
    <3>2. /\ Cardinality(Reconfigures) \in Nat /\ Cardinality(New) \in Nat
          /\ Cardinality(Reconfigures \cap New) \in Nat
      BY <3>1, <1>10, ReconfiguresFinite, FS_CardinalityType
    <3>3. Cardinality(Reconfigures \cup New) =
            Cardinality(Reconfigures) + Cardinality(New) - Cardinality(Reconfigures \cap New)
      BY <1>10, ReconfiguresFinite, FS_Union
    <3> QED
      BY <3>2, <3>3
  <2>3. Cardinality(Reconfigures) + Cardinality(I) <= MaxEpoch
    BY <1>1 DEF I, ChainEpoch
  <2>4. /\ Cardinality(I) \in Nat /\ Cardinality(New) \in Nat /\ Cardinality(Reconfigures) \in Nat
        /\ Cardinality(Reconfigures') \in Nat /\ Cardinality(Reconfigures \cup New) \in Nat
    BY <1>10, <2>1, ReconfiguresFinite, FS_Union, FS_CardinalityType
  <2>5. Cardinality(Reconfigures') <= MaxEpoch
    BY <2>1, <2>2, <2>3, <2>4, <1>10, IndexerAssumption
  <2> QED
    BY <2>5 DEF ChainEpoch
<1>12. \A t \in Tasks : Kept(t)'
  BY <1>2, <1>8, KeptStays DEF TypeInv
<1>13. TypeOK'
  <2> HIDE DEF I, New
  <2>1. chain' \in Seq(Seq({"plain", "reconfigure"})) /\ Latest' <= MaxLedger
    BY <1>2, <1>6, IndexerAssumption DEF Kinds
  <2>2. events' \subseteq Emitted'
    BY <1>2, <1>8 DEF TypeInv, TypeOK
  <2> QED
    BY <2>1, <2>2, <1>2 DEF TypeInv, TypeOK, Ledgers, Epochs
<1> QED
  BY <1>11, <1>12, <1>13 DEF TypeInv

\* Pruning, a crash, and steps in which nothing happens.
LEMMA OtherTypes ==
  ASSUME IInv, TypeInv, Prune \/ Crash \/ UNCHANGED vars
  PROVE  TypeInv'
<1>1. UNCHANGED <<chain, cursor, events, gaps, epoch, alerts>>
  BY DEF Prune, Crash, vars, ledgers, tables
<1>2. Emitted' = Emitted /\ Reconfigures' = Reconfigures /\ Latest' = Latest /\ Latest \in Nat
  BY <1>1, ChainSame, LenProperties DEF IInv, Shape, Latest
<1>3. CASE Prune \/ UNCHANGED vars
  <2>1. /\ UNCHANGED <<at, mem, ticks, faults>>
        /\ oldest' = oldest \/ (oldest < Latest /\ oldest' = oldest + 1)
    BY <1>3 DEF Prune, vars, ledgers, tables, tasks
  <2>2. oldest' \in Ledgers
    BY <1>2, <2>1, IndexerAssumption DEF TypeInv, TypeOK, Ledgers
  <2>3. \A t \in Tasks : Kept(t)'
    BY <1>2, <2>1, KeptStays DEF TypeInv
  <2> QED
    BY <1>1, <1>2, <2>1, <2>2, <2>3 DEF TypeInv, TypeOK, ChainEpoch, Ledgers, Epochs
<1>4. CASE Crash
  <2>1. /\ UNCHANGED oldest
        /\ at' = [t \in Tasks |-> "idle"]
        /\ ticks' = 0 /\ faults < MaxFaults /\ faults' = faults + 1
    BY <1>4 DEF Crash, ledgers
  <2>2. \A t \in Tasks : Kept(t)'
    BY <2>1 DEF Kept, Onpage
  <2>3. faults' \in 0..MaxFaults /\ ticks' \in 0..ReconcileEvery - 1
    BY <2>1, IndexerAssumption DEF TypeInv, TypeOK
  <2> QED
    BY <1>1, <1>2, <2>1, <2>2, <2>3 DEF TypeInv, TypeOK, ChainEpoch, Ledgers, Epochs
<1> QED
  BY <1>3, <1>4

LEMMA NextTypes ==
  ASSUME IInv, TypeInv, [Next]_vars
  PROVE  TypeInv'
<1>1. CASE RunOnce
  <2>1. Start \in Nat \ {0}
    BY IndexerAssumption DEF TypeInv, TypeOK, Start
  <2> QED
    BY <1>1, <2>1, FetchTypes, LiveIsTask DEF RunOnce
<1>2. ASSUME NEW t \in Tasks, Backfill(t)
      PROVE  TypeInv'
  BY <1>2, FetchTypes, IndexerAssumption DEF Backfill, Ledgers
<1>3. ASSUME NEW t \in Tasks, ReadChain(t) \/ Continue(t) \/ Fail(t)
      PROVE  TypeInv'
  BY <1>3, WriteTypes, OffPageTypes DEF Continue
<1>4. CASE ChainUnread
  BY <1>4, OffPageTypes, LiveIsTask
<1> QED
  BY <1>1, <1>2, <1>3, <1>4, CloseLedgerTypes, OtherTypes DEF Next

LEMMA InitTypes == Init => TypeInv
<1> SUFFICES ASSUME Init PROVE TypeInv
  OBVIOUS
<1>1. Latest = 0 /\ Emitted = {} /\ Reconfigures = {}
  <2>1. Latest = 0
    BY EmptySeq DEF Init, Latest
  <2>2. Emitted = {}
    BY <2>1, IndexerAssumption DEF Emitted, Events, Ledgers
  <2> QED
    BY <2>1, <2>2 DEF Reconfigures
<1>2. ChainEpoch = 0
  BY <1>1, FS_EmptySet DEF ChainEpoch
<1>3. TypeOK
  BY <1>1, IndexerAssumption, EmptySeq DEF Init, TypeOK, Ledgers, Epochs
<1>4. \A t \in Tasks : Kept(t)
  BY DEF Init, Kept, Onpage
<1> QED
  BY <1>2, <1>3, <1>4, IndexerAssumption DEF TypeInv

-----------------------------------------------------------------------------
(* The theorems *)

\* Every step keeps the invariant, and none moves the cursor back.
LEMMA NextKeeps ==
  ASSUME IInv, [Next]_vars
  PROVE  IInv' /\ Start' >= Start
<1>1. Start \in Int /\ (cursor' = cursor => Start' >= Start)
  BY StartInt DEF IInv, Start
<1>2. CASE RunOnce
  BY <1>1, <1>2, RunOnceKeeps DEF RunOnce, Fetch, tables
<1>3. ASSUME NEW t \in Tasks,
             Backfill(t) \/ ReadChain(t) \/ Continue(t) \/ Fail(t)
      PROVE  IInv' /\ Start' >= Start
  <2>1. CASE ReadChain(t) \/ Compare(t) \/ Fail(t)
    BY <2>1, <1>1, OffPageKeeps
  <2>2. CASE t \in Requests /\ (Backfill(t) \/ RecordGap(t) \/ Insert(t) \/ Apply(t))
    BY <2>2, <1>1, RequestKeeps
  <2>3. CASE RecordGap(Live) \/ Insert(Live) \/ Apply(Live)
    BY <2>3, <1>1, RecordGapKeeps, InsertKeeps, ApplyKeeps DEF RecordGap, Insert, Apply
  <2>4. CASE SetCursor
    BY <2>4, SetCursorKeeps
  <2> QED
    BY <1>3, <2>1, <2>2, <2>3, <2>4 DEF Continue, Backfill, Tasks
<1>4. CASE ChainUnread
  BY <1>4, <1>1, OffPageKeeps, LiveIsTask
<1>5. CASE Crash
  BY <1>5, <1>1, CrashKeeps
<1>6. CASE CloseLedger
  BY <1>6, <1>1, CloseLedgerKeeps DEF CloseLedger, tables
<1>7. CASE Prune \/ UNCHANGED vars
  BY <1>7, <1>1, PruneKeeps
<1> QED
  BY <1>2, <1>3, <1>4, <1>5, <1>6, <1>7 DEF Next

\* Only setCursor moves the cursor.
LEMMA OnlySetCursor ==
  ASSUME [Next]_vars, ~SetCursor
  PROVE  cursor' = cursor
<1>1. CASE RunOnce \/ ChainUnread \/ Crash
  BY <1>1 DEF RunOnce, ChainUnread, Crash, Fetch, tables
<1>2. ASSUME NEW t \in Tasks, Backfill(t) \/ ReadChain(t) \/ Fail(t)
      PROVE  cursor' = cursor
  BY <1>2 DEF Backfill, Fetch, ReadChain, Fail, tables
<1>3. ASSUME NEW t \in Tasks, Continue(t)
      PROVE  cursor' = cursor
  BY <1>3 DEF Continue, RecordGap, Insert, Apply, Compare
<1>4. CASE CloseLedger \/ Prune \/ UNCHANGED vars
  BY <1>4 DEF CloseLedger, Prune, vars, tables
<1> QED
  BY <1>1, <1>2, <1>3, <1>4 DEF Next

\* What setCursor passes and the tables lack was cut off a full page.
LEMMA SetCursorCut ==
  ASSUME IInv, SetCursor, NEW e \in Between(Start, Start' - 1), Lost(e), ~InGap(e[1])
  PROVE  /\ e[1] = cursor'
         /\ Cardinality({f \in Between(Start, cursor') \cap events : Before(f, e)})
              >= PageSize
<1>1. at[Live] = "cursor" /\ cursor' = mem[Live].to
  BY DEF SetCursor
<1>2. Shape /\ Paging /\ Start \in Int
  BY <1>1, StartInt DEF IInv, Paging
<1>3. /\ mem[Live].to \in Int /\ mem[Live].todo = {}
      /\ \A l : ~ToRecord(l)
  BY <1>1, <1>2 DEF IInv, Shape, Promised, ToRecord
<1>4. Start' - 1 = mem[Live].to
  BY <1>1, <1>3, IndexerAssumption DEF Start
<1>5. \/ e \in mem[Live].todo
      \/ e \in events /\ (e \in Reconfigures => Applied(e))
      \/ InGap(e[1]) \/ ToRecord(e[1])
      \/ e[1] = mem[Live].to /\ FullBefore(e)
  BY <1>2, <1>4 DEF IInv, CutPromised
<1>6. e \in Reconfigures /\ Applied(e) => ~(epoch < EpochOf(e))
  BY <1>2, EpochOfNat DEF Applied, Shape
<1>7. e[1] = mem[Live].to /\ FullBefore(e)
  BY <1>3, <1>5, <1>6 DEF Lost
<1> QED
  BY <1>1, <1>3, <1>7 DEF FullBefore

(***************************************************************************)
(* The inductive invariant holds whatever the size of a page, the number   *)
(* of requests and the faults: what the loop of indexer.ts:90-118 has in   *)
(* memory and in the tables covers every ledger it is about to pass.       *)
(***************************************************************************)
THEOREM InvariantHolds == Safe => []IInv
<1>1. IInv /\ [Next]_vars => IInv'
  BY NextKeeps
<1> QED
  BY <1>1, InitIInv, PTL DEF Safe

(***************************************************************************)
(* The tables keep their types: every event in indexed_events was emitted, *)
(* gaps are ranges, and the epochs written to accounts and to the alerts   *)
(* are epochs of the chain (indexer.ts:75-177).                            *)
(***************************************************************************)
THEOREM TypeCorrect == Safe => []TypeOK
<1>1. IInv /\ TypeInv /\ [Next]_vars => TypeInv'
  BY NextTypes
<1>2. TypeInv => TypeOK
  BY DEF TypeInv
<1> QED
  BY <1>1, <1>2, InitTypes, InvariantHolds, PTL DEF Safe

(***************************************************************************)
(* No ledger is passed in silence: a ledger with events behind the cursor  *)
(* is in indexed_events or in a recorded gap (indexer.ts:90-118).          *)
(***************************************************************************)
THEOREM NoSilentSkip == Safe => []LedgersSeen
<1>1. IInv => LedgersSeen
  BY DEF IInv
<1> QED
  BY <1>1, InvariantHolds, PTL

(***************************************************************************)
(* Every Reconfigured event behind the cursor has been applied to the      *)
(* accounts row, is in a recorded gap, or was cut off a full page: not the *)
(* first event of its ledger, with a page of indexed events before it      *)
(* (indexer.ts:90-118).                                                    *)
(***************************************************************************)
THEOREM ReplayApplies == Safe => []EpochFollows
<1>1. IInv => EpochFollows
  BY DEF IInv
<1> QED
  BY <1>1, InvariantHolds, PTL

(***************************************************************************)
(* The cursor never moves back (indexer.ts:117-118).                       *)
(***************************************************************************)
THEOREM CursorNeverBack == Safe => NeverBack
<1>1. IInv /\ [Next]_vars => [Start' >= Start]_vars
  BY NextKeeps
<1> QED
  BY <1>1, InvariantHolds, PTL DEF Safe, NeverBack

(***************************************************************************)
(* A page loses at most what it had no room for: every event setCursor     *)
(* passes is in the tables or in a recorded gap, save those of the last    *)
(* ledger of a full page that come after its events (indexer.ts:90-118).   *)
(***************************************************************************)
THEOREM OnlyTheCutIsLost == Safe => LosesOnlyTheCut
<1> DEFINE Cut == \A e \in Between(Start, Start' - 1) : Lost(e) /\ ~InGap(e[1]) =>
                    /\ e[1] = cursor'
                    /\ Cardinality({f \in Between(Start, cursor') \cap events :
                                      Before(f, e)}) >= PageSize
<1>1. ASSUME IInv, [Next]_vars PROVE Cut
  <2>1. CASE SetCursor
    BY <1>1, <2>1, SetCursorCut
  <2>2. CASE ~SetCursor
    <3>1. Start' = Start /\ Start \in Int
      BY <1>1, <2>2, OnlySetCursor, StartInt DEF IInv, Start
    <3>2. Between(Start, Start - 1) = {}
      BY <3>1, IndexerAssumption DEF Between, Emitted, Events, Ledgers
    <3> QED
      BY <3>1, <3>2
  <2> QED
    BY <2>1, <2>2
<1>2. IInv /\ [Next]_vars => [Cut]_vars
  BY <1>1
<1> QED
  BY <1>2, InvariantHolds, PTL DEF Safe, LosesOnlyTheCut
=============================================================================
