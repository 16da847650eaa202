------------------------------- MODULE Timeline -------------------------------
(***************************************************************************)
(* What the indexer's readers see: timeline and proposalHistory of         *)
(* src/services/indexer/src/queries.ts over indexed_events, while the loop *)
(* and backfills fill the table.  One account; a client exports its        *)
(* timeline page by page, "to genesis" (docs/indexer.md:69), the way the   *)
(* routes of main.ts:64-77 let it: by the ledger of the last entry it got. *)
(*                                                                         *)
(* Rows with the same ledger and event index come in any order, as the     *)
(* queries order by nothing else.                                          *)
(***************************************************************************)
EXTENDS Integers, Sequences, FiniteSets

CONSTANTS
  Ids,        \* proposal ids on the account's queue path
  Limit,      \* limit of a timeline page
  MaxLedger,  \* bound: last ledger of a behaviour
  MaxEvents,  \* bound: events of the account in a behaviour
  None

ASSUME TimelineAssumption ==
  /\ {Limit, MaxLedger} \subseteq Nat \ {0}
  /\ MaxEvents \in Nat
  /\ None \notin Ids /\ None \notin Int

Lifecycle == {"propose", "approve", "reject", "cancel", "execute"}

VARIABLES
  chain,  \* the account's events in the order of the chain
  table,  \* positions in chain that are in indexed_events
  phase,  \* the export: "idle", "reading" or "done"
  before, \* the ledger the next page is read before, None for the first
  got,    \* positions the client has received
  owed,   \* positions in the table when the export began
  cut     \* every value before has had

export == <<phase, before, got, owed, cut>>
vars == <<chain, table, export>>

\* An event's index is its position within its transaction.
Event == [ledger : 1..MaxLedger, tx : 1..MaxEvents, index : 0..MaxEvents,
          kind : Lifecycle \cup {"other"}, id : Ids \cup {None}]

TypeOK ==
  /\ chain \in Seq(Event) /\ Len(chain) <= MaxEvents
  /\ table \subseteq DOMAIN chain
  /\ phase \in {"idle", "reading", "done"}
  /\ before \in 1..MaxLedger \cup {None}
  /\ got \subseteq table /\ owed \subseteq table
  /\ cut \subseteq 1..MaxLedger

Init ==
  /\ chain = << >>
  /\ table = {}
  /\ phase = "idle"
  /\ before = None
  /\ got = {} /\ owed = {} /\ cut = {}

-----------------------------------------------------------------------------
(* The queries *)

\* order by ledger desc, event_index desc: e comes strictly before f.
Newer(e, f) ==
  \/ chain[e].ledger > chain[f].ledger
  \/ chain[e].ledger = chain[f].ledger /\ chain[e].index > chain[f].index

\* What a page may be, when rows satisfy the where clause.
Pages(rows) ==
  {page \in SUBSET rows :
    /\ Cardinality(page) = IF Cardinality(rows) < Limit THEN Cardinality(rows) ELSE Limit
    /\ \A e \in page, f \in rows \ page : ~Newer(f, e)}

\* A slip: where ledger <= before, so as not to miss the rest of a ledger.
OlderOrSame(b) == {e \in table : b # None => chain[e].ledger <= b}

\* A slip: where ledger < before - 1.
OlderByTwo(b) == {e \in table : b # None => chain[e].ledger < b - 1}

\* A slip: the next page is asked for with the ledger before the oldest one.
OneBelow(page) ==
  CHOOSE l \in 0..MaxLedger :
    /\ \A e \in page : l < chain[e].ledger
    /\ \E e \in page : l + 1 = chain[e].ledger

\* The before parameter that continues after a page: its oldest ledger.
NextBefore(page) ==
  CHOOSE l \in {chain[e].ledger : e \in page} : \A e \in page : l <= chain[e].ledger

\* where ledger < before.
Older(b) == {e \in table : b # None => chain[e].ledger < b}

\* statusAfter: an event that does not decide the status leaves it alone.
StatusAfter == [propose |-> "open", execute |-> "executed",
                cancel |-> "cancelled", reject |-> "rejected"]
Deciding(rows, id) ==
  {e \in rows : chain[e].id = id /\ chain[e].kind \in DOMAIN StatusAfter}

\* A slip: the history is read in the order in which rows were found.
AnyDeciding(id) ==
  {StatusAfter[chain[e].kind] : e \in Deciding(table, id)}

\* The statuses proposalHistory may derive: that of the last deciding event in
\* the order of the query, "open" when there is none.  (A proposal without any
\* row is not listed.)
Derived(id) ==
  LET rows == Deciding(table, id)
  IN IF rows = {} THEN {"open"}
     ELSE {StatusAfter[chain[e].kind] :
             e \in {r \in rows : \A f \in rows : ~Newer(f, r)}}

-----------------------------------------------------------------------------
(* The chain (external) *)

Kinds(id) == {chain[i].kind : i \in {j \in DOMAIN chain : chain[j].id = id}}

\* A proposal is proposed once, and nothing follows its execution or
\* cancellation.
MayEmit(kind, id) ==
  IF kind = "propose" THEN Kinds(id) = {}
  ELSE "propose" \in Kinds(id) /\ Kinds(id) \cap {"execute", "cancel"} = {}

\* The next event comes from the transaction of the last one, or from a later
\* transaction in the same or a later ledger.
Places ==
  IF chain = << >> THEN {[ledger |-> 1, tx |-> 1, index |-> 0]}
  ELSE LET last == chain[Len(chain)]
       IN {[ledger |-> last.ledger, tx |-> last.tx, index |-> last.index + 1]}
          \cup {[ledger |-> l, tx |-> last.tx + 1, index |-> 0] :
                  l \in {last.ledger, last.ledger + 1} \cap 1..MaxLedger}

Emit(kind, id) ==
  /\ Len(chain) < MaxEvents
  /\ \E p \in Places :
       chain' = Append(chain, [ledger |-> p.ledger, tx |-> p.tx, index |-> p.index,
                               kind |-> kind, id |-> id])
  /\ UNCHANGED <<table, export>>

-----------------------------------------------------------------------------
(* The loop and backfills: indexer.ts:103-113 *)

\* A row is inserted.  Backfills start anywhere, so rows come in any order.
Ingest(e) ==
  /\ e \notin table
  /\ table' = table \cup {e}
  /\ UNCHANGED <<chain, export>>

-----------------------------------------------------------------------------
(* The client of GET /accounts/:a/timeline *)

BeginExport ==
  /\ phase = "idle"
  /\ phase' = "reading"
  /\ owed' = table
  /\ UNCHANGED <<chain, table, before, got, cut>>

\* A page is answered.  A page that is not full is the last one; otherwise the
\* client asks for what is before the oldest ledger of the page.
NextPage ==
  /\ phase = "reading"
  /\ \E page \in Pages(Older(before)) :
       /\ got' = got \cup page
       /\ IF Cardinality(page) < Limit
            THEN phase' = "done" /\ UNCHANGED <<before, cut>>
            ELSE /\ before' = NextBefore(page)
                 /\ cut' = cut \cup {before'}
                 /\ UNCHANGED phase
  /\ UNCHANGED <<chain, table, owed>>

-----------------------------------------------------------------------------
Next ==
  \/ \E id \in Ids, kind \in Lifecycle : MayEmit(kind, id) /\ Emit(kind, id)
  \/ Emit("other", None)
  \/ \E e \in DOMAIN chain : Ingest(e)
  \/ BeginExport
  \/ NextPage

\* A client that exports asks for its next page; nothing else is owed.
Spec == Init /\ [][Next]_vars /\ WF_vars(NextPage)

-----------------------------------------------------------------------------
(* Properties *)

(***************************************************************************)
(* An export that is finished has every row that was in the table when it  *)
(* began, though rows are inserted between its pages - except in the       *)
(* ledgers at which a full page ended: where ledger < before skips what    *)
(* such a page left of its last ledger (queries.ts:26-31).                 *)
(***************************************************************************)
ExportComplete ==
  phase = "done" => \A e \in owed : e \in got \/ chain[e].ledger \in cut

(***************************************************************************)
(* An export comes to its end although the table grows under it: each page *)
(* is older than the one before, also when one ledger fills whole pages.   *)
(***************************************************************************)
ExportEnds == phase = "reading" ~> phase = "done"

(***************************************************************************)
(* "Status is derived from the last lifecycle event seen"                  *)
(* (queries.ts:35-38), and last means last on the chain: once the last     *)
(* deciding event of a proposal is in the table, the history shows its     *)
(* status, in whatever order rows were inserted and whichever older ones   *)
(* are missing.  The exception: an earlier transaction of the same ledger  *)
(* decided with the same event index or a greater one, since the query     *)
(* orders the rows of a ledger by index alone.                             *)
(***************************************************************************)
LastDeciding(id) ==
  {e \in Deciding(DOMAIN chain, id) : \A f \in Deciding(DOMAIN chain, id) : f <= e}

Overtaken(id, e) ==
  \E f \in Deciding(table, id) :
    /\ chain[f].ledger = chain[e].ledger /\ chain[f].tx # chain[e].tx
    /\ chain[f].index >= chain[e].index

StatusFollows ==
  \A id \in Ids : \A e \in LastDeciding(id) :
    e \in table /\ ~Overtaken(id, e) => Derived(id) = {StatusAfter[chain[e].kind]}
=============================================================================
