--------------------------- MODULE Timeline_proofs ---------------------------
(***************************************************************************)
(* Proofs about Timeline, for every page limit, every chain and every      *)
(* order in which rows are found: what a finished export has, and that the *)
(* derived status is that of the last event on the chain.                  *)
(*                                                                         *)
(* The export is right because of what it has not asked for yet: a row it  *)
(* is owed and has not got is older than the next page's bound, unless it  *)
(* is in a ledger at which a full page ended (Pending).  The status is     *)
(* right because the order of the query is the order of the chain, except  *)
(* between transactions of one ledger (ChainOrdered).                      *)
(***************************************************************************)
EXTENDS Timeline, Arithmetic_proofs, FiniteSetTheorems, SequenceTheorems, TLAPS

\* Later on the chain is a later ledger, transaction, or place in it.
ChainOrdered ==
  \A i, j \in DOMAIN chain : i < j =>
    /\ chain[i].ledger <= chain[j].ledger
    /\ chain[i].tx <= chain[j].tx
    /\ chain[i].tx = chain[j].tx => chain[i].index < chain[j].index

\* There are no more transactions, nor places in one, than events.
Numbered == \A i \in DOMAIN chain : chain[i].tx <= i /\ chain[i].index < i

\* What the export is owed and has not got is on a page still to be read.
Pending ==
  /\ phase = "idle" => before = None
  /\ \A e \in owed :
       \/ e \in got
       \/ chain[e].ledger \in cut
       \/ phase = "reading" /\ e \in Older(before)

\* The inductive invariant.
IInv == TypeOK /\ ChainOrdered /\ Numbered /\ Pending

-----------------------------------------------------------------------------
(* Rows and pages *)

\* The rows of the table have a place on the chain.
LEMMA RowTyped ==
  ASSUME TypeOK, NEW e \in table
  PROVE  /\ e \in DOMAIN chain /\ e \in 1..Len(chain)
         /\ chain[e] \in Event /\ chain[e].ledger \in 1..MaxLedger
<1>1. e \in DOMAIN chain /\ e \in 1..Len(chain)
  BY LenProperties DEF TypeOK
<1>2. chain[e] \in Event
  BY <1>1, ElementOfSeq DEF TypeOK
<1> QED
  BY <1>1, <1>2 DEF Event

LEMMA TableFinite ==
  ASSUME TypeOK
  PROVE  IsFiniteSet(table)
<1>1. table \subseteq 1..Len(chain) /\ Len(chain) \in Nat
  BY LenProperties DEF TypeOK
<1>2. IsFiniteSet(1..Len(chain))
  BY <1>1, FS_Interval
<1> QED
  BY <1>1, <1>2, FS_Subset

\* A page that is not full has all the rows there are.
LEMMA ShortPageIsLast ==
  ASSUME TypeOK, NEW rows \in SUBSET table, NEW page \in Pages(rows),
         Cardinality(page) < Limit
  PROVE  page = rows
<1>1. IsFiniteSet(rows) /\ page \subseteq rows /\ Cardinality(rows) \in Nat
  BY TableFinite, FS_Subset, FS_CardinalityType DEF Pages
<1>2. Cardinality(page) = IF Cardinality(rows) < Limit THEN Cardinality(rows) ELSE Limit
  BY DEF Pages
<1>3. Cardinality(page) = Cardinality(rows)
  BY <1>1, <1>2, TimelineAssumption
<1> QED
  BY <1>1, <1>3, FS_Subset

\* A full page has a row, and the next one is read before its oldest ledger.
LEMMA FullPageGoesOn ==
  ASSUME TypeOK, NEW rows \in SUBSET table, NEW page \in Pages(rows),
         ~(Cardinality(page) < Limit)
  PROVE  /\ NextBefore(page) \in 1..MaxLedger
         /\ \E e \in page : chain[e].ledger = NextBefore(page)
         /\ \A e \in page : NextBefore(page) <= chain[e].ledger
<1> DEFINE S == {chain[e].ledger : e \in page}
<1>1. page \subseteq rows /\ page # {}
  <2>1. page # {}
    BY FS_EmptySet, TimelineAssumption
  <2> QED
    BY <2>1 DEF Pages
<1>2. S \subseteq 1..MaxLedger /\ S \in SUBSET Nat /\ S # {}
  <2>1. \A e \in page : chain[e].ledger \in 1..MaxLedger
    BY <1>1, RowTyped
  <2> QED
    BY <1>1, <2>1, TimelineAssumption
<1>3. PICK n \in S : \A k \in S : n <= k
  BY <1>2, LeastNat
<1>4. \E l \in S : \A e \in page : l <= chain[e].ledger
  BY <1>3
<1>5. NextBefore(page) \in S /\ \A e \in page : NextBefore(page) <= chain[e].ledger
  BY <1>4 DEF NextBefore
<1> QED
  BY <1>2, <1>5

\* What a full page leaves is older than what is read next, or in the ledger
\* at which the page ended.
LEMMA LeftByPage ==
  ASSUME TypeOK, NEW rows \in SUBSET table, NEW page \in Pages(rows),
         ~(Cardinality(page) < Limit), NEW e \in rows \ page
  PROVE  chain[e].ledger <= NextBefore(page)
<1>1. PICK p \in page : chain[p].ledger = NextBefore(page)
  BY FullPageGoesOn
<1>2. ~Newer(e, p) /\ p \in rows
  BY DEF Pages
<1>3. chain[e].ledger \in Int /\ chain[p].ledger \in Int
  BY <1>2, RowTyped, TimelineAssumption
<1> QED
  BY <1>1, <1>2, <1>3 DEF Newer

-----------------------------------------------------------------------------
(* The steps *)

LEMMA InitIInv == Init => IInv
<1> SUFFICES ASSUME Init PROVE IInv
  OBVIOUS
<1>1. chain \in Seq(Event) /\ Len(chain) = 0 /\ DOMAIN chain = {}
  BY EmptySeq DEF Init
<1>2. TypeOK
  BY <1>1, TimelineAssumption DEF Init, TypeOK
<1> QED
  BY <1>1, <1>2 DEF Init, IInv, ChainOrdered, Numbered, Pending

\* The next event's place is after the last one's.
LEMMA PlacesFollow ==
  ASSUME IInv, Len(chain) < MaxEvents, NEW p \in Places
  PROVE  /\ p.ledger \in 1..MaxLedger /\ p.tx \in 1..(Len(chain) + 1)
         /\ p.index \in 0..Len(chain)
         /\ \A i \in DOMAIN chain :
              /\ chain[i].ledger <= p.ledger /\ chain[i].tx <= p.tx
              /\ chain[i].tx = p.tx => chain[i].index < p.index
<1>1. Len(chain) \in Nat /\ DOMAIN chain = 1..Len(chain)
  BY LenProperties DEF IInv, TypeOK
<1>4. \A i \in 1..Len(chain) : chain[i] \in Event
  BY <1>1, ElementOfSeq DEF IInv, TypeOK
<1>2. CASE chain = << >>
  <2>1. p = [ledger |-> 1, tx |-> 1, index |-> 0] /\ Len(chain) = 0
    BY <1>2 DEF Places
  <2> QED
    BY <1>1, <2>1, TimelineAssumption
<1>3. CASE chain # << >>
  <2> DEFINE n == Len(chain)
             last == chain[n]
  <2>1. n \in 1..Len(chain)
    BY <1>1, <1>3, EmptySeq DEF IInv, TypeOK
  <2>2. /\ last.ledger \in 1..MaxLedger /\ last.tx \in 1..n /\ last.index \in 0..(n - 1)
    BY <1>1, <1>4, <2>1 DEF Event, IInv, Numbered
  <2>3. \A i \in 1..n : chain[i].ledger \in Int /\ chain[i].tx \in Int /\ chain[i].index \in Int
    BY <1>4, TimelineAssumption DEF Event
  <2>4. \A i \in 1..n :
          /\ chain[i].ledger <= last.ledger /\ chain[i].tx <= last.tx
          /\ chain[i].tx = last.tx => chain[i].index <= last.index
    <3>1. SUFFICES ASSUME NEW i \in 1..n
                   PROVE  /\ chain[i].ledger <= last.ledger /\ chain[i].tx <= last.tx
                          /\ chain[i].tx = last.tx => chain[i].index <= last.index
      OBVIOUS
    <3>2. CASE i = n
      BY <2>3, <3>2
    <3>3. CASE i < n
      BY <1>1, <2>1, <2>3, <3>3 DEF IInv, ChainOrdered
    <3>4. n \in Nat
      BY <1>1
    <3> QED
      BY <3>2, <3>3, <3>4
  <2>5. \/ p = [ledger |-> last.ledger, tx |-> last.tx, index |-> last.index + 1]
        \/ \E l \in {last.ledger, last.ledger + 1} \cap 1..MaxLedger :
             p = [ledger |-> l, tx |-> last.tx + 1, index |-> 0]
    BY <1>3 DEF Places
  <2> HIDE DEF last
  <2>6. /\ p.ledger \in 1..MaxLedger /\ last.ledger <= p.ledger
        /\ p.tx \in Int /\ last.tx <= p.tx /\ p.tx <= last.tx + 1
        /\ p.index \in Nat /\ p.index <= last.index + 1
        /\ p.tx = last.tx => last.index < p.index
    <3>1. CASE p = [ledger |-> last.ledger, tx |-> last.tx, index |-> last.index + 1]
      BY <2>2, <3>1
    <3>2. ASSUME NEW l \in {last.ledger, last.ledger + 1} \cap 1..MaxLedger,
                 p = [ledger |-> l, tx |-> last.tx + 1, index |-> 0]
          PROVE  /\ p.ledger \in 1..MaxLedger /\ last.ledger <= p.ledger
                 /\ p.tx = last.tx + 1 /\ p.index = 0
      BY <2>2, <3>2
    <3> QED
      BY <2>2, <2>5, <3>1, <3>2
  <2>7. p.tx \in 1..(n + 1) /\ p.index \in 0..n
    BY <1>1, <2>2, <2>6
  <2>8. ASSUME NEW i \in 1..n
        PROVE  /\ chain[i].ledger <= p.ledger /\ chain[i].tx <= p.tx
               /\ chain[i].tx = p.tx => chain[i].index < p.index
    <3>1. /\ chain[i].ledger \in Int /\ chain[i].tx \in Int /\ chain[i].index \in Int
          /\ chain[i].ledger <= last.ledger /\ chain[i].tx <= last.tx
          /\ chain[i].tx = last.tx => chain[i].index <= last.index
      BY <2>3, <2>4
    <3>2. last.ledger \in Int /\ last.tx \in Int /\ last.index \in Int /\ p.ledger \in Int
      BY <2>2, <2>6
    <3> QED
      BY <2>6, <3>1, <3>2
  <2> QED
    BY <1>1, <2>6, <2>7, <2>8
<1> QED
  BY <1>2, <1>3

\* The chain only appends: the rows keep their ledgers.
LEMMA EmitKeeps ==
  ASSUME IInv, NEW kind \in Lifecycle \cup {"other"}, NEW id \in Ids \cup {None},
         Emit(kind, id)
  PROVE  IInv'
<1>1. PICK p \in Places :
        chain' = Append(chain, [ledger |-> p.ledger, tx |-> p.tx, index |-> p.index,
                                kind |-> kind, id |-> id])
  BY DEF Emit
<1> DEFINE n == Len(chain)
           e == [ledger |-> p.ledger, tx |-> p.tx, index |-> p.index, kind |-> kind, id |-> id]
<1>2. n \in Nat /\ n < MaxEvents /\ DOMAIN chain = 1..n /\ chain \in Seq(Event)
      /\ UNCHANGED <<table, export>>
  BY LenProperties DEF Emit, IInv, TypeOK
<1>3. /\ p.ledger \in 1..MaxLedger /\ p.tx \in 1..(n + 1) /\ p.index \in 0..n
      /\ \A i \in 1..n :
           /\ chain[i].ledger <= p.ledger /\ chain[i].tx <= p.tx
           /\ chain[i].tx = p.tx => chain[i].index < p.index
  BY <1>2, PlacesFollow
<1>4. e \in Event
  <2>1. p.tx \in 1..MaxEvents /\ p.index \in 0..MaxEvents
    BY <1>2, <1>3, TimelineAssumption
  <2> QED
    BY <1>3, <2>1 DEF Event
<1>5. /\ chain' \in Seq(Event) /\ Len(chain') = n + 1 /\ DOMAIN chain' = 1..(n + 1)
      /\ chain'[n + 1] = e /\ \A i \in 1..n : chain'[i] = chain[i]
  <2>1. chain' \in Seq(Event) /\ Len(chain') = n + 1 /\ chain'[n + 1] = e
        /\ \A i \in 1..n : chain'[i] = chain[i]
    BY <1>1, <1>2, <1>4, AppendProperties
  <2> QED
    BY <2>1, LenProperties
<1>6. e.ledger = p.ledger /\ e.tx = p.tx /\ e.index = p.index
  OBVIOUS
<1> HIDE DEF e, n
<1>7. \A i \in 1..(n + 1) : i \in 1..n \/ i = n + 1
  BY <1>2
<1>8. table \subseteq 1..n /\ 1..n \subseteq 1..(n + 1)
  BY <1>2 DEF IInv, TypeOK
<1>9. TypeOK'
  BY <1>2, <1>5, <1>8, TimelineAssumption DEF n, IInv, TypeOK, export
<1>10. ChainOrdered'
  <2>1. SUFFICES ASSUME NEW i \in 1..(n + 1), NEW j \in 1..(n + 1), i < j
                 PROVE  /\ chain'[i].ledger <= chain'[j].ledger
                        /\ chain'[i].tx <= chain'[j].tx
                        /\ chain'[i].tx = chain'[j].tx => chain'[i].index < chain'[j].index
    BY <1>5 DEF ChainOrdered
  <2>2. i \in 1..n
    BY <1>2, <2>1
  <2>3. CASE j \in 1..n
    BY <1>2, <1>5, <2>1, <2>2, <2>3 DEF IInv, ChainOrdered
  <2>4. CASE j = n + 1
    BY <1>3, <1>5, <1>6, <2>2, <2>4
  <2> QED
    BY <1>7, <2>3, <2>4
<1>11. Numbered'
  <2>1. ASSUME NEW i \in 1..n PROVE chain'[i].tx <= i /\ chain'[i].index < i
    BY <1>2, <1>5 DEF IInv, Numbered
  <2>2. p.tx <= n + 1 /\ p.index < n + 1
    BY <1>2, <1>3
  <2> QED
    BY <1>5, <1>6, <1>7, <2>1, <2>2 DEF Numbered
<1>12. Pending'
  <2>1. \A k \in table : chain'[k] = chain[k]
    BY <1>5, <1>8
  <2> QED
    BY <1>2, <2>1 DEF IInv, TypeOK, Pending, Older, export
<1> QED
  BY <1>9, <1>10, <1>11, <1>12 DEF IInv

\* A row found late was not owed.
LEMMA IngestKeeps ==
  ASSUME IInv, NEW e \in DOMAIN chain, Ingest(e)
  PROVE  IInv'
BY DEF Ingest, IInv, TypeOK, ChainOrdered, Numbered, Pending, Older, export

LEMMA BeginExportKeeps ==
  ASSUME IInv, BeginExport
  PROVE  IInv'
BY DEF BeginExport, IInv, TypeOK, ChainOrdered, Numbered, Pending, Older

\* A page that is not full has all that was pending; a full one leaves what is
\* older than the next bound, or in the ledger at which it ended.
LEMMA NextPageKeeps ==
  ASSUME IInv, NextPage
  PROVE  IInv'
<1>1. PICK page \in Pages(Older(before)) :
        /\ got' = got \cup page
        /\ IF Cardinality(page) < Limit
             THEN phase' = "done" /\ UNCHANGED <<before, cut>>
             ELSE /\ before' = NextBefore(page)
                  /\ cut' = cut \cup {before'}
                  /\ UNCHANGED phase
  BY DEF NextPage
<1>2. /\ phase = "reading" /\ UNCHANGED <<chain, table, owed>> /\ TypeOK
      /\ Older(before) \in SUBSET table /\ page \subseteq table
  BY DEF NextPage, IInv, Older, Pages
<1>3. ChainOrdered' /\ Numbered'
  BY <1>2 DEF IInv, ChainOrdered, Numbered
<1>4. CASE Cardinality(page) < Limit
  <2>1. page = Older(before)
    BY <1>2, <1>4, ShortPageIsLast
  <2>2. TypeOK'
    BY <1>1, <1>2, <1>4 DEF TypeOK
  <2>3. Pending'
    BY <1>1, <1>2, <1>4, <2>1 DEF IInv, Pending
  <2> QED
    BY <1>3, <2>2, <2>3 DEF IInv
<1>5. CASE ~(Cardinality(page) < Limit)
  <2>1. before' = NextBefore(page) /\ NextBefore(page) \in 1..MaxLedger
        /\ cut' = cut \cup {before'} /\ phase' = phase
    BY <1>1, <1>2, <1>5, FullPageGoesOn
  <2>2. TypeOK'
    BY <1>1, <1>2, <2>1 DEF TypeOK
  <2>3. ASSUME NEW e \in owed
        PROVE  e \in got' \/ chain[e].ledger \in cut' \/ e \in Older(before)'
    <3>1. e \in table /\ chain[e].ledger \in 1..MaxLedger
      BY <1>2, RowTyped DEF TypeOK
    <3>2. CASE e \in got \/ chain[e].ledger \in cut \/ e \in page
      BY <1>1, <2>1, <3>2
    <3>3. CASE e \in Older(before) \ page
      <4>1. chain[e].ledger <= before'
        BY <1>2, <1>5, <2>1, <3>3, LeftByPage
      <4>2. chain[e].ledger = before' \/ chain[e].ledger < before'
        BY <2>1, <3>1, <4>1
      <4> QED
        BY <1>2, <2>1, <3>1, <4>2 DEF Older
    <3> QED
      BY <3>2, <3>3 DEF IInv, Pending
  <2>4. Pending'
    BY <1>2, <2>1, <2>3 DEF Pending
  <2> QED
    BY <1>3, <2>2, <2>4 DEF IInv
<1> QED
  BY <1>4, <1>5

LEMMA NextKeeps ==
  ASSUME IInv, [Next]_vars
  PROVE  IInv'
<1>1. ASSUME NEW id \in Ids, NEW kind \in Lifecycle, Emit(kind, id) PROVE IInv'
  BY <1>1, EmitKeeps
<1>2. CASE Emit("other", None)
  BY <1>2, EmitKeeps
<1>3. ASSUME NEW e \in DOMAIN chain, Ingest(e) PROVE IInv'
  BY <1>3, IngestKeeps
<1>4. CASE UNCHANGED vars
  BY <1>4 DEF vars, export, IInv, TypeOK, ChainOrdered, Numbered, Pending, Older
<1> QED
  BY <1>1, <1>2, <1>3, <1>4, BeginExportKeeps, NextPageKeeps DEF Next

LEMMA InvariantHolds == Spec => []IInv
<1>1. IInv /\ [Next]_vars => IInv'
  BY NextKeeps
<1> QED
  BY <1>1, InitIInv, PTL DEF Spec

-----------------------------------------------------------------------------
(* The derived status *)

\* In the order of the query the last deciding event comes before all others,
\* unless another transaction of its ledger decided with an index as great.
LEMMA LastIsNewest ==
  ASSUME IInv, NEW id \in Ids, NEW e \in LastDeciding(id), ~Overtaken(id, e),
         NEW f \in Deciding(table, id), f # e
  PROVE  Newer(e, f) /\ ~Newer(f, e)
<1>1. e \in DOMAIN chain /\ f \in DOMAIN chain /\ e \in Deciding(DOMAIN chain, id)
      /\ f <= e /\ f \in Deciding(table, id)
      /\ DOMAIN chain = 1..Len(chain) /\ Len(chain) \in Nat
  BY LenProperties DEF LastDeciding, Deciding, IInv, TypeOK
<1>2. chain[e] \in Event /\ chain[f] \in Event
  BY <1>1, ElementOfSeq DEF IInv, TypeOK
<1>3. /\ chain[e].ledger \in Int /\ chain[f].ledger \in Int
      /\ chain[e].index \in Int /\ chain[f].index \in Int
  BY <1>2, TimelineAssumption DEF Event
<1>4. f < e
  BY <1>1
<1>5. /\ chain[f].ledger <= chain[e].ledger
      /\ chain[f].tx = chain[e].tx => chain[f].index < chain[e].index
  BY <1>1, <1>4 DEF IInv, ChainOrdered
<1>6. chain[f].ledger = chain[e].ledger =>
        chain[f].tx = chain[e].tx \/ ~(chain[f].index >= chain[e].index)
  BY <1>1 DEF Overtaken
<1> QED
  BY <1>3, <1>5, <1>6 DEF Newer

LEMMA StatusIsLast ==
  ASSUME IInv
  PROVE  StatusFollows
<1> SUFFICES ASSUME NEW id \in Ids, NEW e \in LastDeciding(id), e \in table, ~Overtaken(id, e)
             PROVE  Derived(id) = {StatusAfter[chain[e].kind]}
  BY DEF StatusFollows
<1> DEFINE rows == Deciding(table, id)
<1>1. e \in rows
  BY DEF LastDeciding, Deciding, IInv, TypeOK
<1>2. \A f \in rows : f # e => Newer(e, f) /\ ~Newer(f, e)
  BY <1>1, LastIsNewest
<1>3. ~Newer(e, e)
  <2>1. chain[e] \in Event
    BY RowTyped DEF IInv
  <2> QED
    BY <2>1, TimelineAssumption DEF Event, Newer
<1>4. {r \in rows : \A f \in rows : ~Newer(f, r)} = {e}
  BY <1>1, <1>2, <1>3
<1> QED
  BY <1>1, <1>4 DEF Derived

-----------------------------------------------------------------------------
(* The theorems *)

(***************************************************************************)
(* Every behaviour keeps the types: in particular a page's bound is the    *)
(* ledger of a row, and what a client got or is owed is in the table.      *)
(***************************************************************************)
THEOREM TypeCorrect == Spec => []TypeOK
<1>1. IInv => TypeOK
  BY DEF IInv
<1> QED
  BY <1>1, InvariantHolds, PTL

(***************************************************************************)
(* A finished export has every row it was owed, but for the ledgers at     *)
(* which a full page ended (queries.ts:26-31): for every page limit, and   *)
(* whatever is inserted while the client reads.                            *)
(***************************************************************************)
THEOREM ExportHasAll == Spec => []ExportComplete
<1>1. IInv => ExportComplete
  BY DEF IInv, Pending, ExportComplete
<1> QED
  BY <1>1, InvariantHolds, PTL

(***************************************************************************)
(* The derived status is that of the last deciding event of the chain once *)
(* that event is in the table (queries.ts:35-38), whichever others are,    *)
(* unless another transaction of its ledger decided with an index that is  *)
(* as great.                                                               *)
(***************************************************************************)
THEOREM StatusCorrect == Spec => []StatusFollows
<1>1. IInv => StatusFollows
  BY StatusIsLast
<1> QED
  BY <1>1, InvariantHolds, PTL
=============================================================================
