------------------------------ MODULE Proposals ------------------------------
(***************************************************************************)
(* The proposals of one managed account: ProposalService of                *)
(* src/services/api/src/proposals/service.ts over the tables of            *)
(* src/packages/core/migrations/0001 and 0002, with the indexer's          *)
(* applyReconfigure (src/services/indexer/src/indexer.ts:127-143), which   *)
(* writes the same rows.  No statement runs in a transaction with another: *)
(* each SQL statement is one atomic action, and between two statements of  *)
(* a request any other request, the indexer or a crash may come.           *)
(*                                                                         *)
(* account_signers is never written by the code: roles are constants, and  *)
(* the query that reads them is merged with the statement before it.       *)
(***************************************************************************)
EXTENDS Integers, Sequences, FiniteSets

CONSTANTS
  Workers,     \* requests the api serves at the same time
  Ids,         \* ids of the proposals a behaviour may create
  Signers,     \* signers with the Vote role
  Nonces,      \* nonces a proposal may carry
  Thresholds,  \* thresholds the account may be configured with
  MaxEpoch,    \* bound: last configuration epoch of a behaviour
  Crashes,     \* the processes that may die between two statements
  None

Epochs == 0..MaxEpoch
Active == {"open", "ready", "submitted"}
Statuses == Active \cup {"executed", "expired", "invalidated", "conflicted"}
Proposal == [nonce : Nonces, epoch : Epochs, threshold : Thresholds, status : Statuses]

ASSUME ProposalsAssumption ==
  /\ Thresholds \subseteq Nat \ {0}
  /\ MaxEpoch \in Nat
  /\ Crashes \subseteq {"api", "indexer"}
  /\ None \notin Proposal

VARIABLES
  account,    \* the accounts row: config_epoch and threshold
  proposals,  \* the proposals rows, None for an id not yet created
  sigs,       \* signers with a row in partial_signatures, per proposal
  at,         \* the statement each request is about to run
  mem,        \* what each request read and keeps in memory
  config,     \* on-chain: the threshold of each epoch there has been
  voiding,    \* epochs for which applyReconfigure is between its two statements
  marking     \* proposals markExecuted is between its two statements for

tables   == <<account, proposals, sigs>>
requests == <<at, mem>>
vars == <<tables, requests, config, voiding, marking>>

Created == {id \in Ids : proposals[id] # None}
ChainEpoch == Len(config) - 1

TypeOK ==
  /\ account \in [epoch : Epochs, threshold : Thresholds]
  /\ proposals \in [Ids -> Proposal \cup {None}]
  /\ sigs \in [Ids -> SUBSET Signers]
  /\ at \in [Workers -> {"idle", "insert", "expire", "epoch", "bumpAccount", "void",
                         "store", "count", "ready"}]
  /\ config \in Seq(Thresholds) /\ ChainEpoch \in Epochs
  /\ voiding \subseteq Epochs
  /\ marking \subseteq Ids

Init ==
  \E t \in Thresholds :
    /\ account = [epoch |-> 0, threshold |-> t]
    /\ config = <<t>>
    /\ proposals = [id \in Ids |-> None]
    /\ sigs = [id \in Ids |-> {}]
    /\ at = [w \in Workers |-> "idle"]
    /\ mem = [w \in Workers |-> None]
    /\ voiding = {}
    /\ marking = {}

-----------------------------------------------------------------------------
(* Helpers *)

\* The request goes on to its next statement, remembering m.
Await(w, statement, m) ==
  /\ at' = [at EXCEPT ![w] = statement]
  /\ mem' = [mem EXCEPT ![w] = m]

Finish(w) == Await(w, "idle", None)

\* The unique index only covers open proposals.
OpenNonceTaken(n, except) ==
  \E id \in Created \ except :
    proposals[id].status = "open" /\ proposals[id].nonce = n

\* The partial unique index proposals_open_nonce (0002_proposals.sql:22-26).
NonceTaken(n, except) ==
  \E id \in Created \ except :
    proposals[id].status \in Active /\ proposals[id].nonce = n

\* setStatus(id, status): "where id = ..." and nothing else.  The database
\* refuses a status that would make two active proposals share a nonce.
SetStatus(id, status) ==
  IF status \in Active /\ NonceTaken(proposals[id].nonce, {id})
    THEN UNCHANGED proposals
    ELSE proposals' = [proposals EXCEPT ![id].status = status]

-----------------------------------------------------------------------------
(* Plausible slips in this code, used to show that each property bites. *)

\* The threshold is met one signature early.
CountOneShort(w) ==
  /\ at[w] = "count"
  /\ IF Cardinality(sigs[mem[w].id]) + 1 >= mem[w].threshold
       THEN Await(w, "ready", mem[w])
       ELSE Finish(w)
  /\ UNCHANGED <<tables, config, voiding, marking>>

\* The threshold has to be exceeded.
CountAbove(w) ==
  /\ at[w] = "count"
  /\ IF Cardinality(sigs[mem[w].id]) > mem[w].threshold
       THEN Await(w, "ready", mem[w])
       ELSE Finish(w)
  /\ UNCHANGED <<tables, config, voiding, marking>>

\* The epoch read after the signer's role is compared with nothing.
EpochUnchecked(w) ==
  /\ at[w] = "epoch"
  /\ \/ Await(w, "store", mem[w])
     \/ Finish(w)
  /\ UNCHANGED <<tables, config, voiding, marking>>

\* applyReconfigure mirrors the epoch and forgets the threshold.
MirrorsEpochOnly(e) ==
  /\ e <= ChainEpoch
  /\ account' = IF account.epoch < e THEN [account EXCEPT !.epoch = e] ELSE account
  /\ voiding' = voiding \cup {e}
  /\ UNCHANGED <<proposals, sigs, requests, config, marking>>

\* applyReconfigure decodes the epoch into the threshold.
MirrorsMixedFields(e) ==
  /\ e <= ChainEpoch
  /\ account' = IF account.epoch < e
                  THEN [epoch |-> e, threshold |-> e + Cardinality(Thresholds)] ELSE account
  /\ voiding' = voiding \cup {e}
  /\ UNCHANGED <<proposals, sigs, requests, config, marking>>

\* applyReconfigure writes the row without "config_epoch < ...".
MirrorsAlways(e) ==
  /\ e <= ChainEpoch
  /\ account' = [epoch |-> e, threshold |-> config[e + 1]]
  /\ voiding' = voiding \cup {e}
  /\ UNCHANGED <<proposals, sigs, requests, config, marking>>

\* addSignature counts the signatures it read before it stored its own.
StoreAfterCounting(w) ==
  /\ at[w] = "store"
  /\ sigs' = [sigs EXCEPT ![mem[w].id] = @ \cup {mem[w].signer}]
  /\ IF Cardinality(sigs[mem[w].id]) >= mem[w].threshold
       THEN Await(w, "ready", mem[w])
       ELSE Finish(w)
  /\ UNCHANGED <<account, proposals, config, voiding, marking>>

-----------------------------------------------------------------------------
(* create: service.ts:100-126 *)

\* Bound: as many creates under way as there are ids left.
IdsLeft == Cardinality({w \in Workers : at[w] = "insert"}) < Cardinality(Ids \ Created)

\* The accounts row and the proposer's role are read.
BeginCreate(w) ==
  /\ at[w] = "idle"
  /\ IdsLeft
  /\ \E n \in Nonces :
       Await(w, "insert", [nonce |-> n, epoch |-> account.epoch,
                           threshold |-> account.threshold])
  /\ UNCHANGED <<tables, config, voiding, marking>>

\* insert into proposals, with what the account was when it was read; a
\* nonce in use is refused.  The new id is the next one of Ids.
Insert(w) ==
  /\ at[w] = "insert"
  /\ IF NonceTaken(mem[w].nonce, {})
       THEN UNCHANGED proposals
       ELSE \E id \in Ids \ Created :
              /\ \A k \in Ids : k < id => k \in Created
              /\ proposals' = [proposals EXCEPT ![id] =
                   [nonce |-> mem[w].nonce, epoch |-> mem[w].epoch,
                    threshold |-> mem[w].threshold, status |-> "open"]]
  /\ Finish(w)
  /\ UNCHANGED <<account, sigs, config, voiding, marking>>

-----------------------------------------------------------------------------
(* addSignature: service.ts:150-209 *)

\* The proposal is read, and goes on only when it is open.  currentLedger
\* comes from the client, so the expiry test may go either way.
BeginSign(w) ==
  /\ at[w] = "idle"
  /\ \E id \in Created, s \in Signers, next \in {"expire", "epoch"} :
       /\ proposals[id].status = "open"
       /\ Await(w, next, [id |-> id, signer |-> s, epoch |-> proposals[id].epoch,
                          threshold |-> proposals[id].threshold,
                          began |-> account.epoch])
  /\ UNCHANGED <<tables, config, voiding, marking>>

SetExpired(w) ==
  /\ at[w] = "expire"
  /\ SetStatus(mem[w].id, "expired")
  /\ Finish(w)
  /\ UNCHANGED <<account, sigs, config, voiding, marking>>

\* The accounts row is read.  A moved epoch leads to invalidateForEpoch; a bad
\* signature ends the request before anything is written.
CheckEpoch(w) ==
  /\ at[w] = "epoch"
  /\ IF account.epoch # mem[w].epoch
       THEN Await(w, "bumpAccount", [epoch |-> account.epoch])
       ELSE Await(w, "store", mem[w]) \/ Finish(w)
  /\ UNCHANGED <<tables, config, voiding, marking>>

\* First statement of invalidateForEpoch: the epoch moves, not the threshold.
BumpAccount(w) ==
  /\ at[w] = "bumpAccount"
  /\ account' = IF account.epoch < mem[w].epoch
                  THEN [account EXCEPT !.epoch = mem[w].epoch] ELSE account
  /\ Await(w, "void", mem[w])
  /\ UNCHANGED <<proposals, sigs, config, voiding, marking>>

VoidBelow(e) ==
  proposals' = [id \in Ids |->
    IF id \in Created /\ proposals[id].status \in {"open", "ready"} /\ proposals[id].epoch < e
      THEN [proposals[id] EXCEPT !.status = "invalidated"] ELSE proposals[id]]

\* Second statement of invalidateForEpoch.
VoidStale(w) ==
  /\ at[w] = "void"
  /\ VoidBelow(mem[w].epoch)
  /\ Finish(w)
  /\ UNCHANGED <<account, sigs, config, voiding, marking>>

\* insert into partial_signatures ... on conflict do update.
StoreSignature(w) ==
  /\ at[w] = "store"
  /\ sigs' = [sigs EXCEPT ![mem[w].id] = @ \cup {mem[w].signer}]
  /\ Await(w, "count", mem[w])
  /\ UNCHANGED <<account, proposals, config, voiding, marking>>

\* withProgress counts, against the threshold of the row read at the start.
Count(w) ==
  /\ at[w] = "count"
  /\ IF Cardinality(sigs[mem[w].id]) >= mem[w].threshold
       THEN Await(w, "ready", mem[w])
       ELSE Finish(w)
  /\ UNCHANGED <<tables, config, voiding, marking>>

SetReady(w) ==
  /\ at[w] = "ready"
  /\ SetStatus(mem[w].id, "ready")
  /\ Finish(w)
  /\ UNCHANGED <<account, sigs, config, voiding, marking>>

\* The process dies, or the connection to the database does.
Crash(w) ==
  /\ "api" \in Crashes
  /\ at[w] # "idle"
  /\ Finish(w)
  /\ UNCHANGED <<tables, config, voiding, marking>>

-----------------------------------------------------------------------------
(* expireStale and markExecuted: service.ts:231-258 *)

\* One statement; which proposals have expired is up to the ledger.
ExpireStale ==
  /\ \E late \in SUBSET Created :
       /\ \E id \in late : proposals[id].status \in {"open", "ready"}
       /\ proposals' = [id \in Ids |->
            IF id \in late /\ proposals[id].status \in {"open", "ready"}
              THEN [proposals[id] EXCEPT !.status = "expired"] ELSE proposals[id]]
  /\ UNCHANGED <<account, sigs, requests, config, voiding, marking>>

\* First statement.  It asks for nothing but the row: not for its status, not
\* whether the chain has executed it, which is left to the caller.
MarkExecuted(id) ==
  /\ id \in Created
  /\ SetStatus(id, "executed")
  /\ marking' = marking \cup {id}
  /\ UNCHANGED <<account, sigs, requests, config, voiding>>

\* Second statement: the siblings on the nonce.  Another call for the same
\* proposal may still be between the two.
MarkSiblings(id) ==
  /\ id \in marking
  /\ proposals' = [k \in Ids |->
       IF k \in Created \ {id} /\ proposals[k].status \in Active
            /\ proposals[k].nonce = proposals[id].nonce
         THEN [proposals[k] EXCEPT !.status = "conflicted"] ELSE proposals[k]]
  /\ marking' \in {marking, marking \ {id}}
  /\ UNCHANGED <<account, sigs, requests, config, voiding>>

-----------------------------------------------------------------------------
(* The indexer's applyReconfigure: indexer.ts:127-143.  A gap or a cut page *)
(* may leave an epoch out, and a restart or a backfill may read an earlier  *)
(* event again, also while another is being applied.                        *)

\* The Reconfigured event of epoch e: epoch and threshold are mirrored.
MirrorAccount(e) ==
  /\ e <= ChainEpoch
  /\ account' = IF account.epoch < e
                  THEN [epoch |-> e, threshold |-> config[e + 1]]
                  ELSE account
  /\ voiding' = voiding \cup {e}
  /\ UNCHANGED <<proposals, sigs, requests, config, marking>>

\* Then the proposals below the event's epoch are void.
MirrorVoid(e) ==
  /\ e \in voiding
  /\ VoidBelow(e)
  /\ voiding' = voiding \ {e}
  /\ UNCHANGED <<account, sigs, requests, config, marking>>

\* The indexer dies in between, in each task that applies an event.
IndexerCrash ==
  /\ "indexer" \in Crashes
  /\ voiding # {}
  /\ voiding' = {}
  /\ UNCHANGED <<tables, requests, config, marking>>

-----------------------------------------------------------------------------
(* The chain (external) *)

Reconfigure ==
  /\ ChainEpoch < MaxEpoch
  /\ \E t \in Thresholds : config' = Append(config, t)
  /\ UNCHANGED <<tables, requests, voiding, marking>>

-----------------------------------------------------------------------------
\* A request that has begun runs its next statement.
Continue(w) ==
  \/ Insert(w)
  \/ SetExpired(w) \/ CheckEpoch(w) \/ BumpAccount(w) \/ VoidStale(w)
  \/ StoreSignature(w) \/ Count(w) \/ SetReady(w)

Next ==
  \/ \E w \in Workers : BeginCreate(w) \/ BeginSign(w) \/ Continue(w) \/ Crash(w)
  \/ ExpireStale
  \/ \E id \in Ids : MarkExecuted(id) \/ MarkSiblings(id)
  \/ \E e \in Epochs \ {0} : MirrorAccount(e) \/ MirrorVoid(e)
  \/ IndexerCrash
  \/ Reconfigure

(***************************************************************************)
(* A request runs to its end once it has begun; requests keep coming by    *)
(* the users' choice only, and nothing obliges the indexer or the chain.   *)
(***************************************************************************)
Safe == Init /\ [][Next]_vars
Spec == Safe /\ \A w \in Workers : WF_vars(Continue(w))

-----------------------------------------------------------------------------
(* Properties *)

(***************************************************************************)
(* A proposal is offered as ready only when it has a quorum: as many       *)
(* signatures as its own threshold are in the table, whatever requests,    *)
(* indexer and crashes interleave (service.ts:203-207).                    *)
(***************************************************************************)
ReadyHasQuorum ==
  \A id \in Created :
    proposals[id].status = "ready" => Cardinality(sigs[id]) >= proposals[id].threshold

(***************************************************************************)
(* A signer whose request begins after the account's epoch has moved past  *)
(* the proposal never has a signature stored on it, although the request   *)
(* works with rows it read earlier (service.ts:179-201).                   *)
(***************************************************************************)
NoStaleSignature ==
  [][\A w \in Workers : at[w] = "store" /\ sigs' # sigs /\ at'[w] # "store"
       => mem[w].began <= mem[w].epoch]_vars

(***************************************************************************)
(* The mirrored configuration is one the chain has had: the account's      *)
(* threshold is that of its epoch, and the epoch never goes back, though   *)
(* the api and the indexer both write the row and events are re-read after *)
(* a crash (service.ts:216-218, indexer.ts:130-133).                       *)
(***************************************************************************)
MirrorIsConsistent ==
  /\ account.epoch <= ChainEpoch
  /\ account.threshold = config[account.epoch + 1]

EpochMonotone == [][account'.epoch >= account.epoch]_vars

\* An open proposal whose signatures meet its threshold.
OpenWithQuorum(id) ==
  /\ proposals[id] # None
  /\ proposals[id].status = "open"
  /\ Cardinality(sigs[id]) >= proposals[id].threshold

(***************************************************************************)
(* "Two open proposals may never share a nonce on one account"             *)
(* (0002_proposals.sql:22-23), also when setStatus makes a proposal active *)
(* that was not any more.                                                  *)
(***************************************************************************)
OneActivePerNonce ==
  \A i, j \in Created :
    proposals[i].status \in Active /\ proposals[j].status \in Active
      /\ proposals[i].nonce = proposals[j].nonce => i = j

-----------------------------------------------------------------------------
(* What comments of the service say, and the code does not do *)

(***************************************************************************)
(* "Every open proposal below the new epoch is void" (service.ts:212-213): *)
(* signatures collected below it never make it ready again.                *)
(***************************************************************************)
VoidStaysVoid ==
  [][\A id \in Created :
       proposals[id].status = "invalidated" => proposals'[id].status \notin Active]_vars
=============================================================================
