------------------------------ MODULE Api_proofs ------------------------------
(***************************************************************************)
(* Proofs about Proposals and Api, for every number of requests, proposals,*)
(* signers, nonces and epochs: what the api and the indexer may rely on    *)
(* although no two of their statements share a transaction, and what a 201 *)
(* means.                                                                  *)
(*                                                                         *)
(* Proposals: a request works with what it read statements ago.  RequestOK *)
(* says what is left of it: the proposal still exists with the threshold   *)
(* that was read, the epochs a request remembers are not ahead of the      *)
(* account's (epochs only grow), and a quorum once counted stays one       *)
(* (signatures are never taken away).                                      *)
(*                                                                         *)
(* Api only adds a memory of its answers to Proposals, so every step of it *)
(* is a step of Proposals and IInv holds of it too.  Why no quorum of 201s *)
(* is missed: a request answers 201 either after it has made the proposal  *)
(* ready, or after it has counted fewer signatures than the threshold.     *)
(* Everyone answered 201 before it has a signature in the table it counted,*)
(* and so has it: together they are no quorum.                             *)
(***************************************************************************)
EXTENDS Api, FiniteSetTheorems, SequenceTheorems, TLAPS

Statements == {"idle", "insert", "expire", "epoch", "bumpAccount", "void",
               "store", "count", "ready"}
SignStatements == {"expire", "epoch", "store", "count", "ready"}
VoidStatements == {"bumpAccount", "void"}

\* What request w has in memory, and how it relates to the tables.
RequestOK(w) ==
  /\ at[w] = "insert" =>
       mem[w] \in [nonce : Nonces, epoch : Epochs, threshold : Thresholds]
  /\ at[w] \in VoidStatements =>
       mem[w] \in [epoch : Epochs] /\ mem[w].epoch <= account.epoch
  /\ at[w] \in SignStatements =>
       /\ mem[w] \in [id : Ids, signer : Signers, epoch : Epochs,
                      threshold : Thresholds, began : Epochs]
       /\ mem[w].id \in Created
       /\ mem[w].threshold = proposals[mem[w].id].threshold
       /\ mem[w].began <= account.epoch
  /\ at[w] = "store" => mem[w].began <= mem[w].epoch
  /\ at[w] = "ready" => Cardinality(sigs[mem[w].id]) >= mem[w].threshold

RequestsOK == DOMAIN mem = Workers /\ \A w \in Workers : RequestOK(w)

\* Only finitely many signatures have been stored.
FiniteSigs == \A id \in Ids : IsFiniteSet(sigs[id])

\* The indexer applies only what the chain has emitted.
VoidingEmitted == \A e \in voiding : e <= ChainEpoch

\* The inductive invariant.
IInv == /\ TypeOK /\ RequestsOK /\ FiniteSigs /\ VoidingEmitted
        /\ MirrorIsConsistent /\ ReadyHasQuorum /\ OneActivePerNonce

\* Every created proposal stays, with its nonce, epoch and threshold.
Kept ==
  \A id \in Created :
    /\ id \in Created'
    /\ proposals'[id].nonce = proposals[id].nonce
    /\ proposals'[id].epoch = proposals[id].epoch
    /\ proposals'[id].threshold = proposals[id].threshold

\* The proposals of S get a status, the others are left alone.
Moves(S, status) ==
  proposals' = [id \in Ids |->
    IF id \in S THEN [proposals[id] EXCEPT !.status = status] ELSE proposals[id]]

-----------------------------------------------------------------------------
(* The operators *)

LEMMA CreatedTyped ==
  ASSUME TypeOK, NEW id \in Ids
  PROVE  id \in Created <=> proposals[id] \in Proposal
BY ProposalsAssumption DEF TypeOK, Created

\* Await moves one request and leaves the others alone.
LEMMA AwaitTask ==
  ASSUME TypeOK, DOMAIN mem = Workers, NEW w \in Workers,
         NEW statement \in Statements, NEW m, Await(w, statement, m)
  PROVE  /\ at' \in [Workers -> Statements] /\ DOMAIN mem' = Workers
         /\ at'[w] = statement /\ mem'[w] = m
         /\ \A v \in Workers : v # w => at'[v] = at[v] /\ mem'[v] = mem[v]
BY DEF Await, TypeOK, Statements

\* An update of statuses changes nothing else of a proposal.
LEMMA MovesStatus ==
  ASSUME TypeOK, NEW S, S \subseteq Created, NEW status \in Statuses, Moves(S, status)
  PROVE  /\ proposals' \in [Ids -> Proposal \cup {None}]
         /\ Created' = Created /\ Kept
         /\ \A id \in Created :
              proposals'[id].status = IF id \in S THEN status ELSE proposals[id].status
<1>1. \A id \in Ids : proposals[id] \in Proposal \cup {None}
  BY DEF TypeOK
<1>2. ASSUME NEW id \in Created
      PROVE  /\ id \in Ids /\ proposals[id] \in Proposal
             /\ proposals'[id] \in Proposal
             /\ proposals'[id].nonce = proposals[id].nonce
             /\ proposals'[id].epoch = proposals[id].epoch
             /\ proposals'[id].threshold = proposals[id].threshold
             /\ proposals'[id].status = IF id \in S THEN status ELSE proposals[id].status
  <2>1. id \in Ids /\ proposals[id] \in Proposal
    BY <1>1 DEF Created
  <2>2. proposals'[id] = IF id \in S THEN [proposals[id] EXCEPT !.status = status]
                                     ELSE proposals[id]
    BY <2>1 DEF Moves
  <2> QED
    BY <2>1, <2>2 DEF Proposal
<1>3. ASSUME NEW id \in Ids \ Created PROVE proposals'[id] = None
  BY <1>3 DEF Moves, Created
<1>4. Created' = {id \in Ids : proposals'[id] # None}
  BY DEF Created
<1>5. Created' = Created
  <2>1. \A id \in Created : proposals'[id] # None
    BY <1>2, ProposalsAssumption
  <2> QED
    BY <2>1, <1>3, <1>4 DEF Created
<1>6. proposals' \in [Ids -> Proposal \cup {None}]
  <2>1. \A id \in Ids : proposals'[id] \in Proposal \cup {None}
    BY <1>2, <1>3
  <2>2. proposals' = [id \in Ids |-> proposals'[id]]
    BY DEF Moves
  <2> QED
    BY <2>1, <2>2
<1> QED
  BY <1>2, <1>5, <1>6 DEF Kept

\* setStatus moves one proposal, or is refused by the unique index.
LEMMA SetStatusMoves ==
  ASSUME TypeOK, NEW id \in Created, NEW status \in Statuses, SetStatus(id, status)
  PROVE  \/ Moves({}, status)
         \/ Moves({id}, status)
            /\ (status \in Active => ~NonceTaken(proposals[id].nonce, {id}))
<1>1. proposals = [k \in Ids |-> proposals[k]]
  BY DEF TypeOK
<1>2. CASE status \in Active /\ NonceTaken(proposals[id].nonce, {id})
  BY <1>1, <1>2 DEF SetStatus, Moves
<1>3. CASE ~(status \in Active /\ NonceTaken(proposals[id].nonce, {id}))
  <2>1. proposals' = [proposals EXCEPT ![id].status = status]
    BY <1>3 DEF SetStatus
  <2>2. Moves({id}, status)
    BY <2>1, <1>1 DEF Moves, Created
  <2> QED
    BY <2>2, <1>3
<1> QED
  BY <1>2, <1>3

-----------------------------------------------------------------------------
(* What every step has in common *)

\* Proposals stay, signatures are only added, the mirrored epoch only grows.
Grows ==
  /\ Kept
  /\ \A id \in Ids : sigs[id] \subseteq sigs'[id] /\ IsFiniteSet(sigs'[id])
  /\ account' \in [epoch : Epochs, threshold : Thresholds]
  /\ account.epoch <= account'.epoch

\* A quorum of signatures stays one.
LEMMA QuorumKept ==
  ASSUME IInv, Grows, NEW id \in Ids, NEW t \in Thresholds, Cardinality(sigs[id]) >= t
  PROVE  Cardinality(sigs'[id]) >= t
<1>1. sigs[id] \subseteq sigs'[id] /\ IsFiniteSet(sigs'[id]) /\ IsFiniteSet(sigs[id])
  BY DEF Grows, IInv, FiniteSigs
<1>2. /\ Cardinality(sigs[id]) <= Cardinality(sigs'[id])
      /\ Cardinality(sigs[id]) \in Nat /\ Cardinality(sigs'[id]) \in Nat
  BY <1>1, FS_Subset, FS_CardinalityType
<1> QED
  BY <1>2, ProposalsAssumption

\* Whatever the others do, what a waiting request remembers stays right.
LEMMA RequestKept ==
  ASSUME IInv, Grows, NEW w \in Workers, at'[w] = at[w], mem'[w] = mem[w]
  PROVE  RequestOK(w)'
<1>1. RequestOK(w) /\ account.epoch \in Nat /\ account'.epoch \in Nat
      /\ account.epoch <= account'.epoch
  BY ProposalsAssumption DEF IInv, RequestsOK, TypeOK, Grows, Epochs
<1>2. at[w] \in VoidStatements => mem[w].epoch <= account'.epoch
  BY <1>1, ProposalsAssumption DEF RequestOK, Epochs
<1>3. at[w] \in SignStatements =>
        /\ mem[w] \in [id : Ids, signer : Signers, epoch : Epochs,
                       threshold : Thresholds, began : Epochs]
        /\ mem[w].id \in Created'
        /\ mem[w].threshold = proposals'[mem[w].id].threshold
        /\ mem[w].began <= account'.epoch
  BY <1>1, ProposalsAssumption DEF RequestOK, Epochs, Grows, Kept
<1>4. at[w] = "ready" => Cardinality(sigs'[mem[w].id]) >= mem[w].threshold
  <2> SUFFICES ASSUME at[w] = "ready"
               PROVE  Cardinality(sigs'[mem[w].id]) >= mem[w].threshold
    OBVIOUS
  <2>1. /\ mem[w].id \in Ids /\ mem[w].threshold \in Thresholds
        /\ Cardinality(sigs[mem[w].id]) >= mem[w].threshold
    BY <1>1 DEF RequestOK, SignStatements
  <2> QED
    BY <2>1, QuorumKept
<1> QED
  BY <1>1, <1>2, <1>3, <1>4 DEF RequestOK

\* A step of one request keeps them all right when it keeps its own.
LEMMA RequestsKept ==
  ASSUME IInv, Grows, NEW w \in Workers, NEW statement \in Statements, NEW m,
         Await(w, statement, m), at'[w] = statement /\ mem'[w] = m => RequestOK(w)'
  PROVE  RequestsOK' /\ at' \in [Workers -> Statements]
<1>1. /\ at' \in [Workers -> Statements] /\ DOMAIN mem' = Workers
      /\ at'[w] = statement /\ mem'[w] = m
      /\ \A v \in Workers : v # w => at'[v] = at[v] /\ mem'[v] = mem[v]
  BY AwaitTask DEF IInv, RequestsOK
<1>2. ASSUME NEW v \in Workers PROVE RequestOK(v)'
  <2>1. CASE v = w
    BY <2>1, <1>1
  <2>2. CASE v # w
    BY <2>2, <1>1, RequestKept
  <2> QED
    BY <2>1, <2>2
<1> QED
  BY <1>1, <1>2 DEF RequestsOK

\* A request that ends has nothing left to be right about.
LEMMA FinishKeeps ==
  ASSUME IInv, Grows, NEW w \in Workers, Finish(w)
  PROVE  RequestsOK' /\ at' \in [Workers -> Statements]
<1>1. at'[w] = "idle" => RequestOK(w)'
  BY DEF RequestOK, VoidStatements, SignStatements
<1> QED
  BY <1>1, RequestsKept DEF Finish, Statements

\* A step that leaves the requests alone keeps them right.
LEMMA QuietKeeps ==
  ASSUME IInv, Grows, UNCHANGED requests
  PROVE  RequestsOK' /\ at' \in [Workers -> Statements]
<1>1. \A w \in Workers : RequestOK(w)'
  BY RequestKept DEF requests
<1> QED
  BY <1>1 DEF RequestsOK, requests, IInv, TypeOK, Statements

\* A step that writes no table.
LEMMA ReadsGrow ==
  ASSUME IInv, UNCHANGED tables
  PROVE  Grows
BY ProposalsAssumption
DEF Grows, Kept, Created, tables, IInv, TypeOK, FiniteSigs, Epochs

\* A change of statuses keeps the invariants of the table: what becomes ready
\* has a quorum, and what becomes active has its nonce to itself.
LEMMA MovesKeep ==
  ASSUME IInv, UNCHANGED <<account, sigs>>, NEW S, S \subseteq Created,
         NEW status \in Statuses, Moves(S, status),
         status = "ready" => \A id \in S : Cardinality(sigs[id]) >= proposals[id].threshold,
         status \in Active => \E k \in Created : S = {k} /\ ~NonceTaken(proposals[k].nonce, {k})
  PROVE  /\ Grows /\ ReadyHasQuorum' /\ OneActivePerNonce'
         /\ proposals' \in [Ids -> Proposal \cup {None}]
<1>1. /\ proposals' \in [Ids -> Proposal \cup {None}]
      /\ Created' = Created /\ Kept
      /\ \A id \in Created :
           proposals'[id].status = IF id \in S THEN status ELSE proposals[id].status
  BY MovesStatus DEF IInv
<1>2. Grows
  BY <1>1, ProposalsAssumption DEF Grows, IInv, TypeOK, FiniteSigs, Epochs
<1>3. ReadyHasQuorum'
  BY <1>1 DEF ReadyHasQuorum, IInv, Kept
<1>4. OneActivePerNonce'
  <2>1. SUFFICES ASSUME NEW i \in Created, NEW j \in Created,
                        proposals'[i].status \in Active, proposals'[j].status \in Active,
                        proposals'[i].nonce = proposals'[j].nonce
                 PROVE  i = j
    BY <1>1 DEF OneActivePerNonce
  <2>2. proposals[i].nonce = proposals[j].nonce
    BY <2>1, <1>1 DEF Kept
  <2>3. CASE i \notin S /\ j \notin S
    BY <2>1, <2>2, <2>3, <1>1 DEF IInv, OneActivePerNonce
  <2>4. CASE i \in S \/ j \in S
    <3>1. status \in Active
      BY <2>1, <2>4, <1>1
    <3>2. PICK k \in Created : S = {k} /\ ~NonceTaken(proposals[k].nonce, {k})
      BY <3>1
    <3>3. ASSUME NEW h \in Created, h # k, proposals[h].nonce = proposals[k].nonce
          PROVE  proposals'[h].status \notin Active
      BY <3>2, <3>3, <1>1 DEF NonceTaken
    <3> QED
      BY <2>1, <2>2, <2>4, <3>2, <3>3
  <2> QED
    BY <2>3, <2>4
<1> QED
  BY <1>1, <1>2, <1>3, <1>4

-----------------------------------------------------------------------------
(* The steps of a request *)

\* What of the state a request's step on the tables leaves alone.
Outside == <<config, voiding, marking>>

\* The parts of the invariant that are not about the tables or the requests.
LEMMA OutsideKept ==
  ASSUME IInv, UNCHANGED Outside
  PROVE  /\ config' \in Seq(Thresholds) /\ ChainEpoch' \in Epochs
         /\ voiding' \subseteq Epochs /\ marking' \subseteq Ids
         /\ VoidingEmitted' /\ ChainEpoch' = ChainEpoch /\ config' = config
BY DEF IInv, TypeOK, Outside, VoidingEmitted, ChainEpoch

\* A request that only reads: the tables are as they were.
LEMMA ReadKeeps ==
  ASSUME IInv, UNCHANGED <<tables, Outside>>,
         RequestsOK' /\ at' \in [Workers -> Statements]
  PROVE  IInv' /\ Grows
<1>1. TypeOK'
  BY OutsideKept DEF IInv, TypeOK, tables, Statements
<1>2. FiniteSigs' /\ ReadyHasQuorum' /\ OneActivePerNonce' /\ MirrorIsConsistent'
  BY OutsideKept DEF IInv, FiniteSigs, ReadyHasQuorum, OneActivePerNonce,
                     MirrorIsConsistent, tables, Created
<1> QED
  BY <1>1, <1>2, ReadsGrow, OutsideKept DEF IInv

LEMMA BeginCreateKeeps ==
  ASSUME IInv, NEW w \in Workers, BeginCreate(w)
  PROVE  IInv' /\ Grows
<1>1. PICK n \in Nonces :
        Await(w, "insert", [nonce |-> n, epoch |-> account.epoch,
                            threshold |-> account.threshold])
  BY DEF BeginCreate
<1>2. UNCHANGED <<tables, Outside>> /\ Grows
  BY ReadsGrow DEF BeginCreate, Outside
<1>3. at'[w] = "insert" /\ mem'[w] = [nonce |-> n, epoch |-> account.epoch,
                                      threshold |-> account.threshold]
        => RequestOK(w)'
  BY DEF RequestOK, VoidStatements, SignStatements, IInv, TypeOK
<1>4. RequestsOK' /\ at' \in [Workers -> Statements]
  BY <1>1, <1>2, <1>3, RequestsKept DEF Statements
<1> QED
  BY <1>2, <1>4, ReadKeeps

LEMMA BeginSignKeeps ==
  ASSUME IInv, NEW w \in Workers, BeginSign(w)
  PROVE  IInv' /\ Grows
<1>1. PICK id \in Created, s \in Signers, next \in {"expire", "epoch"} :
        Await(w, next, [id |-> id, signer |-> s, epoch |-> proposals[id].epoch,
                        threshold |-> proposals[id].threshold, began |-> account.epoch])
  BY DEF BeginSign
<1> DEFINE m == [id |-> id, signer |-> s, epoch |-> proposals[id].epoch,
                 threshold |-> proposals[id].threshold, began |-> account.epoch]
<1>2. UNCHANGED <<tables, Outside>> /\ Grows
  BY ReadsGrow DEF BeginSign, Outside
<1>3. id \in Ids /\ proposals[id] \in Proposal /\ account.epoch \in Epochs
  BY CreatedTyped DEF IInv, TypeOK, Created
<1>4. at'[w] = next /\ mem'[w] = m => RequestOK(w)'
  <2>1. /\ m \in [id : Ids, signer : Signers, epoch : Epochs, threshold : Thresholds,
                  began : Epochs]
        /\ m.id = id /\ m.threshold = proposals[id].threshold
        /\ m.began = account.epoch /\ m.began <= account.epoch
    BY <1>3, ProposalsAssumption DEF Proposal, Epochs
  <2>2. id \in Created' /\ proposals' = proposals /\ account' = account
    BY <1>2 DEF tables, Created
  <2> HIDE DEF m
  <2> QED
    BY <2>1, <2>2 DEF RequestOK, VoidStatements, SignStatements
<1>5. RequestsOK' /\ at' \in [Workers -> Statements]
  BY <1>1, <1>2, <1>4, RequestsKept DEF Statements
<1> QED
  BY <1>2, <1>5, ReadKeeps

LEMMA CheckEpochKeeps ==
  ASSUME IInv, NEW w \in Workers, CheckEpoch(w)
  PROVE  IInv' /\ Grows
<1>1. UNCHANGED <<tables, Outside>> /\ Grows
  BY ReadsGrow DEF CheckEpoch, Outside
<1>2. at[w] = "epoch" /\ RequestOK(w) /\ account.epoch \in Epochs /\ account' = account
  BY <1>1 DEF CheckEpoch, IInv, RequestsOK, TypeOK, tables
<1>3. CASE account.epoch # mem[w].epoch
  <2>1. Await(w, "bumpAccount", [epoch |-> account.epoch])
    BY <1>3 DEF CheckEpoch
  <2>2. at'[w] = "bumpAccount" /\ mem'[w] = [epoch |-> account.epoch] => RequestOK(w)'
    BY <1>2, ProposalsAssumption DEF RequestOK, VoidStatements, SignStatements, Epochs
  <2>3. RequestsOK' /\ at' \in [Workers -> Statements]
    BY <1>1, <2>1, <2>2, RequestsKept DEF Statements
  <2> QED
    BY <1>1, <2>3, ReadKeeps
<1>4. CASE account.epoch = mem[w].epoch /\ Await(w, "store", mem[w])
  <2>1. at'[w] = "store" /\ mem'[w] = mem[w] => RequestOK(w)'
    BY <1>1, <1>2, <1>4
    DEF RequestOK, VoidStatements, SignStatements, Grows, Kept
  <2>2. RequestsOK' /\ at' \in [Workers -> Statements]
    BY <1>1, <1>4, <2>1, RequestsKept DEF Statements
  <2> QED
    BY <1>1, <2>2, ReadKeeps
<1>5. CASE Finish(w)
  BY <1>1, <1>5, FinishKeeps, ReadKeeps
<1> QED
  BY <1>3, <1>4, <1>5 DEF CheckEpoch

LEMMA CountKeeps ==
  ASSUME IInv, NEW w \in Workers, Count(w)
  PROVE  IInv' /\ Grows
<1>1. UNCHANGED <<tables, Outside>> /\ Grows
  BY ReadsGrow DEF Count, Outside
<1>2. at[w] = "count" /\ RequestOK(w) /\ account' = account /\ sigs' = sigs
  BY <1>1 DEF Count, IInv, RequestsOK, tables
<1>3. CASE Cardinality(sigs[mem[w].id]) >= mem[w].threshold
  <2>1. Await(w, "ready", mem[w])
    BY <1>3 DEF Count
  <2>2. at'[w] = "ready" /\ mem'[w] = mem[w] => RequestOK(w)'
    BY <1>1, <1>2, <1>3
    DEF RequestOK, VoidStatements, SignStatements, Grows, Kept
  <2>3. RequestsOK' /\ at' \in [Workers -> Statements]
    BY <1>1, <2>1, <2>2, RequestsKept DEF Statements
  <2> QED
    BY <1>1, <2>3, ReadKeeps
<1>4. CASE ~(Cardinality(sigs[mem[w].id]) >= mem[w].threshold)
  BY <1>1, <1>4, FinishKeeps, ReadKeeps DEF Count
<1> QED
  BY <1>3, <1>4

LEMMA CrashKeeps ==
  ASSUME IInv, NEW w \in Workers, Crash(w)
  PROVE  IInv' /\ Grows
BY ReadsGrow, FinishKeeps, ReadKeeps DEF Crash, Outside

\* The account is at the request's epoch or past it, so nothing moves.
LEMMA BumpAccountKeeps ==
  ASSUME IInv, NEW w \in Workers, BumpAccount(w)
  PROVE  IInv' /\ Grows
<1>1. at[w] = "bumpAccount" /\ RequestOK(w)
  BY DEF BumpAccount, IInv, RequestsOK
<1>2. mem[w].epoch \in Nat /\ account.epoch \in Nat /\ mem[w].epoch <= account.epoch
  BY <1>1, ProposalsAssumption DEF RequestOK, VoidStatements, Epochs, IInv, TypeOK
<1>3. UNCHANGED <<tables, Outside>> /\ Grows
  BY <1>2, ReadsGrow DEF BumpAccount, Outside, tables
<1>4. at'[w] = "void" /\ mem'[w] = mem[w] => RequestOK(w)'
  BY <1>1, <1>3 DEF RequestOK, VoidStatements, SignStatements, tables
<1>5. RequestsOK' /\ at' \in [Workers -> Statements]
  BY <1>3, <1>4, RequestsKept DEF BumpAccount, Statements
<1> QED
  BY <1>3, <1>5, ReadKeeps

\* A step that writes statuses, or a new proposal, and not the account.
LEMMA TableKeeps ==
  ASSUME IInv, UNCHANGED <<account, Outside>>, Grows,
         RequestsOK' /\ at' \in [Workers -> Statements],
         sigs' \in [Ids -> SUBSET Signers],
         proposals' \in [Ids -> Proposal \cup {None}],
         ReadyHasQuorum', OneActivePerNonce'
  PROVE  IInv' /\ Grows
<1>1. TypeOK'
  BY OutsideKept DEF IInv, TypeOK, Statements
<1>2. FiniteSigs' /\ MirrorIsConsistent'
  BY OutsideKept DEF Grows, FiniteSigs, IInv, MirrorIsConsistent
<1> QED
  BY <1>1, <1>2, OutsideKept DEF IInv

LEMMA InsertKeeps ==
  ASSUME IInv, NEW w \in Workers, Insert(w)
  PROVE  IInv' /\ Grows
<1>1. at[w] = "insert" /\ RequestOK(w) /\ UNCHANGED <<account, sigs, Outside>>
  BY DEF Insert, IInv, RequestsOK, Outside
<1>2. CASE NonceTaken(mem[w].nonce, {})
  <2>1. UNCHANGED <<tables, Outside>> /\ Grows
    BY <1>1, <1>2, ReadsGrow DEF Insert, tables
  <2> QED
    BY <2>1, FinishKeeps, ReadKeeps DEF Insert
<1>3. CASE ~NonceTaken(mem[w].nonce, {})
  <2>1. PICK id \in Ids \ Created :
          proposals' = [proposals EXCEPT ![id] =
            [nonce |-> mem[w].nonce, epoch |-> mem[w].epoch,
             threshold |-> mem[w].threshold, status |-> "open"]]
    BY <1>3 DEF Insert
  <2>2. /\ mem[w].nonce \in Nonces /\ mem[w].epoch \in Epochs
        /\ mem[w].threshold \in Thresholds
    BY <1>1 DEF RequestOK
  <2>3. /\ proposals'[id] = [nonce |-> mem[w].nonce, epoch |-> mem[w].epoch,
                             threshold |-> mem[w].threshold, status |-> "open"]
        /\ proposals'[id] \in Proposal
        /\ \A k \in Ids : k # id => proposals'[k] = proposals[k]
        /\ proposals' \in [Ids -> Proposal \cup {None}]
    BY <2>1, <2>2 DEF IInv, TypeOK, Proposal, Statuses, Active
  <2>4. Created' = Created \cup {id}
    BY <2>3, ProposalsAssumption DEF Created
  <2>5. \A k \in Created : k \in Ids /\ k # id /\ proposals'[k] = proposals[k]
    BY <2>3 DEF Created
  <2>6. Grows /\ ReadyHasQuorum'
    <3>1. Kept
      BY <2>4, <2>5 DEF Kept
    <3>2. Grows
      BY <1>1, <3>1, ProposalsAssumption DEF Grows, IInv, TypeOK, FiniteSigs, Epochs
    <3>3. proposals'[id].status # "ready"
      BY <2>3
    <3> QED
      BY <1>1, <2>4, <2>5, <3>2, <3>3 DEF ReadyHasQuorum, IInv
  <2>7. OneActivePerNonce'
    <3>1. \A k \in Created :
            ~(proposals[k].status \in Active /\ proposals[k].nonce = mem[w].nonce)
      BY <1>3 DEF NonceTaken
    <3> QED
      BY <2>3, <2>4, <2>5, <3>1 DEF OneActivePerNonce, IInv
  <2>8. RequestsOK' /\ at' \in [Workers -> Statements]
    BY <2>6, FinishKeeps DEF Insert
  <2> QED
    BY <1>1, <2>3, <2>6, <2>7, <2>8, TableKeeps DEF IInv, TypeOK
<1> QED
  BY <1>2, <1>3

\* The two setStatus calls of a request.
LEMMA SetStatusKeeps ==
  ASSUME IInv, NEW w \in Workers, NEW status \in {"expired", "ready"},
         at[w] = IF status = "ready" THEN "ready" ELSE "expire",
         SetStatus(mem[w].id, status), Finish(w), UNCHANGED <<account, sigs, Outside>>
  PROVE  IInv' /\ Grows
<1>1. RequestOK(w)
  BY DEF IInv, RequestsOK
<1>2. /\ mem[w].id \in Created
      /\ mem[w].threshold = proposals[mem[w].id].threshold
      /\ status = "ready" => Cardinality(sigs[mem[w].id]) >= mem[w].threshold
  BY <1>1 DEF RequestOK, SignStatements
<1>3. /\ Grows /\ ReadyHasQuorum' /\ OneActivePerNonce'
      /\ proposals' \in [Ids -> Proposal \cup {None}]
  <2>1. status \in Statuses /\ (status # "ready" => status \notin Active)
    BY DEF Statuses, Active
  <2>2. CASE Moves({}, status)
    <3>1. \A k \in Ids : proposals'[k] = proposals[k]
      BY <2>2 DEF Moves
    <3>2. proposals' = proposals
      <4>1. proposals = [k \in Ids |-> proposals[k]] /\ proposals' = [k \in Ids |-> proposals'[k]]
        BY <2>2 DEF Moves, IInv, TypeOK
      <4> QED
        BY <3>1, <4>1
    <3> QED
      BY <3>2, ReadsGrow DEF tables, IInv, TypeOK, ReadyHasQuorum, OneActivePerNonce, Created
  <2>3. CASE /\ Moves({mem[w].id}, status)
             /\ status \in Active => ~NonceTaken(proposals[mem[w].id].nonce, {mem[w].id})
    BY <1>2, <2>1, <2>3, MovesKeep
  <2> QED
    BY <1>2, <2>1, <2>2, <2>3, SetStatusMoves DEF IInv
<1>4. RequestsOK' /\ at' \in [Workers -> Statements]
  BY <1>3, FinishKeeps
<1> QED
  BY <1>3, <1>4, TableKeeps DEF IInv, TypeOK

LEMMA SetExpiredKeeps ==
  ASSUME IInv, NEW w \in Workers, SetExpired(w)
  PROVE  IInv' /\ Grows
BY SetStatusKeeps DEF SetExpired, Outside

LEMMA SetReadyKeeps ==
  ASSUME IInv, NEW w \in Workers, SetReady(w)
  PROVE  IInv' /\ Grows
BY SetStatusKeeps DEF SetReady, Outside

\* Voiding moves the open and ready proposals below the epoch.
LEMMA VoidBelowKeeps ==
  ASSUME IInv, NEW e, VoidBelow(e), UNCHANGED <<account, sigs>>
  PROVE  /\ Grows /\ ReadyHasQuorum' /\ OneActivePerNonce'
         /\ proposals' \in [Ids -> Proposal \cup {None}]
<1> DEFINE S == {id \in Created : proposals[id].status \in {"open", "ready"}
                                  /\ proposals[id].epoch < e}
<1>1. Moves(S, "invalidated")
  BY DEF VoidBelow, Moves, Created
<1>2. "invalidated" \in Statuses /\ "invalidated" \notin Active
  BY DEF Statuses, Active
<1> QED
  BY <1>1, <1>2, MovesKeep

LEMMA VoidStaleKeeps ==
  ASSUME IInv, NEW w \in Workers, VoidStale(w)
  PROVE  IInv' /\ Grows
BY VoidBelowKeeps, FinishKeeps, TableKeeps DEF VoidStale, Outside, IInv, TypeOK

LEMMA StoreSignatureKeeps ==
  ASSUME IInv, NEW w \in Workers, StoreSignature(w)
  PROVE  IInv' /\ Grows
<1>1. at[w] = "store" /\ RequestOK(w) /\ UNCHANGED <<account, proposals, Outside>>
  BY DEF StoreSignature, IInv, RequestsOK, Outside
<1>2. mem[w].id \in Created /\ mem[w].id \in Ids /\ mem[w].signer \in Signers
  BY <1>1 DEF RequestOK, SignStatements
<1>3. sigs' = [sigs EXCEPT ![mem[w].id] = @ \cup {mem[w].signer}]
  BY DEF StoreSignature
<1>4. sigs' \in [Ids -> SUBSET Signers]
  BY <1>2, <1>3 DEF IInv, TypeOK
<1>5. \A id \in Ids : sigs[id] \subseteq sigs'[id] /\ IsFiniteSet(sigs'[id])
  <2>1. SUFFICES ASSUME NEW id \in Ids
                 PROVE  sigs[id] \subseteq sigs'[id] /\ IsFiniteSet(sigs'[id])
    OBVIOUS
  <2>2. sigs'[id] = sigs[id] \/ sigs'[id] = sigs[id] \cup {mem[w].signer}
    BY <1>2, <1>3 DEF IInv, TypeOK
  <2>3. IsFiniteSet(sigs[id]) /\ IsFiniteSet(sigs[id] \cup {mem[w].signer})
    BY FS_AddElement DEF IInv, FiniteSigs
  <2> QED
    BY <2>2, <2>3
<1>6. Grows
  BY <1>1, <1>5, ProposalsAssumption DEF Grows, Kept, Created, IInv, TypeOK, Epochs
<1>7. at'[w] = "count" /\ mem'[w] = mem[w] => RequestOK(w)'
  BY <1>1, <1>6 DEF RequestOK, VoidStatements, SignStatements, Grows, Kept
<1>8. RequestsOK' /\ at' \in [Workers -> Statements]
  BY <1>6, <1>7, RequestsKept DEF StoreSignature, Statements
<1>9. ReadyHasQuorum'
  <2>1. SUFFICES ASSUME NEW id \in Created, proposals[id].status = "ready"
                 PROVE  Cardinality(sigs'[id]) >= proposals[id].threshold
    BY <1>1 DEF ReadyHasQuorum, Created
  <2>2. /\ id \in Ids /\ proposals[id].threshold \in Thresholds
        /\ Cardinality(sigs[id]) >= proposals[id].threshold
    BY <2>1, CreatedTyped DEF IInv, ReadyHasQuorum, Created, Proposal
  <2> QED
    BY <1>6, <2>2, QuorumKept
<1>10. OneActivePerNonce' /\ proposals' \in [Ids -> Proposal \cup {None}]
  BY <1>1 DEF OneActivePerNonce, Created, IInv, TypeOK
<1> QED
  BY <1>1, <1>4, <1>6, <1>8, <1>9, <1>10, TableKeeps

-----------------------------------------------------------------------------
(* The service's sweeps, the indexer and the chain *)

LEMMA ExpireStaleKeeps ==
  ASSUME IInv, ExpireStale
  PROVE  IInv' /\ Grows
<1>1. PICK late \in SUBSET Created :
        proposals' = [id \in Ids |->
          IF id \in late /\ proposals[id].status \in {"open", "ready"}
            THEN [proposals[id] EXCEPT !.status = "expired"] ELSE proposals[id]]
  BY DEF ExpireStale
<1> DEFINE S == {id \in late : proposals[id].status \in {"open", "ready"}}
<1>2. Moves(S, "expired") /\ S \subseteq Created
  BY <1>1 DEF Moves
<1>3. "expired" \in Statuses /\ "expired" \notin Active
  BY DEF Statuses, Active
<1>4. UNCHANGED <<account, sigs, requests, Outside>>
  BY DEF ExpireStale, Outside
<1>5. /\ Grows /\ ReadyHasQuorum' /\ OneActivePerNonce'
      /\ proposals' \in [Ids -> Proposal \cup {None}]
  BY <1>2, <1>3, <1>4, MovesKeep
<1> QED
  BY <1>4, <1>5, QuietKeeps, TableKeeps DEF IInv, TypeOK

\* A step of a writer that is not a request, once it is known to keep the
\* proposals in order.
LEMMA WriterKeeps ==
  ASSUME IInv, UNCHANGED <<account, sigs, requests>>, Grows,
         proposals' \in [Ids -> Proposal \cup {None}],
         ReadyHasQuorum', OneActivePerNonce',
         config' = config, voiding' \subseteq voiding, marking' \subseteq Ids
  PROVE  IInv' /\ Grows
<1>1. RequestsOK' /\ at' \in [Workers -> Statements]
  BY QuietKeeps
<1>2. ChainEpoch' = ChainEpoch
  BY DEF ChainEpoch
<1>3. TypeOK'
  BY <1>1, <1>2 DEF IInv, TypeOK, Statements
<1>4. FiniteSigs' /\ MirrorIsConsistent' /\ VoidingEmitted'
  BY <1>2 DEF IInv, Grows, FiniteSigs, MirrorIsConsistent, VoidingEmitted
<1> QED
  BY <1>1, <1>3, <1>4 DEF IInv

LEMMA MarkExecutedKeeps ==
  ASSUME IInv, NEW id \in Ids, MarkExecuted(id)
  PROVE  IInv' /\ Grows
<1>1. /\ id \in Created /\ UNCHANGED <<account, sigs, requests, config, voiding>>
      /\ marking' = marking \cup {id}
  BY DEF MarkExecuted
<1>2. "executed" \in Statuses /\ "executed" \notin Active
  BY DEF Statuses, Active
<1>3. PICK S \in SUBSET Created : Moves(S, "executed")
  BY <1>1, <1>2, SetStatusMoves DEF MarkExecuted, IInv
<1>4. /\ Grows /\ ReadyHasQuorum' /\ OneActivePerNonce'
      /\ proposals' \in [Ids -> Proposal \cup {None}]
  BY <1>1, <1>2, <1>3, MovesKeep
<1> QED
  BY <1>1, <1>4, WriterKeeps DEF IInv, TypeOK

LEMMA MarkSiblingsKeeps ==
  ASSUME IInv, NEW id \in Ids, MarkSiblings(id)
  PROVE  IInv' /\ Grows
<1> DEFINE S == {k \in Created \ {id} :
                   proposals[k].status \in Active
                     /\ proposals[k].nonce = proposals[id].nonce}
<1>1. Moves(S, "conflicted") /\ S \subseteq Created
  BY DEF MarkSiblings, Moves, Created
<1>2. "conflicted" \in Statuses /\ "conflicted" \notin Active
  BY DEF Statuses, Active
<1>3. /\ Grows /\ ReadyHasQuorum' /\ OneActivePerNonce'
      /\ proposals' \in [Ids -> Proposal \cup {None}]
  BY <1>1, <1>2, MovesKeep DEF MarkSiblings
<1> QED
  BY <1>3, WriterKeeps DEF MarkSiblings, IInv, TypeOK

LEMMA MirrorVoidKeeps ==
  ASSUME IInv, NEW e \in Epochs \ {0}, MirrorVoid(e)
  PROVE  IInv' /\ Grows
<1>1. /\ Grows /\ ReadyHasQuorum' /\ OneActivePerNonce'
      /\ proposals' \in [Ids -> Proposal \cup {None}]
  BY VoidBelowKeeps DEF MirrorVoid
<1> QED
  BY <1>1, WriterKeeps DEF MirrorVoid, IInv, TypeOK

LEMMA IndexerCrashKeeps ==
  ASSUME IInv, IndexerCrash
  PROVE  IInv' /\ Grows
<1>1. UNCHANGED <<tables, requests, config, marking>> /\ voiding' = {} /\ Grows
  BY ReadsGrow DEF IndexerCrash
<1>2. ReadyHasQuorum' /\ OneActivePerNonce'
  BY <1>1 DEF IInv, ReadyHasQuorum, OneActivePerNonce, tables, Created
<1> QED
  BY <1>1, <1>2, WriterKeeps DEF IInv, TypeOK, tables

\* The event's epoch and threshold are the chain's.
LEMMA MirrorAccountKeeps ==
  ASSUME IInv, NEW e \in Epochs \ {0}, MirrorAccount(e)
  PROVE  IInv' /\ Grows
<1>1. /\ UNCHANGED <<proposals, sigs, requests, config, marking>>
      /\ e <= ChainEpoch /\ voiding' = voiding \cup {e}
      /\ config' = config /\ ChainEpoch' = ChainEpoch
  BY DEF MirrorAccount, ChainEpoch
<1>2. config \in Seq(Thresholds) /\ e \in 1..(Len(config) - 1) /\ account.epoch \in Nat
  BY <1>1, ProposalsAssumption DEF IInv, TypeOK, Epochs, ChainEpoch
<1>3. config[e + 1] \in Thresholds
  <2>1. e + 1 \in 1..Len(config)
    BY <1>2, LenProperties
  <2> QED
    BY <1>2, <2>1, ElementOfSeq
<1>4. /\ account' \in [epoch : Epochs, threshold : Thresholds]
      /\ account.epoch <= account'.epoch /\ MirrorIsConsistent'
  <2>1. CASE account.epoch < e
    <3>1. account' = [epoch |-> e, threshold |-> config[e + 1]]
      BY <2>1 DEF MirrorAccount
    <3> QED
      BY <1>1, <1>2, <1>3, <2>1, <3>1 DEF MirrorIsConsistent
  <2>2. CASE ~(account.epoch < e)
    <3>1. account' = account
      BY <2>2 DEF MirrorAccount
    <3> QED
      BY <1>1, <1>2, <3>1 DEF IInv, TypeOK, MirrorIsConsistent
  <2> QED
    BY <2>1, <2>2
<1>5. Grows
  BY <1>1, <1>4 DEF Grows, Kept, Created, IInv, FiniteSigs
<1>6. RequestsOK' /\ at' \in [Workers -> Statements]
  BY <1>1, <1>5, QuietKeeps
<1>7. TypeOK'
  BY <1>1, <1>4, <1>6 DEF IInv, TypeOK, Statements
<1>8. FiniteSigs' /\ VoidingEmitted' /\ ReadyHasQuorum' /\ OneActivePerNonce'
  BY <1>1 DEF IInv, FiniteSigs, VoidingEmitted, ReadyHasQuorum, OneActivePerNonce, Created
<1> QED
  BY <1>4, <1>5, <1>6, <1>7, <1>8 DEF IInv

\* The chain only appends: the thresholds of past epochs stay what they were.
LEMMA ReconfigureKeeps ==
  ASSUME IInv, Reconfigure
  PROVE  IInv' /\ Grows
<1>1. PICK t \in Thresholds : config' = Append(config, t)
  BY DEF Reconfigure
<1>2. config \in Seq(Thresholds) /\ ChainEpoch \in Epochs /\ ChainEpoch < MaxEpoch
      /\ UNCHANGED <<tables, requests, voiding, marking>>
  BY DEF Reconfigure, IInv, TypeOK
<1>3. /\ config' \in Seq(Thresholds) /\ Len(config') = Len(config) + 1
      /\ \A i \in 1..Len(config) : config'[i] = config[i]
  BY <1>1, <1>2, AppendProperties
<1>4. Len(config) \in Nat /\ ChainEpoch = Len(config) - 1 /\ ChainEpoch' = ChainEpoch + 1
      /\ ChainEpoch' \in Epochs
  BY <1>2, <1>3, LenProperties, ProposalsAssumption DEF ChainEpoch, Epochs
<1>5. Grows
  BY <1>2, ReadsGrow
<1>6. RequestsOK' /\ at' \in [Workers -> Statements]
  BY <1>2, <1>5, QuietKeeps
<1>7. TypeOK'
  BY <1>2, <1>3, <1>4, <1>6, ProposalsAssumption DEF IInv, TypeOK, Statements, tables, Epochs
<1>8. MirrorIsConsistent'
  <2>1. account.epoch \in Nat /\ account.epoch <= ChainEpoch
        /\ account.threshold = config[account.epoch + 1] /\ account' = account
    BY <1>2, ProposalsAssumption DEF IInv, TypeOK, MirrorIsConsistent, Epochs, tables
  <2>2. account.epoch + 1 \in 1..Len(config)
    BY <1>4, <2>1
  <2> QED
    BY <1>3, <1>4, <2>1, <2>2 DEF MirrorIsConsistent
<1>9. FiniteSigs' /\ VoidingEmitted' /\ ReadyHasQuorum' /\ OneActivePerNonce'
  BY <1>2, <1>4, ProposalsAssumption
  DEF IInv, TypeOK, FiniteSigs, VoidingEmitted, ReadyHasQuorum, OneActivePerNonce, Created,
      tables, Epochs
<1> QED
  BY <1>5, <1>6, <1>7, <1>8, <1>9 DEF IInv

-----------------------------------------------------------------------------
(* The invariant *)

LEMMA InitIInv == Init => IInv
<1> SUFFICES ASSUME Init PROVE IInv
  OBVIOUS
<1>1. PICK t \in Thresholds : account = [epoch |-> 0, threshold |-> t] /\ config = <<t>>
  BY DEF Init
<1>2. Created = {} /\ \A id \in Ids : IsFiniteSet(sigs[id])
  BY FS_EmptySet DEF Init, Created
<1>3. config \in Seq(Thresholds) /\ Len(config) = 1 /\ config[1] = t /\ ChainEpoch = 0
  BY <1>1 DEF ChainEpoch
<1>4. TypeOK
  BY <1>1, <1>3, ProposalsAssumption DEF Init, TypeOK, Epochs
<1>5. RequestsOK
  BY DEF Init, RequestsOK, RequestOK, VoidStatements, SignStatements
<1>6. MirrorIsConsistent /\ VoidingEmitted
  BY <1>1, <1>3 DEF MirrorIsConsistent, VoidingEmitted, Init
<1>7. FiniteSigs /\ ReadyHasQuorum /\ OneActivePerNonce
  BY <1>2 DEF FiniteSigs, ReadyHasQuorum, OneActivePerNonce
<1> QED
  BY <1>4, <1>5, <1>6, <1>7 DEF IInv

LEMMA StutterKeeps ==
  ASSUME IInv, UNCHANGED vars
  PROVE  IInv' /\ Grows
<1>1. UNCHANGED <<tables, Outside, requests>> /\ Grows
  BY ReadsGrow DEF vars, Outside
<1> QED
  BY <1>1, QuietKeeps, ReadKeeps

LEMMA NextKeeps ==
  ASSUME IInv, [Next]_vars
  PROVE  IInv' /\ Grows
<1>1. ASSUME NEW w \in Workers, BeginCreate(w) \/ BeginSign(w) \/ Continue(w) \/ Crash(w)
      PROVE  IInv' /\ Grows
  BY <1>1, BeginCreateKeeps, BeginSignKeeps, CrashKeeps, InsertKeeps, SetExpiredKeeps,
     CheckEpochKeeps, BumpAccountKeeps, VoidStaleKeeps, StoreSignatureKeeps, CountKeeps,
     SetReadyKeeps
  DEF Continue
<1>2. CASE ExpireStale
  BY <1>2, ExpireStaleKeeps
<1>3. ASSUME NEW id \in Ids, MarkExecuted(id) \/ MarkSiblings(id)
      PROVE  IInv' /\ Grows
  BY <1>3, MarkExecutedKeeps, MarkSiblingsKeeps
<1>4. ASSUME NEW e \in Epochs \ {0}, MirrorAccount(e) \/ MirrorVoid(e)
      PROVE  IInv' /\ Grows
  BY <1>4, MirrorAccountKeeps, MirrorVoidKeeps
<1>5. CASE IndexerCrash \/ Reconfigure
  BY <1>5, IndexerCrashKeeps, ReconfigureKeeps
<1>6. CASE UNCHANGED vars
  BY <1>6, StutterKeeps
<1> QED
  BY <1>1, <1>2, <1>3, <1>4, <1>5, <1>6 DEF Next

LEMMA InvariantHolds == Safe => []IInv
<1>1. IInv /\ [Next]_vars => IInv'
  BY NextKeeps
<1> QED
  BY <1>1, InitIInv, PTL DEF Safe

-----------------------------------------------------------------------------
(* The theorems.  Safe leaves the requests' fairness out: none is needed.   *)

(***************************************************************************)
(* The rows of the tables, and what the indexer and the chain keep, have   *)
(* the types the schema gives them.                                        *)
(***************************************************************************)
THEOREM TypeCorrect == Safe => []TypeOK
<1>1. IInv => TypeOK
  BY DEF IInv
<1> QED
  BY <1>1, InvariantHolds, PTL

(***************************************************************************)
(* A ready proposal has as many signatures in the table as its own         *)
(* threshold asks for (service.ts:203-207), for any number of requests     *)
(* that count and write between one another's statements.                  *)
(***************************************************************************)
THEOREM QuorumReady == Safe => []ReadyHasQuorum
<1>1. IInv => ReadyHasQuorum
  BY DEF IInv
<1> QED
  BY <1>1, InvariantHolds, PTL

(***************************************************************************)
(* Two active proposals never share a nonce (0002_proposals.sql:22-23),    *)
(* whichever statement made them active.                                   *)
(***************************************************************************)
THEOREM UniqueNonce == Safe => []OneActivePerNonce
<1>1. IInv => OneActivePerNonce
  BY DEF IInv
<1> QED
  BY <1>1, InvariantHolds, PTL

(***************************************************************************)
(* The accounts row is a configuration the chain has had, although the api *)
(* and the indexer both write it and events are read again after a crash   *)
(* (service.ts:216-218, indexer.ts:130-133).                               *)
(***************************************************************************)
THEOREM MirrorConsistent == Safe => []MirrorIsConsistent
<1>1. IInv => MirrorIsConsistent
  BY DEF IInv
<1> QED
  BY <1>1, InvariantHolds, PTL

(***************************************************************************)
(* No step takes the mirrored epoch back.                                  *)
(***************************************************************************)
THEOREM EpochGrows == Safe => EpochMonotone
<1>1. IInv /\ [Next]_vars => account'.epoch >= account.epoch
  BY NextKeeps, ProposalsAssumption DEF Grows, IInv, TypeOK, Epochs
<1>2. IInv /\ [Next]_vars => [account'.epoch >= account.epoch]_vars
  BY <1>1
<1> QED
  BY <1>2, InvariantHolds, PTL DEF Safe, EpochMonotone

(***************************************************************************)
(* A request that began when the epoch had moved past the proposal stores  *)
(* no signature on it (service.ts:179-201): what it compared is the row it *)
(* read first and an account epoch that had only grown since it began.     *)
(***************************************************************************)
THEOREM FreshSignatures == Safe => NoStaleSignature
<1> DEFINE Fresh == \A w \in Workers : at[w] = "store" /\ sigs' # sigs /\ at'[w] # "store"
                      => mem[w].began <= mem[w].epoch
<1>1. IInv => [Fresh]_vars
  BY DEF IInv, RequestsOK, RequestOK
<1> QED
  BY <1>1, InvariantHolds, PTL DEF Safe, NoStaleSignature

-----------------------------------------------------------------------------
(* The answers of the api                                                  *)

\* Answers are remembered for open proposals, of signers whose signature is
\* in the table.
AcceptedStored ==
  \A id \in Ids : accepted[id] # {} =>
    id \in Created /\ proposals[id].status = "open" /\ accepted[id] \subseteq sigs[id]

\* A request that is past its write counts its own signature.
SignerStored ==
  \A w \in Workers : at[w] \in Signing => mem[w].signer \in sigs[mem[w].id]

\* The inductive invariant.
AInv == IInv /\ ApiTypeOK /\ AcceptedStored /\ SignerStored /\ AcceptedQuorumIsNoticed

IsOpen(id) == proposals[id] # None /\ proposals[id].status = "open"

-----------------------------------------------------------------------------
(* Every step of the api is a step of Proposals *)

LEMMA ApiStepIsStep == [ApiNext]_apiVars => [Next]_vars
BY DEF ApiNext, Serve, Die, Elsewhere, Next, apiVars

LEMMA ApiInitIsInit == ApiInit => Init
BY DEF ApiInit

-----------------------------------------------------------------------------
(* The answers *)

\* What was answered before the step still fits the tables after it.
LEMMA OldAnswers ==
  ASSUME AInv, IInv', Grows, NEW id \in Ids
  PROVE  /\ accepted[id] \subseteq sigs'[id]
         /\ IsOpen(id)' => ~(Cardinality(accepted[id]) >= proposals'[id].threshold)
<1>1. CASE accepted[id] = {}
  <2>1. Cardinality(accepted[id]) = 0
    BY <1>1, FS_EmptySet
  <2>2. IsOpen(id)' => proposals'[id].threshold \in Nat \ {0}
    BY ProposalsAssumption DEF IsOpen, IInv, TypeOK, Proposal
  <2> QED
    BY <1>1, <2>1, <2>2
<1>2. CASE accepted[id] # {}
  <2>1. id \in Created /\ proposals[id].status = "open" /\ accepted[id] \subseteq sigs[id]
    BY <1>2 DEF AInv, AcceptedStored
  <2>2. ~(Cardinality(accepted[id]) >= proposals[id].threshold)
    BY <2>1 DEF AInv, AcceptedQuorumIsNoticed
  <2> QED
    BY <2>1, <2>2 DEF Grows, Kept
<1> QED
  BY <1>1, <1>2

\* Answers are remembered rightly when those who were answered 201 have their
\* signature in the table and are no quorum of an open proposal.
LEMMA RememberKeeps ==
  ASSUME IInv', NEW a \in [Ids -> SUBSET Signers], NEW u \in SUBSET Ids, Remember(a, u),
         \A id \in Ids :
           /\ a[id] \subseteq sigs'[id]
           /\ IsOpen(id)' => ~(Cardinality(a[id]) >= proposals'[id].threshold)
  PROVE  ApiTypeOK' /\ AcceptedStored' /\ AcceptedQuorumIsNoticed'
<1>1. \A id \in Ids : accepted'[id] = IF IsOpen(id)' THEN a[id] ELSE {}
  BY DEF Remember, IsOpen
<1>2. accepted' \in [Ids -> SUBSET Signers] /\ unsure' \subseteq Ids
  BY DEF Remember
<1>3. AcceptedStored'
  BY <1>1 DEF AcceptedStored, IsOpen, Created
<1>4. AcceptedQuorumIsNoticed'
  BY <1>1 DEF AcceptedQuorumIsNoticed, IsOpen, Created
<1> QED
  BY <1>2, <1>3, <1>4 DEF ApiTypeOK, IInv

\* A step that answers nobody 201.
LEMMA SilentKeeps ==
  ASSUME AInv, IInv', Grows, NEW u \in SUBSET Ids, Remember(accepted, u)
  PROVE  ApiTypeOK' /\ AcceptedStored' /\ AcceptedQuorumIsNoticed'
BY OldAnswers, RememberKeeps DEF AInv, ApiTypeOK

\* A request that is past its write has its signature in the table.
LEMMA SignedTask ==
  ASSUME AInv, NEW w \in Workers, at[w] \in Signing
  PROVE  /\ mem[w].id \in Ids /\ mem[w].id \in Created /\ mem[w].signer \in Signers
         /\ mem[w].threshold = proposals[mem[w].id].threshold
         /\ mem[w].signer \in sigs[mem[w].id]
BY DEF AInv, IInv, RequestsOK, RequestOK, Signing, SignStatements, SignerStored

\* 201 after a count: the count had everyone who was answered 201 in it.
LEMMA CountedKeeps ==
  ASSUME AInv, IInv', Grows, NEW w \in Workers, Count(w), Tell(w, 201),
         ~(Cardinality(sigs[mem[w].id]) >= mem[w].threshold)
  PROVE  ApiTypeOK' /\ AcceptedStored' /\ AcceptedQuorumIsNoticed'
<1> DEFINE p == mem[w].id
           a == [accepted EXCEPT ![p] = @ \cup {mem[w].signer}]
<1>1. /\ p \in Ids /\ p \in Created /\ mem[w].signer \in Signers
      /\ mem[w].threshold = proposals[p].threshold /\ mem[w].signer \in sigs[p]
      /\ sigs' = sigs /\ proposals' = proposals
  BY SignedTask DEF Count, Signing, tables
<1>2. Remember(a, unsure)
  BY DEF Tell
<1>3. accepted \in [Ids -> SUBSET Signers] /\ unsure \in SUBSET Ids
  BY DEF AInv, ApiTypeOK
<1>4. a \in [Ids -> SUBSET Signers] /\ a[p] = accepted[p] \cup {mem[w].signer}
      /\ \A id \in Ids : id # p => a[id] = accepted[id]
  BY <1>1, <1>3
<1>5. a[p] \subseteq sigs[p]
  BY <1>1, <1>4, OldAnswers
<1>6. ~(Cardinality(a[p]) >= proposals[p].threshold)
  <2>1. IsFiniteSet(sigs[p]) /\ proposals[p].threshold \in Nat
    BY <1>1, CreatedTyped, ProposalsAssumption DEF AInv, IInv, FiniteSigs, Proposal
  <2>2. Cardinality(a[p]) \in Nat /\ Cardinality(sigs[p]) \in Nat
        /\ Cardinality(a[p]) <= Cardinality(sigs[p])
    BY <1>5, <2>1, FS_Subset, FS_CardinalityType
  <2> QED
    BY <1>1, <2>1, <2>2
<1>7. \A id \in Ids :
        /\ a[id] \subseteq sigs'[id]
        /\ IsOpen(id)' => ~(Cardinality(a[id]) >= proposals'[id].threshold)
  BY <1>1, <1>4, <1>5, <1>6, OldAnswers
<1> HIDE DEF a
<1> QED
  BY <1>2, <1>3, <1>4, <1>7, RememberKeeps

\* 201 after setStatus: the proposal is ready, and no longer open.
LEMMA ReadyTold ==
  ASSUME AInv, IInv', Grows, NEW w \in Workers, SetReady(w), Tell(w, Status(w))
  PROVE  ApiTypeOK' /\ AcceptedStored' /\ AcceptedQuorumIsNoticed'
<1> DEFINE p == mem[w].id
           a == [accepted EXCEPT ![p] = @ \cup {mem[w].signer}]
<1>1. at[w] = "ready" /\ p \in Ids /\ mem[w].signer \in Signers /\ mem[w].signer \in sigs[p]
  BY SignedTask DEF SetReady, Signing
<1>2. accepted \in [Ids -> SUBSET Signers] /\ unsure \in SUBSET Ids
  BY DEF AInv, ApiTypeOK
<1>3. CASE proposals'[p].status # "ready"
  <2>1. Remember(accepted, unsure \cup {p})
    BY <1>1, <1>3 DEF Tell, Status
  <2> QED
    BY <1>1, <1>2, <2>1, SilentKeeps
<1>4. CASE proposals'[p].status = "ready"
  <2>1. Remember(a, unsure)
    BY <1>1, <1>4 DEF Tell, Status
  <2>2. a \in [Ids -> SUBSET Signers] /\ a[p] = accepted[p] \cup {mem[w].signer}
        /\ \A id \in Ids : id # p => a[id] = accepted[id]
    BY <1>1, <1>2
  <2>3. a[p] \subseteq sigs'[p]
    BY <1>1, <2>2, OldAnswers DEF Grows
  <2>4. \A id \in Ids :
          /\ a[id] \subseteq sigs'[id]
          /\ IsOpen(id)' => ~(Cardinality(a[id]) >= proposals'[id].threshold)
    BY <1>4, <2>2, <2>3, OldAnswers DEF IsOpen
  <2> HIDE DEF a
  <2> QED
    BY <1>2, <2>1, <2>2, <2>4, RememberKeeps
<1> QED
  BY <1>3, <1>4

LEMMA ServeKeeps ==
  ASSUME AInv, IInv', Grows, NEW w \in Workers, Serve(w)
  PROVE  ApiTypeOK' /\ AcceptedStored' /\ AcceptedQuorumIsNoticed'
<1>1. CASE at'[w] = "idle" /\ at[w] = "count"
  <2>1. Count(w)
    BY <1>1 DEF Serve, Continue, Insert, SetExpired, CheckEpoch, BumpAccount, VoidStale,
                StoreSignature, SetReady
  <2>2. ~(Cardinality(sigs[mem[w].id]) >= mem[w].threshold)
    <3>1. Await(w, "ready", mem[w]) => at'[w] = "ready"
      BY AwaitTask DEF AInv, IInv, RequestsOK, Statements
    <3> QED
      BY <1>1, <2>1, <3>1 DEF Count
  <2>3. Tell(w, 201)
    BY <1>1 DEF Serve, Signing, Status
  <2> QED
    BY <2>1, <2>2, <2>3, CountedKeeps
<1>2. CASE at'[w] = "idle" /\ at[w] = "ready"
  <2>1. SetReady(w)
    BY <1>2 DEF Serve, Continue, Insert, SetExpired, CheckEpoch, BumpAccount, VoidStale,
                StoreSignature, Count
  <2> QED
    BY <1>2, <2>1, ReadyTold DEF Serve, Signing
<1>3. CASE ~(at'[w] = "idle" /\ at[w] \in Signing)
  BY <1>3, SilentKeeps DEF Serve, AInv, ApiTypeOK
<1> QED
  BY <1>1, <1>2, <1>3 DEF Signing

LEMMA DieKeeps ==
  ASSUME AInv, IInv', Grows, NEW w \in Workers, Die(w)
  PROVE  ApiTypeOK' /\ AcceptedStored' /\ AcceptedQuorumIsNoticed'
<1>1. \E u \in SUBSET Ids : Remember(accepted, u)
  BY SignedTask DEF Die, Tell, AInv, ApiTypeOK
<1> QED
  BY <1>1, SilentKeeps

-----------------------------------------------------------------------------
(* The signature a request counts stays in the table *)

LEMMA TaskSigned ==
  ASSUME AInv, Grows, NEW w \in Workers, NEW statement \in Statements, NEW m,
         Await(w, statement, m),
         statement \in Signing => m.id \in Ids /\ m.signer \in sigs'[m.id]
  PROVE  SignerStored'
<1>1. /\ at'[w] = statement /\ mem'[w] = m
      /\ \A v \in Workers : v # w => at'[v] = at[v] /\ mem'[v] = mem[v]
  BY AwaitTask DEF AInv, IInv, RequestsOK
<1>2. \A v \in Workers : at[v] \in Signing => mem[v].signer \in sigs'[mem[v].id]
  BY SignedTask DEF Grows
<1> QED
  BY <1>1, <1>2 DEF SignerStored

LEMMA StepSigned ==
  ASSUME AInv, Grows, [Next]_vars
  PROVE  SignerStored'
<1>1. ASSUME NEW w \in Workers, StoreSignature(w) PROVE SignerStored'
  <2>1. mem[w].id \in Ids
    BY <1>1 DEF StoreSignature, AInv, IInv, RequestsOK, RequestOK, SignStatements
  <2>2. mem[w].signer \in sigs'[mem[w].id]
    BY <1>1, <2>1 DEF StoreSignature, AInv, IInv, TypeOK
  <2> QED
    BY <1>1, <2>1, <2>2, TaskSigned DEF StoreSignature, Statements
<1>2. ASSUME NEW w \in Workers, Count(w) PROVE SignerStored'
  <2>1. at[w] \in Signing
    BY <1>2 DEF Count, Signing
  <2>2. mem[w].id \in Ids /\ mem[w].signer \in sigs'[mem[w].id]
    BY <2>1, SignedTask DEF Grows
  <2>3. CASE Await(w, "ready", mem[w])
    BY <2>2, <2>3, TaskSigned DEF Statements
  <2>4. CASE Await(w, "idle", None)
    BY <2>4, TaskSigned DEF Statements, Signing
  <2> QED
    BY <1>2, <2>3, <2>4 DEF Count, Finish
<1>3. ASSUME NEW w \in Workers,
             \/ BeginCreate(w) \/ BeginSign(w) \/ Insert(w) \/ SetExpired(w) \/ CheckEpoch(w)
             \/ BumpAccount(w) \/ VoidStale(w) \/ SetReady(w) \/ Crash(w)
      PROVE  SignerStored'
  <2>1. \E statement \in Statements \ Signing, m \in {mem'[w]} : Await(w, statement, m)
    BY <1>3 DEF BeginCreate, BeginSign, Insert, SetExpired, CheckEpoch, BumpAccount,
                VoidStale, SetReady, Crash, Finish, Statements, Signing, Await, AInv, IInv,
                RequestsOK
  <2> QED
    BY <2>1, TaskSigned
<1>4. CASE UNCHANGED requests
  BY <1>4, SignedTask DEF SignerStored, requests, Grows
<1> QED
  BY <1>1, <1>2, <1>3, <1>4
  DEF Next, Continue, ExpireStale, MarkSiblings, MarkExecuted, MirrorAccount,
      MirrorVoid, IndexerCrash, Reconfigure, vars

-----------------------------------------------------------------------------
(* The invariant *)

LEMMA InitAInv == ApiInit => AInv
<1> SUFFICES ASSUME ApiInit PROVE AInv
  OBVIOUS
<1>1. IInv
  BY ApiInitIsInit, InitIInv
<1>2. ApiTypeOK /\ AcceptedStored
  BY <1>1 DEF ApiInit, ApiTypeOK, AcceptedStored, IInv
<1>3. SignerStored /\ AcceptedQuorumIsNoticed
  BY DEF ApiInit, Init, SignerStored, Signing, AcceptedQuorumIsNoticed, Created
<1> QED
  BY <1>1, <1>2, <1>3 DEF AInv

LEMMA ApiNextKeeps ==
  ASSUME AInv, [ApiNext]_apiVars
  PROVE  AInv'
<1>1. [Next]_vars /\ IInv' /\ Grows
  BY ApiStepIsStep, NextKeeps DEF AInv
<1>2. SignerStored'
  BY <1>1, StepSigned
<1>3. ASSUME NEW w \in Workers, Serve(w) \/ Die(w)
      PROVE  ApiTypeOK' /\ AcceptedStored' /\ AcceptedQuorumIsNoticed'
  BY <1>1, <1>3, ServeKeeps, DieKeeps
<1>4. ASSUME Remember(accepted, unsure)
      PROVE  ApiTypeOK' /\ AcceptedStored' /\ AcceptedQuorumIsNoticed'
  BY <1>1, <1>4, SilentKeeps DEF AInv, ApiTypeOK
<1>5. ASSUME UNCHANGED apiVars
      PROVE  ApiTypeOK' /\ AcceptedStored' /\ AcceptedQuorumIsNoticed'
  BY <1>1, <1>5
  DEF apiVars, vars, told, tables, AInv, ApiTypeOK, IInv, AcceptedStored,
      AcceptedQuorumIsNoticed, Created
<1> QED
  BY <1>1, <1>2, <1>3, <1>4, <1>5 DEF AInv, ApiNext

LEMMA ApiInvariantHolds == ApiSpec => []AInv
<1>1. AInv /\ [ApiNext]_apiVars => AInv'
  BY ApiNextKeeps
<1> QED
  BY <1>1, InitAInv, PTL DEF ApiSpec

-----------------------------------------------------------------------------
(* The theorems *)

(***************************************************************************)
(* The api implements Proposals: whatever the routes answer, the tables    *)
(* only see the service's statements, so all that is proved of Proposals   *)
(* holds behind the api.                                                   *)
(***************************************************************************)
THEOREM ApiImplementsProposals == ApiSpec => Safe
BY ApiInitIsInit, ApiStepIsStep, PTL DEF ApiSpec, Safe

(***************************************************************************)
(* The tables and the answers have their types.                            *)
(***************************************************************************)
THEOREM ApiTypeCorrect == ApiSpec => []ApiTypeOK
<1>1. AInv => ApiTypeOK
  BY DEF AInv
<1> QED
  BY <1>1, ApiInvariantHolds, PTL

(***************************************************************************)
(* Behind the api, too, the mirrored account is one the chain has had, and *)
(* its epoch never goes back.                                              *)
(***************************************************************************)
THEOREM ApiMirrorConsistent == ApiSpec => []MirrorIsConsistent /\ EpochMonotone
BY ApiImplementsProposals, MirrorConsistent, EpochGrows, PTL

(***************************************************************************)
(* When as many signers as the threshold have been answered 201, the       *)
(* proposal is not open any more (service.ts:198-208): for any number of   *)
(* signers who count at the same time, and wherever a request dies.        *)
(***************************************************************************)
THEOREM QuorumAcknowledged == ApiSpec => []AcceptedQuorumIsNoticed
<1>1. AInv => AcceptedQuorumIsNoticed
  BY DEF AInv
<1> QED
  BY <1>1, ApiInvariantHolds, PTL
=============================================================================
