--------------------------------- MODULE Api ---------------------------------
(***************************************************************************)
(* The HTTP api over Proposals: what POST /proposals/:id/signatures        *)
(* (src/services/api/src/app.ts) answers, and to whom, as each request     *)
(* ends.  A request that verifyRequest refuses (app.ts:73-85) never        *)
(* reaches the service and changes nothing; one that is sent again, by a   *)
(* signer who retries or within the clock skew, is one more request.       *)
(***************************************************************************)
EXTENDS Proposals

VARIABLES
  accepted,  \* signers who were answered 201, per open proposal
  unsure     \* open proposals on which a signer was answered 500, or not at
             \* all, although the signature was stored

told == <<accepted, unsure>>
apiVars == <<vars, told>>

ApiTypeOK ==
  /\ TypeOK
  /\ accepted \in [Ids -> SUBSET Signers]
  /\ unsure \subseteq Ids

ApiInit ==
  /\ Init
  /\ accepted = [id \in Ids |-> {}]
  /\ unsure = {}

\* Statements of addSignature after which a signature may be in the table.
Signing == {"count", "ready"}

\* The code of the answer as request w ends with its present statement: the
\* route answers 201, and an error that is no ProposalError, like a unique
\* violation of setStatus, is 500.
Status(w) ==
  IF at[w] = "ready" /\ proposals'[mem[w].id].status # "ready" THEN 500 ELSE 201

\* What is remembered of the answers: only those about proposals that are
\* open after the step, as no proposal is opened again.
Remember(a, u) ==
  LET open == {id \in Ids : proposals'[id] # None /\ proposals'[id].status = "open"}
  IN /\ accepted' = [id \in Ids |-> IF id \in open THEN a[id] ELSE {}]
     /\ unsure' = u \cap open

\* POST /proposals/:id/signatures is answered.
Tell(w, code) ==
  Remember(IF code = 201 THEN [accepted EXCEPT ![mem[w].id] = @ \cup {mem[w].signer}]
                         ELSE accepted,
           IF code = 500 THEN unsure \cup {mem[w].id} ELSE unsure)

Serve(w) ==
  /\ Continue(w)
  /\ IF at'[w] = "idle" /\ at[w] \in Signing THEN Tell(w, Status(w))
                                              ELSE Remember(accepted, unsure)

\* The process or its database connection dies under the request.
Die(w) ==
  /\ Crash(w)
  /\ IF at[w] \in Signing THEN Tell(w, 500) ELSE Remember(accepted, unsure)

Elsewhere ==
  \/ \E w \in Workers : BeginCreate(w) \/ BeginSign(w)
  \/ ExpireStale
  \/ \E id \in Ids : MarkExecuted(id) \/ MarkSiblings(id)
  \/ \E e \in Epochs \ {0} : MirrorAccount(e) \/ MirrorVoid(e)
  \/ IndexerCrash
  \/ Reconfigure

ApiNext ==
  \/ \E w \in Workers : Serve(w) \/ Die(w)
  \/ Elsewhere /\ Remember(accepted, unsure)

\* The fairness of Proposals.
ApiSpec == ApiInit /\ [][ApiNext]_apiVars /\ \A w \in Workers : WF_apiVars(Serve(w))

-----------------------------------------------------------------------------
(* Properties *)

(***************************************************************************)
(* A signer's 201 counts: when as many signers as the threshold have been  *)
(* answered 201, the proposal is not left open, although each of them      *)
(* counted without a lock and a request may die between any two statements *)
(* (service.ts:198-208).  Whoever stored last counted all of them.         *)
(***************************************************************************)
AcceptedQuorumIsNoticed ==
  \A id \in Created :
    Cardinality(accepted[id]) >= proposals[id].threshold => proposals[id].status # "open"

(***************************************************************************)
(* A quorum is noticed in the end, or somebody was told that something is  *)
(* wrong and may sign again: an open proposal with enough signatures does  *)
(* not stay open in silence, whatever dies (service.ts:198-208).           *)
(***************************************************************************)
QuorumNoticed ==
  \A id \in Ids : OpenWithQuorum(id) ~> ~OpenWithQuorum(id) \/ id \in unsure
=============================================================================
