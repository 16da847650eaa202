---------------------------- MODULE Relayer_proofs ----------------------------
(***************************************************************************)
(* Proofs about the calls of Relayer, for every number of calls, channels  *)
(* and attempts, every fee configuration and set of faults: what a call has*)
(* told its caller, its books and the network about itself.  None of this  *)
(* depends on how the pool hands out channels and numbers; RelayerPool_    *)
(* proofs is about that.                                                   *)
(*                                                                         *)
(* The argument: until it is past "send" a call has nothing with the       *)
(* network, and it goes back to "fees" only from there.  So there is one   *)
(* transaction at most (OneTx), its fee is the call's last bid, and what   *)
(* the call learns of it at "confirm" cannot change any more (NoteOK).     *)
(***************************************************************************)
EXTENDS Relayer, Arithmetic_proofs, SequenceTheorems, FiniteSetTheorems, TLAPS

Steps == {"new", "latest", "fees", "acquire", "prepare", "send", "confirm", "record", "done"}

\* Before its transaction is accepted a call is at one of these awaits.
Unsent == {"new", "latest", "fees", "acquire", "prepare", "send"}

\* The network has, had and will get nothing of call r.
Nothing(r) == (\A t \in Alive : t.req # r) /\ (\A e \in applied : e.tx.req # r)

\* The invocation of r has not taken effect, and nothing pending can change it.
Refused(r) == ~Succeeded(r) /\ \A t \in Alive : t.req # r

\* The network has, or may get, one transaction of a call at most, bid with its
\* last fee, and none of a call that has not sent one.
OneTx ==
  /\ \A t \in Alive :
       t.req \in Requests /\ step[t.req] \notin Unsent /\ t.fee = fee[t.req]
  /\ \A e \in applied :
       e.tx.req \in Requests /\ step[e.tx.req] \notin Unsent /\ e.tx.fee = fee[e.tx.req]
  /\ \A t, u \in Alive : t.req = u.req => t = u
  /\ \A e, f \in applied : e.tx.req = f.tx.req => e = f
  /\ \A t \in Alive, e \in applied : t.req # e.tx.req
  /\ late \cap mempool = {}

\* The fee of what the network may have of r is in the books.
Charged(r) == Nothing(r) \/ counted[r][1].fee = fee[r]

\* What a call that awaits store.record is about to write and to say.
NoteOK(r) ==
  /\ note[r] \in Note
  /\ note[r].row.status = "success" <=> note[r].then = "success"
  /\ note[r].then = "success" => Succeeded(r)
  /\ note[r].then \in Refusals => Refused(r)
  /\ Len(counted[r]) = 1 /\ counted[r][1].outcome = note[r].row.status
  /\ Charged(r)

\* What an answered call has written and said.
EndOK(r) ==
  /\ answer[r] \in Answers
  /\ answer[r] = "success" => rows[r] # << >> /\ rows[r][1].status = "success" /\ Succeeded(r)
  /\ answer[r] \in Refusals => Refused(r)
  /\ Len(counted[r]) <= 1 /\ Len(rows[r]) <= Len(counted[r])
  /\ rows[r] # << >> =>
       /\ rows[r][1].status = counted[r][1].outcome
       /\ rows[r][1].status = "success" => Succeeded(r)
  /\ \/ Nothing(r)
     \/ EndedEarly(r)
     \/ counted[r] # << >> /\ counted[r][1].fee = fee[r]

CallOK(r) ==
  /\ step[r] # "done" => answer[r] = None /\ rows[r] = << >>
  /\ step[r] \notin {"record", "done"} => counted[r] = << >> /\ note[r] = NoNote
  /\ step[r] = "record" => NoteOK(r)
  /\ step[r] = "done" => EndOK(r)

\* The inductive invariant.
CallInv == CallsTyped /\ OneTx /\ \A r \in Requests : CallOK(r)

-----------------------------------------------------------------------------
(* What every step has in common *)

\* A step of call r leaves the other calls alone.
Alone(r) ==
  \A q \in Requests \ {r} :
    /\ step'[q] = step[q] /\ fee'[q] = fee[q] /\ note'[q] = note[q]
    /\ answer'[q] = answer[q] /\ rows'[q] = rows[q] /\ counted'[q] = counted[q]

\* What is known of call q's transaction stays true.
NetKept(q) ==
  /\ Succeeded(q) => Succeeded(q)'
  /\ Refused(q) => Refused(q)'
  /\ Nothing(q) => Nothing(q)'

\* A sequence of one element, as the provers see it.
LEMMA OneElement ==
  ASSUME NEW S, NEW s \in Seq(S), Len(s) = 1
  PROVE  s # << >>
BY EmptySeq

LEMMA LenEmpty == Len(<< >>) = 0
OBVIOUS

\* A call that has not sent has nothing with the network.
LEMMA UnsentNothing ==
  ASSUME CallInv, NEW r \in Requests, step[r] \in Unsent
  PROVE  Nothing(r) /\ Refused(r)
BY DEF CallInv, OneTx, Nothing, Refused, Succeeded

LEMMA OtherKept ==
  ASSUME CallInv, NEW q \in Requests, NetKept(q),
         step'[q] = step[q] /\ fee'[q] = fee[q] /\ note'[q] = note[q],
         answer'[q] = answer[q] /\ rows'[q] = rows[q] /\ counted'[q] = counted[q]
  PROVE  CallOK(q)'
BY DEF CallInv, CallOK, NoteOK, EndOK, EndedEarly, Charged, NetKept

\* A step of one call that the network has no part in.
LEMMA QuietCall ==
  ASSUME CallInv, NEW r \in Requests, Alone(r), UNCHANGED <<late, mempool, applied>>,
         CallsTyped', CallOK(r)',
         step[r] \notin Unsent => step'[r] \notin Unsent /\ fee'[r] = fee[r]
  PROVE  CallInv'
<1>1. Alive' = Alive /\ \A q \in Requests : NetKept(q)
  BY DEF NetKept, Succeeded, Refused, Nothing, Alive
<1>2. \A q \in Requests : CallOK(q)'
  BY <1>1, OtherKept DEF Alone
<1>3. OneTx'
  BY <1>1 DEF CallInv, OneTx, Alone
<1> QED
  BY <1>2, <1>3 DEF CallInv

\* A call goes on towards "send".
LEMMA MovesOn ==
  ASSUME CallInv, NEW r \in Requests, step[r] \in Unsent,
         NEW s \in Unsent, step' = [step EXCEPT ![r] = s],
         UNCHANGED <<answer, note, bookVars, late, mempool, applied>>,
         attempt' \in [Requests -> 0..(MaxAttempts - 1)],
         expiry' \in [Requests -> Int \cup {None}],
         fee' \in [Requests -> Nat], \A q \in Requests \ {r} : fee'[q] = fee[q]
  PROVE  CallInv'
<1>1. step'[r] = s /\ \A q \in Requests \ {r} : step'[q] = step[q]
  BY DEF CallInv, CallsTyped
<1>2. CallsTyped'
  BY DEF CallInv, CallsTyped, bookVars, Unsent
<1>3. Alone(r)
  BY <1>1 DEF Alone, bookVars
<1>4. CallOK(r)'
  <2>1. answer[r] = None /\ rows[r] = << >> /\ counted[r] = << >> /\ note[r] = NoNote
    BY DEF CallInv, CallOK, Unsent
  <2> QED
    BY <1>1, <2>1 DEF CallOK, bookVars, Unsent
<1> QED
  BY <1>2, <1>3, <1>4, QuietCall

\* A call that has not sent, or whose books are still empty, ends.
LEMMA Ends ==
  ASSUME CallInv, NEW r \in Requests, NEW a \in Refusals \cup {"threw"}, Answer(r, a),
         step[r] \in Unsent \cup {"confirm"}, a \in Refusals => step[r] \in Unsent,
         UNCHANGED <<attempt, fee, expiry, note, rows, late, mempool, applied>>,
         \/ UNCHANGED counted
         \/ \E label \in {"failed", "fee_cap"} : Count(r, label, 0)
  PROVE  CallInv'
<1>1. /\ answer[r] = None /\ rows[r] = << >> /\ counted[r] = << >> /\ note[r] = NoNote
      /\ step \in [Requests -> Steps] /\ answer \in [Requests -> Answers \cup {None}]
      /\ counted \in [Requests -> Seq(Counter)]
  BY DEF CallInv, CallOK, Unsent, CallsTyped, Steps
<1>2. /\ step'[r] = "done" /\ answer'[r] = a
      /\ \A q \in Requests \ {r} : step'[q] = step[q] /\ answer'[q] = answer[q]
      /\ step' \in [Requests -> Steps] /\ answer' \in [Requests -> Answers \cup {None}]
  BY <1>1 DEF Answer, Steps, Answers, Errors
<1>3. /\ counted' \in [Requests -> Seq(Counter)] /\ (Len(counted'[r]) = 0 \/ Len(counted'[r]) = 1)
      /\ \A q \in Requests \ {r} : counted'[q] = counted[q]
  <2>1. CASE UNCHANGED counted
    BY <1>1, <2>1, LenEmpty
  <2>2. ASSUME NEW label \in {"failed", "fee_cap"}, Count(r, label, 0)
        PROVE  /\ counted' \in [Requests -> Seq(Counter)] /\ (Len(counted'[r]) = 0 \/ Len(counted'[r]) = 1)
               /\ \A q \in Requests \ {r} : counted'[q] = counted[q]
    <3> DEFINE c == [outcome |-> label, fee |-> 0]
    <3>1. c \in Counter
      BY DEF Counter
    <3>2. Append(counted[r], c) \in Seq(Counter) /\ Len(Append(counted[r], c)) = 1
      BY <1>1, <3>1, AppendProperties, EmptySeq
    <3>3. counted' = [counted EXCEPT ![r] = Append(counted[r], c)]
      BY <2>2 DEF Count
    <3> HIDE DEF c
    <3> QED
      BY <1>1, <3>2, <3>3
  <2> QED
    BY <2>1, <2>2
<1>4. CallsTyped'
  BY <1>2, <1>3 DEF CallInv, CallsTyped, Steps
<1>5. Alone(r)
  BY <1>2, <1>3 DEF Alone
<1>6. a \in Refusals => Nothing(r)' /\ Refused(r)'
  BY UnsentNothing DEF Nothing, Refused, Succeeded, Alive
<1>7. CallOK(r)'
  <2>1. rows'[r] = << >> /\ Len(rows'[r]) = 0
    BY <1>1, LenEmpty
  <2>2. a \in Answers /\ a \notin {"success", "timeout"}
    BY DEF Answers, Errors, Refusals
  <2>3. EndOK(r)'
    <3>1. Len(counted'[r]) <= 1 /\ 0 <= Len(counted'[r])
      <4>1. CASE Len(counted'[r]) = 0
        BY <4>1
      <4>2. CASE Len(counted'[r]) = 1
        BY <4>2
      <4> QED
        BY <1>3, <4>1, <4>2
    <3>2. Len(rows'[r]) = 0
      BY <2>1
    <3>3. Nothing(r)' \/ EndedEarly(r)'
      BY <1>1, <1>2, <1>6 DEF EndedEarly
    <3> QED
      BY <1>2, <1>6, <2>1, <2>2, <3>1, <3>2, <3>3 DEF EndOK
  <2> QED
    BY <1>2, <2>3 DEF CallOK
<1> QED
  BY <1>2, <1>4, <1>5, <1>7, QuietCall DEF Unsent

\* A call counts its outcome and awaits store.record.
LEMMA Records ==
  ASSUME CallInv, NEW r \in Requests, step[r] \in {"latest", "send", "confirm"},
         NEW row \in Rows, NEW outcome \in Pool!Outcomes \cup {None},
         NEW then \in {"success"} \cup Errors, NEW spent \in Nat,
         Count(r, row.status, spent), AwaitRecord(r, row, outcome, then),
         UNCHANGED <<attempt, fee, expiry, rows, late, mempool, applied>>,
         row.status = "success" <=> then = "success",
         then = "success" => Succeeded(r), then \in Refusals => Refused(r),
         Nothing(r) \/ spent = fee[r]
  PROVE  CallInv'
<1> DEFINE c == [outcome |-> row.status, fee |-> spent]
           n == [row |-> row, outcome |-> outcome, then |-> then]
<1>1. /\ answer[r] = None /\ rows[r] = << >> /\ counted[r] = << >>
      /\ step \in [Requests -> Steps] /\ note \in [Requests -> Note \cup {NoNote}]
      /\ counted \in [Requests -> Seq(Counter)]
  BY DEF CallInv, CallOK, CallsTyped, Steps
<1>2. c \in Counter /\ n \in Note
  BY DEF Counter, Note, Rows
<1>3. /\ Append(counted[r], c) \in Seq(Counter) /\ Len(Append(counted[r], c)) = 1
      /\ Append(counted[r], c)[1] = c
  BY <1>1, <1>2, AppendProperties, EmptySeq
<1>4. c.outcome = row.status /\ c.fee = spent /\ n.row = row /\ n.then = then
  OBVIOUS
<1>5. /\ counted' = [counted EXCEPT ![r] = Append(counted[r], c)]
      /\ note' = [note EXCEPT ![r] = n] /\ step' = [step EXCEPT ![r] = "record"]
      /\ answer' = answer
  BY DEF Count, AwaitRecord, Goto
<1> HIDE DEF c, n
<1>6. /\ step'[r] = "record" /\ note'[r] = n /\ counted'[r] = Append(counted[r], c)
      /\ \A q \in Requests \ {r} :
           step'[q] = step[q] /\ note'[q] = note[q] /\ counted'[q] = counted[q]
      /\ step' \in [Requests -> Steps] /\ note' \in [Requests -> Note \cup {NoNote}]
      /\ counted' \in [Requests -> Seq(Counter)]
  BY <1>1, <1>2, <1>3, <1>5 DEF Steps
<1>7. CallsTyped'
  BY <1>5, <1>6 DEF CallInv, CallsTyped, Steps
<1>8. Alone(r)
  BY <1>5, <1>6 DEF Alone
<1>9. CallOK(r)'
  BY <1>1, <1>2, <1>3, <1>4, <1>5, <1>6
  DEF CallOK, NoteOK, Charged, Nothing, Refused, Succeeded, Alive
<1> QED
  BY <1>6, <1>7, <1>8, <1>9, QuietCall DEF Unsent

\* store.record answers or rejects, and the call is answered.
LEMMA RecordEnds ==
  ASSUME CallInv, NEW r \in Requests, step[r] = "record",
         NEW a \in {note[r].then, "threw"}, Answer(r, a),
         \/ rows' = [rows EXCEPT ![r] = Append(@, note[r].row)]
         \/ UNCHANGED rows /\ a = "threw",
         UNCHANGED <<attempt, fee, expiry, note, counted, late, mempool, applied>>
  PROVE  CallInv'
<1>1. /\ answer[r] = None /\ rows[r] = << >> /\ NoteOK(r)
      /\ step \in [Requests -> Steps] /\ answer \in [Requests -> Answers \cup {None}]
      /\ rows \in [Requests -> Seq(Rows)]
  BY DEF CallInv, CallOK, CallsTyped, Steps
<1>2. note[r].row \in Rows /\ note[r].then \in {"success"} \cup Errors
  BY <1>1 DEF NoteOK, Note
<1>4. /\ step'[r] = "done" /\ answer'[r] = a
      /\ \A q \in Requests \ {r} : step'[q] = step[q] /\ answer'[q] = answer[q]
      /\ step' \in [Requests -> Steps] /\ answer' \in [Requests -> Answers \cup {None}]
  BY <1>1, <1>2 DEF Answer, Steps, Answers, Errors
<1>5. /\ Append(rows[r], note[r].row) \in Seq(Rows) /\ Len(Append(rows[r], note[r].row)) = 1
      /\ Append(rows[r], note[r].row)[1] = note[r].row
  BY <1>1, <1>2, AppendProperties, EmptySeq
<1>6. /\ rows' \in [Requests -> Seq(Rows)]
      /\ \A q \in Requests \ {r} : rows'[q] = rows[q]
      /\ \/ rows'[r] = Append(rows[r], note[r].row)
         \/ rows'[r] = << >> /\ a = "threw"
  BY <1>1, <1>5
<1>7. CallsTyped'
  BY <1>4, <1>6 DEF CallInv, CallsTyped, Steps
<1>8. Alone(r)
  BY <1>4, <1>6 DEF Alone
<1>9. CallOK(r)'
  <2> DEFINE row == note[r].row
  <2>1. (Succeeded(r) => Succeeded(r)') /\ (Refused(r) => Refused(r)')
        /\ (Nothing(r) => Nothing(r)')
    BY DEF Nothing, Refused, Succeeded, Alive
  <2>2. /\ Len(counted'[r]) = 1 /\ counted'[r][1].outcome = row.status
        /\ Nothing(r) \/ counted'[r][1].fee = fee'[r]
        /\ counted'[r] # << >>
    BY <1>1, EmptySeq DEF NoteOK, Charged
  <2>3. CASE rows'[r] = << >> /\ a = "threw"
    <3>1. answer'[r] = "threw" /\ rows'[r] = << >> /\ Len(rows'[r]) = 0
      BY <1>4, <2>3, EmptySeq
    <3>2. /\ answer'[r] \in Answers /\ answer'[r] # "success" /\ answer'[r] \notin Refusals
          /\ Len(counted'[r]) <= 1 /\ Len(rows'[r]) <= Len(counted'[r])
      BY <2>2, <3>1 DEF Answers, Errors, Refusals
    <3>3. EndOK(r)'
      BY <2>1, <2>2, <3>1, <3>2 DEF EndOK
    <3> QED
      BY <1>4, <3>3 DEF CallOK
  <2>4. CASE rows'[r] = Append(rows[r], row)
    <3>1. Len(rows'[r]) = 1 /\ rows'[r] # << >> /\ rows'[r][1] = row
      BY <1>5, <2>4, OneElement
    <3>2. /\ a \in Answers
          /\ row.status = "success" => Succeeded(r)
          /\ a = "success" => row.status = "success"
          /\ a \in Refusals => Refused(r)
      BY <1>1, <1>2 DEF NoteOK, Answers, Errors, Refusals
    <3> HIDE DEF row
    <3>3. Len(counted'[r]) <= 1 /\ Len(rows'[r]) <= Len(counted'[r])
      BY <2>2, <3>1
    <3>4. EndOK(r)'
      <4>1. /\ answer'[r] \in Answers
            /\ answer'[r] = "success" =>
                 rows'[r] # << >> /\ rows'[r][1].status = "success" /\ Succeeded(r)'
            /\ answer'[r] \in Refusals => Refused(r)'
        BY <1>4, <2>1, <3>1, <3>2
      <4>2. rows'[r][1].status = counted'[r][1].outcome
        BY <2>2, <3>1
      <4>3. rows'[r][1].status = "success" => Succeeded(r)'
        BY <2>1, <3>1, <3>2
      <4>4. Nothing(r)' \/ (counted'[r] # << >> /\ counted'[r][1].fee = fee'[r])
        BY <2>1, <2>2
      <4> QED
        BY <3>3, <4>1, <4>2, <4>3, <4>4 DEF EndOK
    <3> QED
      BY <1>4, <3>4 DEF CallOK
  <2> QED
    BY <1>6, <2>3, <2>4
<1> QED
  BY <1>4, <1>7, <1>8, <1>9, QuietCall DEF Unsent

-----------------------------------------------------------------------------
(* What reaches the network *)

\* What the network may get of a call grows by the transactions of some calls at
\* "send", which leave it: the network takes them, or they are on their way.
LEMMA Sent ==
  ASSUME CallInv, NEW sent \in SUBSET {r \in Requests : step[r] = "send"},
         NEW new, new = {TxOf(r) : r \in sent},
         \/ mempool' = mempool \cup new /\ late' = late
         \/ late' = late \cup new /\ mempool' = mempool,
         UNCHANGED <<applied, fee>>,
         \A q \in Requests : step[q] \notin Unsent \/ q \in sent => step'[q] \notin Unsent
  PROVE  OneTx' /\ \A q \in Requests \ sent : NetKept(q)
<1>0. Alive' = Alive \cup new
  BY DEF Alive
<1>1. \A r \in sent : r \in Requests /\ TxOf(r).req = r /\ TxOf(r).fee = fee[r] /\ Nothing(r)
  BY UnsentNothing DEF Unsent, TxOf
<1>2. \A t \in Alive' : t \in Alive \/ \E r \in sent : t = TxOf(r)
  BY <1>0
<1>3. \A t \in Alive' :
        t.req \in Requests /\ step'[t.req] \notin Unsent /\ t.fee = fee'[t.req]
  BY <1>1, <1>2 DEF CallInv, OneTx
<1>4. \A e \in applied' :
        e.tx.req \in Requests /\ step'[e.tx.req] \notin Unsent /\ e.tx.fee = fee'[e.tx.req]
  BY DEF CallInv, OneTx
<1>5. \A t, u \in Alive' : t.req = u.req => t = u
  BY <1>1, <1>2 DEF CallInv, OneTx, Nothing
<1>6. \A t \in Alive', e \in applied' : t.req # e.tx.req
  BY <1>1, <1>2 DEF CallInv, OneTx, Nothing
<1>7. (late \cap mempool)' = {}
  <2>1. new \cap Alive = {}
    BY <1>1 DEF Nothing
  <2> QED
    BY <2>1 DEF CallInv, OneTx, Alive
<1>8. OneTx'
  BY <1>3, <1>4, <1>5, <1>6, <1>7 DEF CallInv, OneTx
<1>9. \A q \in Requests \ sent : NetKept(q)
  BY <1>1, <1>2 DEF NetKept, Nothing, Refused, Succeeded
<1> QED
  BY <1>8, <1>9

LEMMA SentOne ==
  ASSUME CallInv, NEW r \in Requests, step[r] = "send", step'[r] \notin Unsent,
         \A q \in Requests \ {r} : step'[q] = step[q],
         \/ mempool' = mempool \cup {TxOf(r)} /\ late' = late
         \/ late' = late \cup {TxOf(r)} /\ mempool' = mempool,
         UNCHANGED <<applied, fee>>
  PROVE  OneTx' /\ \A q \in Requests \ {r} : NetKept(q)
<1>1. PICK new : new = {TxOf(q) : q \in {r}} /\ new = {TxOf(r)}
  OBVIOUS
<1>2. {r} \in SUBSET {q \in Requests : step[q] = "send"}
  OBVIOUS
<1> QED
  BY <1>1, <1>2, Sent

LEMMA AcceptedKeeps ==
  ASSUME CallInv, NEW r \in Requests, Accepted(r)
  PROVE  CallInv'
<1>1. /\ step'[r] = "confirm" /\ \A q \in Requests \ {r} : step'[q] = step[q]
      /\ UNCHANGED <<fee, note, answer, rows, counted>>
  BY DEF Accepted, Goto, CallInv, CallsTyped, bookVars
<1>2. OneTx' /\ \A q \in Requests \ {r} : NetKept(q)
  BY <1>1, SentOne DEF Accepted, Unsent
<1>3. \A q \in Requests \ {r} : CallOK(q)'
  BY <1>1, <1>2, OtherKept
<1>4. CallOK(r)'
  <2>1. answer[r] = None /\ rows[r] = << >> /\ counted[r] = << >> /\ note[r] = NoNote
    BY DEF CallInv, CallOK, Accepted
  <2> QED
    BY <1>1, <2>1 DEF CallOK
<1>5. CallsTyped'
  BY DEF Accepted, Goto, CallInv, CallsTyped, bookVars
<1> QED
  BY <1>2, <1>3, <1>4, <1>5 DEF CallInv

LEMMA SendThrowsKeeps ==
  ASSUME CallInv, NEW r \in Requests, SendThrows(r)
  PROVE  CallInv'
<1>1. /\ step'[r] = "done" /\ answer'[r] = "threw"
      /\ \A q \in Requests \ {r} : step'[q] = step[q] /\ answer'[q] = answer[q]
      /\ UNCHANGED <<fee, note, rows, counted>>
  BY DEF SendThrows, Abort, Answer, CallInv, CallsTyped, bookVars
<1>2. OneTx' /\ \A q \in Requests \ {r} : NetKept(q)
  BY <1>1, SentOne DEF SendThrows, Abort, Unsent
<1>3. \A q \in Requests \ {r} : CallOK(q)'
  BY <1>1, <1>2, OtherKept
<1>4. CallOK(r)'
  <2>1. rows[r] = << >> /\ counted[r] = << >> /\ note[r] = NoNote
    BY DEF CallInv, CallOK, SendThrows
  <2>2. EndOK(r)'
    BY <1>1, <2>1, LenEmpty DEF EndOK, EndedEarly, Answers, Errors, Refusals
  <2> QED
    BY <1>1, <2>2 DEF CallOK
<1>5. CallsTyped'
  BY DEF SendThrows, Abort, Answer, CallInv, CallsTyped, bookVars, Answers, Errors
<1> QED
  BY <1>2, <1>3, <1>4, <1>5 DEF CallInv

\* A step that leaves what may still get into a ledger as it is, and the calls
\* alone: a late request arrives, a ledger closes, or nothing happens.
LEMMA QuietKeeps ==
  ASSUME CallInv, UNCHANGED <<callVars, bookVars, applied>>, Alive' = Alive,
         (late \cap mempool)' = {}
  PROVE  CallInv'
<1>1. UNCHANGED <<step, attempt, fee, expiry, note, answer, rows, counted>>
  BY DEF callVars, bookVars
<1>2. OneTx' /\ \A q \in Requests : NetKept(q)
  BY <1>1 DEF CallInv, OneTx, NetKept, Nothing, Refused, Succeeded
<1>3. \A q \in Requests : CallOK(q)'
  BY <1>1, <1>2, OtherKept
<1> QED
  BY <1>1, <1>2, <1>3 DEF CallInv, CallsTyped

LEMMA DeliverKeeps ==
  ASSUME CallInv, NEW tx \in late, Deliver(tx)
  PROVE  CallInv'
<1>1. Alive' = Alive /\ (late \cap mempool)' = {}
  BY DEF Deliver, Alive, CallInv, OneTx
<1> QED
  BY <1>1, QuietKeeps DEF Deliver

\* A pending transaction reaches a ledger, with the result res.
LEMMA LandKeeps ==
  ASSUME CallInv, NEW tx \in mempool, Land(tx)
  PROVE  CallInv'
<1>1. PICK res : applied' = applied \cup {[tx |-> tx, result |-> res]}
  BY DEF Land
<1>2. DEFINE new == [tx |-> tx, result |-> res]
<1>3. /\ new.tx = tx /\ Alive' = Alive \ {tx} /\ applied' = applied \cup {new}
      /\ tx \in Alive /\ (late \cap mempool)' = {}
  BY <1>1 DEF Land, Alive, CallInv, OneTx
<1> HIDE DEF new
<1>4. UNCHANGED <<step, attempt, fee, expiry, note, answer, rows, counted>>
  BY DEF Land, callVars, bookVars
<1>5. OneTx'
  BY <1>3, <1>4 DEF CallInv, OneTx
<1>6. \A q \in Requests : NetKept(q)
  BY <1>3 DEF NetKept, Nothing, Refused, Succeeded
<1>7. \A q \in Requests : CallOK(q)'
  BY <1>4, <1>6, OtherKept
<1> QED
  BY <1>4, <1>5, <1>7 DEF CallInv, CallsTyped

LEMMA DropKeeps ==
  ASSUME CallInv, NEW tx \in mempool, Drop(tx)
  PROVE  CallInv'
<1>1. /\ UNCHANGED <<step, attempt, fee, expiry, note, answer, rows, counted, applied>>
      /\ Alive' = Alive \ {tx} /\ (late \cap mempool)' = {}
  BY DEF Drop, callVars, bookVars, Alive, CallInv, OneTx
<1>2. OneTx' /\ \A q \in Requests : NetKept(q)
  BY <1>1 DEF CallInv, OneTx, NetKept, Nothing, Refused, Succeeded
<1>3. \A q \in Requests : CallOK(q)'
  BY <1>1, <1>2, OtherKept
<1> QED
  BY <1>1, <1>2, <1>3 DEF CallInv, CallsTyped

\* The process stops: every call under way is lost, with what it had under
\* way to the network or to the database done or not done.
LEMMA CrashKeeps ==
  ASSUME CallInv, Crash
  PROVE  CallInv'
<1> DEFINE row(q) == note[q].row
           sent == {q \in Requests : step[q] = "send"}
<1>1. late' = late \cup {TxOf(r) : r \in sent} /\ mempool' = mempool
  BY DEF Crash
<1>2. PICK written \in SUBSET {r \in Requests : step[r] = "record"} :
        rows' = [r \in Requests |-> IF r \in written THEN Append(rows[r], row(r)) ELSE rows[r]]
  BY DEF Crash
<1>3. /\ step' = [r \in Requests |-> IF InFlight(r) THEN "done" ELSE step[r]]
      /\ answer' = [r \in Requests |-> IF InFlight(r) THEN "lost" ELSE answer[r]]
      /\ UNCHANGED <<attempt, fee, expiry, note, counted, applied>>
  BY DEF Crash
<1>4. sent \in SUBSET {r \in Requests : step[r] = "send"}
  OBVIOUS
<1>5. OneTx' /\ \A q \in Requests \ sent : NetKept(q)
  <2>1. \A q \in Requests : step[q] \notin Unsent \/ q \in sent => step'[q] \notin Unsent
    BY <1>3, <1>4 DEF Unsent, InFlight
  <2>2. PICK new : new = {TxOf(r) : r \in sent}
    OBVIOUS
  <2> HIDE DEF sent
  <2> QED
    BY <1>1, <1>3, <1>4, <2>1, <2>2, Sent
<1>6. \A q \in written : /\ rows[q] = << >> /\ NoteOK(q) /\ row(q) \in Rows
                         /\ Append(rows[q], row(q)) \in Seq(Rows)
                         /\ Len(Append(rows[q], row(q))) = 1
                         /\ Append(rows[q], row(q))[1] = row(q)
  <2>1. \A q \in written : /\ q \in Requests /\ rows[q] \in Seq(Rows)
                           /\ rows[q] = << >> /\ NoteOK(q)
    BY <1>2 DEF CallInv, CallOK, CallsTyped
  <2>2. \A q \in written : row(q) \in Rows
    BY <2>1 DEF NoteOK, Note
  <2> HIDE DEF row
  <2> QED
    BY <2>1, <2>2, AppendProperties, LenEmpty
<1>7. CallsTyped'
  <2>1. rows' \in [Requests -> Seq(Rows)]
    BY <1>2, <1>6 DEF CallInv, CallsTyped
  <2> QED
    BY <1>3, <2>1 DEF CallInv, CallsTyped, InFlight, Answers
<1>8. ASSUME NEW q \in Requests
      PROVE  CallOK(q)'
  <2>1. CASE ~InFlight(q)
    <3>1. q \notin sent /\ q \notin written
      BY <1>2, <1>4, <2>1 DEF InFlight
    <3>2. /\ step'[q] = step[q] /\ answer'[q] = answer[q] /\ rows'[q] = rows[q]
          /\ fee'[q] = fee[q] /\ note'[q] = note[q] /\ counted'[q] = counted[q]
      BY <1>2, <1>3, <2>1, <3>1
    <3> QED
      BY <1>5, <3>1, <3>2, OtherKept
  <2>2. CASE InFlight(q)
    <3>1. step'[q] = "done" /\ answer'[q] = "lost" /\ counted'[q] = counted[q]
      BY <1>3, <2>2
    <3>2. ASSUME q \in written
          PROVE  EndOK(q)'
      <4>1. rows'[q] = Append(rows[q], row(q))
        BY <1>2, <3>2
      <4>2. Len(rows'[q]) = 1 /\ rows'[q][1] = row(q)
        BY <1>6, <3>2, <4>1
      <4>3. Len(counted[q]) = 1 /\ counted[q][1].outcome = row(q).status
        BY <1>6, <3>2 DEF NoteOK
      <4>4. row(q).status = "success" => Succeeded(q)'
        <5>1. NetKept(q)
          BY <1>2, <1>4, <1>5, <3>2
        <5> QED
          BY <1>6, <3>2, <5>1 DEF NoteOK, NetKept
      <4>5. Nothing(q)' \/ counted'[q][1].fee = fee'[q]
        <5>1. NetKept(q) /\ NoteOK(q)
          BY <1>2, <1>4, <1>5, <1>6, <3>2
        <5> QED
          BY <1>3, <3>1, <5>1 DEF NoteOK, Charged, NetKept
      <4>6. counted'[q] # << >>
        BY <3>1, <4>3, EmptySeq
      <4> HIDE DEF row, sent
      <4> QED
        BY <3>1, <4>2, <4>3, <4>4, <4>5, <4>6 DEF EndOK, Answers, Errors, Refusals
    <3>3. ASSUME q \notin written
          PROVE  EndOK(q)'
      <4>1. rows'[q] = << >> /\ Len(rows'[q]) = 0
        BY <1>2, <2>2, <3>3, LenEmpty DEF InFlight, CallInv, CallOK
      <4>2. Len(counted[q]) = 0 \/ Len(counted[q]) = 1
        BY <2>2, LenEmpty DEF InFlight, CallInv, CallOK, NoteOK
      <4>3. Len(counted[q]) <= 1 /\ 0 <= Len(counted[q])
        <5>1. CASE Len(counted[q]) = 0
          BY <5>1
        <5>2. CASE Len(counted[q]) = 1
          BY <5>2
        <5> QED
          BY <4>2, <5>1, <5>2
      <4>4. CASE step[q] = "record"
        <5>1. NetKept(q) /\ NoteOK(q)
          BY <1>5, <4>4 DEF CallInv, CallOK
        <5>2. Nothing(q)' \/ (counted'[q] # << >> /\ counted'[q][1].fee = fee'[q])
          BY <1>3, <3>1, <5>1, EmptySeq DEF NoteOK, Charged, NetKept
        <5> QED
          BY <3>1, <4>1, <4>3, <5>2 DEF EndOK, Answers, Errors, Refusals
      <4>5. CASE step[q] # "record"
        <5>1. note'[q] = NoNote
          BY <1>3, <2>2, <4>5 DEF CallInv, CallOK, InFlight
        <5>2. EndedEarly(q)'
          BY <3>1, <5>1 DEF EndedEarly
        <5> QED
          BY <3>1, <4>1, <4>3, <5>2 DEF EndOK, Answers, Errors, Refusals
      <4> QED
        BY <4>4, <4>5
    <3> QED
      BY <3>1, <3>2, <3>3 DEF CallOK
  <2> QED
    BY <2>1, <2>2
<1> QED
  BY <1>5, <1>7, <1>8 DEF CallInv

-----------------------------------------------------------------------------
(* The steps of a call *)

LEMMA IntakeKeeps ==
  ASSUME CallInv, NEW r \in Requests,
         Arrive(r) \/ RefuseExpired(r) \/ EnterLoop(r) \/ IntakeThrows(r)
  PROVE  CallInv'
<1>1. CASE Arrive(r)
  <2>1. expiry' \in [Requests -> Int \cup {None}]
    BY <1>1, RelayerAssumption DEF Arrive, CallInv, CallsTyped
  <2>2. "latest" \in Unsent /\ step[r] \in Unsent
    BY <1>1 DEF Arrive, Unsent
  <2> QED
    BY <1>1, <2>1, <2>2, MovesOn DEF Arrive, Goto, CallInv, CallsTyped, netVars, bookVars
<1>2. CASE RefuseExpired(r)
  <2>1. /\ step[r] = "latest" /\ Count(r, "expired", 0)
        /\ AwaitRecord(r, Row("expired", "auth_expired"), None, "auth_expired")
        /\ UNCHANGED <<attempt, fee, expiry, rows, late, mempool, applied>>
    BY <1>2 DEF RefuseExpired, netVars
  <2>2. Nothing(r) /\ Refused(r)
    BY <2>1, UnsentNothing DEF Unsent
  <2>3. /\ Row("expired", "auth_expired") \in Rows
        /\ Row("expired", "auth_expired").status = "expired"
    BY DEF Row, Rows
  <2> QED
    BY <2>1, <2>2, <2>3, Records DEF Errors, Refusals
<1>3. CASE EnterLoop(r)
  <2>1. "fees" \in Unsent /\ step[r] \in Unsent
    BY <1>3 DEF EnterLoop, Unsent
  <2> QED
    BY <1>3, <2>1, MovesOn DEF EnterLoop, Goto, CallInv, CallsTyped, netVars, bookVars
<1>4. CASE IntakeThrows(r)
  BY <1>4, Ends DEF IntakeThrows, Unsent, netVars, bookVars, Refusals
<1> QED
  BY <1>1, <1>2, <1>3, <1>4

\* A bid is a whole number of stroops (Math.ceil, fee.ts:37).
LEMMA BidNat ==
  ASSUME NEW s \in FeeStats, NEW n \in Nat, PickFee(s, n, FeeCfg).ok
  PROVE  PickFee(s, n, FeeCfg).fee \in Nat
<1> DEFINE b == BaseFee(s, FeeCfg)
           P == Power(FeeCfg.escNum, n)
           Q == Power(FeeCfg.escDen, n)
<1>1. FeeCfg \in FeeConfigs /\ s \in FeeStatistics
  BY RelayerAssumption
<1>2. b \in Nat
  BY <1>1 DEF BaseFee, Greater, FeeConfigs, FeeStatistics
<1>3. P \in Nat /\ Q \in Nat /\ Q > 0
  <2>1. PICK p \in Nat, q \in Nat : p = FeeCfg.escNum /\ q = FeeCfg.escDen /\ q > 0
    BY <1>1 DEF FeeConfigs
  <2>2. Power(p, n) \in Nat /\ Power(q, n) \in Nat /\ Power(q, n) > 0
    BY <2>1, PowerNat
  <2> QED
    BY <2>1, <2>2
<1>4. PickFee(s, n, FeeCfg).fee = CeilDiv(b * P, Q)
  BY DEF PickFee, Escalated
<1> HIDE DEF b, P, Q
<1> QED
  BY <1>2, <1>3, <1>4, CeilDivNat

LEMMA AttemptKeeps ==
  ASSUME CallInv, NEW r \in Requests,
         \/ Bid(r) \/ RefuseFee(r) \/ AskSequence(r) \/ Acquired(r) \/ AcquireThrows(r)
         \/ Prepared(r) \/ AttemptThrows(r) \/ RefuseMutated(r)
  PROVE  CallInv'
<1>1. CASE Bid(r)
  <2>1. PICK s \in FeeStats : /\ PickFee(s, attempt[r], FeeCfg).ok
                              /\ fee' = [fee EXCEPT ![r] = PickFee(s, attempt[r], FeeCfg).fee]
    BY <1>1 DEF Bid
  <2>2. attempt[r] \in 0..(MaxAttempts - 1) /\ fee \in [Requests -> Nat]
    BY DEF CallInv, CallsTyped
  <2>3. PickFee(s, attempt[r], FeeCfg).fee \in Nat
    BY <2>1, <2>2, RelayerAssumption, BidNat
  <2>4. fee' \in [Requests -> Nat] /\ \A q \in Requests \ {r} : fee'[q] = fee[q]
    BY <2>1, <2>2, <2>3
  <2>5. "acquire" \in Unsent /\ step[r] \in Unsent
    BY <1>1 DEF Bid, Unsent
  <2> QED
    BY <1>1, <2>4, <2>5, MovesOn DEF Bid, Goto, CallInv, CallsTyped, netVars, bookVars
<1>2. CASE RefuseFee(r)
  BY <1>2, Ends DEF RefuseFee, Unsent, netVars, bookVars, Refusals
<1>3. CASE AskSequence(r)
  <2>1. UNCHANGED <<callVars, bookVars, applied>> /\ Alive' = Alive /\ (late \cap mempool)' = {}
    BY <1>3 DEF AskSequence, netVars, Alive, CallInv, OneTx
  <2> QED
    BY <2>1, QuietKeeps
<1>4. CASE Acquired(r)
  <2>1. "prepare" \in Unsent /\ step[r] \in Unsent
    BY <1>4 DEF Acquired, Unsent
  <2> QED
    BY <1>4, <2>1, MovesOn DEF Acquired, Goto, CallInv, CallsTyped, netVars, bookVars
<1>5. CASE AcquireThrows(r)
  BY <1>5, Ends DEF AcquireThrows, Unsent, netVars, bookVars, Refusals
<1>6. CASE Prepared(r)
  <2>1. "send" \in Unsent /\ step[r] \in Unsent
    BY <1>6 DEF Prepared, Unsent
  <2> QED
    BY <1>6, <2>1, MovesOn DEF Prepared, Goto, CallInv, CallsTyped, netVars, bookVars
<1>7. CASE AttemptThrows(r)
  BY <1>7, Ends DEF AttemptThrows, Abort, Unsent, netVars, bookVars, Refusals
<1>8. CASE RefuseMutated(r)
  BY <1>8, Ends DEF RefuseMutated, Abort, Unsent, netVars, bookVars, Refusals
<1> QED
  BY <1>1, <1>2, <1>3, <1>4, <1>5, <1>6, <1>7, <1>8

LEMMA RetryKeeps ==
  ASSUME CallInv, NEW r \in Requests, step[r] = "send", NEW o, Retry(r, o)
  PROVE  CallInv'
<1>1. CASE attempt[r] + 1 < MaxAttempts
  <2>1. attempt \in [Requests -> 0..(MaxAttempts - 1)]
    BY DEF CallInv, CallsTyped
  <2>2. attempt' = [attempt EXCEPT ![r] = @ + 1]
    BY <1>1 DEF Retry
  <2>3. attempt' \in [Requests -> 0..(MaxAttempts - 1)]
    BY <1>1, <2>1, <2>2, RelayerAssumption
  <2>4. "fees" \in Unsent /\ step[r] \in Unsent
    BY DEF Unsent
  <2>5. /\ step' = [step EXCEPT ![r] = "fees"]
        /\ UNCHANGED <<fee, expiry, answer, note, bookVars, late, mempool, applied>>
    BY <1>1 DEF Retry, Goto, netVars
  <2>6. fee \in [Requests -> Nat] /\ expiry \in [Requests -> Int \cup {None}]
    BY DEF CallInv, CallsTyped
  <2> QED
    BY <2>3, <2>4, <2>5, <2>6, MovesOn
<1>2. CASE ~(attempt[r] + 1 < MaxAttempts)
  <2>1. /\ Answer(r, "tx_failed") /\ Count(r, "failed", 0)
        /\ UNCHANGED <<attempt, fee, expiry, note, rows, late, mempool, applied>>
    BY <1>2 DEF Retry, netVars
  <2> QED
    BY <2>1, Ends DEF Unsent, Refusals
<1> QED
  BY <1>1, <1>2

LEMMA SendKeeps ==
  ASSUME CallInv, NEW r \in Requests,
         \/ Accepted(r) \/ BadSeq(r) \/ TryAgain(r) \/ Rejected(r) \/ SendThrows(r)
  PROVE  CallInv'
<1>1. CASE BadSeq(r) \/ TryAgain(r)
  BY <1>1, RetryKeeps DEF BadSeq, TryAgain
<1>2. CASE Rejected(r)
  <2>1. /\ step[r] = "send" /\ Count(r, "failed", fee[r])
        /\ AwaitRecord(r, Row("failed", "code"), "failed", "tx_failed")
        /\ UNCHANGED <<attempt, fee, expiry, rows, late, mempool, applied>>
    BY <1>2 DEF Rejected, Finish, Row, netVars
  <2>2. Nothing(r) /\ Refused(r)
    BY <2>1, UnsentNothing DEF Unsent
  <2>3. Row("failed", "code") \in Rows /\ Row("failed", "code").status = "failed"
    BY DEF Row, Rows
  <2>4. fee[r] \in Nat /\ "failed" \in Pool!Outcomes
    BY DEF CallInv, CallsTyped, Pool!Outcomes
  <2> QED
    BY <2>1, <2>2, <2>3, <2>4, Records DEF Errors, Refusals
<1> QED
  BY <1>1, <1>2, AcceptedKeeps, SendThrowsKeeps

\* finish() after a poll: the one transaction of the call is known to the network.
LEMMA FinishKeeps ==
  ASSUME CallInv, NEW r \in Requests, step[r] = "confirm",
         NEW row \in Rows, NEW then \in {"success"} \cup Errors,
         Finish(r, row, "ok", then), UNCHANGED <<attempt, fee, expiry, netVars>>,
         row.status = "success" <=> then = "success",
         then = "success" => Succeeded(r), then \in Refusals => Refused(r)
  PROVE  CallInv'
<1>1. /\ Count(r, row.status, fee[r]) /\ AwaitRecord(r, row, "ok", then)
      /\ UNCHANGED <<attempt, fee, expiry, rows, late, mempool, applied>>
  BY DEF Finish, netVars
<1>2. fee[r] \in Nat /\ "ok" \in Pool!Outcomes
  BY DEF CallInv, CallsTyped, Pool!Outcomes
<1> QED
  BY <1>1, <1>2, Records

LEMMA ConfirmKeeps ==
  ASSUME CallInv, NEW r \in Requests, Confirmed(r) \/ TimedOut(r)
  PROVE  CallInv'
<1>1. CASE TimedOut(r)
  <2>1. Row("failed", "timeout") \in Rows /\ Row("failed", "timeout").status = "failed"
    BY DEF Row, Rows
  <2> QED
    BY <1>1, <2>1, FinishKeeps DEF TimedOut, Errors, Refusals
<1>2. ASSUME Included(TxOf(r), "SUCCESS"), Confirmed(r),
             Finish(r, Row("success", "none"), "ok", "success")
      PROVE  CallInv'
  <2>1. Row("success", "none") \in Rows /\ Row("success", "none").status = "success"
    BY DEF Row, Rows
  <2>2. Succeeded(r)
    BY <1>2 DEF Included, TxOf, Succeeded
  <2> QED
    BY <1>2, <2>1, <2>2, FinishKeeps DEF Confirmed, Refusals
<1>3. ASSUME Included(TxOf(r), "FAILED"), Confirmed(r),
             Finish(r, Row("failed", "FAILED"), "ok", "tx_failed")
      PROVE  CallInv'
  <2>1. Row("failed", "FAILED") \in Rows /\ Row("failed", "FAILED").status = "failed"
    BY DEF Row, Rows
  <2>2. PICK e \in applied : e.tx.req = r /\ e.result = "FAILED"
    BY <1>3 DEF Included, TxOf
  <2>3. Refused(r)
    BY <2>2 DEF CallInv, OneTx, Refused, Succeeded
  <2> QED
    BY <1>3, <2>1, <2>3, FinishKeeps DEF Confirmed, Errors, Refusals
<1> QED
  BY <1>1, <1>2, <1>3 DEF Confirmed

LEMMA RecordKeeps ==
  ASSUME CallInv, NEW r \in Requests, Recorded(r) \/ RecordThrows(r)
  PROVE  CallInv'
<1>1. PICK a \in {note[r].then, "threw"} :
        /\ Answer(r, a)
        /\ \/ rows' = [rows EXCEPT ![r] = Append(@, note[r].row)]
           \/ UNCHANGED rows /\ a = "threw"
  BY DEF Recorded, RecordThrows
<1>2. step[r] = "record" /\ UNCHANGED <<attempt, fee, expiry, note, counted, late, mempool, applied>>
  BY DEF Recorded, RecordThrows, netVars
<1> QED
  BY <1>1, <1>2, RecordEnds

-----------------------------------------------------------------------------
(* The invariant *)

LEMMA InitCallInv == Init => CallInv
<1> SUFFICES ASSUME Init PROVE CallInv
  OBVIOUS
<1>1. CallsTyped
  <2>1. /\ << >> \in Seq(Rows) /\ << >> \in Seq(Counter) /\ None \in Int \cup {None}
        /\ 0 \in 0..(MaxAttempts - 1)
    BY EmptySeq, RelayerAssumption
  <2> QED
    BY <2>1 DEF Init, CallsTyped
<1>2. OneTx
  BY DEF Init, OneTx, Alive
<1>3. \A r \in Requests : CallOK(r)
  BY DEF Init, CallOK
<1> QED
  BY <1>1, <1>2, <1>3 DEF CallInv

LEMMA NextKeeps ==
  ASSUME CallInv, [Next]_vars
  PROVE  CallInv'
<1>1. ASSUME NEW r \in Requests, Arrive(r) \/ Progress(r)
      PROVE  CallInv'
  BY <1>1, IntakeKeeps, AttemptKeeps, SendKeeps, ConfirmKeeps, RecordKeeps DEF Progress
<1>2. CASE Crash
  BY <1>2, CrashKeeps
<1>3. CASE UNCHANGED <<callVars, bookVars, late, mempool, applied>>
  BY <1>3, QuietKeeps DEF Alive, CallInv, OneTx
<1>4. ASSUME NEW tx \in mempool, Land(tx) \/ Drop(tx)
      PROVE  CallInv'
  BY <1>4, LandKeeps, DropKeeps
<1>5. ASSUME NEW tx \in late, Deliver(tx)
      PROVE  CallInv'
  BY <1>5, DeliverKeeps
<1>6. CASE Tick \/ AllAnswered \/ UNCHANGED vars
  BY <1>3, <1>6 DEF Tick, AllAnswered, vars, netVars
<1> QED
  BY <1>1, <1>2, <1>4, <1>5, <1>6 DEF Next

LEMMA CallInvHolds == Safe => []CallInv
<1>1. Init => CallInv
  BY InitCallInv
<1>2. CallInv /\ [Next]_vars => CallInv'
  BY NextKeeps
<1> QED
  BY <1>1, <1>2, PTL DEF Safe

-----------------------------------------------------------------------------
(* What follows *)

(***************************************************************************)
(* A call never has two transactions with the network, pending or in a     *)
(* ledger (the continue statements of relayer.ts:166-194).                 *)
(***************************************************************************)
THEOREM OneTransaction == Safe => []OneAcceptedTx
<1>1. ASSUME CallInv
      PROVE  OneAcceptedTx
  <2> SUFFICES ASSUME NEW r \in Requests
               PROVE  Cardinality(TxsOf(r)) <= 1
    BY DEF OneAcceptedTx
  <2> DEFINE S == TxsOf(r)
  <2>1. \A t, u \in S : t = u
    BY <1>1 DEF CallInv, OneTx, TxsOf
  <2> HIDE DEF S
  <2>2. S = {} \/ \E t : S = {t}
    BY <2>1
  <2>3. Cardinality(S) <= 1
    <3>1. CASE S = {}
      BY <3>1, FS_EmptySet
    <3>2. ASSUME NEW t, S = {t}
          PROVE  Cardinality(S) <= 1
      <4>1. Cardinality(S) = 1
        BY <3>2, FS_Singleton
      <4> QED
        BY <4>1
    <3> QED
      BY <2>2, <3>1, <3>2
  <2> QED
    BY <2>3 DEF S
<1> QED
  BY <1>1, CallInvHolds, PTL

\* What the HTTP codes say of the answer (main.ts:67-75).
LEMMA Codes ==
  ASSUME NEW a \in Answers \cup {None}
  PROVE  /\ HttpCode(a) = 200 => a = "success"
         /\ HttpCode(a) = 409 => a \in Refusals \cup {"timeout"}
BY RelayerAssumption DEF HttpCode, Answers, Errors, Refusals

\* Only an answered call has an answer.
LEMMA AnsweredIsDone ==
  ASSUME CallInv, NEW r \in Requests, HttpCode(answer[r]) \in {200, 409}
  PROVE  EndOK(r) /\ answer[r] \in Refusals \cup {"success", "timeout"}
<1>1. answer[r] \in Refusals \cup {"success", "timeout"}
  BY Codes DEF CallInv, CallsTyped
<1>2. answer[r] # None
  BY <1>1, RelayerAssumption DEF Answers, Errors
<1> QED
  BY <1>1, <1>2 DEF CallInv, CallOK

(***************************************************************************)
(* An answer that states an outcome states the final one (main.ts:67-75).  *)
(***************************************************************************)
THEOREM AnswerIsFinal == Safe => []DefiniteAnswer
<1>1. ASSUME CallInv
      PROVE  DefiniteAnswer
  <2> SUFFICES ASSUME NEW r \in Requests
               PROVE  /\ HttpCode(answer[r]) = 200 => Succeeded(r)
                      /\ HttpCode(answer[r]) = 409 /\ answer[r] # "timeout"
                           => ~Succeeded(r) /\ \A t \in Alive : t.req # r
    BY DEF DefiniteAnswer
  <2>1. answer[r] \in Answers \cup {None}
    BY <1>1 DEF CallInv, CallsTyped
  <2>2. CASE HttpCode(answer[r]) = 200
    BY <1>1, <2>1, <2>2, Codes, AnsweredIsDone DEF EndOK
  <2>3. CASE HttpCode(answer[r]) = 409
    BY <1>1, <2>1, <2>3, Codes, AnsweredIsDone DEF EndOK, Refused
  <2> QED
    BY <2>2, <2>3
<1> QED
  BY <1>1, CallInvHolds, PTL

(***************************************************************************)
(* An answered call was counted at most once, has at most one row, both    *)
(* say the same, and a success row is about an invocation that took effect *)
(* (finish(), relayer.ts:282-319).                                         *)
(***************************************************************************)
THEOREM BooksAreRight == Safe => []BooksAgree
<1>1. CallInv => BooksAgree
  BY DEF CallInv, CallOK, EndOK, BooksAgree
<1> QED
  BY <1>1, CallInvHolds, PTL

(***************************************************************************)
(* Whatever a ledger charged is in the fee books, unless its call still    *)
(* polls for it, or ended before finish() (relayer.ts:303-307).            *)
(***************************************************************************)
THEOREM ChargesAreCounted == Safe => []SpendCoversCharge
<1>1. ASSUME CallInv
      PROVE  SpendCoversCharge
  <2> SUFFICES ASSUME NEW e \in applied, NEW r, r = e.tx.req, step[r] # "confirm", ~EndedEarly(r)
               PROVE  \E i \in DOMAIN counted[r] : counted[r][i].fee = e.tx.fee
    BY DEF SpendCoversCharge
  <2>1. r \in Requests /\ e.tx.fee = fee[r] /\ step[r] \notin Unsent
    BY <1>1 DEF CallInv, OneTx
  <2>2. ~Nothing(r) /\ step[r] \in {"record", "done"}
    BY <1>1, <2>1 DEF Nothing, Unsent, CallInv, CallsTyped
  <2>3. counted[r] \in Seq(Counter)
    BY <1>1, <2>1 DEF CallInv, CallsTyped
  <2>4. counted[r] # << >> /\ counted[r][1].fee = fee[r]
    <3>1. CASE step[r] = "record"
      <4>1. Len(counted[r]) = 1 /\ counted[r][1].fee = fee[r]
        BY <1>1, <2>1, <2>2, <3>1 DEF CallInv, CallOK, NoteOK, Charged
      <4> QED
        BY <2>3, <4>1, OneElement
    <3>2. CASE step[r] = "done"
      BY <1>1, <2>1, <2>2, <3>2 DEF CallInv, CallOK, EndOK
    <3> QED
      BY <2>2, <3>1, <3>2
  <2>5. 1 \in DOMAIN counted[r]
    BY <2>3, <2>4, EmptySeq
  <2> QED
    BY <2>1, <2>4, <2>5
<1> QED
  BY <1>1, CallInvHolds, PTL

-----------------------------------------------------------------------------
(* The relayer implements Payment *)

(***************************************************************************)
(* How one call may move, in the terms of Relayer: Payment's step of call  *)
(* q under the refinement mapping.                                         *)
(***************************************************************************)
Moves(q) ==
  \/ Fate(q)' = Fate(q) /\ Told(q)' = Told(q)
  \/ /\ Fate(q) = "unsent" /\ Fate(q)' = "kept"
     /\ Told(q) = None /\ Told(q)' \in {None, "open"}
  \/ /\ Fate(q) = "kept" /\ Fate(q)' \in {"paid", "failed", "unsent"}
     /\ Told(q)' = Told(q)
  \/ /\ Told(q) = None /\ Fate(q)' = Fate(q)
     /\ \/ Told(q)' = "open"
        \/ Told(q)' = "paid" /\ Fate(q) = "paid"
        \/ Told(q)' = "unpaid" /\ Fate(q) \in {"unsent", "failed"}

\* What the fate of a call says of the network.
FateOK(q) ==
  /\ Fate(q) \in {"unsent", "kept", "paid", "failed"}
  /\ Fate(q) = "unsent" <=> Nothing(q)
  /\ Fate(q) = "paid" <=> Succeeded(q)
  /\ Fate(q) = "kept" <=> \E t \in Alive : t.req = q

\* A call has one transaction at most, so this is all its fate can be.
LEMMA FateIs == CallInv => \A q \in Requests : FateOK(q)
<1> SUFFICES ASSUME CallInv, NEW q \in Requests PROVE FateOK(q)
  OBVIOUS
<1>1. \A t, u \in TxsOf(q) : t = u
  BY DEF CallInv, OneTx, TxsOf
<1>2. TxsOf(q) = {} <=> Nothing(q)
  BY DEF TxsOf, Nothing
<1>3. ASSUME NEW t \in Alive, t.req = q
      PROVE  TxsOf(q) # {} /\ TxsOf(q) \subseteq Alive /\ ~Succeeded(q)
  BY <1>3 DEF CallInv, OneTx, TxsOf, Succeeded
<1>4. (\A t \in Alive : t.req # q) /\ TxsOf(q) # {} => ~(TxsOf(q) \subseteq Alive)
  BY DEF TxsOf
<1>5. Succeeded(q) => ~Nothing(q)
  BY DEF Succeeded, Nothing
<1> QED
  BY <1>1, <1>2, <1>3, <1>4, <1>5 DEF Fate, FateOK

LEMMA FateWillBe == CallInv' => (\A q \in Requests : FateOK(q))'
BY FateIs, PTL

\* The caller of a call is answered once.
LEMMA AnsweredOnce ==
  ASSUME CallInv, [Next]_vars, NEW q \in Requests
  PROVE  answer[q] = None \/ answer'[q] = answer[q]
<1>1. /\ answer \in [Requests -> Answers \cup {None}]
      /\ step[q] # "done" => answer[q] = None
  BY DEF CallInv, CallsTyped, CallOK
<1>2. ASSUME NEW r \in Requests, NEW a, Answer(r, a), step[r] # "done"
      PROVE  answer[q] = None \/ answer'[q] = answer[q]
  BY <1>1, <1>2 DEF Answer
<1>3. ASSUME NEW r \in Requests, Arrive(r) \/ Progress(r)
      PROVE  answer[q] = None \/ answer'[q] = answer[q]
  <2>1. CASE \/ Arrive(r) \/ EnterLoop(r) \/ Bid(r) \/ Acquired(r) \/ Prepared(r) \/ Accepted(r)
    BY <2>1 DEF Arrive, EnterLoop, Bid, Acquired, Prepared, Accepted, Goto
  <2>2. CASE RefuseExpired(r) \/ Rejected(r) \/ Confirmed(r) \/ TimedOut(r)
    BY <2>2 DEF RefuseExpired, Rejected, Confirmed, TimedOut, Finish, AwaitRecord, Goto
  <2>3. CASE AskSequence(r)
    BY <2>3 DEF AskSequence, callVars
  <2>4. CASE \/ IntakeThrows(r) \/ RefuseFee(r) \/ AcquireThrows(r) \/ AttemptThrows(r)
             \/ RefuseMutated(r) \/ SendThrows(r) \/ Recorded(r) \/ RecordThrows(r)
    BY <2>4, <1>2 DEF IntakeThrows, RefuseFee, AcquireThrows, AttemptThrows,
         RefuseMutated, SendThrows, Recorded, RecordThrows, Abort
  <2>5. CASE BadSeq(r) \/ TryAgain(r)
    BY <2>5, <1>2 DEF BadSeq, TryAgain, Retry, Goto
  <2> QED
    BY <1>3, <2>1, <2>2, <2>3, <2>4, <2>5 DEF Progress
<1>4. CASE Crash
  BY <1>1, <1>4 DEF Crash, InFlight
<1>5. CASE Tick \/ AllAnswered \/ UNCHANGED vars
  BY <1>5 DEF Tick, AllAnswered, vars, callVars
<1>6. ASSUME NEW tx, Deliver(tx) \/ Land(tx) \/ Drop(tx)
      PROVE  answer[q] = None \/ answer'[q] = answer[q]
  BY <1>6 DEF Deliver, Land, Drop, callVars
<1> QED
  BY <1>3, <1>4, <1>5, <1>6 DEF Next

\* Whoever is answered is told what is final, or that it is open.
LEMMA Tells ==
  ASSUME CallInv, CallInv', NEW q \in Requests, Fate(q)' = Fate(q),
         answer[q] = None \/ answer'[q] = answer[q]
  PROVE  Moves(q)
<1>1. CASE answer'[q] = answer[q]
  BY <1>1 DEF Moves, Told
<1>2. CASE answer[q] = None /\ answer'[q] # None
  <2>1. EndOK(q)'
    BY <1>2 DEF CallInv, CallOK
  <2>2. Told(q) = None
    BY <1>2, RelayerAssumption DEF Told, Answers, Errors
  <2>3. CASE answer'[q] = "success"
    <3>0. Told(q)' = "paid"
      BY <2>3, RelayerAssumption DEF Told, Answers, Refusals
    <3>1. Fate(q)' = "paid"
      BY <2>1, <2>3, FateWillBe DEF EndOK, FateOK
    <3> QED
      BY <2>2, <2>3, <3>1, <3>0 DEF Moves
  <2>4. CASE answer'[q] \in Refusals
    <3>1. Refused(q)'
      BY <2>1, <2>4 DEF EndOK
    <3>2. Fate(q)' \in {"unsent", "failed"}
      BY <3>1, FateWillBe DEF Refused, FateOK
    <3>3. Told(q)' = "unpaid"
      BY <2>4, RelayerAssumption DEF Told, Answers, Errors, Refusals
    <3> QED
      BY <2>2, <3>2, <3>3 DEF Moves
  <2>5. CASE answer'[q] # "success" /\ answer'[q] \notin Refusals
    <3>1. Told(q)' = "open"
      BY <1>2, <2>5 DEF Told
    <3> QED
      BY <2>2, <3>1 DEF Moves
  <2> QED
    BY <2>3, <2>4, <2>5
<1> QED
  BY <1>1, <1>2

\* The network gets, or may get, the transactions of some calls at "send".
LEMMA SendMoves ==
  ASSUME CallInv, CallInv', NEW q \in Requests, UNCHANGED applied,
         NEW sent \in SUBSET {r \in Requests : step[r] = "send"},
         Alive' = Alive \cup {TxOf(r) : r \in sent},
         answer[q] = None \/ answer'[q] = answer[q],
         q \in sent => answer'[q] \in {None, "threw", "lost"}
  PROVE  Moves(q)
<1>1. \A r \in Requests : TxOf(r).req = r
  BY DEF TxOf
<1>2. CASE q \notin sent
  <2>1. \A t : t.req = q => (t \in Alive' <=> t \in Alive)
    BY <1>1, <1>2
  <2>2. Nothing(q)' <=> Nothing(q)
    BY <2>1 DEF Nothing
  <2>3. Succeeded(q)' <=> Succeeded(q)
    BY DEF Succeeded
  <2>4. (\E t \in Alive' : t.req = q) <=> (\E t \in Alive : t.req = q)
    BY <2>1
  <2>5. Fate(q)' = Fate(q)
    BY <2>2, <2>3, <2>4, FateIs, FateWillBe DEF FateOK
  <2> QED
    BY <2>5, Tells
<1>3. CASE q \in sent
  <2>1. step[q] = "send" /\ Nothing(q) /\ answer[q] = None
    BY <1>3, UnsentNothing DEF Unsent, CallInv, CallOK
  <2>2. Fate(q) = "unsent" /\ Fate(q)' = "kept"
    <3>1. \E t \in Alive' : t.req = q
      BY <1>1, <1>3
    <3> QED
      BY <2>1, <3>1, FateIs, FateWillBe DEF FateOK
  <2>3. Told(q) = None /\ Told(q)' \in {None, "open"}
    BY <1>3, <2>1, RelayerAssumption DEF Told, Answers, Errors, Refusals
  <2> QED
    BY <2>2, <2>3 DEF Moves
<1> QED
  BY <1>2, <1>3

\* A pending transaction lands or is dropped.
LEMMA SettleMoves ==
  ASSUME CallInv, CallInv', NEW q \in Requests, NEW tx \in mempool, Land(tx) \/ Drop(tx)
  PROVE  Moves(q)
<1>1. /\ Alive' = Alive \ {tx} /\ tx \in Alive /\ answer' = answer
      /\ applied' = applied \/ \E res : applied' = applied \cup {[tx |-> tx, result |-> res]}
  BY DEF Land, Drop, callVars, Alive, CallInv, OneTx
<1>2. CASE tx.req = q
  <2>1. Fate(q) = "kept"
    BY <1>1, <1>2, FateIs DEF FateOK
  <2>2. \A t \in Alive' : t.req # q
    BY <1>1, <1>2 DEF CallInv, OneTx
  <2>3. Fate(q)' \in {"paid", "failed", "unsent"}
    BY <2>2, FateWillBe DEF FateOK
  <2> QED
    BY <1>1, <2>1, <2>3 DEF Moves, Told
<1>3. CASE tx.req # q
  <2>1. /\ \A t : t.req = q => (t \in Alive' <=> t \in Alive)
        /\ \A e : e.tx.req = q => (e \in applied' <=> e \in applied)
    BY <1>1, <1>3
  <2>2. /\ Nothing(q)' <=> Nothing(q)
        /\ Succeeded(q)' <=> Succeeded(q)
        /\ (\E t \in Alive' : t.req = q) <=> (\E t \in Alive : t.req = q)
    BY <2>1 DEF Nothing, Succeeded
  <2>3. Fate(q)' = Fate(q)
    BY <2>2, FateIs, FateWillBe DEF FateOK
  <2> QED
    BY <1>1, <2>3 DEF Moves, Told
<1> QED
  BY <1>2, <1>3

\* The steps after which the network has, or may get, what it did before.
LEMMA Unmoved ==
  ASSUME [Next]_vars, ~Crash,
         \A r \in Requests : ~Accepted(r) /\ ~SendThrows(r),
         \A tx \in mempool : ~Land(tx) /\ ~Drop(tx)
  PROVE  Alive' = Alive /\ applied' = applied
<1>1. ASSUME NEW r \in Requests, Arrive(r) \/ Progress(r)
      PROVE  Alive' = Alive /\ applied' = applied
  BY <1>1 DEF Alive, Progress, Arrive, RefuseExpired, EnterLoop, IntakeThrows, Bid, RefuseFee,
       AskSequence, Acquired, AcquireThrows, Prepared, AttemptThrows, RefuseMutated, BadSeq,
       TryAgain, Retry, Rejected, Confirmed, TimedOut, Recorded, RecordThrows, netVars
<1>2. CASE Tick \/ AllAnswered \/ UNCHANGED vars
  BY <1>2 DEF Alive, Tick, AllAnswered, vars, netVars
<1>3. ASSUME NEW tx \in late, Deliver(tx)
      PROVE  Alive' = Alive /\ applied' = applied
  BY <1>3 DEF Alive, Deliver
<1> QED
  BY <1>1, <1>2, <1>3 DEF Next

LEMMA EachMoves ==
  ASSUME CallInv, CallInv', [Next]_vars, NEW q \in Requests
  PROVE  Moves(q)
<1>1. answer[q] = None \/ answer'[q] = answer[q]
  BY AnsweredOnce
<1>2. ASSUME NEW r \in Requests, Accepted(r) \/ SendThrows(r)
      PROVE  Moves(q)
  <2>1. /\ step[r] = "send" /\ UNCHANGED applied
        /\ Alive' = Alive \cup {TxOf(r)}
    BY <1>2 DEF Alive, Accepted, SendThrows
  <2>2. PICK sent \in SUBSET {r} : Alive' = Alive \cup {TxOf(p) : p \in sent}
    BY <2>1, {TxOf(p) : p \in {r}} = {TxOf(r)}
  <2>3. answer[r] = None /\ answer'[r] \in {None, "threw"}
    BY <1>2, <2>1 DEF CallInv, CallOK, CallsTyped, Accepted, SendThrows, Abort, Goto, Answer
  <2>4. sent \in SUBSET {p \in Requests : step[p] = "send"}
    BY <2>1
  <2> QED
    BY <1>1, <2>1, <2>2, <2>3, <2>4, SendMoves
<1>3. CASE Crash
  <2>1. PICK sent : /\ sent = {r \in Requests : step[r] = "send"}
                    /\ Alive' = Alive \cup {TxOf(r) : r \in sent}
    BY <1>3 DEF Crash, Alive
  <2>2. sent \in SUBSET {r \in Requests : step[r] = "send"} /\ UNCHANGED applied
    BY <1>3, <2>1 DEF Crash
  <2>3. q \in sent => answer'[q] = "lost"
    BY <1>3, <2>2 DEF Crash, InFlight
  <2> QED
    BY <1>1, <2>1, <2>2, <2>3, SendMoves
<1>4. CASE Alive' = Alive /\ applied' = applied
  <2>1. Fate(q)' = Fate(q)
    BY <1>4 DEF Fate, TxsOf, Succeeded
  <2> QED
    BY <1>1, <2>1, Tells
<1> QED
  BY <1>2, <1>3, <1>4, SettleMoves, Unmoved

(***************************************************************************)
(* The relayer implements Payment: whatever the pool, the retries and the  *)
(* faults, each call is sent once, answered once, and what a definite      *)
(* answer says is the end of it (relayer.ts:107-280, main.ts:49-75).       *)
(***************************************************************************)
THEOREM ImplementsPayment == Safe => KeepsPromise
<1>1. Init => Promise!Init
  <2> SUFFICES ASSUME Init PROVE Promise!Init
    OBVIOUS
  <2>1. \A r \in Requests : Fate(r) = "unsent" /\ Told(r) = None
    BY InitCallInv, FateIs, RelayerAssumption
    DEF Init, FateOK, Nothing, Alive, Told, Answers, Errors, Refusals
  <2> QED
    BY <2>1 DEF Promise!Init
<1>2. CallInv /\ CallInv' /\ [Next]_vars => [Promise!Next]_(Promise!vars)
  <2> SUFFICES ASSUME CallInv, CallInv', [Next]_vars PROVE Promise!Next
    OBVIOUS
  <2>1. \A q \in Requests : Fate(q)' \in Promise!Fates
    BY FateWillBe DEF FateOK, Promise!Fates
  <2>2. \A q \in Requests : Told(q)' \in {None, "open", "paid", "unpaid"}
    BY DEF Told
  <2>3. ASSUME NEW q \in Requests
        PROVE  Promise!Keep(q) \/ Promise!Settle(q) \/ Promise!Tell(q) \/ Promise!Same(q)
    <3>1. Moves(q)
      BY EachMoves
    <3> QED
      BY <3>1 DEF Moves, Promise!Keep, Promise!Settle, Promise!Tell, Promise!Same
  <2> QED
    BY <2>1, <2>2, <2>3 DEF Promise!Next
<1> QED
  BY <1>1, <1>2, CallInvHolds, PTL DEF Safe, KeepsPromise, Promise!Spec
=============================================================================
