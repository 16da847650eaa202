------------------------------ MODULE FifoLease ------------------------------
(***************************************************************************)
(* What the relayer's channel pool promises, with none of its mechanics    *)
(* (no busy flags, no promises, no sequence numbers): a channel is lent to *)
(* at most one client, nobody overtakes the queue, and a channel that is   *)
(* given back while clients wait goes straight to the first of them.       *)
(* The promise is that of the class comment of ChannelPool,                *)
(* src/services/relayer/src/channel-pool.ts:18-29.                         *)
(***************************************************************************)
EXTENDS Naturals, Sequences

CONSTANTS
  Clients,      \* callers of acquire()
  NumChannels,  \* size of the pool
  None          \* "no channel"

Channels == 1..NumChannels

VARIABLES
  holds,        \* holds[c]: the channel lent to c, or None
  queue         \* clients that wait, in order of arrival

vars == <<holds, queue>>

Lent == {holds[c] : c \in Clients} \ {None}
Waiting(c) == \E i \in 1..Len(queue) : queue[i] = c

Init == /\ holds = [c \in Clients |-> None]
        /\ queue = << >>

\* A newcomer takes a channel nobody has.
Grab(c) ==
  /\ holds[c] = None /\ ~Waiting(c)
  /\ queue = << >>
  /\ \E ch \in Channels \ Lent : holds' = [holds EXCEPT ![c] = ch]
  /\ UNCHANGED queue

\* A newcomer joins the queue only when every channel is lent.
Join(c) ==
  /\ holds[c] = None /\ ~Waiting(c)
  /\ Channels \subseteq Lent
  /\ queue' = Append(queue, c)
  /\ UNCHANGED holds

\* A channel comes back and nobody waits for it.
GiveBack(c) ==
  /\ holds[c] # None
  /\ queue = << >>
  /\ holds' = [holds EXCEPT ![c] = None]
  /\ UNCHANGED queue

\* A channel comes back and the head of the queue has it at once.
HandOver(c) ==
  /\ holds[c] # None
  /\ queue # << >>
  /\ holds' = [holds EXCEPT ![c] = None, ![Head(queue)] = holds[c]]
  /\ queue' = Tail(queue)

Next == \E c \in Clients : Grab(c) \/ Join(c) \/ GiveBack(c) \/ HandOver(c)

Safe == Init /\ [][Next]_vars

\* Whoever holds a channel gives it back sooner or later.
Spec == Safe /\ \A c \in Clients : WF_vars(GiveBack(c) \/ HandOver(c))
=============================================================================
