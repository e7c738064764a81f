----------------------------- MODULE QueueRing -----------------------------
(***************************************************************************)
(* lib/queue/queue.h as the server uses it (src/rtcm/decoder.c, and the    *)
(* other hand-offs by the same lines): a ring of nodes linked both ways    *)
(* through a sentinel.  Producers insert at the tail under qlock, and the  *)
(* one consumer removes the head under qlock, but tests QUEUE_EMPTY        *)
(* without the lock, between any two pointer writes of an insertion.  The  *)
(* names are this module's own, so that one proof module can extend both   *)
(* it and RtcmDecoder, whose queue it is.                                  *)
(***************************************************************************)
EXTENDS Naturals, Sequences

CONSTANTS Node,      \* the tasks; each is malloc'ed, queued once and freed
          sentinel,  \* &decoder->decode_queue
          nobody     \* no node

ASSUME RingAssumption == sentinel \notin Node /\ nobody \notin Node \union {sentinel}

Cell == Node \union {sentinel}

VARIABLES next, prev,  \* QUEUE_NEXT and QUEUE_PREV of every cell
          owner,       \* who holds qlock: a producer's node, the sentinel
                       \* for the consumer, or nobody
          ppc,         \* for each node, where its producer stands
          cpc,         \* where the consumer stands
          q,           \* the consumer's q
          chan,        \* history: the nodes published and not yet unlinked, in order
          removed      \* history: the nodes removed, in order

ring == <<next, prev, owner, ppc, cpc, q, chan, removed>>

\* 0 to 5: to lock, the four writes of QUEUE_INSERT_TAIL, to unlock; 6: over.
ProducerPC == 0 .. 6
ConsumerPC == {"empty", "lock", "head", "unlinkNext", "unlinkPrev", "unlock"}

\* QUEUE_INIT; a fresh node has null pointers (calloc).
RingInit == /\ next = [c \in Cell |-> IF c = sentinel THEN sentinel ELSE nobody]
            /\ prev = [c \in Cell |-> IF c = sentinel THEN sentinel ELSE nobody]
            /\ owner = nobody
            /\ ppc = [n \in Node |-> 0]
            /\ cpc = "empty"
            /\ q = nobody
            /\ chan = <<>> /\ removed = <<>>

-----------------------------------------------------------------------------
(* add_rtcm_decode_task, by the producer of node n.                        *)

ProducerGoto(n, i) == ppc' = [ppc EXCEPT ![n] = i]

\* Mutant: the insertion does not take the lock.
LockNothing(n) == /\ ppc[n] = 0
                  /\ ProducerGoto(n, 1)
                  /\ UNCHANGED <<next, prev, owner, cpc, q, chan, removed>>

Lock(n) == /\ ppc[n] = 0 /\ owner = nobody
           /\ owner' = n
           /\ ProducerGoto(n, 1)
           /\ UNCHANGED <<next, prev, cpc, q, chan, removed>>

\* Mutant: QUEUE_NEXT(q) is not set before the node is published.
InsertNextLate(n) == /\ ppc[n] = 1
                     /\ ProducerGoto(n, 2)
                     /\ UNCHANGED <<next, prev, owner, cpc, q, chan, removed>>

\* QUEUE_INSERT_TAIL, one pointer write a step.
InsertNext(n) == /\ ppc[n] = 1
                 /\ next' = [next EXCEPT ![n] = sentinel]
                 /\ ProducerGoto(n, 2)
                 /\ UNCHANGED <<prev, owner, cpc, q, chan, removed>>

InsertPrev(n) == /\ ppc[n] = 2
                 /\ prev' = [prev EXCEPT ![n] = prev[sentinel]]
                 /\ ProducerGoto(n, 3)
                 /\ UNCHANGED <<next, owner, cpc, q, chan, removed>>

\* The node becomes visible to the consumer.
InsertPublish(n) == /\ ppc[n] = 3
                    /\ next' = [next EXCEPT ![prev[n]] = n]
                    /\ chan' = Append(chan, n)
                    /\ ProducerGoto(n, 4)
                    /\ UNCHANGED <<prev, owner, cpc, q, removed>>

InsertTail(n) == /\ ppc[n] = 4
                 /\ prev' = [prev EXCEPT ![sentinel] = n]
                 /\ ProducerGoto(n, 5)
                 /\ UNCHANGED <<next, owner, cpc, q, chan, removed>>

Unlock(n) == /\ ppc[n] = 5
             /\ owner' = nobody
             /\ ProducerGoto(n, 6)
             /\ UNCHANGED <<next, prev, cpc, q, chan, removed>>

Produce(n) == \/ Lock(n) \/ InsertNext(n) \/ InsertPrev(n)
              \/ InsertPublish(n) \/ InsertTail(n) \/ Unlock(n)

-----------------------------------------------------------------------------
(* rtcm_decode_cb.                                                         *)

\* Empty ends the callback; the next wake-up starts it again from here.
CheckEmpty == /\ cpc = "empty" /\ next[sentinel] # sentinel
              /\ cpc' = "lock"
              /\ UNCHANGED <<next, prev, owner, ppc, q, chan, removed>>

ConsumerLock == /\ cpc = "lock" /\ owner = nobody
                /\ owner' = sentinel
                /\ cpc' = "head"
                /\ UNCHANGED <<next, prev, ppc, q, chan, removed>>

QueueHead == /\ cpc = "head"
             /\ q' = next[sentinel]
             /\ cpc' = "unlinkNext"
             /\ UNCHANGED <<next, prev, owner, ppc, chan, removed>>

\* QUEUE_REMOVE(q), whose first write takes q out of the ring ...
UnlinkNext == /\ cpc = "unlinkNext"
              /\ next' = [next EXCEPT ![prev[q]] = next[q]]
              /\ chan' = Tail(chan) /\ removed' = Append(removed, q)
              /\ cpc' = "unlinkPrev"
              /\ UNCHANGED <<prev, owner, ppc, q>>

\* ... and whose second lets the next insertion find the tail.
UnlinkPrev == /\ cpc = "unlinkPrev"
              /\ prev' = [prev EXCEPT ![next[q]] = prev[q]]
              /\ cpc' = "unlock"
              /\ UNCHANGED <<next, owner, ppc, q, chan, removed>>

ConsumerUnlock == /\ cpc = "unlock"
                  /\ owner' = nobody
                  /\ q' = nobody
                  /\ cpc' = "empty"
                  /\ UNCHANGED <<next, prev, ppc, chan, removed>>

Consume == \/ CheckEmpty \/ ConsumerLock \/ QueueHead
           \/ UnlinkNext \/ UnlinkPrev \/ ConsumerUnlock

RingNext == (\E n \in Node : Produce(n)) \/ Consume

\* The consumer is woken while the queue is not empty (RtcmDecoder), and a
\* producer that holds the lock goes on.
RingFairness == /\ WF_ring(Consume)
                /\ \A n \in Node : WF_ring(Produce(n) /\ ppc[n] # 0)

RingSpec == RingInit /\ [][RingNext]_ring /\ RingFairness

-----------------------------------------------------------------------------
(* Properties.                                                             *)

RingTypeOK == /\ next \in [Cell -> Cell \union {nobody}]
              /\ prev \in [Cell -> Cell \union {nobody}]
              /\ owner \in Cell \union {nobody}
              /\ ppc \in [Node -> ProducerPC]
              /\ cpc \in ConsumerPC
              /\ q \in Cell \union {nobody}
              /\ chan \in Seq(Node) /\ removed \in Seq(Node)

\* The cells of the ring in the order of the queue; the sentinel is before the
\* first node and after the last.
Place(i) == IF i \in 1 .. Len(chan) THEN chan[i] ELSE sentinel

\* Whoever follows next from the sentinel meets the nodes that are in, and comes
\* back, whichever write of either macro was the last (queue.h:39, :42).
Forward == \A i \in 0 .. Len(chan) : next[Place(i)] = Place(i + 1)

\* The node removed is never the sentinel, although the queue was found not
\* empty before the lock was taken (decoder.c:130-135).
NeverPopsSentinel == cpc \in {"unlinkNext", "unlinkPrev", "unlock"} => q \in Node

\* Between the critical sections prev undoes next all the way round, so that the
\* next insertion finds the true tail and no node is left out (queue.h:92-106).
RingClosed ==
  (\A n \in Node : ppc[n] \in {0, 6}) /\ cpc \in {"empty", "lock"} =>
    \A i \in 0 .. Len(chan) : prev[Place(i + 1)] = Place(i)

\* What holds at every pointer write of the macros: the consumer sees the queue,
\* never pops the sentinel, and the ring is closed whenever nobody is inside.
RingSound == RingTypeOK /\ Forward /\ NeverPopsSentinel /\ RingClosed

\* What the pointers hold is a FIFO: a node is in from the write that
\* publishes it to the write that unlinks it, even in the middle of either
\* macro, and every node put in is taken out, in order (decoder.c:214, :135).
RingChannel == INSTANCE FifoChannel WITH
                 Task <- Node, done <- removed, open <- TRUE
RingIsChannel == RingChannel!Spec

=============================================================================
