---------------------------- MODULE FifoChannel ----------------------------
(***************************************************************************)
(* What every hand-off queue of the server promises its users: the tasks   *)
(* that were put in are taken out one at a time, in the order in which     *)
(* they were put in, each exactly once, until the channel is shut down.    *)
(* What is still in the channel when it is shut down stays there.          *)
(***************************************************************************)
EXTENDS Sequences

CONSTANT Task       \* what can be handed over

VARIABLES chan,     \* the tasks accepted and not yet processed, oldest first
          done,     \* the tasks processed, in the order of their processing
          open      \* FALSE once the consumer has stopped

vars == <<chan, done, open>>

Init == /\ chan = <<>>
        /\ done = <<>>
        /\ open = TRUE

Put(t) == /\ open
          /\ chan' = Append(chan, t)
          /\ UNCHANGED <<done, open>>

Take == /\ open
        /\ chan # <<>>
        /\ done' = Append(done, Head(chan))
        /\ chan' = Tail(chan)
        /\ UNCHANGED open

Shut == /\ open
        /\ open' = FALSE
        /\ UNCHANGED <<chan, done>>

Next == (\E t \in Task : Put(t)) \/ Take \/ Shut

Spec == Init /\ [][Next]_vars /\ WF_vars(Take)

TypeOK == /\ chan \in Seq(Task)
          /\ done \in Seq(Task)
          /\ open \in BOOLEAN
=============================================================================
