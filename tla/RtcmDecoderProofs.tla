------------------------- MODULE RtcmDecoderProofs -------------------------
(***************************************************************************)
(* Proofs about the way of a chunk of RTCM data: about RtcmDecoder, for    *)
(* any set of streams and any number of calls; about QueueRing, the queue  *)
(* under it, for any number of nodes; and about RtcmFramer, the reader     *)
(* behind it, for any bytes, lengths, parities and cuts.                   *)
(***************************************************************************)
EXTENDS RtcmDecoder, QueueRing, RtcmFramer, SequenceTheorems, TLAPS

\* Taking the head of a queue commutes with inserting at its tail.
LEMMA HeadTailConcat ==
  ASSUME NEW S, NEW s \in Seq(S), s # <<>>
  PROVE  s = <<Head(s)>> \o Tail(s)
<1>1. Head(s) \in S /\ Tail(s) \in Seq(S) /\ <<Head(s)>> \in Seq(S)
  BY HeadTailProperties
<1>2. <<Head(s)>> \o Tail(s) \in Seq(S)
  BY <1>1, ConcatProperties
<1>3. Len(<<Head(s)>> \o Tail(s)) = Len(s)
  BY <1>1, ConcatProperties, HeadTailProperties, LenProperties, EmptySeq
<1>4. \A i \in 1 .. Len(s) : (<<Head(s)>> \o Tail(s))[i] = s[i]
  BY <1>1, <1>3, ConcatProperties, HeadTailProperties, LenProperties
<1> QED BY <1>2, <1>3, <1>4, SeqEqual

\* A sequence with one element put in front of it.
LEMMA ConsProperties ==
  ASSUME NEW S, NEW s \in Seq(S), NEW e \in S
  PROVE  /\ <<e>> \o s \in Seq(S)
         /\ <<e>> \o s # <<>>
         /\ Head(<<e>> \o s) = e
         /\ Tail(<<e>> \o s) = s
<1>1. <<e>> \in Seq(S) /\ Len(<<e>>) = 1 /\ <<e>>[1] = e
  OBVIOUS
<1>2. /\ <<e>> \o s \in Seq(S)
      /\ Len(<<e>> \o s) = 1 + Len(s)
      /\ \A i \in 1 .. 1 + Len(s) : (<<e>> \o s)[i] = IF i <= 1 THEN <<e>>[i] ELSE s[i - 1]
  BY <1>1, ConcatProperties
<1>3. Len(s) \in Nat
  BY LenProperties
<1>4. <<e>> \o s # <<>>
  BY <1>2, <1>3
<1>5. Head(<<e>> \o s) = e
  BY <1>1, <1>2, <1>3
<1>6. /\ Tail(<<e>> \o s) \in Seq(S)
      /\ Len(Tail(<<e>> \o s)) = Len(s)
      /\ \A i \in 1 .. Len(s) : Tail(<<e>> \o s)[i] = s[i]
  BY <1>2, <1>3, <1>4, HeadTailProperties
<1>7. Tail(<<e>> \o s) = s
  BY <1>6, SeqEqual
<1> QED BY <1>2, <1>4, <1>5, <1>7

-----------------------------------------------------------------------------
\* The first part of the invariant: types.
LEMMA InitTypeOK == Init => TypeOK
<1> SUFFICES ASSUME Init PROVE TypeOK
  OBVIOUS
<1>1. decode_queue \in Seq(Task) /\ done \in Seq(Task)
  BY EmptySeq DEF Init
<1>2. ncall \in [Source -> 0 .. MaxCalls]
  BY DecoderAssumption DEF Init
<1>3. pc \in [Thread -> ThreadPC] /\ pending \in [Handle -> {0, 1, 2}]
  BY DEF Init, ThreadPC
<1> QED
  BY <1>1, <1>2, <1>3 DEF Init, TypeOK, LoopPC

\* Every step keeps the types.
LEMMA NextTypeOK == IInv /\ [Next]_vars => TypeOK'
<1> SUFFICES ASSUME IInv, [Next]_vars PROVE TypeOK'
  OBVIOUS
<1> USE DecoderAssumption DEF IInv, TypeOK, Goto, LoopGoto, AfterSend, sendVars, loopVars,
        ThreadPC, LoopPC, Handle, HandleOf, Thread
<1>1. ASSUME NEW s \in Source, Decode(s) PROVE TypeOK'
  <2>1. ncall' \in [Source -> 0 .. MaxCalls]
    BY <1>1 DEF Decode
  <2>2. data_tbl' \subseteq Source /\ pc' \in [Thread -> ThreadPC]
    BY <1>1 DEF Decode
  <2> QED BY <1>1, <2>1, <2>2 DEF Decode
<1>2. ASSUME NEW s \in Source, Insert(s) PROVE TypeOK'
  <2>1. <<s, ncall[s]>> \in Task
    BY <1>2 DEF Insert, Task
  <2>2. decode_queue' \in Seq(Task)
    BY <1>2, <2>1, AppendProperties DEF Insert
  <2> QED BY <1>2, <2>2 DEF Insert
<1>3. ASSUME NEW s \in Source, Leave(s) PROVE TypeOK'
  BY <1>3 DEF Leave
<1>4. ASSUME NEW t \in Thread, Send(t) PROVE TypeOK'
  <2>1. CASE SendLoad(t) BY <2>1 DEF SendLoad
  <2>2. CASE SendCas(t)  BY <2>2 DEF SendCas
  <2>3. CASE SendWrite(t) BY <2>3 DEF SendWrite
  <2>4. CASE SendMark(t) BY <2>4 DEF SendMark
  <2> QED BY <1>4, <2>1, <2>2, <2>3, <2>4 DEF Send
<1>5. CASE MakeClose \/ Boot BY <1>5 DEF MakeClose, Boot
<1>6. CASE Poll BY <1>6 DEF Poll
<1>7. CASE SpinDecode BY <1>7 DEF SpinDecode
<1>8. CASE Empty BY <1>8 DEF Empty
<1>9. CASE Pop
  <2>1. decode_queue # <<>>
    BY <1>9 DEF Pop, ContextsKept
  <2>2. task' \in Task /\ decode_queue' \in Seq(Task)
    BY <1>9, <2>1, HeadTailProperties DEF Pop
  <2> QED BY <1>9, <2>2 DEF Pop
<1>10. CASE Work
  <2>1. task \in Task
    BY <1>10 DEF Work, ContextsKept
  <2>2. done' \in Seq(Task)
    BY <1>10, <2>1, AppendProperties DEF Work
  <2> QED BY <1>10, <2>2 DEF Work
<1>11. CASE SpinClose BY <1>11 DEF SpinClose
<1>12. CASE Exit BY <1>12 DEF Exit
<1>13. CASE Close BY <1>13 DEF Close
<1>14. CASE Join BY <1>14 DEF Join
<1>15. CASE UNCHANGED vars BY <1>15 DEF vars
<1> QED
  BY <1>1, <1>2, <1>3, <1>4, <1>5, <1>6, <1>7, <1>8, <1>9, <1>10, <1>11, <1>12,
     <1>13, <1>14, <1>15 DEF Next, Loop

-----------------------------------------------------------------------------
\* The invariant holds before the threads start.
LEMMA InitIInv == Init => IInv
<1> SUFFICES ASSUME Init PROVE IInv
  OBVIOUS
<1>1. TypeOK
  BY InitTypeOK
<1>2. SenderOwnsHandle
  BY DEF Init, SenderOwnsHandle, Marking
<1>3. WakeupRecorded /\ TasksAnnounced
  BY DEF Init, WakeupRecorded, TasksAnnounced, Thread, Handle
<1>4. ContextsKept
  BY EmptySeq DEF Init, ContextsKept, Thread
<1>5. ClosedLast
  BY DEF Init, ClosedLast, Thread, Handle
<1> QED BY <1>1, <1>2, <1>3, <1>4, <1>5 DEF IInv

\* Only the two cmpxchgi of a sender and the reset of the loop write a handle.
LEMMA NextSenderOwnsHandle == IInv /\ [Next]_vars => SenderOwnsHandle'
<1> SUFFICES ASSUME IInv, [Next]_vars PROVE SenderOwnsHandle'
  OBVIOUS
<1> USE DecoderAssumption DEF IInv, TypeOK, SenderOwnsHandle, Marking, Goto, AfterSend,
        sendVars, loopVars, ThreadPC, Handle, HandleOf, Thread
<1>1. ASSUME NEW s \in Source, Decode(s) PROVE SenderOwnsHandle'
  BY <1>1 DEF Decode
<1>2. ASSUME NEW s \in Source, Insert(s) \/ Leave(s) PROVE SenderOwnsHandle'
  BY <1>2 DEF Insert, Leave
<1>3. ASSUME NEW t \in Thread, SendLoad(t) PROVE SenderOwnsHandle'
  BY <1>3 DEF SendLoad
<1>4. ASSUME NEW t \in Thread, SendCas(t) PROVE SenderOwnsHandle'
  BY <1>4 DEF SendCas
<1>5. ASSUME NEW t \in Thread, SendWrite(t) PROVE SenderOwnsHandle'
  BY <1>5 DEF SendWrite
<1>6. ASSUME NEW t \in Thread, SendMark(t) PROVE SenderOwnsHandle'
  BY <1>6 DEF SendMark
<1>7. CASE SpinDecode BY <1>7 DEF SpinDecode
<1>8. CASE SpinClose BY <1>8 DEF SpinClose
<1>9. CASE MakeClose \/ Boot \/ Poll \/ Empty \/ Pop \/ Work \/ Exit
  BY <1>9 DEF MakeClose, Boot, Poll, Empty, Pop, Work, Exit
<1>10. CASE Close \/ Join BY <1>10 DEF Close, Join
<1>11. CASE UNCHANGED vars BY <1>11 DEF vars
<1> QED
  BY <1>1, <1>2, <1>3, <1>4, <1>5, <1>6, <1>7, <1>8, <1>9, <1>10, <1>11
  DEF Next, Send, Loop

\* Every step leaves a pending handle with a wake-up in the eventfd.
LEMMA NextWakeupRecorded == IInv /\ [Next]_vars => WakeupRecorded'
<1> SUFFICES ASSUME IInv, [Next]_vars PROVE WakeupRecorded'
  OBVIOUS
<1> USE DecoderAssumption DEF IInv, TypeOK, WakeupRecorded, SenderOwnsHandle, Marking, Goto,
        LoopGoto, AfterSend, sendVars, loopVars, ThreadPC, Handle, HandleOf, Thread
<1>1. ASSUME NEW s \in Source, Decode(s) \/ Insert(s) \/ Leave(s) PROVE WakeupRecorded'
  BY <1>1 DEF Decode, Insert, Leave
<1>2. ASSUME NEW t \in Thread, SendLoad(t) \/ SendCas(t) PROVE WakeupRecorded'
  BY <1>2 DEF SendLoad, SendCas
<1>3. ASSUME NEW t \in Thread, SendWrite(t) PROVE WakeupRecorded'
  BY <1>3 DEF SendWrite
<1>4. ASSUME NEW t \in Thread, SendMark(t) PROVE WakeupRecorded'
  BY <1>4 DEF SendMark
<1>5. CASE Poll BY <1>5 DEF Poll
\* The reset is taken only at 0 or 2, so no sender stands between its writes.
<1>6. CASE SpinDecode BY <1>6 DEF SpinDecode
<1>7. CASE MakeClose \/ Boot \/ Empty \/ Pop \/ Work \/ SpinClose \/ Exit
  BY <1>7 DEF MakeClose, Boot, Empty, Pop, Work, SpinClose, Exit
<1>8. CASE Close \/ Join BY <1>8 DEF Close, Join
<1>9. CASE UNCHANGED vars BY <1>9 DEF vars
<1> QED
  BY <1>1, <1>2, <1>3, <1>4, <1>5, <1>6, <1>7, <1>8, <1>9 DEF Next, Send, Loop

\* Every step leaves queued tasks with a wake-up on its way.
LEMMA NextTasksAnnounced == IInv /\ [Next]_vars => TasksAnnounced'
<1> SUFFICES ASSUME IInv, [Next]_vars PROVE TasksAnnounced'
  OBVIOUS
<1> USE DecoderAssumption DEF IInv, TypeOK, TasksAnnounced, Goto, LoopGoto, AfterSend,
        sendVars, loopVars, ThreadPC, Handle, HandleOf, Thread
<1>1. ASSUME NEW s \in Source, Decode(s) \/ Leave(s) PROVE TasksAnnounced'
  BY <1>1 DEF Decode, Leave
<1>2. ASSUME NEW s \in Source, Insert(s) PROVE TasksAnnounced'
  BY <1>2 DEF Insert
<1>3. ASSUME NEW t \in Thread, SendLoad(t) PROVE TasksAnnounced'
  BY <1>3 DEF SendLoad
<1>4. ASSUME NEW t \in Thread, SendCas(t) PROVE TasksAnnounced'
  BY <1>4 DEF SendCas
<1>5. ASSUME NEW t \in Thread, SendWrite(t) \/ SendMark(t) PROVE TasksAnnounced'
  BY <1>5 DEF SendWrite, SendMark
<1>6. CASE SpinDecode BY <1>6 DEF SpinDecode
<1>7. CASE MakeClose \/ Boot \/ Poll \/ Empty \/ Pop \/ Work \/ SpinClose \/ Exit
  BY <1>7 DEF MakeClose, Boot, Poll, Empty, Pop, Work, SpinClose, Exit
<1>8. CASE Close \/ Join BY <1>8 DEF Close, Join
<1>9. CASE UNCHANGED vars BY <1>9 DEF vars
<1> QED
  BY <1>1, <1>2, <1>3, <1>4, <1>5, <1>6, <1>7, <1>8, <1>9 DEF Next, Send, Loop

\* Every step keeps the contexts while the decoder may use them.
LEMMA NextContextsKept == IInv /\ [Next]_vars => ContextsKept'
<1> SUFFICES ASSUME IInv, [Next]_vars PROVE ContextsKept'
  OBVIOUS
<1> USE DecoderAssumption DEF IInv, TypeOK, ContextsKept, Goto, LoopGoto, AfterSend,
        sendVars, loopVars, ThreadPC, LoopPC, Thread
<1>1. ASSUME NEW s \in Source, Decode(s) PROVE ContextsKept'
  BY <1>1 DEF Decode
<1>2. ASSUME NEW s \in Source, Insert(s) PROVE ContextsKept'
  <2>1. <<s, ncall[s]>> \in Task
    BY DEF Task
  <2>2. CASE lpc = "exited"
    BY <1>2, <2>2 DEF Insert
  <2>3. CASE lpc # "exited"
    <3>1. s \in data_tbl
      BY <1>2, <2>3 DEF Insert
    <3>2. \A i \in 1 .. Len(decode_queue') : decode_queue'[i][1] \in data_tbl
      BY <1>2, <2>1, <2>3, <3>1, AppendProperties DEF Insert
    <3>3. decode_queue' # <<>>
      BY <1>2, <2>1, AppendProperties DEF Insert
    <3> QED BY <1>2, <2>3, <3>2, <3>3 DEF Insert
  <2> QED BY <2>2, <2>3
<1>3. ASSUME NEW s \in Source, Leave(s) PROVE ContextsKept'
  BY <1>3 DEF Leave
<1>4. ASSUME NEW t \in Thread, Send(t) PROVE ContextsKept'
  BY <1>4 DEF Send, SendLoad, SendCas, SendWrite, SendMark
<1>5. CASE Pop
  <2>1. decode_queue # <<>>
    BY <1>5 DEF Pop
  <2>2. /\ Head(decode_queue) \in Task
        /\ Head(decode_queue) = decode_queue[1]
        /\ Len(decode_queue) >= 1
    BY <2>1, HeadTailProperties, LenProperties, EmptySeq
  <2>3. /\ Len(Tail(decode_queue)) = Len(decode_queue) - 1
        /\ \A i \in 1 .. Len(Tail(decode_queue)) :
             Tail(decode_queue)[i] = decode_queue[i + 1]
    BY <2>1, HeadTailProperties
  <2>4. decode_queue[1][1] \in data_tbl
    BY <1>5, <2>2 DEF Pop
  <2>5. \A i \in 1 .. Len(decode_queue') : decode_queue'[i][1] \in data_tbl
    BY <1>5, <2>2, <2>3 DEF Pop
  <2> QED BY <1>5, <2>2, <2>4, <2>5 DEF Pop
<1>6. CASE MakeClose \/ Boot \/ Poll \/ SpinDecode \/ Empty
  BY <1>6 DEF MakeClose, Boot, Poll, SpinDecode, Empty
<1>7. CASE Work \/ SpinClose \/ Exit
  BY <1>7 DEF Work, SpinClose, Exit
<1>8. CASE Close \/ Join BY <1>8 DEF Close, Join
<1>9. CASE UNCHANGED vars BY <1>9 DEF vars
<1> QED
  BY <1>1, <1>2, <1>3, <1>4, <1>5, <1>6, <1>7, <1>8, <1>9 DEF Next, Loop

\* Every step keeps the close after the last decode.
LEMMA NextClosedLast == IInv /\ [Next]_vars => ClosedLast'
<1> SUFFICES ASSUME IInv, [Next]_vars PROVE ClosedLast'
  OBVIOUS
<1> USE DecoderAssumption DEF IInv, TypeOK, ClosedLast, Goto, LoopGoto, AfterSend,
        sendVars, loopVars, ThreadPC, Handle, HandleOf, Thread
<1>1. ASSUME NEW s \in Source, Decode(s) \/ Insert(s) \/ Leave(s) PROVE ClosedLast'
  BY <1>1 DEF Decode, Insert, Leave
<1>2. ASSUME NEW t \in Thread, Send(t) PROVE ClosedLast'
  BY <1>2 DEF Send, SendLoad, SendCas, SendWrite, SendMark
<1>3. CASE MakeClose \/ Boot \/ Poll \/ SpinDecode \/ Empty \/ Pop \/ Work
  BY <1>3 DEF MakeClose, Boot, Poll, SpinDecode, Empty, Pop, Work
<1>4. CASE SpinClose BY <1>4 DEF SpinClose
<1>5. CASE Exit BY <1>5 DEF Exit
<1>6. CASE Close \/ Join BY <1>6 DEF Close, Join
<1>7. CASE UNCHANGED vars BY <1>7 DEF vars
<1> QED BY <1>1, <1>2, <1>3, <1>4, <1>5, <1>6, <1>7 DEF Next, Loop

\* The strengthening of the safety invariants is itself an invariant.
THEOREM Inductive == Spec => []IInv
<1>1. IInv /\ [Next]_vars => IInv'
  BY NextTypeOK, NextSenderOwnsHandle, NextWakeupRecorded, NextTasksAnnounced,
     NextContextsKept, NextClosedLast DEF IInv
<1> QED BY InitIInv, <1>1, PTL DEF Spec

\* Every variable keeps its type: in particular pending only takes the three
\* values that the cmpxchgi of async.c:62-112 tell apart.
THEOREM TypeCorrect == Spec => []TypeOK
<1>1. IInv => TypeOK
  BY DEF IInv
<1> QED BY Inductive, <1>1, PTL

\* uv_async_send never aborts, with any number of threads sending on the
\* decode handle and the loop resetting it meanwhile (async.c:75-77).
THEOREM SendSafe == Spec => []NeverAborts
<1>1. IInv => NeverAborts
  BY DEF IInv, SenderOwnsHandle, Marking, NeverAborts
<1> QED BY Inductive, <1>1, PTL

\* A decoder loop that blocks has no task waiting, although sends are merged
\* and the queue is tested without its lock (decoder.c:130, :217).
THEOREM NoLostWakeup == Spec => []BlockedOnlyWhenEmpty
<1>1. IInv => BlockedOnlyWhenEmpty
  <2> SUFFICES ASSUME IInv, lpc = "poll", ~efd, \A s \in Source : ~Sending(s)
               PROVE  decode_queue = <<>>
    BY DEF BlockedOnlyWhenEmpty
  \* Nobody is sending, so a pending handle is at 2 ...
  <2>1. pending["decode"] # 1
    BY DecoderAssumption
    DEF IInv, SenderOwnsHandle, Sending, Marking, Handle, HandleOf, Thread
  \* ... and then the eventfd would be readable.
  <2>2. pending["decode"] = 0
    BY <2>1 DEF IInv, TypeOK, WakeupRecorded, Handle
  <2> QED BY <2>2 DEF IInv, TasksAnnounced, Sending
<1> QED BY Inductive, <1>1, PTL

\* The decoder works on a context only before free_rtcm_decoder releases it.
THEOREM NoUseAfterFree == Spec => []ContextAlive
<1>1. IInv => ContextAlive
  BY DEF IInv, ContextsKept, ContextAlive
<1> QED BY Inductive, <1>1, PTL

-----------------------------------------------------------------------------
\* The hand-off implements the safety part of FifoChannel: Insert is its Put,
\* Work its Take, Exit its Shut, and every other step stutters.
THEOREM FirstInFirstOut == Spec => Channel!Init /\ [][Channel!Next]_(Channel!vars)
<1> DEFINE busy == IF lpc = "work" THEN <<task>> ELSE <<>>
<1>1. Init => Channel!Init
  <2> SUFFICES ASSUME Init PROVE Channel!Init
    OBVIOUS
  <2>1. <<>> \o <<>> = <<>>
    BY EmptySeq, ConcatEmptySeq
  <2> QED BY <2>1 DEF Init, Channel!Init
<1>2. IInv /\ [Next]_vars => [Channel!Next]_(Channel!vars)
  <2> SUFFICES ASSUME IInv, [Next]_vars PROVE [Channel!Next]_(Channel!vars)
    OBVIOUS
  <2> USE DEF Channel!vars, sendVars, loopVars, LoopGoto
  <2>0. decode_queue \in Seq(Task) /\ busy \in Seq(Task)
    BY EmptySeq DEF IInv, TypeOK, ContextsKept
  <2>1. ASSUME NEW s \in Source, Insert(s) PROVE [Channel!Next]_(Channel!vars)
    <3>1. <<s, ncall[s]>> \in Task
      BY DEF IInv, TypeOK, Task
    <3>2. lpc # "exited"
      BY <2>1 DEF Insert, IInv, ClosedLast
    <3>3. busy \o Append(decode_queue, <<s, ncall[s]>>)
            = Append(busy \o decode_queue, <<s, ncall[s]>>)
      BY <2>0, <3>1, AppendIsConcat, ConcatAssociative, ConcatProperties
    <3>4. Channel!Put(<<s, ncall[s]>>)
      BY <2>1, <3>2, <3>3 DEF Insert, Channel!Put
    <3> QED BY <3>1, <3>4 DEF Channel!Next
  <2>2. CASE Pop
    <3>1. decode_queue # <<>>
      BY <2>2 DEF Pop, IInv, ContextsKept
    <3>2. decode_queue = <<Head(decode_queue)>> \o Tail(decode_queue)
      BY <2>0, <3>1, HeadTailConcat
    <3>3. <<>> \o decode_queue = decode_queue
      BY <2>0, ConcatEmptySeq
    <3> QED BY <2>2, <3>2, <3>3 DEF Pop
  <2>3. CASE Work
    <3>1. task \in Task
      BY <2>3 DEF Work, IInv, ContextsKept
    <3>2. /\ <<task>> \o decode_queue # <<>>
          /\ Head(<<task>> \o decode_queue) = task
          /\ Tail(<<task>> \o decode_queue) = decode_queue
      BY <2>0, <3>1, ConsProperties
    <3>3. <<>> \o decode_queue = decode_queue
      BY <2>0, ConcatEmptySeq
    <3>4. Channel!Take
      BY <2>3, <3>2, <3>3 DEF Work, Channel!Take
    <3> QED BY <3>4 DEF Channel!Next
  <2>4. CASE Exit
    BY <2>4 DEF Exit, Channel!Shut, Channel!Next
  <2>5. ASSUME NEW s \in Source, Decode(s) \/ Leave(s) PROVE UNCHANGED Channel!vars
    BY <2>5 DEF Decode, Leave
  <2>6. ASSUME NEW t \in Thread, Send(t) PROVE UNCHANGED Channel!vars
    BY <2>6 DEF Send, SendLoad, SendCas, SendWrite, SendMark
  <2>7. CASE MakeClose \/ Boot \/ Poll \/ SpinDecode \/ Empty \/ SpinClose
    BY <2>7 DEF MakeClose, Boot, Poll, SpinDecode, Empty, SpinClose
  <2>8. CASE Close \/ Join \/ UNCHANGED vars
    BY <2>8 DEF Close, Join, vars
  <2> QED BY <2>1, <2>2, <2>3, <2>4, <2>5, <2>6, <2>7, <2>8 DEF Next, Loop
<1> QED BY Inductive, <1>1, <1>2, PTL DEF Spec

-----------------------------------------------------------------------------
(* The queue under the hand-off: QueueRing, at every pointer write.        *)

\* The lock is with whom it is at work.
Owners ==
  /\ \A n \in Node : ppc[n] \in 1 .. 5 <=> owner = n
  /\ cpc \in {"head", "unlinkNext", "unlinkPrev", "unlock"} <=> owner = sentinel

\* The nodes that are in, each once; one that is being inserted is the last.
Members ==
  /\ \A i \in 1 .. Len(chan) : ppc[chan[i]] \in 4 .. 6 /\ (ppc[chan[i]] = 4 => i = Len(chan))
  /\ \A i, j \in 1 .. Len(chan) : chan[i] = chan[j] => i = j

\* prev undoes next but where a macro has one more write to do.
Backward ==
  \A i \in 0 .. Len(chan) :
    \/ prev[Place(i + 1)] = Place(i)
    \/ i = Len(chan) /\ \E n \in Node : ppc[n] = 4
    \/ i = 0 /\ cpc = "unlinkPrev"

\* What the writes of QUEUE_INSERT_TAIL have prepared
Inserting ==
  \A n \in Node : /\ ppc[n] \in 2 .. 3 => next[n] = sentinel
                  /\ ppc[n] = 3 => prev[n] = Place(Len(chan))
                  /\ ppc[n] = 4 => chan # <<>> /\ chan[Len(chan)] = n

\* What the consumer has in its hands
Removing ==
  /\ cpc \in {"lock", "head", "unlinkNext"} => chan # <<>>
  /\ cpc = "unlinkNext" => q = chan[1]
  /\ cpc = "unlinkPrev" => /\ q \in Node /\ next[q] = Place(1) /\ prev[q] = sentinel
                           /\ \A i \in 1 .. Len(chan) : chan[i] # q
  /\ cpc = "unlock" => q \in Node

RingInv == RingTypeOK /\ Owners /\ Members /\ Forward /\ Backward /\ Inserting /\ Removing

-----------------------------------------------------------------------------
LEMMA PlaceProps ==
  ASSUME RingInv
  PROVE  /\ Len(chan) \in Nat /\ (chan = <<>> <=> Len(chan) = 0)
         /\ \A i \in 1 .. Len(chan) : Place(i) = chan[i] /\ chan[i] \in Node /\ chan[i] \in Cell
         /\ Place(0) = sentinel /\ Place(Len(chan) + 1) = sentinel
         /\ \A i \in 0 .. Len(chan) + 1 : Place(i) \in Cell
         /\ sentinel \in Cell /\ sentinel \notin Node /\ Node \subseteq Cell
<1>1. chan \in Seq(Node) /\ Len(chan) \in Nat /\ (chan = <<>> <=> Len(chan) = 0)
  BY EmptySeq DEF RingInv, RingTypeOK
<1>2. \A i \in 1 .. Len(chan) : chan[i] \in Node
  BY <1>1
<1>3. sentinel \in Cell /\ sentinel \notin Node /\ Node \subseteq Cell
  BY RingAssumption DEF Cell
<1> QED BY <1>1, <1>2, <1>3 DEF Place

LEMMA PlacesApart ==
  ASSUME RingInv
  PROVE  /\ \A i, j \in 0 .. Len(chan) : Place(i) = Place(j) => i = j
         /\ \A i, j \in 1 .. Len(chan) + 1 : Place(i) = Place(j) => i = j
<1>1. \A i, j \in 1 .. Len(chan) : Place(i) = Place(j) => i = j
  BY PlaceProps DEF RingInv, Members
<1>2. \A i \in 1 .. Len(chan) : Place(i) # sentinel
  BY PlaceProps
<1> QED BY <1>1, <1>2, PlaceProps

LEMMA InitRing == RingInit => RingInv
<1> SUFFICES ASSUME RingInit PROVE RingInv
  OBVIOUS
<1>1. RingTypeOK
  BY RingAssumption DEF RingInit, RingTypeOK, Cell, ProducerPC, ConsumerPC
<1>2. Owners
  BY RingAssumption DEF RingInit, Owners
<1>3. Len(chan) = 0 /\ sentinel \in Cell
  BY DEF RingInit, Cell
<1>4. Members /\ Forward /\ Backward /\ Inserting /\ Removing
  BY <1>3 DEF RingInit, Members, Forward, Backward, Inserting, Removing, Place
<1> QED BY <1>1, <1>2, <1>4 DEF RingInv

\* Steps that write no pointer of a cell of the ring
LEMMA Calm ==
  ASSUME RingInv, chan' = chan, \A c \in Cell : (c \notin Node \/ \E i \in 1 .. Len(chan) : chan[i] = c) =>
                     next'[c] = next[c] /\ prev'[c] = prev[c]
  PROVE  /\ \A i : Place(i)' = Place(i)
         /\ Forward'
         /\ \A i \in 0 .. Len(chan) : prev'[Place(i + 1)] = prev[Place(i + 1)]
<1>1. \A i : Place(i)' = Place(i)
  BY DEF Place
<1>2. \A i \in 0 .. Len(chan) + 1 : next'[Place(i)] = next[Place(i)] /\ prev'[Place(i)] = prev[Place(i)]
  BY PlaceProps
<1>3. Len(chan) \in Nat
  BY PlaceProps
<1>4. Forward'
  BY <1>1, <1>2, <1>3 DEF RingInv, Forward
<1> QED BY <1>1, <1>2, <1>3, <1>4

LEMMA ProducerSteps ==
  ASSUME RingInv, NEW n \in Node, NEW i \in ProducerPC, ProducerGoto(n, i)
  PROVE  /\ ppc' \in [Node -> ProducerPC] /\ ppc'[n] = i
         /\ \A m \in Node : m # n => ppc'[m] = ppc[m]
BY DEF RingInv, RingTypeOK, ProducerGoto

\* Who has the lock is alone.
LEMMA Alone ==
  ASSUME RingInv
  PROVE  /\ \A n \in Node : ppc[n] \in 1 .. 5 =>
              /\ cpc \in {"empty", "lock"}
              /\ \A m \in Node : m # n => ppc[m] \in {0, 6}
         /\ cpc \in {"head", "unlinkNext", "unlinkPrev", "unlock"} =>
              \A n \in Node : ppc[n] \in {0, 6}
         /\ owner = nobody => /\ cpc \in {"empty", "lock"} /\ \A n \in Node : ppc[n] \in {0, 6}
<1>1. \A n \in Node : ppc[n] \in 0 .. 6
  BY DEF RingInv, RingTypeOK, ProducerPC
<1>2. \A n \in Node : n # sentinel /\ n # nobody
  BY RingAssumption
<1>3. sentinel # nobody
  BY RingAssumption
<1> QED BY <1>1, <1>2, <1>3 DEF RingInv, RingTypeOK, ConsumerPC, Owners

LEMMA LockKeeps == ASSUME RingInv, NEW n \in Node, Lock(n) PROVE RingInv'
<1>1. /\ ppc[n] = 0 /\ owner = nobody /\ owner' = n /\ ProducerGoto(n, 1)
      /\ UNCHANGED <<next, prev, cpc, q, chan, removed>>
  BY DEF Lock
<1>2. /\ ppc' \in [Node -> ProducerPC] /\ ppc'[n] = 1
      /\ \A m \in Node : m # n => ppc'[m] = ppc[m]
  BY <1>1, ProducerSteps DEF ProducerPC
<1>3. RingTypeOK'
  BY <1>1, <1>2 DEF RingInv, RingTypeOK, Cell
<1>4. Owners'
  BY <1>1, <1>2, Alone, RingAssumption DEF Owners
<1>5. Members'
  BY <1>1, <1>2, PlaceProps DEF RingInv, Members
<1>6. (\A i : Place(i)' = Place(i)) /\ Forward'
  BY <1>1, Calm
<1>7. Backward'
  BY <1>1, <1>2, <1>6, PlaceProps DEF RingInv, Backward
<1>8. Inserting'
  BY <1>1, <1>2, <1>6 DEF RingInv, Inserting
<1>9. Removing'
  BY <1>1, <1>6 DEF RingInv, Removing
<1> QED BY <1>3, <1>4, <1>5, <1>6, <1>7, <1>8, <1>9 DEF RingInv

LEMMA UnlockKeeps == ASSUME RingInv, NEW n \in Node, Unlock(n) PROVE RingInv'
<1>1. /\ ppc[n] = 5 /\ owner' = nobody /\ ProducerGoto(n, 6)
      /\ UNCHANGED <<next, prev, cpc, q, chan, removed>>
  BY DEF Unlock
<1>2. /\ ppc' \in [Node -> ProducerPC] /\ ppc'[n] = 6
      /\ \A m \in Node : m # n => ppc'[m] = ppc[m]
  BY <1>1, ProducerSteps DEF ProducerPC
<1>3. RingTypeOK'
  BY <1>1, <1>2 DEF RingInv, RingTypeOK, Cell
<1>4. Owners'
  BY <1>1, <1>2, Alone, RingAssumption DEF Owners
<1>5. Members'
  BY <1>1, <1>2, PlaceProps DEF RingInv, Members
<1>6. (\A i : Place(i)' = Place(i)) /\ Forward'
  BY <1>1, Calm
<1>7. Backward'
  BY <1>1, <1>2, <1>6, PlaceProps DEF RingInv, Backward
<1>8. Inserting'
  BY <1>1, <1>2, <1>6 DEF RingInv, Inserting
<1>9. Removing'
  BY <1>1, <1>6 DEF RingInv, Removing
<1> QED BY <1>3, <1>4, <1>5, <1>6, <1>7, <1>8, <1>9 DEF RingInv

\* A node that is not in
LEMMA Outside ==
  ASSUME RingInv, NEW n \in Node, ppc[n] \notin 4 .. 6
  PROVE  \A i \in 1 .. Len(chan) : chan[i] # n
BY DEF RingInv, Members

LEMMA InsertNextKeeps == ASSUME RingInv, NEW n \in Node, InsertNext(n) PROVE RingInv'
<1>1. /\ ppc[n] = 1 /\ next' = [next EXCEPT ![n] = sentinel] /\ ProducerGoto(n, 2)
      /\ UNCHANGED <<prev, owner, cpc, q, chan, removed>>
  BY DEF InsertNext
<1>2. /\ ppc' \in [Node -> ProducerPC] /\ ppc'[n] = 2
      /\ \A m \in Node : m # n => ppc'[m] = ppc[m]
  BY <1>1, ProducerSteps DEF ProducerPC
<1>3. /\ next' \in [Cell -> Cell \union {nobody}] /\ next'[n] = sentinel
      /\ \A c \in Cell : c # n => next'[c] = next[c]
  BY <1>1, PlaceProps DEF RingInv, RingTypeOK
<1>4. RingTypeOK'
  BY <1>1, <1>2, <1>3 DEF RingInv, RingTypeOK
<1>5. Owners'
  BY <1>1, <1>2 DEF RingInv, Owners
<1>6. Members'
  BY <1>1, <1>2, PlaceProps DEF RingInv, Members
<1>7. (\A i : Place(i)' = Place(i)) /\ Forward'
  BY <1>1, <1>3, Outside, PlaceProps, Calm
<1>8. Backward'
  BY <1>1, <1>2, <1>7, PlaceProps DEF RingInv, Backward
<1>9. Inserting'
  BY <1>1, <1>2, <1>3, <1>7, PlaceProps DEF RingInv, Inserting
<1>10. Removing'
  BY <1>1, <1>7, Alone DEF RingInv, Removing
<1> QED BY <1>4, <1>5, <1>6, <1>7, <1>8, <1>9, <1>10 DEF RingInv

LEMMA InsertPrevKeeps == ASSUME RingInv, NEW n \in Node, InsertPrev(n) PROVE RingInv'
<1>1. /\ ppc[n] = 2 /\ prev' = [prev EXCEPT ![n] = prev[sentinel]] /\ ProducerGoto(n, 3)
      /\ UNCHANGED <<next, owner, cpc, q, chan, removed>>
  BY DEF InsertPrev
<1>2. /\ ppc' \in [Node -> ProducerPC] /\ ppc'[n] = 3
      /\ \A m \in Node : m # n => ppc'[m] = ppc[m]
  BY <1>1, ProducerSteps DEF ProducerPC
<1>3. /\ prev' \in [Cell -> Cell \union {nobody}] /\ prev'[n] = prev[sentinel]
      /\ \A c \in Cell : c # n => prev'[c] = prev[c]
  BY <1>1, PlaceProps DEF RingInv, RingTypeOK
<1>4. prev[sentinel] = Place(Len(chan))
  <2>1. cpc \in {"empty", "lock"} /\ \A m \in Node : ppc[m] # 4
    BY <1>1, Alone
  <2>2. Len(chan) \in 0 .. Len(chan)
    BY PlaceProps
  <2> QED BY <2>1, <2>2, PlaceProps DEF RingInv, Backward
<1>5. RingTypeOK'
  BY <1>1, <1>2, <1>3 DEF RingInv, RingTypeOK
<1>6. Owners'
  BY <1>1, <1>2 DEF RingInv, Owners
<1>7. Members'
  BY <1>1, <1>2, PlaceProps DEF RingInv, Members
<1>8. /\ \A i : Place(i)' = Place(i)
      /\ Forward' /\ \A i \in 0 .. Len(chan) : prev'[Place(i + 1)] = prev[Place(i + 1)]
  BY <1>1, <1>3, Outside, PlaceProps, Calm
<1>9. Backward'
  BY <1>1, <1>2, <1>8, PlaceProps DEF RingInv, Backward
<1>10. Inserting'
  BY <1>1, <1>2, <1>3, <1>4, <1>8, PlaceProps DEF RingInv, Inserting
<1>11. Removing'
  BY <1>1, <1>8, Alone DEF RingInv, Removing
<1> QED BY <1>5, <1>6, <1>7, <1>8, <1>9, <1>10, <1>11 DEF RingInv

\* The node is the last one from the write that publishes it.
LEMMA InsertPublishKeeps == ASSUME RingInv, NEW n \in Node, InsertPublish(n) PROVE RingInv'
<1>0. PICK k \in Nat : k = Len(chan)
  BY PlaceProps
<1>1. /\ ppc[n] = 3 /\ next' = [next EXCEPT ![prev[n]] = n] /\ chan' = Append(chan, n)
      /\ ProducerGoto(n, 4) /\ UNCHANGED <<prev, owner, cpc, q, removed>>
  BY DEF InsertPublish
<1>2. /\ ppc' \in [Node -> ProducerPC] /\ ppc'[n] = 4
      /\ \A m \in Node : m # n => ppc'[m] = ppc[m]
  BY <1>1, ProducerSteps DEF ProducerPC
<1>3. k \in Nat /\ prev[n] = Place(k) /\ Place(k) \in Cell /\ next[n] = sentinel /\ n \in Cell
      /\ n # sentinel
  BY <1>0, <1>1, PlaceProps DEF RingInv, Inserting
<1>4. /\ next' \in [Cell -> Cell \union {nobody}] /\ next'[Place(k)] = n
      /\ \A c \in Cell : c # Place(k) => next'[c] = next[c]
  BY <1>0, <1>1, <1>3 DEF RingInv, RingTypeOK
<1>5. /\ chan' \in Seq(Node) /\ Len(chan') = k + 1 /\ chan'[k + 1] = n /\ chan' # <<>>
      /\ \A i \in 1 .. k : chan'[i] = chan[i]
  <2>1. chan \in Seq(Node)
    BY DEF RingInv, RingTypeOK
  <2> QED BY <1>0, <1>1, <2>1, AppendProperties, EmptySeq
<1>6. \A i \in 1 .. k : chan[i] # n
  BY <1>0, <1>1, Outside
<1>7. /\ \A i \in 0 .. k : Place(i)' = Place(i)
      /\ Place(k + 1)' = n /\ Place(k + 2)' = sentinel
  BY <1>0, <1>3, <1>5, PlaceProps DEF Place
<1>8. cpc \in {"empty", "lock"} /\ \A m \in Node : m # n => ppc[m] \in {0, 6}
  BY <1>0, <1>1, Alone
<1>9. RingTypeOK'
  BY <1>0, <1>1, <1>2, <1>4, <1>5 DEF RingInv, RingTypeOK
<1>10. Owners'
  BY <1>0, <1>1, <1>2 DEF RingInv, Owners
<1>11. Members'
  <2>1. \A i \in 1 .. k : ppc'[chan'[i]] \in {0, 6} /\ ppc'[chan'[i]] \in 4 .. 6
    BY <1>0, <1>2, <1>5, <1>6, <1>8, PlaceProps DEF RingInv, Members
  <2>2. \A i \in 1 .. Len(chan') : ppc'[chan'[i]] \in 4 .. 6 /\ (ppc'[chan'[i]] = 4 => i = Len(chan'))
    BY <1>0, <1>2, <1>3, <1>5, <2>1
  <2>3. \A i, j \in 1 .. Len(chan') : chan'[i] = chan'[j] => i = j
    BY <1>0, <1>3, <1>5, <1>6 DEF RingInv, Members
  <2> QED BY <1>0, <2>2, <2>3 DEF Members
<1>12. Forward'
  <2> SUFFICES ASSUME NEW i \in 0 .. k + 1 PROVE next'[Place(i)'] = Place(i + 1)'
    BY <1>0, <1>5 DEF Forward
  <2>1. CASE i \in 0 .. k /\ i # k
    <3>1. Place(i) # Place(k) /\ Place(i) \in Cell /\ i + 1 \in 0 .. k
      BY <1>0, <2>1, <1>3, PlacesApart, PlaceProps
    <3>2. next[Place(i)] = Place(i + 1)
      BY <1>0, <2>1 DEF RingInv, Forward
    <3> QED BY <1>0, <3>1, <3>2, <2>1, <1>4, <1>7
  <2>2. CASE i = k
    BY <1>0, <2>2, <1>3, <1>4, <1>7
  <2>3. CASE i = k + 1
    <3>1. n # Place(k)
      BY <1>0, <1>3, <1>6, PlaceProps DEF Place
    <3>2. i + 1 = k + 2
      BY <1>0, <2>3, <1>3
    <3> QED BY <1>0, <3>1, <3>2, <2>3, <1>3, <1>4, <1>7
  <2> QED BY <1>0, <2>1, <2>2, <2>3, <1>3
<1>13. Backward'
  <2> SUFFICES ASSUME NEW i \in 0 .. k + 1, i # k + 1 PROVE prev[Place(i + 1)'] = Place(i)'
    BY <1>0, <1>1, <1>2, <1>5 DEF Backward
  <2>1. CASE i = k
    BY <1>0, <2>1, <1>3, <1>7
  <2>2. CASE i # k
    <3>1. i \in 0 .. k /\ i + 1 \in 0 .. k
      BY <1>0, <2>2, <1>3
    <3>2. prev[Place(i + 1)] = Place(i)
      BY <1>0, <3>1, <2>2, <1>8 DEF RingInv, Backward
    <3> QED BY <1>0, <3>1, <3>2, <1>7
  <2> QED BY <1>0, <2>1, <2>2
<1>14. Inserting'
  BY <1>0, <1>2, <1>5, <1>8 DEF Inserting
<1>15. Removing'
  BY <1>0, <1>1, <1>5, <1>8 DEF Removing
<1> QED BY <1>0, <1>9, <1>10, <1>11, <1>12, <1>13, <1>14, <1>15 DEF RingInv

LEMMA InsertTailKeeps == ASSUME RingInv, NEW n \in Node, InsertTail(n) PROVE RingInv'
<1> DEFINE k == Len(chan)
<1>1. /\ ppc[n] = 4 /\ prev' = [prev EXCEPT ![sentinel] = n] /\ ProducerGoto(n, 5)
      /\ UNCHANGED <<next, owner, cpc, q, chan, removed>>
  BY DEF InsertTail
<1>2. /\ ppc' \in [Node -> ProducerPC] /\ ppc'[n] = 5
      /\ \A m \in Node : m # n => ppc'[m] = ppc[m]
  BY <1>1, ProducerSteps DEF ProducerPC
<1>3. /\ prev' \in [Cell -> Cell \union {nobody}] /\ prev'[sentinel] = n
      /\ \A c \in Cell : c # sentinel => prev'[c] = prev[c]
  BY <1>1, PlaceProps DEF RingInv, RingTypeOK
<1>4. cpc \in {"empty", "lock"} /\ \A m \in Node : m # n => ppc[m] \in {0, 6}
  BY <1>1, Alone
<1>5. \A i : Place(i)' = Place(i)
  BY <1>1 DEF Place
<1>6. RingTypeOK'
  BY <1>1, <1>2, <1>3, PlaceProps DEF RingInv, RingTypeOK
<1>7. Owners'
  BY <1>1, <1>2 DEF RingInv, Owners
<1>8. Members'
  BY <1>1, <1>2, PlaceProps DEF RingInv, Members
<1>9. Forward'
  BY <1>1, <1>5 DEF RingInv, Forward
<1>10. Backward'
  <2> SUFFICES ASSUME NEW i \in 0 .. k PROVE prev'[Place(i + 1)] = Place(i)
    BY <1>1, <1>5 DEF Backward
  <2>1. CASE i = k
    <3>1. chan[k] = n /\ k \in 1 .. k
      BY <1>1, PlaceProps DEF RingInv, Inserting
    <3> QED BY <2>1, <3>1, <1>3, PlaceProps
  <2>2. CASE i # k
    <3>1. i + 1 \in 1 .. k /\ Place(i + 1) \in Cell /\ Place(i + 1) # sentinel
      BY <2>2, PlaceProps
    <3>2. prev[Place(i + 1)] = Place(i)
      BY <2>2, <1>4 DEF RingInv, Backward
    <3> QED BY <3>1, <3>2, <1>3
  <2> QED BY <2>1, <2>2
<1>11. Inserting'
  BY <1>1, <1>2, <1>4 DEF Inserting
<1>12. Removing'
  BY <1>1, <1>4, <1>5 DEF RingInv, Removing
<1> QED BY <1>6, <1>7, <1>8, <1>9, <1>10, <1>11, <1>12 DEF RingInv

LEMMA CheckEmptyKeeps == ASSUME RingInv, CheckEmpty PROVE RingInv'
<1>1. /\ cpc = "empty" /\ next[sentinel] # sentinel /\ cpc' = "lock"
      /\ UNCHANGED <<next, prev, owner, ppc, q, chan, removed>>
  BY DEF CheckEmpty
<1>2. chan # <<>>
  <2> SUFFICES ASSUME chan = <<>> PROVE FALSE
    OBVIOUS
  <2>1. 0 \in 0 .. Len(chan) /\ Place(0) = sentinel /\ Place(0 + 1) = sentinel
    BY PlaceProps
  <2> QED BY <2>1, <1>1 DEF RingInv, Forward
<1>3. RingTypeOK' /\ Owners' /\ Members'
  BY <1>1 DEF RingInv, RingTypeOK, Owners, Members, ConsumerPC
<1>4. (\A i : Place(i)' = Place(i)) /\ Forward'
  BY <1>1, Calm
<1>5. Backward'
  BY <1>1, <1>4 DEF RingInv, Backward
<1>6. Inserting' /\ Removing'
  BY <1>1, <1>2, <1>4 DEF RingInv, Inserting, Removing
<1> QED BY <1>3, <1>4, <1>5, <1>6 DEF RingInv

LEMMA ConsumerLockKeeps == ASSUME RingInv, ConsumerLock PROVE RingInv'
<1>1. /\ cpc = "lock" /\ owner = nobody /\ owner' = sentinel /\ cpc' = "head"
      /\ UNCHANGED <<next, prev, ppc, q, chan, removed>>
  BY DEF ConsumerLock
<1>2. RingTypeOK' /\ Members'
  BY <1>1, PlaceProps DEF RingInv, RingTypeOK, Members, ConsumerPC
<1>3. Owners'
  BY <1>1, Alone, RingAssumption DEF Owners
<1>4. (\A i : Place(i)' = Place(i)) /\ Forward'
  BY <1>1, Calm
<1>5. Backward'
  BY <1>1, <1>4 DEF RingInv, Backward
<1>6. Inserting' /\ Removing'
  BY <1>1, <1>4 DEF RingInv, Inserting, Removing
<1> QED BY <1>2, <1>3, <1>4, <1>5, <1>6 DEF RingInv

LEMMA QueueHeadKeeps == ASSUME RingInv, QueueHead PROVE RingInv'
<1>1. /\ cpc = "head" /\ q' = next[sentinel] /\ cpc' = "unlinkNext"
      /\ UNCHANGED <<next, prev, owner, ppc, chan, removed>>
  BY DEF QueueHead
<1>2. chan # <<>> /\ next[sentinel] = chan[1] /\ chan[1] \in Node
  <2>1. chan # <<>>
    BY <1>1 DEF RingInv, Removing
  <2>2. 1 \in 1 .. Len(chan) /\ 0 \in 0 .. Len(chan)
    BY <2>1, PlaceProps
  <2>3. next[Place(0)] = Place(0 + 1)
    BY <2>2 DEF RingInv, Forward
  <2> QED BY <2>1, <2>2, <2>3, PlaceProps
<1>3. RingTypeOK' /\ Members'
  BY <1>1, <1>2, PlaceProps DEF RingInv, RingTypeOK, Members, ConsumerPC
<1>4. Owners'
  BY <1>1 DEF RingInv, Owners
<1>5. (\A i : Place(i)' = Place(i)) /\ Forward'
  BY <1>1, Calm
<1>6. Backward'
  BY <1>1, <1>5 DEF RingInv, Backward
<1>7. Inserting' /\ Removing'
  BY <1>1, <1>2, <1>5 DEF RingInv, Inserting, Removing
<1> QED BY <1>3, <1>4, <1>5, <1>6, <1>7 DEF RingInv

\* The head is out from the write that takes it from the sentinel's next.
LEMMA UnlinkNextKeeps == ASSUME RingInv, UnlinkNext PROVE RingInv' /\ chan # <<>> /\ q = Head(chan)
<1> DEFINE k == Len(chan)
<1>1. /\ cpc = "unlinkNext" /\ next' = [next EXCEPT ![prev[q]] = next[q]]
      /\ chan' = Tail(chan) /\ removed' = Append(removed, q) /\ cpc' = "unlinkPrev"
      /\ UNCHANGED <<prev, owner, ppc, q>>
  BY DEF UnlinkNext
<1>2. chan # <<>> /\ q = chan[1] /\ chan \in Seq(Node)
  BY <1>1 DEF RingInv, Removing, RingTypeOK
<1>3. k \in Nat /\ k >= 1 /\ 1 \in 1 .. k /\ 0 \in 0 .. k /\ 1 \in 0 .. k /\ q \in Node /\ Place(1) = q
  BY <1>2, PlaceProps
<1>4. \A m \in Node : ppc[m] \in {0, 6}
  BY <1>1, Alone
<1>5. prev[q] = sentinel
  <2>1. prev[Place(0 + 1)] = Place(0)
    BY <1>1, <1>3, <1>4 DEF RingInv, Backward
  <2> QED BY <2>1, <1>3, PlaceProps
<1>6. next[q] = Place(2)
  <2>1. next[Place(1)] = Place(1 + 1)
    BY <1>3 DEF RingInv, Forward
  <2> QED BY <2>1, <1>3
<1>7. 2 \in 0 .. k + 1 /\ Place(2) \in Cell
  BY <1>3, PlaceProps
<1>8. /\ next' \in [Cell -> Cell \union {nobody}] /\ next'[sentinel] = Place(2)
      /\ \A c \in Cell : c # sentinel => next'[c] = next[c]
  BY <1>1, <1>5, <1>6, <1>7, PlaceProps DEF RingInv, RingTypeOK
<1>9. /\ chan' \in Seq(Node) /\ Len(chan') = k - 1 /\ \A i \in 1 .. k - 1 : chan'[i] = chan[i + 1]
      /\ q = Head(chan)
  BY <1>1, <1>2, HeadTailProperties
<1>10. /\ Place(0)' = sentinel
       /\ \A i \in 1 .. k : Place(i)' = Place(i + 1)
  BY <1>3, <1>9 DEF Place
<1>11. RingTypeOK'
  <2>1. removed' \in Seq(Node)
    BY <1>1, <1>3, AppendProperties DEF RingInv, RingTypeOK
  <2> QED BY <1>1, <1>8, <1>9, <2>1 DEF RingInv, RingTypeOK, ConsumerPC
<1>12. Owners'
  BY <1>1 DEF RingInv, Owners
<1>13. Members'
  <2>1. \A i \in 1 .. k - 1 : i + 1 \in 1 .. k /\ chan'[i] \in Node
    BY <1>3, <1>9, PlaceProps
  <2>2. \A i \in 1 .. Len(chan') : ppc'[chan'[i]] \in 4 .. 6 /\ ppc'[chan'[i]] # 4
    BY <1>1, <1>4, <1>9, <2>1 DEF RingInv, Members
  <2>3. \A i, j \in 1 .. Len(chan') : chan'[i] = chan'[j] => i = j
    <3> SUFFICES ASSUME NEW i \in 1 .. k - 1, NEW j \in 1 .. k - 1, chan[i + 1] = chan[j + 1]
                 PROVE  i = j
      BY <1>9
    <3>1. i + 1 = j + 1
      BY <2>1 DEF RingInv, Members
    <3> QED BY <3>1
  <2> QED BY <2>2, <2>3 DEF Members
<1>14. Forward'
  <2> SUFFICES ASSUME NEW i \in 0 .. k - 1 PROVE next'[Place(i)'] = Place(i + 1)'
    BY <1>9 DEF Forward
  <2>1. CASE i = 0
    BY <2>1, <1>3, <1>8, <1>10
  <2>2. CASE i # 0
    <3>1. i \in 1 .. k /\ i + 1 \in 1 .. k /\ i + 1 \in 0 .. k
      BY <2>2, <1>3
    <3>2. next[Place(i + 1)] = Place(i + 1 + 1)
      BY <3>1 DEF RingInv, Forward
    <3>3. Place(i + 1) \in Cell /\ Place(i + 1) # sentinel
      BY <3>1, PlaceProps
    <3> QED BY <3>1, <3>2, <3>3, <1>8, <1>10
  <2> QED BY <2>1, <2>2
<1>15. Backward'
  <2> SUFFICES ASSUME NEW i \in 0 .. k - 1, i # 0 PROVE prev[Place(i + 1)'] = Place(i)'
    BY <1>1, <1>9 DEF Backward
  <2>1. i \in 1 .. k /\ i + 1 \in 1 .. k /\ i + 1 \in 0 .. k /\ i + 1 # 0
    BY <1>3
  <2>2. prev[Place(i + 1 + 1)] = Place(i + 1)
    <3>1. \A n \in Node : ppc[n] # 4
      BY <1>4
    <3>2. \A j \in 0 .. k : j # 0 => prev[Place(j + 1)] = Place(j)
      BY <3>1, <1>1 DEF RingInv, Backward
    <3> QED BY <3>2, <2>1
  <2> QED BY <2>1, <2>2, <1>10
<1>16. Inserting'
  BY <1>1, <1>4 DEF Inserting
<1>17. Removing'
  <2>1. next'[q] = Place(1)'
    BY <1>3, <1>6, <1>8, <1>10, PlaceProps
  <2>2. \A i \in 1 .. k - 1 : chan'[i] # q
    <3> SUFFICES ASSUME NEW i \in 1 .. k - 1, chan[i + 1] = chan[1] PROVE FALSE
      BY <1>2, <1>9
    <3>1. i + 1 \in 1 .. k
      BY <1>3
    <3>2. i + 1 = 1
      BY <3>1, <1>3 DEF RingInv, Members
    <3> QED BY <3>2
  <2> QED BY <1>1, <1>3, <1>5, <1>9, <2>1, <2>2 DEF Removing
<1> QED BY <1>2, <1>9, <1>11, <1>12, <1>13, <1>14, <1>15, <1>16, <1>17 DEF RingInv

LEMMA UnlinkPrevKeeps == ASSUME RingInv, UnlinkPrev PROVE RingInv'
<1>0. PICK k \in Nat : k = Len(chan)
  BY PlaceProps
<1>1. /\ cpc = "unlinkPrev" /\ prev' = [prev EXCEPT ![next[q]] = prev[q]] /\ cpc' = "unlock"
      /\ UNCHANGED <<next, owner, ppc, q, chan, removed>>
  BY DEF UnlinkPrev
<1>2. q \in Node /\ next[q] = Place(1) /\ prev[q] = sentinel
  BY <1>1 DEF RingInv, Removing
<1>3. 1 \in 0 .. k + 1 /\ Place(1) \in Cell
  BY <1>0, PlaceProps
<1>4. /\ prev' \in [Cell -> Cell \union {nobody}] /\ prev'[Place(1)] = sentinel
      /\ \A c \in Cell : c # Place(1) => prev'[c] = prev[c]
  BY <1>1, <1>2, <1>3, PlaceProps DEF RingInv, RingTypeOK
<1>5. \A i : Place(i)' = Place(i)
  BY <1>1 DEF Place
<1>6. RingTypeOK'
  BY <1>1, <1>4 DEF RingInv, RingTypeOK, ConsumerPC
<1>7. Owners' /\ Members'
  BY <1>1, PlaceProps DEF RingInv, Owners, Members
<1>8. Forward'
  BY <1>1, <1>5 DEF RingInv, Forward
<1>9. Backward'
  <2> SUFFICES ASSUME NEW i \in 0 .. k PROVE prev'[Place(i + 1)] = Place(i)
    BY <1>0, <1>1, <1>5 DEF Backward
  <2>1. CASE i = 0
    BY <2>1, <1>4, PlaceProps
  <2>2. CASE i # 0
    <3>1. i + 1 \in 1 .. k + 1 /\ 1 \in 1 .. k + 1 /\ i + 1 # 1
      BY <2>2, <1>0
    <3>2. Place(i + 1) # Place(1) /\ Place(i + 1) \in Cell
      BY <3>1, <1>0, PlacesApart, PlaceProps
    <3>3. \A m \in Node : ppc[m] # 4
      BY <1>1, Alone
    <3>4. prev[Place(i + 1)] = Place(i)
      BY <2>2, <3>3, <1>0 DEF RingInv, Backward
    <3> QED BY <3>2, <3>4, <1>4
  <2> QED BY <2>1, <2>2
<1>10. Inserting'
  <2>1. \A m \in Node : ppc[m] \in {0, 6}
    BY <1>1, Alone
  <2> QED BY <1>1, <2>1 DEF Inserting
<1>11. Removing'
  BY <1>1, <1>2 DEF Removing
<1> QED BY <1>6, <1>7, <1>8, <1>9, <1>10, <1>11 DEF RingInv

LEMMA ConsumerUnlockKeeps == ASSUME RingInv, ConsumerUnlock PROVE RingInv'
<1>1. /\ cpc = "unlock" /\ owner' = nobody /\ q' = nobody /\ cpc' = "empty"
      /\ UNCHANGED <<next, prev, ppc, chan, removed>>
  BY DEF ConsumerUnlock
<1>2. RingTypeOK' /\ Members'
  BY <1>1, PlaceProps DEF RingInv, RingTypeOK, Members, ConsumerPC
<1>3. Owners'
  BY <1>1, Alone, RingAssumption DEF Owners
<1>4. (\A i : Place(i)' = Place(i)) /\ Forward'
  BY <1>1, Calm
<1>5. Backward'
  BY <1>1, <1>4 DEF RingInv, Backward
<1>6. Inserting' /\ Removing'
  BY <1>1, <1>4 DEF RingInv, Inserting, Removing
<1> QED BY <1>2, <1>3, <1>4, <1>5, <1>6 DEF RingInv

LEMMA RingStep == RingInv /\ [RingNext]_ring => RingInv'
<1>1. ASSUME RingInv, NEW n \in Node, Produce(n) PROVE RingInv'
  BY <1>1, LockKeeps, InsertNextKeeps, InsertPrevKeeps, InsertPublishKeeps, InsertTailKeeps,
     UnlockKeeps DEF Produce
<1>2. ASSUME RingInv, Consume PROVE RingInv'
  BY <1>2, CheckEmptyKeeps, ConsumerLockKeeps, QueueHeadKeeps, UnlinkNextKeeps, UnlinkPrevKeeps,
     ConsumerUnlockKeeps DEF Consume
<1>3. ASSUME RingInv, UNCHANGED ring PROVE RingInv'
  <2>1. RingTypeOK' /\ Owners' /\ Members'
    BY <1>3 DEF ring, RingInv, RingTypeOK, Owners, Members
  <2>2. Forward' /\ Backward' /\ Inserting' /\ Removing'
    BY <1>3 DEF ring, RingInv, Forward, Backward, Inserting, Removing, Place
  <2> QED BY <1>3, <2>1, <2>2 DEF RingInv
<1> QED BY <1>1, <1>2, <1>3 DEF RingNext

\* The ring is sound at every pointer write, for any number of tasks.
THEOREM RingIsSound == RingSpec => []RingSound
<1>1. ASSUME RingInv PROVE RingSound
  <2>1. NeverPopsSentinel
    BY <1>1, PlaceProps DEF RingInv, Removing, NeverPopsSentinel
  <2>2. RingClosed
    <3> SUFFICES ASSUME \A n \in Node : ppc[n] \in {0, 6}, cpc \in {"empty", "lock"},
                        NEW i \in 0 .. Len(chan)
                 PROVE  prev[Place(i + 1)] = Place(i)
      BY DEF RingClosed
    <3> QED BY <1>1 DEF RingInv, Backward
  <2> QED BY <1>1, <2>1, <2>2 DEF RingInv, RingSound
<1>2. RingInit => RingInv
  BY InitRing
<1> QED BY <1>1, <1>2, RingStep, PTL DEF RingSpec

\* What the pointers hold is a FIFO: the write that publishes a node is the Put of
\* FifoChannel, the one that unlinks it its Take, every other write a stutter.
THEOREM RingIsFifo == RingSpec => RingChannel!Init /\ [][RingChannel!Next]_(RingChannel!vars)
<1>1. RingInit => RingChannel!Init
  BY DEF RingInit, RingChannel!Init
<1>2. RingInv /\ [RingNext]_ring => [RingChannel!Next]_(RingChannel!vars)
  <2> SUFFICES ASSUME RingInv, [RingNext]_ring PROVE [RingChannel!Next]_(RingChannel!vars)
    OBVIOUS
  <2> USE DEF RingChannel!vars
  <2>1. ASSUME NEW n \in Node, InsertPublish(n) PROVE RingChannel!Next
    BY <2>1 DEF InsertPublish, RingChannel!Next, RingChannel!Put
  <2>2. ASSUME NEW n \in Node, Produce(n), ~InsertPublish(n) PROVE UNCHANGED RingChannel!vars
    BY <2>2 DEF Produce, Lock, InsertNext, InsertPrev, InsertTail, Unlock
  <2>3. ASSUME UnlinkNext PROVE RingChannel!Next
    BY <2>3, UnlinkNextKeeps DEF UnlinkNext, RingChannel!Next, RingChannel!Take
  <2>4. ASSUME Consume, ~UnlinkNext PROVE UNCHANGED RingChannel!vars
    BY <2>4 DEF Consume, CheckEmpty, ConsumerLock, QueueHead, UnlinkPrev, ConsumerUnlock
  <2>5. ASSUME UNCHANGED ring PROVE UNCHANGED RingChannel!vars
    BY <2>5 DEF ring
  <2> QED BY <2>1, <2>2, <2>3, <2>4, <2>5 DEF RingNext
<1>3. RingInit => RingInv
  BY InitRing
<1> QED BY <1>1, <1>2, <1>3, RingStep, PTL DEF RingSpec

-----------------------------------------------------------------------------
(* The reader behind the hand-off: RtcmFramer.                             *)

\* A turn for every byte that is left.
TurnsSuffice == Len(rest) <= turns /\ (rest = <<>> => turns = 0)

\* What a reader has gathered is less than a frame, of the length its header tells.
LengthKnown ==
  /\ Len(buff) >= 3 => len = FrameLength(buff) /\ Len(buff) < len
  /\ Len(ref_buff) >= 3 => /\ ref_len = Length(ref_buff[2], ref_buff[3]) + 3
                           /\ Len(ref_buff) < ref_len + 3

\* What the bytewise reader has with what it is owed is what the other has: a
\* byte of a header, or the rest of a chunk ...
CatchesUp == /\ found = ref_found
             /\ buff = ref_buff \o owed
             /\ \/ owed = <<>> \/ Len(ref_buff) >= 3
                \/ Len(owed) = 1 /\ (ref_buff = <<>> => owed[1] = Preamble)

\* ... but for a byte before a frame, which neither keeps ...
SkipsByte == /\ found = ref_found /\ buff = <<>> /\ ref_buff = <<>>
             /\ Len(owed) = 1 /\ owed[1] # Preamble

\* ... and for the end of a frame, which the other has handed on.
EndsFrame ==
  LET all == ref_buff \o owed
  IN  /\ buff = <<>> /\ owed # <<>> /\ Len(ref_buff) >= 3 /\ Len(all) = ref_len + 3
      /\ found = IF ParityOK(SubSeq(all, 1, ref_len), SubSeq(all, ref_len + 1, ref_len + 3))
                 THEN Append(ref_found, all) ELSE ref_found

Follows == CatchesUp \/ SkipsByte \/ EndsFrame

FramerInv == FramerTypeOK /\ TurnsSuffice /\ LengthKnown /\ Follows

LEMMA Joining ==
  ASSUME NEW S, NEW s \in Seq(S), NEW t \in Seq(S)
  PROVE  /\ s \o t \in Seq(S) /\ Len(s \o t) = Len(s) + Len(t)
         /\ \A i \in 1 .. Len(s) : (s \o t)[i] = s[i]
  BY ConcatProperties

LEMMA Appending ==
  ASSUME NEW S, NEW s \in Seq(S), NEW e \in S
  PROVE  /\ Append(s, e) \in Seq(S) /\ Len(Append(s, e)) = Len(s) + 1
         /\ \A i \in 1 .. Len(s) : Append(s, e)[i] = s[i]
         /\ Append(s, e) = s \o <<e>> /\ Append(s, e) # <<>>
<1>1. /\ Append(s, e) \in Seq(S) /\ Len(Append(s, e)) = Len(s) + 1
      /\ \A i \in 1 .. Len(s) : Append(s, e)[i] = s[i]
  BY AppendProperties
<1>2. Append(s, e) = s \o <<e>>
  BY AppendIsConcat
<1> QED BY <1>1, <1>2, EmptySeq, AppendProperties

\* A byte moved from the front of what is owed to the end of what is there.
LEMMA Moving ==
  ASSUME NEW S, NEW s \in Seq(S), NEW t \in Seq(S), t # <<>>
  PROVE  /\ Head(t) \in S /\ Tail(t) \in Seq(S) /\ Len(Tail(t)) = Len(t) - 1 /\ Len(t) >= 1
         /\ Head(t) = t[1]
         /\ Append(s, Head(t)) \o Tail(t) = s \o t
<1>1. Head(t) \in S /\ Tail(t) \in Seq(S) /\ Len(Tail(t)) = Len(t) - 1 /\ Len(t) >= 1 /\ Head(t) = t[1]
  BY HeadTailProperties, EmptySeq, LenProperties
<1>2. t = <<Head(t)>> \o Tail(t)
  BY HeadTailConcat
<1>3. <<Head(t)>> \in Seq(S) /\ Append(s, Head(t)) = s \o <<Head(t)>>
  BY <1>1, Appending
<1>4. (s \o <<Head(t)>>) \o Tail(t) = s \o (<<Head(t)>> \o Tail(t))
  BY <1>1, <1>3, ConcatAssociative
<1> QED BY <1>1, <1>2, <1>3, <1>4

\* The first byte of a chunk and the others.
LEMMA FirstOfSeq ==
  ASSUME NEW S, NEW s \in Seq(S), s # <<>>
  PROVE  SubSeq(s, 1, 1) = <<Head(s)>> /\ SubSeq(s, 1 + 1, Len(s)) = Tail(s)
<1>1. Len(s) \in Nat /\ Len(s) >= 1 /\ Head(s) = s[1] /\ Head(s) \in S
  BY Moving
<1>2. SubSeq(s, 1 + 1, Len(s)) = Tail(s)
  BY TailIsSubSeq
<1>3. SubSeq(s, 1, 1) = <<s[1]>> \o SubSeq(s, 1 + 1, 1)
  BY <1>1, SubSeqRecursiveFirst
<1>4. SubSeq(s, 1 + 1, 1) = <<>>
  BY SubSeqEmpty
<1>5. <<s[1]>> \o <<>> = <<s[1]>>
  <2>1. <<s[1]>> \in Seq(S)
    BY <1>1
  <2> QED BY <2>1, ConcatEmptySeq
<1> QED BY <1>1, <1>2, <1>3, <1>4, <1>5

LEMMA InitFramer == FramerInit => FramerInv
<1> SUFFICES ASSUME FramerInit PROVE FramerInv
  OBVIOUS
<1>1. \A S : <<>> \in Seq(S)
  BY EmptySeq
<1>2. Len(<<>>) = 0
  BY EmptySeq
<1>3. FramerTypeOK
  BY <1>1, FramerAssumption DEF FramerInit, FramerTypeOK
<1>4. TurnsSuffice /\ LengthKnown
  BY <1>2 DEF FramerInit, TurnsSuffice, LengthKnown
<1>5. <<>> \o <<>> = <<>>
  BY <1>1, ConcatEmptySeq
<1>6. Follows
  BY <1>5 DEF FramerInit, Follows, CatchesUp
<1> QED BY <1>3, <1>4, <1>6 DEF FramerInv

\* Before a step of input_rtcm3x the readers are at the same place, and there is
\* something left of the chunk.
LEMMA Together ==
  ASSUME FramerInv, owed = <<>>
  PROVE  /\ found = ref_found /\ buff = ref_buff
         /\ Len(buff) \in Nat
         /\ Len(buff) >= 3 => len = ref_len + 3 /\ len = FrameLength(buff) /\ Len(buff) < len
         /\ turns # 0 => rest # <<>> /\ Len(rest) >= 1
         /\ turns = 0 => rest = <<>>
<1>1. buff \in Seq(Byte) /\ ref_buff \in Seq(Byte) /\ rest \in Seq(Byte) /\ turns \in Nat
  BY DEF FramerInv, FramerTypeOK
<1>2. Len(<<>>) = 0 /\ ref_buff \o <<>> = ref_buff
  BY <1>1, EmptySeq, ConcatEmptySeq
<1>3. found = ref_found /\ buff = ref_buff
  BY <1>2 DEF FramerInv, Follows, CatchesUp, SkipsByte, EndsFrame
<1>4. Len(buff) \in Nat /\ Len(rest) \in Nat /\ (rest # <<>> => Len(rest) >= 1)
  BY <1>1, EmptySeq, LenProperties
<1>5. ASSUME Len(buff) >= 3 PROVE len = ref_len + 3 /\ len = FrameLength(buff) /\ Len(buff) < len
  <2>1. buff[2] \in Byte /\ buff[3] \in Byte
    BY <1>1, <1>4, <1>5, ElementOfSeq
  <2>2. Length(buff[2], buff[3]) \in Nat
    BY <2>1, FramerAssumption
  <2>3. /\ len = Length(buff[2], buff[3]) + 6 /\ Len(buff) < len
        /\ ref_len = Length(buff[2], buff[3]) + 3
    BY <1>3, <1>5 DEF FramerInv, LengthKnown, FrameLength
  <2> QED BY <2>2, <2>3 DEF FrameLength
<1>6. turns = 0 => rest = <<>>
  BY <1>1, <1>4 DEF FramerInv, TurnsSuffice
<1> QED BY <1>3, <1>4, <1>5, <1>6 DEF FramerInv, TurnsSuffice

LEMMA NewChunkKeeps == ASSUME FramerInv, NewChunk PROVE FramerInv'
<1>1. PICK n \in 1 .. MaxChunk : \E data \in [1 .. n -> Byte] : rest' = data /\ turns' = TurnsOf(data)
  BY DEF NewChunk
<1>2. PICK data \in [1 .. n -> Byte] : rest' = data /\ turns' = TurnsOf(data)
  BY <1>1
<1>3. /\ owed = <<>> /\ found' = <<>> /\ ref_found' = <<>>
      /\ UNCHANGED <<buff, len, ref_buff, ref_len, owed>>
  BY DEF NewChunk, Idle
<1>4. n \in Nat /\ n >= 1 /\ n <= MaxChunk /\ MaxChunk \in Nat
  BY FramerAssumption
<1>5. data \in Seq(Byte) /\ Len(data) = n
  BY <1>4, LenProperties, SeqDef
<1>6. FramerTypeOK'
  <2>1. <<>> \in Seq(Seq(Byte))
    BY EmptySeq
  <2>2. turns' \in 0 .. MaxChunk
    BY <1>2, <1>4, <1>5 DEF TurnsOf
  <2> QED BY <1>2, <1>3, <1>5, <2>1, <2>2 DEF FramerInv, FramerTypeOK
<1>7. TurnsSuffice'
  BY <1>2, <1>4, <1>5, EmptySeq DEF TurnsSuffice, TurnsOf
<1>8. LengthKnown'
  BY <1>3 DEF FramerInv, LengthKnown, FrameLength
<1>9. Follows'
  <2>1. ref_buff \in Seq(Byte)
    BY DEF FramerInv, FramerTypeOK
  <2>2. buff = ref_buff /\ ref_buff \o <<>> = ref_buff
    BY <1>3, <2>1, Together, ConcatEmptySeq
  <2> QED BY <1>3, <2>2 DEF Follows, CatchesUp
<1> QED BY <1>6, <1>7, <1>8, <1>9 DEF FramerInv

LEMMA SyncByteKeeps == ASSUME FramerInv, SyncByte PROVE FramerInv'
<1> DEFINE d == Head(rest)
<1>1. /\ turns # 0 /\ owed = <<>> /\ Len(buff) < 3
      /\ buff' = Header(d) /\ len' = (IF Len(buff') = 3 THEN FrameLength(buff') ELSE len)
      /\ owed' = <<d>> /\ rest' = Tail(rest) /\ turns' = (IF Tail(rest) = <<>> THEN 0 ELSE turns)
      /\ UNCHANGED <<found, ref_buff, ref_len, ref_found>>
  <2>1. rest \in Seq(Byte) /\ rest # <<>>
    BY Together DEF SyncByte, Goes, FramerInv, FramerTypeOK
  <2>2. SubSeq(rest, 1, 1) = <<d>> /\ SubSeq(rest, 1 + 1, Len(rest)) = Tail(rest)
    BY <2>1, FirstOfSeq
  <2> QED BY <2>2 DEF SyncByte, Goes, Took
<1>2. /\ found = ref_found /\ buff = ref_buff /\ Len(buff) \in Nat /\ rest # <<>> /\ Len(rest) >= 1
      /\ buff \in Seq(Byte) /\ rest \in Seq(Byte) /\ turns \in 0 .. MaxChunk /\ len \in Nat
  BY <1>1, Together DEF FramerInv, FramerTypeOK
<1>3. d \in Byte /\ Tail(rest) \in Seq(Byte) /\ Len(Tail(rest)) = Len(rest) - 1
  BY <1>2, Moving
<1>4. <<d>> \in Seq(Byte) /\ Len(<<d>>) = 1 /\ <<d>>[1] = d /\ <<d>> # <<>> /\ <<>> \in Seq(Byte) /\ Len(<<>>) = 0
  BY <1>3, EmptySeq
<1> HIDE DEF d
<1>5. \/ buff = <<>> /\ d # Preamble /\ buff' = <<>> /\ Len(buff') = 0
      \/ /\ buff = <<>> => d = Preamble
         /\ buff' = buff \o <<d>> /\ buff' \in Seq(Byte) /\ Len(buff') = Len(buff) + 1 /\ Len(buff') <= 3
  BY <1>1, <1>2, <1>3, <1>4, Appending DEF Header
<1>6. buff' \in Seq(Byte)
  BY <1>4, <1>5
<1>6a. PICK k \in 0 .. 3 : k = Len(buff')
  <2>1. 0 \in 0 .. 3 /\ Len(buff) + 1 \in 0 .. 3
    BY <1>1, <1>2
  <2>2. Len(buff') = 0 \/ Len(buff') = Len(buff) + 1
    BY <1>5
  <2> QED BY ONLY <2>1, <2>2
<1>7. ASSUME Len(buff') = 3 PROVE len' = FrameLength(buff') /\ len' \in Nat /\ 3 < len'
  <2>1. buff'[2] \in Byte /\ buff'[3] \in Byte
    BY <1>6, <1>7, ElementOfSeq
  <2>2. Length(buff'[2], buff'[3]) \in Nat
    BY <2>1, FramerAssumption
  <2> QED BY <1>1, <1>7, <2>2 DEF FrameLength
<1>8. FramerTypeOK'
  <2>1. len' \in Nat
    BY <1>1, <1>2, <1>7
  <2>2. turns' \in 0 .. MaxChunk
    BY <1>1, <1>2, FramerAssumption
  <2> QED BY <1>1, <1>3, <1>4, <1>6, <2>1, <2>2 DEF FramerInv, FramerTypeOK
<1>9. TurnsSuffice'
  <2>1. Len(rest) <= turns /\ Len(rest) \in Nat
    BY <1>2, LenProperties DEF FramerInv, TurnsSuffice
  <2> QED BY <1>1, <1>2, <1>3, <1>4, <2>1 DEF TurnsSuffice
<1>10. LengthKnown'
  <2>1. Len(buff') >= 3 => len' = FrameLength(buff') /\ Len(buff') < len'
    BY <1>7, <1>6a
  <2> QED BY <1>1, <1>2, <2>1 DEF LengthKnown
<1>11. Follows'
  BY <1>1, <1>2, <1>4, <1>5 DEF Follows, CatchesUp, SkipsByte
<1> QED BY <1>8, <1>9, <1>10, <1>11 DEF FramerInv

LEMMA CopyPartKeeps == ASSUME FramerInv, CopyPart PROVE FramerInv'
<1>1. /\ turns # 0 /\ owed = <<>> /\ Len(buff) >= 3 /\ Len(rest) < len - Len(buff)
      /\ buff' = buff \o rest /\ owed' = rest /\ rest' = <<>> /\ turns' = 0
      /\ UNCHANGED <<len, found, ref_buff, ref_len, ref_found>>
  <2>1. rest \in Seq(Byte) /\ Len(rest) \in Nat
    BY LenProperties DEF FramerInv, FramerTypeOK
  <2>2. SubSeq(rest, 1, Len(rest)) = rest /\ SubSeq(rest, Len(rest) + 1, Len(rest)) = <<>>
    BY <2>1, SubSeqFull, SubSeqEmpty
  <2> QED BY <2>2 DEF CopyPart, Goes, Took, Need
<1>2. /\ found = ref_found /\ buff = ref_buff /\ Len(buff) \in Nat
      /\ len = FrameLength(buff)
      /\ buff \in Seq(Byte) /\ rest \in Seq(Byte) /\ len \in Nat
  BY <1>1, Together DEF FramerInv, FramerTypeOK
<1>3. /\ buff' \in Seq(Byte) /\ Len(buff') = Len(buff) + Len(rest)
      /\ buff'[2] = buff[2] /\ buff'[3] = buff[3] /\ Len(rest) \in Nat
  BY <1>1, <1>2, Joining, LenProperties
<1>4. FramerTypeOK'
  BY <1>1, <1>2, <1>3, EmptySeq, FramerAssumption DEF FramerInv, FramerTypeOK
<1>5. TurnsSuffice'
  BY <1>1, EmptySeq DEF TurnsSuffice
<1>6. LengthKnown'
  <2>1. len' = FrameLength(buff') /\ Len(buff') < len'
    BY <1>1, <1>2, <1>3 DEF FrameLength
  <2> QED BY <1>1, <2>1 DEF FramerInv, LengthKnown
<1>7. Follows'
  BY <1>1, <1>2 DEF Follows, CatchesUp
<1> QED BY <1>4, <1>5, <1>6, <1>7 DEF FramerInv

LEMMA CopyFrameKeeps == ASSUME FramerInv, CopyFrame PROVE FramerInv'
<1> DEFINE head == SubSeq(rest, 1, Need)
           left == SubSeq(rest, Need + 1, Len(rest))
           all == buff \o head
<1>1. /\ turns # 0 /\ owed = <<>> /\ Len(buff) >= 3 /\ Len(rest) >= Need
      /\ found' = (IF ParityOK(SubSeq(all, 1, len - 3), SubSeq(all, len - 2, len))
                   THEN Append(found, all) ELSE found)
      /\ buff' = <<>> /\ len' = len - 3
      /\ owed' = head /\ rest' = left /\ turns' = (IF left = <<>> THEN 0 ELSE turns - 1)
      /\ UNCHANGED <<ref_buff, ref_len, ref_found>>
  BY DEF CopyFrame, Goes, Took
<1>2. /\ found = ref_found /\ buff = ref_buff /\ Len(buff) \in Nat
      /\ len = ref_len + 3 /\ Len(buff) < len
      /\ buff \in Seq(Byte) /\ rest \in Seq(Byte) /\ turns \in 0 .. MaxChunk
      /\ len \in Nat /\ ref_len \in Nat /\ found \in Seq(Seq(Byte))
  BY <1>1, Together DEF FramerInv, FramerTypeOK
<1>3. Need \in Nat /\ Need >= 1 /\ Len(buff) + Need = len /\ Len(rest) \in Nat
  BY <1>2, LenProperties DEF Need
<1>4. head \in Seq(Byte) /\ Len(head) = Need
  <2>1. \A i \in 1 .. Need : rest[i] \in Byte
    BY <1>1, <1>2, <1>3, ElementOfSeq
  <2>2. 1 \in Int /\ Need \in Int /\ Need - 1 + 1 = Need /\ 1 <= Need
    BY <1>3
  <2> HIDE DEF Need
  <2> QED BY <2>1, <2>2, SubSeqProperties
<1>5. left \in Seq(Byte) /\ Len(left) = Len(rest) - Need
  <2>1. \A i \in Need + 1 .. Len(rest) : rest[i] \in Byte
    BY <1>1, <1>2, <1>3, ElementOfSeq
  <2>2. Need + 1 \in Int /\ Len(rest) \in Int
    BY <1>3
  <2>3. left \in Seq(Byte) /\ Len(left) = IF Need + 1 <= Len(rest) THEN Len(rest) - (Need + 1) + 1 ELSE 0
    BY <2>1, <2>2, SubSeqProperties
  <2> HIDE DEF left
  <2> QED BY <1>1, <1>3, <2>3
<1>6. all \in Seq(Byte) /\ Len(all) = len
  BY <1>2, <1>3, <1>4, Joining
<1> HIDE DEF head, left, all
<1>7. FramerTypeOK'
  <2>1. found' \in Seq(Seq(Byte))
    <3>1. Append(found, all) \in Seq(Seq(Byte))
      BY <1>2, <1>6, AppendProperties
    <3> QED BY <1>1, <1>2, <3>1
  <2>2. turns' \in 0 .. MaxChunk
    BY <1>1, <1>2, FramerAssumption
  <2>3. len' \in Nat
    BY <1>1, <1>2
  <2>4. buff' \in Seq(Byte)
    BY <1>1, EmptySeq
  <2> QED BY <1>1, <1>4, <1>5, <2>1, <2>2, <2>3, <2>4 DEF FramerInv, FramerTypeOK
<1>8. TurnsSuffice'
  <2>1. Len(rest) <= turns
    BY DEF FramerInv, TurnsSuffice
  <2>2. left = <<>> => Len(left) = 0
    BY EmptySeq
  <2> QED BY <1>1, <1>2, <1>3, <1>5, <2>1, <2>2 DEF TurnsSuffice
<1>9. LengthKnown'
  <2>1. Len(buff') = 0
    BY <1>1, EmptySeq
  <2> QED BY <1>1, <2>1 DEF FramerInv, LengthKnown
<1>10. Follows'
  <2>1. head # <<>>
    BY <1>3, <1>4, EmptySeq
  <2>2. ref_buff' \o owed' = all
    BY <1>1, <1>2 DEF all
  <2>3. Len(all) = ref_len' + 3 /\ len - 3 = ref_len' /\ len - 2 = ref_len' + 1 /\ len = ref_len' + 3
    BY <1>1, <1>2, <1>6
  <2>4. found' = IF ParityOK(SubSeq(all, 1, ref_len'), SubSeq(all, ref_len' + 1, ref_len' + 3))
                 THEN Append(ref_found', all) ELSE ref_found'
    BY <1>1, <1>2, <2>3
  <2> QED BY <1>1, <1>2, <2>1, <2>2, <2>3, <2>4 DEF Follows, EndsFrame
<1> QED BY <1>7, <1>8, <1>9, <1>10 DEF FramerInv

\* The bytewise reader takes the next byte it is owed.
LEMMA InputRtcm3Keeps == ASSUME FramerInv, InputRtcm3 PROVE FramerInv'
<1> DEFINE d == Head(owed)
           b == Append(ref_buff, d)
           l == IF Len(b) = 3 THEN Length(b[2], b[3]) + 3 ELSE ref_len
<1>1. /\ owed # <<>> /\ owed' = Tail(owed)
      /\ UNCHANGED <<buff, len, rest, turns, found>>
  BY DEF InputRtcm3
<1>2. \/ /\ ref_buff = <<>> /\ d # Preamble
         /\ UNCHANGED <<ref_buff, ref_len, ref_found>>
      \/ /\ ~(ref_buff = <<>> /\ d # Preamble)
         /\ ref_len' = l
         /\ \/ (Len(b) < 3 \/ Len(b) < l + 3) /\ ref_buff' = b /\ ref_found' = ref_found
            \/ /\ ~(Len(b) < 3 \/ Len(b) < l + 3) /\ ref_buff' = <<>>
               /\ ref_found' = (IF ParityOK(SubSeq(b, 1, l), SubSeq(b, l + 1, l + 3))
                                THEN Append(ref_found, b) ELSE ref_found)
  BY DEF InputRtcm3
<1>3. /\ buff \in Seq(Byte) /\ ref_buff \in Seq(Byte) /\ owed \in Seq(Byte)
      /\ ref_len \in Nat /\ ref_found \in Seq(Seq(Byte)) /\ len \in Nat
  BY DEF FramerInv, FramerTypeOK
<1>4. /\ d \in Byte /\ Tail(owed) \in Seq(Byte) /\ Len(Tail(owed)) = Len(owed) - 1 /\ Len(owed) >= 1
      /\ d = owed[1] /\ b \o Tail(owed) = ref_buff \o owed
      /\ Len(owed) \in Nat /\ Len(ref_buff) \in Nat /\ Len(buff) \in Nat
  BY <1>1, <1>3, Moving, LenProperties
<1>5. /\ b \in Seq(Byte) /\ Len(b) = Len(ref_buff) + 1 /\ b # <<>>
      /\ \A i \in 1 .. Len(ref_buff) : b[i] = ref_buff[i]
  BY <1>3, <1>4, Appending
<1>6. Len(b) >= 3 => Length(b[2], b[3]) \in Nat
  <2> SUFFICES ASSUME Len(b) >= 3 PROVE Length(b[2], b[3]) \in Nat
    OBVIOUS
  <2>1. Len(b) \in Nat /\ b \in Seq(Byte)
    BY <1>5, LenProperties
  <2> HIDE DEF b
  <2>2. b[2] \in Byte /\ b[3] \in Byte
    BY <2>1, ElementOfSeq
  <2> QED BY <2>2, FramerAssumption
<1>7. /\ Len(b) = 3 => l = Length(b[2], b[3]) + 3
      /\ Len(b) # 3 => l = ref_len
  OBVIOUS
<1>8. l \in Nat
  BY <1>3, <1>6, <1>7
<1>9. Len(b) >= 4 => b[2] = ref_buff[2] /\ b[3] = ref_buff[3] /\ ref_len = Length(b[2], b[3]) + 3
  BY <1>4, <1>5 DEF FramerInv, LengthKnown
<1>10. Len(b) >= 3 => l = Length(b[2], b[3]) + 3
  BY <1>4, <1>5, <1>7, <1>9
<1>11. Tail(owed) = <<>> \/ Len(Tail(owed)) >= 1
  BY <1>4, EmptySeq
<1>12. <<>> \in Seq(Byte) /\ Len(<<>>) = 0 /\ <<>> \o <<>> = <<>>
  BY EmptySeq, ConcatEmptySeq
<1>13. Len(owed) = 1 => Tail(owed) = <<>> /\ b = ref_buff \o owed
  <2>1. Tail(owed) = <<>> => b \o Tail(owed) = b
    BY <1>5, ConcatEmptySeq
  <2> HIDE DEF d, b
  <2>2. ASSUME Len(owed) = 1 PROVE Tail(owed) = <<>>
    <3>1. Len(Tail(owed)) = 1 - 1
      BY <1>4, <2>2
    <3>2. ~(1 - 1 >= 1)
      OBVIOUS
    <3> QED BY <3>1, <3>2, <1>11
  <2> QED BY <1>4, <2>1, <2>2
<1>14. Len(ref_buff \o owed) = Len(ref_buff) + Len(owed)
  BY <1>3, Joining
<1> HIDE DEF d, b, l
<1>15. TurnsSuffice'
  BY <1>1 DEF FramerInv, TurnsSuffice
<1>16. ref_len' \in Nat /\ ref_buff' \in Seq(Byte) /\ ref_found' \in Seq(Seq(Byte))
  <2>1. Append(ref_found, b) \in Seq(Seq(Byte))
    BY <1>3, <1>5, AppendProperties
  <2> QED BY <1>2, <1>3, <1>5, <1>8, <1>12, <2>1
<1>17. FramerTypeOK'
  BY <1>1, <1>4, <1>16 DEF FramerInv, FramerTypeOK
<1>18. LengthKnown'
  <2>1. Len(buff') >= 3 => len' = FrameLength(buff') /\ Len(buff') < len'
    BY <1>1 DEF FramerInv, LengthKnown, FrameLength
  <2>2. ASSUME Len(ref_buff') >= 3
        PROVE  ref_len' = Length(ref_buff'[2], ref_buff'[3]) + 3 /\ Len(ref_buff') < ref_len' + 3
    <3>1. CASE UNCHANGED <<ref_buff, ref_len>>
      BY <2>2, <3>1 DEF FramerInv, LengthKnown
    <3>2. CASE ref_buff' = b /\ ref_len' = l /\ (Len(b) < 3 \/ Len(b) < l + 3)
      BY <2>2, <3>2, <1>10, <1>4, <1>5
    <3>3. CASE ref_buff' = <<>>
      BY <2>2, <3>3, <1>12
    <3> QED BY <1>2, <3>1, <3>2, <3>3
  <2> QED BY <2>1, <2>2 DEF LengthKnown
<1>19. Follows'
  <2>1. CASE CatchesUp
    <3>1. ~(ref_buff = <<>> /\ d # Preamble)
      BY <2>1, <1>1, <1>4, <1>12 DEF CatchesUp
    <3>2. Len(b) < 3 \/ Len(b) < l + 3
      <4>1. CASE Len(ref_buff) >= 3
        <5>1. Len(buff) >= 3 /\ len = Length(ref_buff[2], ref_buff[3]) + 6 /\ Len(buff) < len
          <6>1. buff[2] = ref_buff[2] /\ buff[3] = ref_buff[3] /\ Len(buff) >= 3
            BY <2>1, <4>1, <1>3, <1>4, <1>14, Joining DEF CatchesUp
          <6> QED BY <6>1 DEF FramerInv, LengthKnown, FrameLength
        <5>2. Len(b) <= Len(buff)
          BY <2>1, <1>4, <1>5, <1>14 DEF CatchesUp
        <5>3. Len(b) >= 4 /\ l = Length(b[2], b[3]) + 3 /\ b[2] = ref_buff[2] /\ b[3] = ref_buff[3]
          BY <4>1, <1>4, <1>5, <1>9, <1>10
        <5>4. Length(b[2], b[3]) \in Nat
          BY <5>3, <1>6, <1>5
        <5> QED BY <5>1, <5>2, <5>3, <5>4, <1>4, <1>5
      <4>2. CASE Len(ref_buff) < 3
        BY <4>2, <1>4, <1>5, <1>6, <1>10
      <4> QED BY <4>1, <4>2, <1>4
    <3>3. ref_buff' = b /\ ref_found' = ref_found
      BY <1>2, <3>1, <3>2
    <3>4. owed' = <<>> \/ Len(ref_buff') >= 3
      BY <2>1, <3>3, <1>1, <1>4, <1>5, <1>13 DEF CatchesUp
    <3> QED BY <2>1, <3>3, <3>4, <1>1, <1>4 DEF Follows, CatchesUp
  <2>2. CASE SkipsByte
    <3>1. ref_buff = <<>> /\ d # Preamble /\ Tail(owed) = <<>>
      BY <2>2, <1>4, <1>13 DEF SkipsByte
    <3>2. UNCHANGED <<ref_buff, ref_len, ref_found>>
      BY <3>1, <1>2
    <3> QED BY <2>2, <3>1, <3>2, <1>1, <1>12 DEF Follows, CatchesUp, SkipsByte
  <2>3. CASE EndsFrame
    <3> DEFINE all == ref_buff \o owed
    <3>1. /\ buff = <<>> /\ Len(ref_buff) >= 3 /\ Len(all) = ref_len + 3
          /\ found = IF ParityOK(SubSeq(all, 1, ref_len), SubSeq(all, ref_len + 1, ref_len + 3))
                     THEN Append(ref_found, all) ELSE ref_found
      BY <2>3 DEF EndsFrame
    <3>2. ref_buff # <<>> /\ Len(b) >= 4 /\ l = ref_len
      BY <3>1, <1>4, <1>5, <1>7, <1>12
    <3>3. Len(b) + Len(Tail(owed)) = l + 3
      BY <3>1, <3>2, <1>4, <1>5, <1>14
    <3>4. CASE Tail(owed) = <<>>
      <4>1. b = all /\ Len(b) = l + 3
        <5>1. Len(Tail(owed)) = 0
          BY <3>4, <1>12
        <5>2. Len(owed) = 1
          BY <5>1, <1>4
        <5>3. Len(b) \in Nat
          BY <1>5, LenProperties
        <5>4. Len(b) = l + 3
          <6>1. l \in Nat /\ Len(b) + 0 = l + 3
            BY <5>1, <3>3, <1>8
          <6> QED BY ONLY <5>3, <6>1
        <5> QED BY <5>2, <5>4, <1>13
      <4>2. ref_buff' = <<>> /\ ref_found' = found
        BY <1>2, <3>1, <3>2, <4>1, <1>8
      <4> QED BY <4>2, <3>1, <3>4, <1>1, <1>12 DEF Follows, CatchesUp
    <3>5. CASE Tail(owed) # <<>>
      <4>1. Len(b) < l + 3
        BY <3>3, <3>5, <1>11, <1>4, <1>5, <1>8
      <4>2. ref_buff' = b /\ ref_found' = ref_found /\ ref_len' = ref_len
        BY <1>2, <3>2, <4>1
      <4>3. ref_buff' \o owed' = all
        BY <4>2, <1>1, <1>4
      <4> HIDE DEF all
      <4> QED BY <4>2, <4>3, <3>1, <3>2, <3>5, <1>1 DEF Follows, EndsFrame
    <3> QED BY <3>4, <3>5
  <2> QED BY <2>1, <2>2, <2>3 DEF FramerInv, Follows
<1> QED BY <1>15, <1>17, <1>18, <1>19 DEF FramerInv

LEMMA FramerStep == FramerInv /\ [FramerNext]_framer => FramerInv'
<1> SUFFICES ASSUME FramerInv, [FramerNext]_framer PROVE FramerInv'
  OBVIOUS
<1>1. CASE UNCHANGED framer
  BY <1>1 DEF framer, FramerInv, FramerTypeOK, TurnsSuffice, LengthKnown, FrameLength,
              Follows, CatchesUp, SkipsByte, EndsFrame
<1> QED BY <1>1, NewChunkKeeps, SyncByteKeeps, CopyPartKeeps, CopyFrameKeeps, InputRtcm3Keeps DEF FramerNext

\* However the stream is cut, the reader stays inside its buffer and leaves no byte
\* of a chunk unread.
THEOREM FramerStaysInBuffer == FramerSpec => []BufferSound
<1>1. FramerInv => BufferSound
  <2> SUFFICES ASSUME FramerInv PROVE BufferSound
    OBVIOUS
  <2>1. buff \in Seq(Byte) /\ rest \in Seq(Byte) /\ turns \in Nat /\ Len(buff) \in Nat /\ Len(rest) \in Nat
    BY LenProperties DEF FramerInv, FramerTypeOK
  <2>2. BuffSize \in Nat /\ BuffSize >= 6
    BY FramerAssumption
  <2>3. Len(buff) >= 3 => Len(buff) < len /\ len <= BuffSize
    <3> SUFFICES ASSUME Len(buff) >= 3 PROVE Len(buff) < len /\ len <= BuffSize
      OBVIOUS
    <3>1. buff[2] \in Byte /\ buff[3] \in Byte
      BY <2>1, ElementOfSeq
    <3> QED BY <3>1, FramerAssumption DEF FramerInv, LengthKnown, FrameLength
  <2>4. len \in Nat
    BY DEF FramerInv, FramerTypeOK
  <2>5. InBuffer
    BY <2>1, <2>2, <2>3, <2>4 DEF InBuffer
  <2>6. ChunkUsedUp
    <3>1. turns = 0 => Len(rest) = 0
      BY <2>1 DEF FramerInv, TurnsSuffice
    <3> QED BY <3>1, <2>1, EmptySeq DEF ChunkUsedUp
  <2> QED BY <2>5, <2>6 DEF BufferSound, FramerInv
<1> QED BY <1>1, InitFramer, FramerStep, PTL DEF FramerSpec

\* Wherever the chunks are cut, both readers hand on the same frames and stand at
\* the same place of the stream.
THEOREM ReadersAgree == FramerSpec => []ReadsAlike
<1>1. FramerInv => ReadsAlike
  BY Together DEF Idle, ReadsAlike
<1> QED BY <1>1, InitFramer, FramerStep, PTL DEF FramerSpec

=============================================================================
