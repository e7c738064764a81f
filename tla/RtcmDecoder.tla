---------------------------- MODULE RtcmDecoder ----------------------------
(***************************************************************************)
(* src/rtcm/decoder.c and the part of libuv it relies on: the caster       *)
(* threads that read the NTRIP streams hand chunks of RTCM data to the     *)
(* decoder thread through a queue and wake its event loop with             *)
(* uv_async_send.  A caster thread reads its streams one after another; a  *)
(* thread for each stream, as here, interleaves the most and includes the  *)
(* behaviours of every distribution of the streams over the casters.       *)
(*                                                                         *)
(* A wake-up is not a message: sends that find the handle pending are      *)
(* merged with the one under way, so the loop may see one wake-up for many *)
(* tasks.  The model follows uv_async_send and uv__async_io access by      *)
(* access (each is an atomic operation of the C code); the queue itself is *)
(* a sequence here and a ring of pointers under its lock in QueueRing.     *)
(*                                                                         *)
(* pnt.c, monitor_src.c, monitor_bsta_distr.c, vrs.c, ntripcaster.c and    *)
(* ntripagent.c hand work to their threads by the same lines of code.      *)
(***************************************************************************)
EXTENDS Naturals, Sequences

CONSTANTS Source,     \* srcids of the streams, and their reading threads
          closer,     \* the thread that runs cors_close
          MaxCalls    \* bound: calls of cors_rtcm_decode by each reader

ASSUME DecoderAssumption == /\ closer \notin Source
                            /\ MaxCalls \in Nat

Thread == Source \union {closer}
Handle == {"decode", "close"}

\* The chunk that thread s hands over in its n-th call.
Task == Source \X (0 .. MaxCalls)

\* The uv_async_t that a thread sends on.
HandleOf(t) == IF t = closer THEN "close" ELSE "decode"

VARIABLES
  pc,            \* where each thread stands, see ThreadPC
  ncall,         \* calls of cors_rtcm_decode made by each reader
  state,         \* decoder->state: set when the loop is ready
  data_tbl,      \* decoder->data_tbl: the srcids that have a context
  decode_queue,  \* decoder->decode_queue
  pending,       \* handle->pending of the two uv_async_t: 0, 1 or 2
  efd,           \* the eventfd of the loop is readable
  stop_flag,     \* loop->stop_flag
  lpc,           \* where the decoder thread stands, see LoopPC
  task,          \* the task being decoded
  done           \* history: the tasks decoded, in order

vars == <<pc, ncall, state, data_tbl, decode_queue, pending, efd, stop_flag,
          lpc, task, done>>
sendVars == <<pending, efd>>
loopVars == <<stop_flag, lpc, task, done>>

ThreadPC == {"idle", "insert", "load", "cas", "write", "mark", "join", "gone"}
LoopPC   == {"boot", "ready", "poll", "decode", "empty", "pop", "work", "close", "exited"}

Init == /\ pc = [t \in Thread |-> "idle"]
        /\ ncall = [s \in Source |-> 0]
        /\ state = 0
        /\ data_tbl = {}
        /\ decode_queue = <<>>
        /\ pending = [h \in Handle |-> 0]
        /\ efd = FALSE
        /\ stop_flag = FALSE
        /\ lpc = "boot"
        /\ task = <<>>
        /\ done = <<>>

Goto(t, label) == pc' = [pc EXCEPT ![t] = label]

-----------------------------------------------------------------------------
(* The reading threads: cors_rtcm_decode.                                  *)

\* A call made before the loop is ready returns 0 and drops its chunk;
\* otherwise the context of the source is found or created.
Decode(s) ==
  /\ pc[s] = "idle"
  /\ ncall[s] < MaxCalls
  /\ ncall' = [ncall EXCEPT ![s] = @ + 1]
  /\ \/ /\ state = 0
        /\ UNCHANGED <<pc, data_tbl>>
     \/ /\ state # 0
        /\ data_tbl' = data_tbl \union {s}
        /\ Goto(s, "insert")
  /\ UNCHANGED <<state, decode_queue, sendVars, loopVars>>

\* Mutant: QUEUE_INSERT_HEAD.
InsertHead(s) ==
  /\ pc[s] = "insert"
  /\ decode_queue' = <<<<s, ncall[s]>>>> \o decode_queue
  /\ Goto(s, "load")
  /\ UNCHANGED <<ncall, state, data_tbl, sendVars, loopVars>>

\* add_rtcm_decode_task: QUEUE_INSERT_TAIL under qlock.
Insert(s) ==
  /\ pc[s] = "insert"
  /\ decode_queue' = Append(decode_queue, <<s, ncall[s]>>)
  /\ Goto(s, "load")
  /\ UNCHANGED <<ncall, state, data_tbl, sendVars, loopVars>>

\* cors_ntrip_close joins the thread of the stream.
Leave(s) ==
  /\ pc[s] = "idle"
  /\ Goto(s, "gone")
  /\ UNCHANGED <<ncall, state, data_tbl, decode_queue, sendVars, loopVars>>

-----------------------------------------------------------------------------
(* uv_async_send, for any thread.                                          *)

AfterSend(t) == IF t = closer THEN "join" ELSE "idle"

\* "Do a cheap read first": a handle that is pending needs no second wake-up.
SendLoad(t) ==
  /\ pc[t] = "load"
  /\ Goto(t, IF pending[HandleOf(t)] # 0 THEN AfterSend(t) ELSE "cas")
  /\ UNCHANGED <<ncall, state, data_tbl, decode_queue, sendVars, loopVars>>

SendCas(t) ==
  /\ pc[t] = "cas"
  /\ \/ /\ pending[HandleOf(t)] # 0
        /\ Goto(t, AfterSend(t))
        /\ UNCHANGED pending
     \/ /\ pending[HandleOf(t)] = 0
        /\ pending' = [pending EXCEPT ![HandleOf(t)] = 1]
        /\ Goto(t, "write")
  /\ UNCHANGED <<ncall, state, data_tbl, decode_queue, efd, loopVars>>

\* uv__async_send: write to the eventfd.
SendWrite(t) ==
  /\ pc[t] = "write"
  /\ efd' = TRUE
  /\ Goto(t, "mark")
  /\ UNCHANGED <<ncall, state, data_tbl, decode_queue, pending, loopVars>>

\* cmpxchgi(&handle->pending,1,2), which aborts unless it finds 1.
SendMark(t) ==
  /\ pc[t] = "mark"
  /\ pending' = [pending EXCEPT ![HandleOf(t)] = 2]
  /\ Goto(t, AfterSend(t))
  /\ UNCHANGED <<ncall, state, data_tbl, decode_queue, efd, loopVars>>

Send(t) == SendLoad(t) \/ SendCas(t) \/ SendWrite(t) \/ SendMark(t)

-----------------------------------------------------------------------------
(* The decoder thread: rtcm_decoder_thread and uv_run.                     *)

LoopGoto(label) == lpc' = label

\* The decode handle, the locks and then decoder->close are made.  The memory of
\* the close handle is there a line before uv_async_init (decoder.c:161-162): a
\* close that comes between ends the program, which is the WakeNothing of
\* Lifecycle, a stop before everything is up; the closer here comes before both
\* lines or after them.
MakeClose ==
  /\ lpc = "boot"
  /\ LoopGoto("ready")
  /\ UNCHANGED <<pc, ncall, state, data_tbl, decode_queue, sendVars, stop_flag, task, done>>

\* Everything the readers touch is initialised before state is set.
Boot ==
  /\ lpc = "ready"
  /\ state' = 1
  /\ LoopGoto("poll")
  /\ UNCHANGED <<pc, ncall, data_tbl, decode_queue, sendVars, stop_flag, task, done>>

\* uv__io_poll returns with the eventfd readable; uv__async_io empties it.
Poll ==
  /\ lpc = "poll" /\ ~stop_flag
  /\ efd
  /\ efd' = FALSE
  /\ LoopGoto("decode")
  /\ UNCHANGED <<pc, ncall, state, data_tbl, decode_queue, pending, stop_flag, task, done>>

\* Mutant: the loop takes the handle from a sender that still works with it.
SpinDecodeNoWait ==
  /\ lpc = "decode"
  /\ pending' = [pending EXCEPT !["decode"] = 0]
  /\ LoopGoto(IF pending["decode"] = 0 THEN "close" ELSE "empty")
  /\ UNCHANGED <<pc, ncall, state, data_tbl, decode_queue, efd, stop_flag, task, done>>

\* uv__async_spin on the decode handle: 1 waits for the sender, 2 is reset.
SpinDecode ==
  /\ lpc = "decode"
  /\ pending["decode"] # 1
  /\ pending' = [pending EXCEPT !["decode"] = 0]
  /\ LoopGoto(IF pending["decode"] = 2 THEN "empty" ELSE "close")
  /\ UNCHANGED <<pc, ncall, state, data_tbl, decode_queue, efd, stop_flag, task, done>>

\* The condition of the while of rtcm_decode_cb, read without the lock.
Empty ==
  /\ lpc = "empty"
  /\ LoopGoto(IF decode_queue = <<>> THEN "close" ELSE "pop")
  /\ UNCHANGED <<pc, ncall, state, data_tbl, decode_queue, sendVars, stop_flag, task, done>>

\* QUEUE_HEAD and QUEUE_REMOVE under qlock.
Pop ==
  /\ lpc = "pop"
  /\ task' = Head(decode_queue)
  /\ decode_queue' = Tail(decode_queue)
  /\ LoopGoto("work")
  /\ UNCHANGED <<pc, ncall, state, data_tbl, sendVars, stop_flag, done>>

\* Mutant: "if" for the "while" of rtcm_decode_cb, one task for one wake-up.
WorkOnce ==
  /\ lpc = "work"
  /\ done' = Append(done, task)
  /\ task' = <<>>
  /\ LoopGoto("close")
  /\ UNCHANGED <<pc, ncall, state, data_tbl, decode_queue, sendVars, stop_flag>>

\* do_rtcm_decode_work, outside the lock.
Work ==
  /\ lpc = "work"
  /\ done' = Append(done, task)
  /\ task' = <<>>
  /\ LoopGoto("empty")
  /\ UNCHANGED <<pc, ncall, state, data_tbl, decode_queue, sendVars, stop_flag>>

\* Mutant: close_cb does not stop the loop.
SpinCloseOnly ==
  /\ lpc = "close"
  /\ pending["close"] # 1
  /\ pending' = [pending EXCEPT !["close"] = 0]
  /\ LoopGoto("poll")
  /\ UNCHANGED <<pc, ncall, state, data_tbl, decode_queue, efd, stop_flag, task, done>>

\* uv__async_spin on the close handle, whose callback is uv_stop.
SpinClose ==
  /\ lpc = "close"
  /\ pending["close"] # 1
  /\ pending' = [pending EXCEPT !["close"] = 0]
  /\ stop_flag' = (pending["close"] = 2)
  /\ LoopGoto("poll")
  /\ UNCHANGED <<pc, ncall, state, data_tbl, decode_queue, efd, task, done>>

\* uv_run returns; close_uv_loop closes the handles and the thread ends.
Exit ==
  /\ lpc = "poll" /\ stop_flag
  /\ LoopGoto("exited")
  /\ UNCHANGED <<pc, ncall, state, data_tbl, decode_queue, sendVars, stop_flag, task, done>>

Loop == \/ MakeClose \/ Boot \/ Poll \/ SpinDecode \/ Empty \/ Pop \/ Work \/ SpinClose \/ Exit

-----------------------------------------------------------------------------
(* cors_rtcm_decoder_close, called by cors_close after cors_ntrip_close.   *)

\* Before the thread has made decoder->close the call returns at once.
Close ==
  /\ pc[closer] = "idle"
  /\ \A s \in Source : pc[s] = "gone"
  /\ Goto(closer, IF lpc = "boot" THEN "gone" ELSE "load")
  /\ UNCHANGED <<ncall, state, data_tbl, decode_queue, sendVars, loopVars>>

\* uv_thread_join, then free_rtcm_decoder.
Join ==
  /\ pc[closer] = "join"
  /\ lpc = "exited"
  /\ data_tbl' = {}
  /\ Goto(closer, "gone")
  /\ UNCHANGED <<ncall, state, decode_queue, sendVars, loopVars>>

-----------------------------------------------------------------------------
Next == \/ \E s \in Source : Decode(s) \/ Insert(s) \/ Leave(s)
        \/ \E t \in Thread : Send(t)
        \/ Loop
        \/ Close
        \/ Join

\* A thread that has entered a call goes on, and so does the event loop;
\* nothing obliges a stream to deliver data or anyone to close the server.
Fairness == /\ \A s \in Source : WF_vars(Insert(s))
            /\ \A t \in Thread : WF_vars(Send(t))
            /\ WF_vars(Loop)
            /\ WF_vars(Join)

Spec == Init /\ [][Next]_vars /\ Fairness

-----------------------------------------------------------------------------
(* Properties.                                                             *)

TypeOK == /\ pc \in [Thread -> ThreadPC]
          /\ ncall \in [Source -> 0 .. MaxCalls]
          /\ state \in {0, 1}
          /\ data_tbl \subseteq Source
          /\ decode_queue \in Seq(Task)
          /\ pending \in [Handle -> {0, 1, 2}]
          /\ efd \in BOOLEAN
          /\ stop_flag \in BOOLEAN
          /\ lpc \in LoopPC
          /\ task \in Task \union {<<>>}
          /\ done \in Seq(Task)

Sending(t) == pc[t] \in {"load", "cas", "write", "mark"}

\* No wake-up is lost (decoder.c:130, :217; async.c:62-80): when the loop is
\* about to block with nothing to wake it and no reader is inside
\* uv_async_send, the queue is empty.  The merged sends and the unlocked test
\* of the queue are what could break it.
BlockedOnlyWhenEmpty ==
  (/\ lpc = "poll" /\ ~efd /\ ~stop_flag
   /\ \A s \in Source : ~Sending(s)) => decode_queue = <<>>

\* The abort() of uv_async_send (async.c:75-76) is never reached: a thread
\* that is to mark its handle finds it as it left it, whatever other senders
\* and the loop do meanwhile.
NeverAborts == \A t \in Thread : pc[t] = "mark" => pending[HandleOf(t)] = 1

\* The decoder never works on a context that free_rtcm_decoder has released
\* (decoder.c:59, :95), and never pops the head of an empty queue (:133).
ContextAlive == /\ lpc = "work" => task[1] \in data_tbl
                /\ lpc = "pop" => decode_queue # <<>>

\* The queue as its users see it: what is being decoded and what waits.
Channel == INSTANCE FifoChannel WITH
             chan <- (IF lpc = "work" THEN <<task>> ELSE <<>>) \o decode_queue,
             open <- lpc # "exited"

\* Chunks are decoded in the order in which they were accepted, each once,
\* and every accepted chunk is decoded unless the loop is closed first.
ImplementsChannel == Channel!Spec

\* Once cors_rtcm_decoder_close has sent its wake-up, the loop ends and the
\* join returns (decoder.c:57-58).
CloseReturns == pc[closer] = "join" ~> pc[closer] = "gone"

-----------------------------------------------------------------------------
(* The inductive invariant behind BlockedOnlyWhenEmpty, NeverAborts and    *)
(* ContextAlive; each conjunct says what one part of the hand-off keeps.   *)

Marking(t) == pc[t] \in {"write", "mark"}

\* A handle is at 1 exactly while one thread is between its two cmpxchgi.
SenderOwnsHandle ==
  /\ \A t \in Thread : Marking(t) => pending[HandleOf(t)] = 1
  /\ \A t, u \in Thread :
       Marking(t) /\ Marking(u) /\ HandleOf(t) = HandleOf(u) => t = u
  /\ \A h \in Handle :
       pending[h] = 1 => \E t \in Thread : HandleOf(t) = h /\ Marking(t)

\* A decode wake-up that was written is still in the eventfd, or the loop
\* has read it and not yet looked at the handle.
WakeupRecorded ==
  (pending["decode"] = 2 \/ \E s \in Source : pc[s] = "mark")
    => efd \/ lpc = "decode"

\* While tasks wait, the loop is draining them, the handle is pending, or a
\* reader that has queued a task has yet to look at the handle.
TasksAnnounced ==
  decode_queue # <<>> => \/ lpc \in {"empty", "pop", "work"}
                         \/ pending["decode"] # 0
                         \/ \E s \in Source : pc[s] \in {"load", "cas"}

\* Until the loop has ended every task in flight has its context.
ContextsKept ==
  \/ lpc = "exited"
  \/ /\ \A s \in Source : pc[s] = "insert" => s \in data_tbl
     /\ \A i \in 1 .. Len(decode_queue) : decode_queue[i][1] \in data_tbl
     /\ lpc = "work" => task \in Task /\ task[1] \in data_tbl
     /\ lpc = "pop" => decode_queue # <<>>

\* The loop is stopped by cors_rtcm_decoder_close alone, after the last reader.
ClosedLast ==
  /\ pending["close"] # 0 \/ stop_flag \/ lpc = "exited" => pc[closer] # "idle"
  /\ pc[closer] # "idle" => \A s \in Source : pc[s] = "gone"

IInv == /\ TypeOK
        /\ SenderOwnsHandle
        /\ WakeupRecorded
        /\ TasksAnnounced
        /\ ContextsKept
        /\ ClosedLast

=============================================================================
