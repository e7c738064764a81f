----------------------------- MODULE NtripAgent -----------------------------
(***************************************************************************)
(* src/ntrip/ntripagent.c: the agent serves rovers.  One event loop        *)
(* accepts connections, reads their requests and positions, and deletes    *)
(* them by tasks of its own; the threads of the casters and of the VRS     *)
(* leave chunks in a queue that the loop distributes.  Every connection    *)
(* that was let in has a copy in the table of its mount point, and a rover *)
(* that asked for the nearest station is moved from table to table.        *)
(*                                                                         *)
(* A deletion task names a connection by the address of its structure,     *)
(* which may be freed, and given to a later connection, before the loop    *)
(* comes to it.                                                            *)
(***************************************************************************)
EXTENDS Naturals, Sequences, FiniteSets, SequencesExt

CONSTANTS
  Conn,        \* connections
  Mount,       \* mount points of sources
  Near,        \* NTRIP_AGENT_MNTPNT: the nearest source, by the positions sent
  User,        \* the users of the users file
  MaxChunk,    \* bound: chunks of a mount point
  MaxMove,     \* bound: changes of the nearest source
  MaxAsk       \* bound: deletions in the queue when a request is refused

ASSUME AgentAssumption == /\ Near \notin Mount /\ "" \notin Mount \union {Near}
                          /\ {MaxChunk, MaxMove, MaxAsk} \subseteq Nat

VARIABLES
  loop,      \* the thread: "off", "up", "failed" (no port), "ended", "joined"
  sig,       \* async handles that are pending
  cb,        \* the queue that the loop is draining
  sock,      \* the socket of each connection, see Socket
  mem,       \* cors_ntrip_conn_t of each connection: "none", "live", "freed"
  addr,      \* and its address
  auth,      \* connections with conn->state set
  near,      \* connections of type 2
  mntpnt,    \* conn->mntpnt
  cq_tbl,    \* mount points that have a table
  cs,        \* the connections with a copy in each of them
  del_queue, \* addresses
  send_queue,\* chunks, as <<mount point, number>>
  user_tbl,
  sent,      \* how many chunks of each mount point were taken
  moves,     \* history: moves so far
  last,      \* history: the last chunk a connection has got of its mount point
  skipped,   \* history: connections that have missed a chunk or got one late
  over,      \* history: connections that ended or were turned away
  again,     \* history: somebody's deletion was asked for twice
  prog       \* "crashed" once freed or missing memory was used

thread == <<loop, cb>>
conns == <<sock, mem, addr>>
state == <<auth, near, mntpnt>>
tables == <<cq_tbl, cs>>
queues == <<del_queue, send_queue>>
history == <<moves, last, skipped, over, again>>
vars == <<sig, thread, conns, state, tables, queues, user_tbl, sent, history, prog>>

Name == Mount \union {Near}
Socket == {"none", "waiting", "offered", "open", "ended", "closed"}

Live == {c \in Conn : mem[c] = "live"}
At(a) == {c \in Live : addr[c] = a}

Init == /\ loop = "off" /\ cb = "none" /\ sig = {}
        /\ sock = [c \in Conn |-> "none"] /\ mem = [c \in Conn |-> "none"]
        /\ addr = [c \in Conn |-> c]
        /\ auth = {} /\ near = {} /\ mntpnt = [c \in Conn |-> ""]
        /\ cq_tbl = {} /\ cs = [m \in Name |-> {}]
        /\ del_queue = <<>> /\ send_queue = <<>>
        /\ user_tbl = User /\ sent = [m \in Name |-> 0]
        /\ moves = 0 /\ last = [c \in Conn |-> 0] /\ skipped = {} /\ over = {} /\ again = {}
        /\ prog = "runs"

\* The loop is between two callbacks.
Idle == loop = "up" /\ cb = "none"

Crash == prog' = "crashed"

-----------------------------------------------------------------------------
(* Connections.                                                            *)

Boot ==
  /\ loop = "off"
  /\ loop' \in {"up", "failed"}
  /\ UNCHANGED <<sig, cb, conns, state, tables, queues, user_tbl, sent, history, prog>>

Arrive(c) ==
  /\ sock[c] = "none"
  /\ sock' = [sock EXCEPT ![c] = "waiting"]
  /\ UNCHANGED <<sig, thread, mem, addr, state, tables, queues, user_tbl, sent, history, prog>>

\* uv__server_io takes a connection and stops until uv_accept is called;
\* on_new_ntripconn.
Offer(c) ==
  /\ Idle /\ sock[c] = "waiting"
  /\ \A d \in Conn : sock[d] # "offered"
  /\ sock' = [sock EXCEPT ![c] = "offered"]
  /\ sig' = sig \union {"add"}
  /\ UNCHANGED <<thread, mem, addr, state, tables, queues, user_tbl, sent, history, prog>>

\* on_add_ntripconn_cb: the structure gets memory that is free.
Accept(c) ==
  /\ Idle /\ "add" \in sig /\ sock[c] = "offered"
  /\ sig' = sig \ {"add"}
  /\ sock' = [sock EXCEPT ![c] = "open"] /\ mem' = [mem EXCEPT ![c] = "live"]
  /\ \E a \in {c} \union {addr[d] : d \in {d \in Conn : mem[d] = "freed"}} :
       At(a) = {} /\ addr' = [addr EXCEPT ![c] = a]
  /\ UNCHANGED <<thread, state, tables, queues, user_tbl, sent, history, prog>>

\* ntripagnet_del_conn.
AskDeletion(c) ==
  /\ del_queue' = Append(del_queue, addr[c])
  /\ sig' = sig \union {"del"}
  /\ over' = over \union {c}
  /\ again' = IF Contains(del_queue, addr[c]) THEN again \union {addr[c]} ELSE again

-----------------------------------------------------------------------------
(* on_read_cb.                                                             *)

\* Mutant: the copy stays in the table it was in.
SubscribeAgain(c, old, m) ==
  /\ cq_tbl' = cq_tbl \union {m}
  /\ cs' = [cs EXCEPT ![m] = @ \union {c}]
  /\ mntpnt' = [mntpnt EXCEPT ![c] = m]
  /\ last' = [last EXCEPT ![c] = 0]
  /\ UNCHANGED prog

\* agent_upd_conn: a copy is made, or moved from the table of the old mount point.
Subscribe(c, old, m) ==
  /\ cq_tbl' = cq_tbl \union {m}
  /\ \/ c \in cs[m] /\ UNCHANGED <<cs, mntpnt, last, prog>>
     \/ /\ c \notin cs[m] /\ (old = m \/ c \in cs[old])
        /\ cs' = [n \in Name |-> IF n = m THEN cs[n] \union {c}
                                 ELSE IF n = old THEN cs[n] \ {c} ELSE cs[n]]
        /\ mntpnt' = [mntpnt EXCEPT ![c] = m]
        /\ last' = [last EXCEPT ![c] = 0]
        /\ UNCHANGED prog
     \/ /\ c \notin cs[m] /\ old # m /\ c \notin cs[old]
        /\ Crash /\ UNCHANGED <<cs, mntpnt, last>>

\* A request that is no request, or whose mount point or user is not known; the
\* mount point was entered before the user was asked.
Refuse(c) ==
  /\ Idle /\ sock[c] = "open" /\ c \notin auth
  /\ Len(del_queue) < MaxAsk
  /\ \/ UNCHANGED <<near, mntpnt>>
     \/ \E m \in Name \union {""} :
          /\ mntpnt' = [mntpnt EXCEPT ![c] = m]
          /\ near' = IF m = Near THEN near \union {c} ELSE near \ {c}
  /\ AskDeletion(c)
  /\ UNCHANGED <<thread, conns, auth, tables, send_queue, user_tbl, sent, moves, last, skipped, prog>>

\* Mutant: there is no copy before the first position.
LetInLate(c, m) ==
  /\ Idle /\ sock[c] = "open" /\ c \notin auth
  /\ auth' = auth \union {c}
  /\ near' = IF m = Near THEN near \union {c} ELSE near \ {c}
  /\ mntpnt' = [mntpnt EXCEPT ![c] = m]
  /\ IF m = Near THEN UNCHANGED <<tables, last>>
     ELSE cq_tbl' = cq_tbl \union {m} /\ cs' = [cs EXCEPT ![m] = @ \union {c}] /\ UNCHANGED last
  /\ UNCHANGED <<sig, thread, conns, queues, user_tbl, sent, moves, skipped, over, again, prog>>

\* A request that is good.
LetIn(c, m) ==
  /\ Idle /\ sock[c] = "open" /\ c \notin auth
  /\ user_tbl # {}
  /\ auth' = auth \union {c}
  /\ near' = IF m = Near THEN near \union {c} ELSE near \ {c}
  /\ Subscribe(c, m, m)
  /\ UNCHANGED <<sig, thread, conns, queues, user_tbl, sent, moves, skipped, over, again>>

\* A position of a rover that wants the nearest source.
Position(c, m) ==
  /\ Idle /\ sock[c] = "open" /\ c \in auth \intersect near
  /\ moves < MaxMove /\ moves' = moves + 1
  /\ Subscribe(c, mntpnt[c], m)
  /\ UNCHANGED <<sig, thread, conns, auth, near, queues, user_tbl, sent, skipped, over, again>>

\* The rover hangs up: the last event of a connection.
End(c) ==
  /\ Idle /\ sock[c] = "open"
  /\ sock' = [sock EXCEPT ![c] = "ended"]
  /\ AskDeletion(c)
  /\ UNCHANGED <<thread, mem, addr, state, tables, send_queue, user_tbl, sent, moves, last, skipped, prog>>

-----------------------------------------------------------------------------
(* The queues: a callback drains its queue, no other comes in between.     *)

Drain(q) ==
  /\ Idle /\ q \in sig
  /\ cb' = q
  /\ sig' = sig \ {q}
  /\ UNCHANGED <<loop, conns, state, tables, queues, user_tbl, sent, history, prog>>

Drained(q, queue) ==
  /\ loop = "up" /\ cb = q /\ queue = <<>>
  /\ cb' = "none"
  /\ UNCHANGED <<loop, sig, conns, state, tables, queues, user_tbl, sent, history, prog>>

\* Mutant: one task for one wake-up.
DelTaskOnce ==
  /\ cb = "del" /\ del_queue # <<>>
  /\ del_queue' = Tail(del_queue)
  /\ cb' = "none"
  /\ \E c \in At(Head(del_queue)) :
       /\ cs' = [cs EXCEPT ![mntpnt[c]] = @ \ {c}]
       /\ sock' = [sock EXCEPT ![c] = "closed"] /\ mem' = [mem EXCEPT ![c] = "freed"]
       /\ auth' = auth \ {c} /\ near' = near \ {c} /\ mntpnt' = [mntpnt EXCEPT ![c] = ""]
  /\ UNCHANGED <<loop, sig, addr, cq_tbl, send_queue, user_tbl, sent, history, prog>>

\* do_del_ntripconn.  Freed memory tells nothing, or something that crashes.
DelTask ==
  /\ cb = "del" /\ del_queue # <<>>
  /\ del_queue' = Tail(del_queue)
  /\ \/ \E c \in At(Head(del_queue)) :
          /\ cs' = [m \in Name |-> IF m = mntpnt[c] THEN cs[m] \ {c} ELSE cs[m]]
          /\ sock' = [sock EXCEPT ![c] = "closed"] /\ mem' = [mem EXCEPT ![c] = "freed"]
          /\ auth' = auth \ {c} /\ near' = near \ {c} /\ mntpnt' = [mntpnt EXCEPT ![c] = ""]
          /\ UNCHANGED prog
     \/ /\ At(Head(del_queue)) = {}
        /\ prog' \in {"runs", "crashed"}
        /\ UNCHANGED <<cs, sock, mem, state>>
  /\ UNCHANGED <<sig, thread, addr, cq_tbl, send_queue, user_tbl, sent, history>>

\* cors_ntrip_agent_send, called by the threads of the casters and of the VRS.
Send(m) ==
  /\ loop = "up" /\ "close" \notin sig
  /\ m \in cq_tbl
  /\ sent[m] < MaxChunk /\ sent' = [sent EXCEPT ![m] = @ + 1]
  /\ send_queue' = Append(send_queue, <<m, sent[m] + 1>>)
  /\ sig' = sig \union {"send"}
  /\ UNCHANGED <<thread, conns, state, tables, del_queue, user_tbl, history, prog>>

\* agent_send_obs_data of a chunk to those who have a copy in its table.
Distribute(chunk) ==
  LET to == {c \in cs[chunk[1]] : sock[c] = "open"}
  IN  /\ last' = [c \in Conn |-> IF c \in to THEN chunk[2] ELSE last[c]]
      /\ skipped' = skipped \union {c \in to : last[c] # 0 /\ last[c] # chunk[2] - 1}

\* Mutant: the last chunk is taken first.
SendTaskLast ==
  /\ cb = "send" /\ send_queue # <<>>
  /\ send_queue' = SubSeq(send_queue, 1, Len(send_queue) - 1)
  /\ Distribute(Last(send_queue))
  /\ UNCHANGED <<sig, thread, conns, state, tables, del_queue, user_tbl, sent, moves, over, again, prog>>

\* do_agent_send_data_work.
SendTask ==
  /\ cb = "send" /\ send_queue # <<>>
  /\ send_queue' = Tail(send_queue)
  /\ Distribute(Head(send_queue))
  /\ UNCHANGED <<sig, thread, conns, state, tables, del_queue, user_tbl, sent, moves, over, again, prog>>

-----------------------------------------------------------------------------
(* The commands.  Nobody can be added: cors_ntrip_agent_add_user tests its *)
(* argument where it means the user it has found.                          *)

DelUser(u) ==
  /\ loop = "up" /\ "close" \notin sig /\ u \in user_tbl
  /\ user_tbl' = user_tbl \ {u}
  /\ UNCHANGED <<sig, thread, conns, state, tables, queues, sent, history, prog>>

\* cors_ntrip_agent_close: the handle is made by agent_init.
Close ==
  /\ "close" \notin sig /\ loop \in {"off", "up", "failed"}
  /\ sig' = sig \union {"close"}
  /\ IF loop = "up" THEN UNCHANGED prog ELSE Crash
  /\ UNCHANGED <<thread, conns, state, tables, queues, user_tbl, sent, history>>

\* close_cb, the end of uv_run, and close_uv_loop.
EndLoop ==
  /\ Idle /\ "close" \in sig
  /\ loop' = "ended"
  /\ sock' = [c \in Conn |-> IF sock[c] \in {"open", "ended"} THEN "closed" ELSE sock[c]]
  /\ UNCHANGED <<sig, cb, mem, addr, state, tables, queues, user_tbl, sent, history, prog>>

\* The connections and their copies are freed.
Joined ==
  /\ loop = "ended"
  /\ loop' = "joined"
  /\ mem' = [c \in Conn |-> IF mem[c] = "live" THEN "freed" ELSE mem[c]]
  /\ cs' = [m \in Name |-> {}] /\ user_tbl' = {}
  /\ UNCHANGED <<sig, cb, sock, addr, state, cq_tbl, queues, sent, history, prog>>

-----------------------------------------------------------------------------

\* Everything the loop does of itself.
Loop == \/ Drain("del") \/ Drained("del", del_queue) \/ DelTask
        \/ Drain("send") \/ Drained("send", send_queue) \/ SendTask

Next == /\ prog = "runs"
        /\ \/ Boot \/ Loop \/ Close \/ EndLoop \/ Joined
           \/ \E c \in Conn : \/ Arrive(c) \/ Offer(c) \/ Accept(c) \/ Refuse(c) \/ End(c)
                              \/ \E m \in Name : LetIn(c, m)
                              \/ \E m \in Mount : Position(c, m)
           \/ \E m \in Mount : Send(m)
           \/ \E u \in User : DelUser(u)

Spec == Init /\ [][Next]_vars

-----------------------------------------------------------------------------

\* Two structures that are alive do not share an address.
TypeOK ==
  /\ loop \in {"off", "up", "failed", "ended", "joined"} /\ cb \in {"none", "del", "send"}
  /\ sig \subseteq {"add", "del", "send", "close"}
  /\ sock \in [Conn -> Socket] /\ mem \in [Conn -> {"none", "live", "freed"}]
  /\ addr \in [Conn -> Conn] /\ \A c, d \in Live : addr[c] = addr[d] => c = d
  /\ auth \subseteq Conn /\ near \subseteq Conn /\ mntpnt \in [Conn -> Name \union {""}]
  /\ cq_tbl \subseteq Name /\ cs \in [Name -> SUBSET Conn]
  /\ del_queue \in Seq(Conn) /\ send_queue \in Seq(Name \X (1 .. MaxChunk))
  /\ user_tbl \subseteq User /\ sent \in [Name -> 0 .. MaxChunk] /\ moves \in 0 .. MaxMove
  /\ last \in [Conn -> 0 .. MaxChunk]
  /\ skipped \subseteq Conn /\ over \subseteq Conn /\ again \subseteq Conn
  /\ prog \in {"runs", "crashed"}

\* A table has copies of the connections that were let in and have its mount
\* point now, and of no other: not of one that moved on, was turned away or is
\* gone (ntripagent.c:163-175, :288-292), whatever the order of requests,
\* positions and deletions.
Subscribed ==
  prog = "runs" /\ loop = "up" =>
    \A m \in Name, c \in Conn : c \in cs[m] <=> mem[c] = "live" /\ c \in auth /\ mntpnt[c] = m

\* From the first chunk of a mount point on a rover gets all of them in order,
\* until it is moved to another (ntripagent.c:387-400).
NoGaps == skipped = {}

\* A connection that neither ended nor was turned away is not closed, unless it
\* has got the memory of one whose deletion was asked for twice: the second task
\* (ntripagent.c:284) then finds the new connection at the old address.
Innocent == \A c \in Conn : sock[c] = "closed" /\ loop = "up" => c \in over \/ addr[c] \in again

\* Every rover is where it belongs: in the table of its mount point if it was let
\* in, and closed only if it is over (ntripagent.c:163-175, :284, :288-292).
RoversServed == TypeOK /\ Subscribed /\ Innocent

\* What ends the program: a deletion that was asked for twice (ntripagent.c:194,
\* :238), and a close before the loop is up or when it got no port (:445, :496).
CrashExcused == prog = "crashed" => again # {} \/ (loop \in {"off", "failed"} /\ "close" \in sig)

\* Nothing is forgotten, however wake-ups are merged: while a queue holds a task its
\* handle is pending or the loop is draining it, a connection that is offered has
\* its wake-up, and one that has ended its task (ntripagent.c:238, :248, :278, :387).
Awake ==
  loop = "up" /\ prog = "runs" =>
    /\ del_queue # <<>> => "del" \in sig \/ cb = "del"
    /\ send_queue # <<>> => "send" \in sig \/ cb = "send"
    /\ \A c \in Conn : /\ sock[c] = "offered" => "add" \in sig
                       /\ sock[c] = "ended" => Contains(del_queue, addr[c])

=============================================================================
