------------------------------- MODULE Monitor -------------------------------
(***************************************************************************)
(* src/monitor/monitor.c, monitor_src.c and monitor_bsta_distr.c: programs *)
(* that connect to the monitor's port subscribe to the positioning results *)
(* of a source, or ask for the stations of a province.  One event loop     *)
(* accepts, reads, answers and deletes; the positioning thread leaves the  *)
(* results in a queue, with the srcid they belong to.                      *)
(*                                                                         *)
(* A connection is a structure md in moni_tbl; a subscription is a copy of *)
(* it in the table of the source, found by the socket.  A result is put in *)
(* the queue and signalled in one step here.  A send on a socket           *)
(* fails only if the socket is closed: the libuv here never takes          *)
(* UV_HANDLE_WRITABLE from an open one.                                    *)
(***************************************************************************)
EXTENDS Naturals, Sequences, FiniteSets, SequencesExt

CONSTANTS
  Conn,        \* connections
  Source,      \* names of sources
  MaxReport,   \* bound: results left by the positioning thread
  MaxAsk       \* bound: provinces asked for

\* What the theorems assume.
MonitorNames == MaxReport \in Nat /\ MaxAsk \in Nat /\ "unnamed" \notin Source /\ "gone" \notin Source

VARIABLES
  loop,        \* the thread: "off", "up", "failed" (no port), "ended", "joined"
  sig,         \* async handles that are pending
  cb,          \* the queue that the loop is draining
  sock,        \* the socket of each connection, see Socket
  mem,         \* cors_monitord_t of each connection in moni_tbl
  name,        \* md->m_src.name, "unnamed" before the first request
  q_tbl,       \* the sources that have a table
  md_tbl,      \* the connections with a copy in each of them
  del_queue,   \* connections
  data_queue,  \* srcids: the source, or "gone" if it was deleted since
  distr_queue, \* connections that asked for a province
  known,       \* sources of the registry
  reports,     \* how many results were left
  asked,       \* how many provinces were asked for
  got,         \* history: sources whose results a connection got since it last subscribed
  prog         \* "crashed" once freed or missing memory was used

thread == <<loop, cb>>
conns == <<sock, mem, name>>
tables == <<q_tbl, md_tbl>>
queues == <<del_queue, data_queue, distr_queue>>
counts == <<reports, asked>>
vars == <<sig, thread, conns, tables, queues, known, counts, got, prog>>

Socket == {"none", "waiting", "offered", "open", "ended", "closed"}

Init == /\ loop = "off" /\ cb = "none" /\ sig = {}
        /\ sock = [c \in Conn |-> "none"] /\ mem = [c \in Conn |-> "none"]
        /\ name = [c \in Conn |-> "unnamed"]
        /\ q_tbl = {} /\ md_tbl = [s \in Source |-> {}]
        /\ del_queue = <<>> /\ data_queue = <<>> /\ distr_queue = <<>>
        /\ known \in SUBSET Source
        /\ reports = 0 /\ asked = 0 /\ got = [c \in Conn |-> {}]
        /\ prog = "runs"

\* The loop is between two callbacks.
Idle == loop = "up" /\ cb = "none"

-----------------------------------------------------------------------------
(* Connections.                                                            *)

Boot ==
  /\ loop = "off"
  /\ loop' \in {"up", "failed"}
  /\ UNCHANGED <<sig, cb, conns, tables, queues, known, counts, got, prog>>

Arrive(c) ==
  /\ sock[c] = "none"
  /\ sock' = [sock EXCEPT ![c] = "waiting"]
  /\ UNCHANGED <<sig, thread, mem, name, tables, queues, known, counts, got, prog>>

\* uv__server_io takes a connection and stops until uv_accept is called;
\* on_new_connection.
Offer(c) ==
  /\ Idle /\ sock[c] = "waiting"
  /\ \A d \in Conn : sock[d] # "offered"
  /\ sock' = [sock EXCEPT ![c] = "offered"]
  /\ sig' = sig \union {"add"}
  /\ UNCHANGED <<thread, mem, name, tables, queues, known, counts, got, prog>>

\* on_add_monitor.
Accept(c) ==
  /\ Idle /\ "add" \in sig /\ sock[c] = "offered"
  /\ sig' = sig \ {"add"}
  /\ sock' = [sock EXCEPT ![c] = "open"] /\ mem' = [mem EXCEPT ![c] = "live"]
  /\ UNCHANGED <<thread, name, tables, queues, known, counts, got, prog>>

\* on_read_cb with an error, the last event of a connection; cors_monitor_del.
End(c) ==
  /\ Idle /\ sock[c] = "open"
  /\ sock' = [sock EXCEPT ![c] = "ended"]
  /\ del_queue' = Append(del_queue, c)
  /\ sig' = sig \union {"del"}
  /\ UNCHANGED <<thread, mem, name, tables, data_queue, distr_queue, known, counts, got, prog>>

-----------------------------------------------------------------------------
(* Subscriptions.                                                          *)

\* monitor_src_updmtbl: a copy is made, or moved from the table of the old name.
Subscribe(c, s) ==
  /\ md_tbl' = [t \in Source |-> IF t = s THEN md_tbl[t] \union {c}
                                 ELSE IF t = name[c] THEN md_tbl[t] \ {c} ELSE md_tbl[t]]
  /\ name' = [name EXCEPT ![c] = s]
  /\ got' = IF s = name[c] THEN got ELSE [got EXCEPT ![c] = {}]

\* monitor_src_updconn.
ReadSource(c, s) ==
  /\ Idle /\ sock[c] = "open" /\ s \in known
  /\ q_tbl' = q_tbl \union {s}
  /\ Subscribe(c, s)
  /\ UNCHANGED <<sig, thread, sock, mem, queues, known, counts, prog>>

\* A caster enters a source: one that a connection has asked for and that was not
\* known (add_ntrip_source), or one that is added by a command.
Register(s) ==
  /\ s \notin known
  /\ known' = known \union {s}
  /\ UNCHANGED <<sig, thread, conns, tables, queues, counts, got, prog>>

\* A caster deletes a source: its srcid leads nowhere from then on.
Unregister(s) ==
  /\ s \in known
  /\ known' = known \ {s}
  /\ data_queue' = [i \in DOMAIN data_queue |-> IF data_queue[i] = s THEN "gone" ELSE data_queue[i]]
  /\ UNCHANGED <<sig, thread, conns, tables, del_queue, distr_queue, counts, got, prog>>

\* cors_monitor_src, called by the positioning thread; the handle is made when the
\* loop starts.
Report(s) ==
  /\ loop \in {"off", "up", "failed"} /\ "close" \notin sig
  /\ s \in known
  /\ reports < MaxReport /\ reports' = reports + 1
  /\ \/ loop = "up" /\ data_queue' = Append(data_queue, s) /\ sig' = sig \union {"data"} /\ UNCHANGED prog
     \/ loop # "up" /\ prog' = "crashed" /\ UNCHANGED <<data_queue, sig>>
  /\ UNCHANGED <<thread, conns, tables, del_queue, distr_queue, known, asked, got>>

\* monitor_bsta_distr.
ReadProvince(c) ==
  /\ Idle /\ sock[c] = "open"
  /\ asked < MaxAsk /\ asked' = asked + 1
  /\ distr_queue' = Append(distr_queue, c)
  /\ sig' = sig \union {"distr"}
  /\ UNCHANGED <<thread, conns, tables, del_queue, data_queue, known, reports, got, prog>>

-----------------------------------------------------------------------------
(* The queues: a callback drains its queue, no other comes in between.     *)

Drain(q) ==
  /\ Idle /\ q \in sig
  /\ cb' = q
  /\ sig' = sig \ {q}
  /\ UNCHANGED <<loop, conns, tables, queues, known, counts, got, prog>>

Drained(q, queue) ==
  /\ loop = "up" /\ cb = q /\ queue = <<>>
  /\ cb' = "none"
  /\ UNCHANGED <<loop, sig, conns, tables, queues, known, counts, got, prog>>

\* do_delete_monitor_work.
DelTask ==
  /\ cb = "del" /\ del_queue # <<>>
  /\ LET c == Head(del_queue)
     IN  /\ prog' = IF mem[c] = "live" THEN prog ELSE "crashed"
         /\ md_tbl' = [s \in Source |-> IF s = name[c] THEN md_tbl[s] \ {c} ELSE md_tbl[s]]
         /\ sock' = [sock EXCEPT ![c] = "closed"] /\ mem' = [mem EXCEPT ![c] = "freed"]
  /\ del_queue' = Tail(del_queue)
  /\ UNCHANGED <<sig, thread, name, q_tbl, data_queue, distr_queue, known, counts, got>>

\* do_monitor_pnt_work.  The srcid of a deleted source is not found and the name of
\* nothing is read; a send that fails asks for the deletion of the copy.
ReportTask ==
  /\ cb = "data" /\ data_queue # <<>>
  /\ LET s == Head(data_queue)
         to == IF s \in q_tbl THEN md_tbl[s] ELSE {}
         failed == {c \in to : sock[c] = "closed"}
     IN  /\ prog' = IF s = "gone" THEN "crashed" ELSE prog
         /\ got' = [c \in Conn |-> IF c \in to \ failed THEN got[c] \union {s} ELSE got[c]]
         /\ del_queue' = del_queue \o SetToSeq(failed)
         /\ sig' = IF failed = {} THEN sig ELSE sig \union {"del"}
  /\ data_queue' = Tail(data_queue)
  /\ UNCHANGED <<thread, conns, tables, distr_queue, known, counts>>

\* monitor_bsta_distr_moni: the answer goes to the connection that asked.
DistrTask ==
  /\ cb = "distr" /\ distr_queue # <<>>
  /\ prog' = IF mem[Head(distr_queue)] = "live" THEN prog ELSE "crashed"
  /\ distr_queue' = Tail(distr_queue)
  /\ UNCHANGED <<sig, thread, conns, tables, del_queue, data_queue, known, counts, got>>

-----------------------------------------------------------------------------
(* Close.                                                                  *)

\* cors_monitor_close.
Close ==
  /\ "close" \notin sig /\ loop \in {"off", "up", "failed"}
  /\ sig' = sig \union {"close"}
  /\ prog' = IF loop = "up" THEN prog ELSE "crashed"
  /\ UNCHANGED <<thread, conns, tables, queues, known, counts, got>>

\* close_cb, the end of uv_run, and close_uv_loop.
EndLoop ==
  /\ Idle /\ "close" \in sig
  /\ loop' = "ended"
  /\ sock' = [c \in Conn |-> IF sock[c] \in {"open", "ended"} THEN "closed" ELSE sock[c]]
  /\ UNCHANGED <<sig, cb, mem, name, tables, queues, known, counts, got, prog>>

\* monitor_src_close, and the structures that are left.
Joined ==
  /\ loop = "ended"
  /\ loop' = "joined"
  /\ mem' = [c \in Conn |-> IF mem[c] = "live" THEN "freed" ELSE mem[c]]
  /\ q_tbl' = {} /\ md_tbl' = [s \in Source |-> {}]
  /\ UNCHANGED <<sig, cb, sock, name, queues, known, counts, got, prog>>

-----------------------------------------------------------------------------

Next == /\ prog = "runs"
        /\ \/ Boot \/ Close \/ EndLoop \/ Joined
           \/ Drain("del") \/ Drained("del", del_queue) \/ DelTask
           \/ Drain("data") \/ Drained("data", data_queue) \/ ReportTask
           \/ Drain("distr") \/ Drained("distr", distr_queue) \/ DistrTask
           \/ \E c \in Conn : \/ Arrive(c) \/ Offer(c) \/ Accept(c) \/ End(c) \/ ReadProvince(c)
                              \/ \E s \in Source : ReadSource(c, s)
           \/ \E s \in Source : Register(s) \/ Unregister(s) \/ Report(s)

Spec == Init /\ [][Next]_vars

-----------------------------------------------------------------------------

\* A structure is there while its socket is.
TypeOK ==
  /\ loop \in {"off", "up", "failed", "ended", "joined"}
  /\ cb \in {"none", "del", "data", "distr"} /\ sig \subseteq {"add", "del", "data", "distr", "close"}
  /\ sock \in [Conn -> Socket] /\ mem \in [Conn -> {"none", "live", "freed"}]
  /\ loop = "up" => \A c \in Conn : mem[c] = "live" <=> sock[c] \in {"open", "ended"}
  /\ name \in [Conn -> Source \union {"unnamed"}]
  /\ q_tbl \subseteq Source /\ md_tbl \in [Source -> SUBSET Conn]
  /\ del_queue \in Seq(Conn) /\ data_queue \in Seq(Source \union {"gone"}) /\ distr_queue \in Seq(Conn)
  /\ known \subseteq Source /\ reports \in 0 .. MaxReport /\ asked \in 0 .. MaxAsk
  /\ got \in [Conn -> SUBSET (Source \union {"gone"})]
  /\ prog \in {"runs", "crashed"}

\* A source's table has copies of the connections that are there and whose last
\* request named it, and of no other (monitor_src.c:110-138, :260-272): whatever
\* the order of requests, and of the end of connections.
Subscribed ==
  prog = "runs" /\ loop = "up" =>
    \A s \in Source, c \in Conn : c \in md_tbl[s] <=> mem[c] = "live" /\ name[c] = s

\* A connection gets results of the source it asked for last, although results of
\* the one before may still wait in the queue (monitor_src.c:184-196).
OnlyItsSource == \A c \in Conn : got[c] \subseteq {name[c]}

\* A connection is asked to be deleted once, so that no deletion finds it freed:
\* in particular no result is sent on a closed socket, whose failure would ask for
\* the deletion of the copy (monitor_src.c:192, monitor.c:94).
DeletedOnce ==
  prog = "runs" /\ loop = "up" =>
    /\ \A i, j \in DOMAIN del_queue : del_queue[i] = del_queue[j] => i = j
    /\ \A c \in Conn : (\E i \in DOMAIN del_queue : del_queue[i] = c) <=> sock[c] = "ended"

\* What waits in a queue has its handle pending, or is being worked on: nothing is
\* left behind when requests for the same handle are merged (monitor.c:215,
\* monitor_src.c:239, monitor_bsta_distr.c:125).
Awake ==
  loop = "up" => /\ del_queue # <<>> => "del" \in sig \/ cb = "del"
                 /\ data_queue # <<>> => "data" \in sig \/ cb = "data"
                 /\ distr_queue # <<>> => "distr" \in sig \/ cb = "distr"

\* What ends the program: a result or a close before the loop is up, or when it got
\* no port (monitor.c:136, :180); a result whose source was deleted while it waited
\* (monitor_src.c:184); an answer to somebody who hung up (monitor_bsta_distr.c:41).
CrashExcused ==
  prog = "crashed" => \/ loop \in {"off", "failed"}
                      \/ cb = "data" /\ reports > 0
                      \/ cb = "distr" /\ \E c \in Conn : mem[c] = "freed"

=============================================================================
