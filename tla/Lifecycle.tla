----------------------------- MODULE Lifecycle -----------------------------
(***************************************************************************)
(* src/cors/cors.c, start_cors to cors_close, with the start, the thread   *)
(* function and the close of every component: which threads there are,     *)
(* which handles they have made, and what is on its way between them.  The *)
(* console starts and stops the server; a thread of its own starts the     *)
(* components, one after another, while they already work and the console  *)
(* may already stop.                                                       *)
(*                                                                         *)
(* Work flows from the caster over the decoder to the positions and on to  *)
(* the monitor, and over the engine and the network to the virtual         *)
(* stations.  The handles of a thread come up together; they are freed     *)
(* when its loop ends and the pointers to them stay (include/uve.h).       *)
(***************************************************************************)
EXTENDS Naturals, Sequences, FiniteSets

CONSTANT MaxRuns   \* bound: how often the server is started

ASSUME LifecycleAssumption == MaxRuns \in Nat \ {0}

Loops   == {"ntrip", "caster", "agent", "decoder", "pnt", "vrs", "monitor", "cors"}
Polling == {"srtk", "engine", "nrtk"}     \* threads with a flag for a loop
Comp    == Loops \union Polling
Inboxes == {"decoder", "pnt", "monitor", "engine", "nrtk", "vrs"}

\* start_cors.  The engine is started by nrtk_init, the caster by the ntrip thread.
StartOrder == <<"ntrip", "agent", "decoder", "pnt", "srtk", "engine", "nrtk", "vrs", "monitor">>
\* Mutant: the monitor is closed before those who report to it.
CloseOrderMonitorFirst == <<"ntrip", "caster", "monitor", "decoder", "pnt", "srtk", "nrtk", "vrs",
                            "agent", "cors">>

\* cors_close, with the caster that cors_ntrip_close closes
CloseOrder == <<"ntrip", "caster", "decoder", "pnt", "monitor", "srtk", "nrtk", "vrs", "agent",
                "cors">>

VARIABLES
  con,     \* the console: "off", "up", "ask" and "join" while it stops the server
  at,      \* the place of cors_close in CloseOrder
  next,    \* the place of start_cors in StartOrder
  thr,     \* each thread in this run: "off", "boot", "run", "gone"
  made,    \* the handles of each thread: "null", "made", "stale"
  st,      \* the state of the polling threads
  decst,   \* decoder->state
  sent,    \* threads whose close handle was woken
  inbox,   \* components with work waiting
  pool,    \* libuv's threads for files: "unused", "up", "down", "kept"
  file,    \* the log of the caster's source: "none", "opening", "open", "lost"
  freed,   \* tables that were freed: "registry", "network"
  runs,    \* how often the server was started
  early,   \* history: this stop came before everything was up
  noport,  \* history: listeners that got no port in this run
  crash    \* why and where the program ended, <<>> if it did not

vars == <<con, at, next, thr, made, st, decst, sent, inbox, pool, file, freed, runs,
          early, noport, crash>>
console == <<con, at, runs, early>>
threads == <<thr, made, st, decst, sent>>

Alive == crash = <<>>
Up(c) == thr[c] = "run"
AllUp == \A c \in Comp : Up(c)

Init == /\ con = "off" /\ at = 1 /\ next = 1
        /\ thr = [c \in Comp |-> "off"] /\ made = [c \in Loops |-> "null"]
        /\ st = [c \in Polling |-> 0] /\ decst = 0 /\ sent = {} /\ inbox = {}
        /\ pool = "unused" /\ file = "none" /\ freed = {}
        /\ runs = 0 /\ early = FALSE /\ noport = {} /\ crash = <<>>

Die(why, where) ==
  /\ crash' = <<why, where>>
  /\ UNCHANGED <<con, at, next, thr, made, st, decst, sent, inbox, pool, file, freed, runs,
                 early, noport>>

-----------------------------------------------------------------------------
\* The start

\* cors_start.  A server that left a thread is not started again: a bound, the
\* new threads would share its variables.
Start ==
  /\ Alive /\ con = "off" /\ runs < MaxRuns
  /\ \A c \in Comp : thr[c] \in {"off", "gone"}
  /\ con' = "up" /\ at' = 1 /\ next' = 1 /\ runs' = runs + 1 /\ early' = FALSE
  /\ thr' = [c \in Comp |-> IF c = "cors" THEN "boot" ELSE "off"]
  /\ sent' = {} /\ noport' = {}
  /\ UNCHANGED <<made, st, decst, inbox, pool, file, freed, crash>>

\* cors_thread up to start_cors, and the empty stores
BootCors ==
  /\ Alive /\ thr["cors"] = "boot"
  /\ thr' = [thr EXCEPT !["cors"] = "run"] /\ made' = [made EXCEPT !["cors"] = "made"]
  /\ inbox' = {}
  /\ UNCHANGED <<console, next, st, decst, sent, pool, file, freed, noport, crash>>

\* The start of one component: its tables and queues, and its thread.  An engine
\* of the network is asked for the baselines of the sources file at once.
Launch ==
  /\ Alive /\ Up("cors") /\ next <= Len(StartOrder)
  /\ LET c == StartOrder[next] IN
       /\ thr' = [thr EXCEPT ![c] = "boot"]
       /\ st' = CASE c \in {"srtk", "engine"} -> [st EXCEPT ![c] = @ + 1]
                  [] c = "nrtk" -> [st EXCEPT ![c] = 1]
                  [] OTHER -> st
       /\ inbox' = IF c = "engine" THEN inbox \union {c} ELSE inbox
       /\ freed' = CASE c = "ntrip" -> freed \ {"registry"}
                     [] c = "engine" -> freed \ {"network"}
                     [] OTHER -> freed
  /\ next' = next + 1
  /\ UNCHANGED <<console, made, decst, sent, pool, file, noport, crash>>

\* A request for libuv's threads, which are started by the first one.  The end of
\* the threads destroyed the mutex that guards their queue: the next request locks
\* it, which ends the program, or leaves the request where nobody takes it.
Post(ok, lost) == /\ pool' = IF pool = "unused" THEN "up" ELSE pool
                  /\ file' = IF pool = "down" THEN lost ELSE ok
PostDies(c) == pool = "down" /\ Die("pool", c)

\* The handles of a thread, up to its uv_run.  The decoder has its state at 0
\* from the beginning of its thread on, the casters are started by ntrip.
DecoderEnters ==
  /\ Alive /\ thr["decoder"] = "boot" /\ decst = 1
  /\ decst' = 0
  /\ UNCHANGED <<console, next, thr, made, st, sent, inbox, pool, file, freed, noport, crash>>

BootLoop(c) ==
  /\ Alive /\ c # "cors" /\ thr[c] = "boot" /\ (c = "decoder" => decst = 0)
  /\ made[c] # "made"
  /\ \/ c = "caster" /\ PostDies(c)
     \/ /\ made' = [made EXCEPT ![c] = "made"]
        /\ IF c = "ntrip" THEN UNCHANGED thr ELSE thr' = [thr EXCEPT ![c] = "run"]
        /\ decst' = IF c = "decoder" THEN 1 ELSE decst
        /\ inbox' = IF c \in {"decoder", "pnt", "monitor"} THEN inbox \ {c} ELSE inbox
        /\ IF c = "caster" THEN Post("opening", "lost") ELSE UNCHANGED <<pool, file>>
        /\ UNCHANGED <<console, next, st, sent, freed, noport, crash>>

\* start_ntrip, after the handle was made
StartCasters ==
  /\ Alive /\ thr["ntrip"] = "boot" /\ made["ntrip"] = "made"
  /\ thr' = [thr EXCEPT !["ntrip"] = "run", !["caster"] = "boot"]
  /\ UNCHANGED <<console, next, made, st, decst, sent, inbox, pool, file, freed, noport, crash>>

\* uv_listen fails: the thread returns without a handle.
NoPort(c) ==
  /\ Alive /\ c \in {"agent", "monitor"} /\ thr[c] = "boot"
  /\ thr' = [thr EXCEPT ![c] = "gone"] /\ noport' = noport \union {c}
  /\ UNCHANGED <<console, next, made, st, decst, sent, inbox, pool, file, freed, crash>>

\* rtk_thread counts its state up once more; nrtk_thread has nothing to do.
BootPolling(c) ==
  /\ Alive /\ thr[c] = "boot"
  /\ thr' = [thr EXCEPT ![c] = "run"]
  /\ st' = IF c = "nrtk" THEN st ELSE [st EXCEPT ![c] = @ + 1]
  /\ UNCHANGED <<console, next, made, decst, sent, inbox, pool, file, freed, noport, crash>>

-----------------------------------------------------------------------------
\* The work

\* uv_async_send on a handle of c, with work queued before
Deliver(c, rest) ==
  IF made[c] = "made"
  THEN /\ inbox' = rest \union {c}
       /\ UNCHANGED <<console, next, threads, pool, freed, noport, crash>>
  ELSE /\ Die("deliver", c)

\* on_read_cb: the chunk is logged and given to the decoder if that is there.
Read ==
  /\ Alive /\ Up("caster") /\ "decoder" \notin inbox
  /\ \/ file = "open" /\ PostDies("caster")
     \/ /\ IF file = "open" THEN Post("open", "lost") ELSE UNCHANGED <<pool, file>>
        /\ CASE decst = 0 -> UNCHANGED <<inbox, crash>>
             [] decst # 0 /\ made["decoder"] = "made" ->
                  inbox' = inbox \union {"decoder"} /\ UNCHANGED crash
             [] OTHER -> crash' = <<"deliver", "decoder">> /\ UNCHANGED inbox
        /\ UNCHANGED <<console, next, threads, freed, noport>>

\* An epoch is decoded: the network finds it in the stores, pnt gets it.
Decode ==
  /\ Alive /\ Up("decoder") /\ "decoder" \in inbox
  /\ Deliver("pnt", (inbox \ {"decoder"}) \union {"nrtk"})
  /\ UNCHANGED file

Position ==
  /\ Alive /\ Up("pnt") /\ "pnt" \in inbox
  /\ Deliver("monitor", inbox \ {"pnt"}) /\ UNCHANGED file

\* do_monitor_pnt_work looks the source up; out of a freed table comes NULL.
Report ==
  /\ Alive /\ Up("monitor") /\ "monitor" \in inbox
  /\ IF "registry" \in freed THEN Die("table", "monitor")
     ELSE /\ inbox' = inbox \ {"monitor"}
          /\ UNCHANGED <<console, next, threads, pool, file, freed, noport, crash>>

\* test_vstachg searches ntrip->src_kdtree, which kd_free leaves behind.
Nearest == Alive /\ Up("agent") /\ "registry" \in freed /\ Die("table", "agent")

\* The engine makes its first baseline and tells the network, whose queue
\* nrtk_init makes after the engines.
Answer ==
  /\ Alive /\ Up("engine") /\ st["engine"] = 2 /\ "engine" \in inbox
  /\ IF thr["nrtk"] = "off" /\ runs = 1 THEN Die("answer", "engine")
     ELSE /\ inbox' = inbox \ {"engine"}
          /\ UNCHANGED <<console, next, threads, pool, file, freed, noport, crash>>

\* do_subnet_work: an epoch solved by the engine goes to the virtual stations,
\* which hang on the network from init_vrs on.
Solve ==
  /\ Alive /\ Up("nrtk") /\ st["nrtk"] = 1 /\ "nrtk" \in inbox
  /\ Up("engine") /\ "engine" \notin inbox
  /\ IF thr["vrs"] = "off"
     THEN /\ inbox' = inbox \ {"nrtk"}
          /\ UNCHANGED <<console, next, threads, pool, freed, noport, crash>>
     ELSE Deliver("vrs", inbox \ {"nrtk"})
  /\ UNCHANGED file

\* upd_vrs_coef follows vsta->msta into the network.
Interpolate ==
  /\ Alive /\ Up("vrs") /\ "vrs" \in inbox
  /\ IF "network" \in freed THEN Die("network", "vrs")
     ELSE /\ inbox' = inbox \ {"vrs"}
          /\ UNCHANGED <<console, next, threads, pool, file, freed, noport, crash>>

\* A thread of the pool opens the log.
Opened ==
  /\ Alive /\ file = "opening" /\ pool # "down"
  /\ file' = "open"
  /\ UNCHANGED <<console, next, threads, inbox, pool, freed, noport, crash>>

-----------------------------------------------------------------------------
\* The stop

Stop ==
  /\ Alive /\ con = "up"
  /\ con' = "ask" /\ at' = 1 /\ early' = (\E c \in Comp : thr[c] \in {"off", "boot"})
  /\ UNCHANGED <<next, threads, inbox, pool, file, freed, runs, noport, crash>>

\* The close of the next component up to its join.  Those of the registry, the
\* decoder and the positions return when there is no handle; with the registry's
\* go the casters.
Skip ==
  LET c == CloseOrder[at] IN
  /\ c \in {"ntrip", "decoder", "pnt"} /\ made[c] = "null"
  /\ at' = at + IF c = "ntrip" THEN 2 ELSE 1
  /\ UNCHANGED <<con, next, threads, inbox, pool, file, freed, runs, early, noport, crash>>

Wake ==
  LET c == CloseOrder[at] IN
  /\ c \in Loops /\ made[c] = "made"
  /\ sent' = sent \union {c} /\ con' = "join"
  /\ UNCHANGED <<at, next, thr, made, st, decst, inbox, pool, file, freed, runs, early,
                 noport, crash>>

\* uv_async_send where there is no handle, where it was freed, or where its memory
\* is there and uv_async_init still to come.
WakeNothing ==
  LET c == CloseOrder[at] IN
  /\ c \in Loops /\ made[c] # "made"
  /\ made[c] = "null" /\ c \in {"ntrip", "decoder", "pnt"} => thr[c] = "boot"
  /\ Die("close", c)

\* Mutant: the threads are joined and not told.
ClearNothing ==
  LET c == CloseOrder[at] IN
  /\ c \in Polling /\ con' = "join"
  /\ UNCHANGED <<at, next, threads, inbox, pool, file, freed, runs, early, noport, crash>>

ClearState ==
  LET c == CloseOrder[at] IN
  /\ c \in Polling
  /\ st' = [st EXCEPT ![c] = 0] /\ con' = "join"
  /\ UNCHANGED <<at, next, thr, made, decst, sent, inbox, pool, file, freed, runs, early,
                 noport, crash>>

Ask == Alive /\ con = "ask" /\ (Skip \/ Wake \/ WakeNothing \/ ClearState)

\* uv_thread_join, and what is freed after it.  Every thread was made by then:
\* the monitor is the last to be started and closed before those whose close has
\* no handle.
Join ==
  /\ Alive /\ con = "join"
  /\ LET c == CloseOrder[at] IN
       /\ thr[c] = "gone"
       /\ con' = IF at = Len(CloseOrder) THEN "off" ELSE "ask"
       /\ at' = IF at = Len(CloseOrder) THEN at ELSE at + 1
       /\ freed' = IF c = "caster" THEN freed \union {"registry"} ELSE freed
  /\ UNCHANGED <<next, threads, inbox, pool, file, runs, early, noport, crash>>

\* close_uv_loop: the loop ends when no request is open, its handles are freed,
\* and the first one to end takes libuv's threads with it, once they have done
\* what they were given.
LoopEnds(c) ==
  /\ Alive /\ Up(c) /\ c \in sent
  /\ (c = "caster" => file \notin {"opening", "lost"})
  /\ (c = "cors" => next > Len(StartOrder))
  /\ thr' = [thr EXCEPT ![c] = "gone"] /\ made' = [made EXCEPT ![c] = "stale"]
  /\ pool' = CASE pool = "up" -> "down" [] pool = "unused" -> "kept" [] OTHER -> pool
  /\ file' = IF pool = "up" /\ file = "opening" THEN "open" ELSE file
  /\ UNCHANGED <<console, next, st, decst, sent, inbox, freed, noport, crash>>

SrtkEnds(c) ==
  /\ Alive /\ Up(c) /\ st[c] = 0
  /\ thr' = [thr EXCEPT ![c] = "gone"]
  /\ UNCHANGED <<console, next, made, st, decst, sent, inbox, pool, file, freed, noport, crash>>

\* free_nrtk: the engines of earlier runs are still in the table and their
\* threads, joined long ago, may not stand another join.
CloseEngines ==
  /\ Alive /\ Up("nrtk") /\ st["nrtk"] = 0 /\ "engine" \notin sent
  /\ \/ runs > 1 /\ Die("join", "engine")
     \/ /\ st' = [st EXCEPT !["engine"] = 0] /\ sent' = sent \union {"engine"}
        /\ UNCHANGED <<console, next, thr, made, decst, inbox, pool, file, freed, noport, crash>>

\* Mutant: the engines are not joined.
NrtkEndsAlone ==
  /\ Alive /\ Up("nrtk") /\ st["nrtk"] = 0
  /\ thr' = [thr EXCEPT !["nrtk"] = "gone"] /\ freed' = freed \union {"network"}
  /\ UNCHANGED <<console, next, made, st, decst, sent, inbox, pool, file, noport, crash>>

NrtkEnds ==
  /\ Alive /\ Up("nrtk") /\ "engine" \in sent /\ thr["engine"] = "gone"
  /\ thr' = [thr EXCEPT !["nrtk"] = "gone"] /\ freed' = freed \union {"network"}
  /\ UNCHANGED <<console, next, made, st, decst, sent, inbox, pool, file, noport, crash>>

-----------------------------------------------------------------------------
Next == \/ Start \/ BootCors \/ Launch \/ DecoderEnters \/ StartCasters
        \/ (\E c \in Loops : BootLoop(c) \/ NoPort(c) \/ LoopEnds(c))
        \/ (\E c \in Polling : BootPolling(c))
        \/ Read \/ Decode \/ Position \/ Report \/ Nearest
        \/ Answer \/ Solve \/ Interpolate \/ Opened
        \/ Stop \/ Ask \/ Join
        \/ (\E c \in {"srtk", "engine"} : SrtkEnds(c))
        \/ CloseEngines \/ NrtkEnds

\* Threads go on with what they have begun; sources need not send, and nobody
\* need start or stop the server.
Fairness == /\ WF_vars(BootCors) /\ WF_vars(Launch) /\ WF_vars(DecoderEnters)
            /\ WF_vars(StartCasters) /\ WF_vars(Opened) /\ WF_vars(Ask) /\ WF_vars(Join)
            /\ (\A c \in Loops : WF_vars(BootLoop(c)) /\ WF_vars(LoopEnds(c)))
            /\ (\A c \in Polling : WF_vars(BootPolling(c)))
            /\ (\A c \in {"srtk", "engine"} : WF_vars(SrtkEnds(c)))
            /\ WF_vars(CloseEngines) /\ WF_vars(NrtkEnds)

Spec == Init /\ [][Next]_vars /\ Fairness

-----------------------------------------------------------------------------
TypeOK ==
  /\ con \in {"off", "up", "ask", "join"} /\ at \in 1 .. Len(CloseOrder)
  /\ next \in 1 .. Len(StartOrder) + 1
  /\ thr \in [Comp -> {"off", "boot", "run", "gone"}]
  /\ made \in [Loops -> {"null", "made", "stale"}]
  /\ st \in [Polling -> 0 .. 2] /\ decst \in 0 .. 1
  /\ sent \subseteq Comp /\ inbox \subseteq Inboxes
  /\ pool \in {"unused", "up", "down", "kept"} /\ file \in {"none", "opening", "open", "lost"}
  /\ freed \subseteq {"registry", "network"} /\ runs \in 0 .. MaxRuns
  /\ early \in BOOLEAN /\ noport \subseteq {"agent", "monitor"}
  /\ crash = <<>> \/ crash \in {"deliver", "close", "join", "table", "network", "answer", "pool"} \X Comp

\* The server ends badly only where nothing in the code waits: work arrives at
\* a component that has not come up yet (start_cors starts the sources first),
\* or that got no port; a stop comes before the start is through; a table is
\* freed while the last work for it is on its way; the decoder's state is left
\* at 1 and the engines in the table by an earlier run; the log is asked for after
\* a loop that ended has taken libuv's threads away, which in the first run only a
\* stop brings about.  In particular no work reaches a component after cors_close
\* closed it.
CrashExcused ==
  \A c \in Comp :
    /\ crash = <<"deliver", c>> => \/ thr[c] \in {"off", "boot"} /\ (c = "decoder" => runs > 1)
                                   \/ c \in noport \/ early
    /\ crash = <<"close", c>> => early \/ c \in noport
    /\ crash = <<"join", c>> => c = "engine" /\ runs > 1
    /\ crash = <<"table", c>> => con \in {"ask", "join"} /\ thr["caster"] = "gone"
    /\ crash = <<"network", c>> => con \in {"ask", "join"} /\ thr["nrtk"] = "gone"
    /\ crash = <<"answer", c>> => next <= Len(StartOrder)
    /\ crash = <<"pool", c>> => c = "caster" /\ pool = "down" /\ (runs > 1 \/ con # "up")

\* cors_close leaves no thread behind if everything was up when it was called.
NothingLeft == (Alive /\ con = "off" /\ ~early) => \A c \in Comp : thr[c] \in {"off", "gone"}

\* In the first run the log of a source is written as long as the server is up:
\* only the end of a loop takes libuv's threads away.
LogKept == file = "lost" => runs > 1 \/ con # "up"

\* What a stop leaves, whenever it comes: no thread, and a log that was written to
\* the end (cors.c:92).
StopsClean == TypeOK /\ NothingLeft /\ LogKept

\* A stop returns, unless a request of the caster came after libuv's threads
\* were gone, or an engine started so late that it counted up the state which the
\* stop had cleared.
StopReturns ==
  (con = "ask") ~> \/ con = "off" \/ ~Alive \/ file = "lost"
                   \/ (early /\ \E c \in {"srtk", "engine"} : Up(c) /\ st[c] = 1)
=============================================================================
