---------------------------- MODULE NtripCaster ----------------------------
(***************************************************************************)
(* src/ntrip/ntrip.c and ntripcaster.c: the registry of the sources and    *)
(* the casters, one thread each, that run their clients.  A request to add *)
(* or delete a source looks at the registry, generates the identifier,     *)
(* leaves a task with a caster and tells the network thread (cors.c,       *)
(* engine.c); only the caster changes the registry, when it comes to the   *)
(* task.  The monitor and the VRS make requests of their own that the      *)
(* network is not told of.                                                 *)
(*                                                                         *)
(* An element of the registry is known by the identifier that was          *)
(* generated for it; several of them may have one name.  Lookups in the    *)
(* two hash tables, which no lock protects, are taken as atomic.           *)
(***************************************************************************)
EXTENDS Naturals, Sequences, FiniteSets

CONSTANTS
  FileNames,    \* the sources of the sources file, in some order
  NetNames,     \* other sources of streams
  VrsNames,     \* virtual stations: sources without a client
  MaxSrcs,      \* MAX_SRCS
  MaxId,        \* bound: identifiers that are generated
  MaxDel        \* bound: tasks waiting in one queue of deletions

ASSUME CasterAssumption ==
  /\ IsFiniteSet(FileNames) /\ FileNames # {}
  /\ FileNames \intersect (NetNames \union VrsNames) = {} /\ NetNames \intersect VrsNames = {}
  /\ MaxSrcs \in Nat \ {0} /\ MaxId \in Nat /\ MaxId >= Cardinality(FileNames)
  /\ MaxDel \in Nat

Name  == FileNames \union NetNames \union VrsNames
NFile == Cardinality(FileNames)
Id    == 1 .. MaxId
\* nc casters for the file, and one that is made when they are full
NCaster == (NFile + MaxSrcs - 1) \div MaxSrcs
Caster  == 1 .. NCaster + 1

VARIABLES
  nameOf,    \* the name of each identifier generate_source_id has given
  byname,    \* info_tbl[0]: the sources found by name
  byid,      \* info_tbl[1]: the sources found by identifier
  freed,     \* sources whose memory was freed without ever being registered
  tbl,       \* ctr_tbl: the casters, in the order of the table
  boot,      \* how far the thread of each caster is, see Boot
  todo,      \* the sources a caster starts with that it has not come to
  srcs,      \* src_tbl: the sources a caster runs
  addq,      \* add_src_queue of each caster
  delq,      \* del_src_queue of each caster
  api,       \* the command that is being carried out, see Command
  told,      \* the sources that the network thread was told of
  wanted,    \* history: whether a name was added or deleted last
  excuse,    \* history: what may have kept a request on a name from working
  cause,     \* history: what may end the program
  phase,     \* "open", "closing", "closed"
  prog       \* "crashed" once freed or missing memory was used

vars == <<nameOf, byname, byid, freed, tbl, boot, todo, srcs, addq, delq,
          api, told, wanted, excuse, cause, phase, prog>>
tables == <<nameOf, byname, byid, freed>>
threads == <<tbl, boot, todo>>
queues == <<addq, delq>>
history == <<wanted, excuse, cause>>

Boot == {"none", "off", "half", "ready", "stopped"}
Idle == [op |-> "idle"]
Command == {Idle} \union [op : {"tell", "del"}, id : Id, name : Name]

Named(S, name) == {i \in S : nameOf[i] = name}
Clients == UNION {srcs[c] : c \in Caster}
ElementsOf(q) == {q[k] : k \in DOMAIN q}

\* The file is dealt out in order, MAX_SRCS to a caster.
Share(c) == {i \in 1 .. NFile : (i - 1) \div MaxSrcs = c - 1}

\* read_sources_file has been through, and the network has read its table.
Init == /\ \E f \in [1 .. NFile -> FileNames] :
             /\ \A i, j \in 1 .. NFile : f[i] = f[j] => i = j
             /\ nameOf = f
        /\ byname = 1 .. NFile /\ byid = 1 .. NFile /\ freed = {}
        /\ tbl = <<>> /\ boot = [c \in Caster |-> "none"]
        /\ todo = [c \in Caster |-> {}] /\ srcs = [c \in Caster |-> {}]
        /\ addq = [c \in Caster |-> <<>>] /\ delq = [c \in Caster |-> <<>>]
        /\ api = Idle /\ told = 1 .. NFile
        /\ wanted = [m \in Name |-> IF m \in FileNames THEN "added" ELSE "deleted"]
        /\ excuse = [m \in Name |-> {}] /\ cause = {}
        /\ phase = "open" /\ prog = "runs"

Excuse(name, why) == excuse' = [excuse EXCEPT ![name] = @ \union why]

-----------------------------------------------------------------------------
(* The threads of the casters.                                             *)

\* start_ntrip makes the next caster.
StartCaster(c) ==
  /\ phase = "open"
  /\ c <= NCaster /\ boot[c] = "none"
  /\ \A d \in Caster : d < c => boot[d] # "none"
  /\ boot' = [boot EXCEPT ![c] = "off"]
  /\ todo' = [todo EXCEPT ![c] = Share(c)]
  /\ tbl' = Append(tbl, c)
  /\ UNCHANGED <<tables, srcs, queues, api, told, history, phase, prog>>

\* ntrip_caster_thread: the state is set first, the queues are made later.
Mark(c) ==
  /\ boot[c] = "off"
  /\ boot' = [boot EXCEPT ![c] = "half"]
  /\ UNCHANGED <<tables, tbl, todo, srcs, queues, api, told, history, phase, prog>>

Ready(c) ==
  /\ boot[c] = "half"
  /\ boot' = [boot EXCEPT ![c] = "ready"]
  /\ UNCHANGED <<tables, tbl, todo, srcs, queues, api, told, history, phase, prog>>

\* One round of the loop before uv_run: the client is started or is not.  A
\* source that is no element of a table (see NewCaster) cannot be taken out.
StartSource(c) ==
  /\ boot[c] = "ready" /\ todo[c] # {}
  /\ \E i \in todo[c] :
         /\ \A k \in todo[c] : i <= k
         /\ todo' = [todo EXCEPT ![c] = @ \ {i}]
         /\ \/ /\ srcs' = [srcs EXCEPT ![c] = @ \union {i}]
               /\ prog' = IF i \in byname THEN prog ELSE "crashed"
               /\ UNCHANGED excuse
            \/ /\ nameOf[i] \notin VrsNames
               /\ Excuse(nameOf[i], {"not_started"})
               /\ UNCHANGED <<srcs, prog>>
  /\ UNCHANGED <<tables, tbl, boot, queues, api, told, wanted, cause, phase>>

\* Mutant: a source is entered by its name alone.
DoAddByName(c) ==
  /\ boot[c] = "ready" /\ todo[c] = {} /\ addq[c] # <<>>
  /\ LET i == Head(addq[c])
     IN  /\ Named(srcs[c], nameOf[i]) = {}
         /\ srcs' = [srcs EXCEPT ![c] = @ \union {i}]
         /\ byname' = byname \union {i}
  /\ addq' = [addq EXCEPT ![c] = Tail(@)]
  /\ UNCHANGED <<nameOf, byid, freed, threads, delq, api, told, history, phase, prog>>

\* Mutant: one task for one wake-up, and two of them may be merged.
DoAddSingle(c) ==
  /\ boot[c] = "ready" /\ todo[c] = {} /\ Len(addq[c]) = 1
  /\ LET i == Head(addq[c])
     IN  /\ Named(srcs[c], nameOf[i]) = {}
         /\ srcs' = [srcs EXCEPT ![c] = @ \union {i}]
         /\ byname' = byname \union {i} /\ byid' = byid \union {i}
  /\ addq' = [addq EXCEPT ![c] = Tail(@)]
  /\ UNCHANGED <<nameOf, freed, threads, delq, api, told, history, phase, prog>>

\* do_add_source: the caster knows the name already, or the client cannot be
\* started, or the source is entered in both tables.
DoAdd(c) ==
  /\ boot[c] = "ready" /\ todo[c] = {} /\ addq[c] # <<>>
  /\ LET i == Head(addq[c])
     IN  \/ /\ Named(srcs[c], nameOf[i]) # {}
            /\ freed' = freed \union {i}
            /\ UNCHANGED <<srcs, byname, byid, excuse>>
         \/ /\ Named(srcs[c], nameOf[i]) = {}
            /\ nameOf[i] \notin VrsNames
            /\ freed' = freed \union {i}
            /\ Excuse(nameOf[i], {"not_started"})
            /\ UNCHANGED <<srcs, byname, byid>>
         \/ /\ Named(srcs[c], nameOf[i]) = {}
            /\ srcs' = [srcs EXCEPT ![c] = @ \union {i}]
            /\ byname' = byname \union {i} /\ byid' = byid \union {i}
            /\ UNCHANGED <<freed, excuse>>
  /\ addq' = [addq EXCEPT ![c] = Tail(@)]
  /\ UNCHANGED <<nameOf, threads, delq, api, told, wanted, cause, phase, prog>>

\* The element leaves both tables.  Those of the file have a copy of their own
\* in info_tbl[1], and the handle that is taken out is not in any table: uthash
\* takes it for the last one and frees the table.
Unregister(i) ==
  /\ byname' = byname \ {i}
  /\ IF i <= NFile
     THEN /\ byid' = {}
          /\ prog' = IF byid = {} THEN "crashed" ELSE prog
     ELSE /\ byid' = byid \ {i}
          /\ prog' = IF i \in byid THEN prog ELSE "crashed"

\* do_del_source.  A virtual station has no handles to close.  The name that is
\* looked up has been freed: it may still be there or not.
DoDel(c) ==
  /\ boot[c] = "ready" /\ todo[c] = {} /\ delq[c] # <<>>
  /\ LET name == Head(delq[c])
         s == Named(srcs[c], name)
     IN  \/ /\ s = {}
            /\ UNCHANGED <<byname, byid, srcs, excuse, prog>>
         \/ /\ s # {} /\ name \in VrsNames
            /\ prog' = "crashed"
            /\ UNCHANGED <<byname, byid, srcs, excuse>>
         \/ /\ s # {} /\ name \notin VrsNames
            /\ srcs' = [srcs EXCEPT ![c] = @ \ s]
            /\ \/ /\ \E i \in Named(byname, name) : Unregister(i)
                  /\ UNCHANGED excuse
               \/ /\ Excuse(name, {"name_freed"})   \* nothing is found
                  /\ UNCHANGED <<byname, byid, prog>>
  /\ delq' = [delq EXCEPT ![c] = Tail(@)]
  /\ UNCHANGED <<nameOf, freed, threads, addq, api, told, wanted, cause, phase>>

-----------------------------------------------------------------------------
(* The requests.                                                           *)

\* Something on this name is under way.
Queued(name) ==
  \E c \in Caster : \/ name \in ElementsOf(delq[c])
                    \/ \E i \in ElementsOf(addq[c]) : nameOf[i] = name
                    \/ \E i \in todo[c] : nameOf[i] = name

Waiting(name) == Queued(name) \/ (api # Idle /\ api.name = name)

Raced(name) == IF Waiting(name) THEN {"raced"} ELSE {}

\* HASH_COUNT(c->src_tbl): what is queued is not counted.
HasRoom(c) == Cardinality(srcs[c]) < MaxSrcs

\* cors_ntrip_caster_add_source, for a source that was given identifier i.
HandToCaster(c, i, name, why) ==
  CASE boot[c] \in {"off", "stopped"} ->
         /\ Excuse(name, why \union {"no_thread"})
         /\ UNCHANGED <<addq, cause, prog>>
    [] boot[c] = "half" ->
         /\ cause' = cause \union {"half_made"} /\ prog' = "crashed"
         /\ UNCHANGED <<addq, excuse>>
    [] boot[c] = "ready" ->
         /\ addq' = [addq EXCEPT ![c] = Append(@, i)]
         /\ cause' = IF addq[c] # <<>> \/ todo[c] # {} THEN cause \union {"burst"} ELSE cause
         /\ Excuse(name, why)
         /\ UNCHANGED prog

\* No caster has room: one is made, with the source as its whole table.
NewCaster(i, name, why) ==
  /\ boot' = [boot EXCEPT ![NCaster + 1] = "off"]
  /\ todo' = [todo EXCEPT ![NCaster + 1] = {i}]
  /\ tbl' = Append(tbl, NCaster + 1)
  /\ cause' = cause \union {"new_caster"}
  /\ Excuse(name, why)

\* ntrip_add_source_prc.  Bound: one caster is made.
Place(name, also) ==
  LET i == Len(nameOf) + 1
      room == {k \in DOMAIN tbl : HasRoom(tbl[k])}
      why == Raced(name) \union also
  IN  /\ i <= MaxId
      /\ nameOf' = Append(nameOf, name)
      /\ \/ \E k \in room : /\ \A j \in room : k <= j
                           /\ HandToCaster(tbl[k], i, name, why)
                           /\ UNCHANGED threads
         \/ /\ room = {} /\ boot[NCaster + 1] = "none"
            /\ NewCaster(i, name, why)
            /\ UNCHANGED <<addq, prog>>
      /\ UNCHANGED <<byname, byid, freed, delq>>

\* Mutant: the name is not looked up.
AddSourceAgain(name) ==
  /\ phase = "open" /\ api = Idle /\ name \notin VrsNames
  /\ wanted' = [wanted EXCEPT ![name] = "added"]
  /\ Place(name, {})
  /\ api' = [op |-> "tell", id |-> Len(nameOf'), name |-> name]
  /\ UNCHANGED <<srcs, told, phase>>

\* cors_add_source and cmd_add_source, up to the return of cors_ntrip_add_source.
\* A source that is there already keeps the identifier 0, and the network is told
\* of a station 0 that stands for none.
AddSource(name) ==
  /\ phase = "open" /\ api = Idle /\ name \notin VrsNames
  /\ wanted' = [wanted EXCEPT ![name] = "added"]
  /\ IF Named(byname, name) # {}
     THEN /\ Excuse(name, Raced(name))
          /\ UNCHANGED <<tables, threads, queues, api, cause, prog>>
     ELSE /\ Place(name, {})
          /\ api' = [op |-> "tell", id |-> Len(nameOf'), name |-> name]
  /\ UNCHANGED <<srcs, told, phase>>

\* Mutant: the identifier is looked up by the name.
TellRegistered ==
  /\ api.op = "tell"
  /\ told' = told \union Named(byname, api.name)
  /\ api' = Idle
  /\ UNCHANGED <<tables, threads, srcs, queues, history, phase, prog>>

\* info->ID is read to tell the network: the caster may have freed it.
Tell ==
  /\ api.op = "tell"
  /\ \/ told' = told \union {api.id}
     \/ api.id \in freed /\ UNCHANGED told
  /\ api' = Idle
  /\ UNCHANGED <<tables, threads, srcs, queues, history, phase, prog>>

\* add_ntrip_source of the monitor, init_vrs and vrs_add_vsta, which do not
\* tell the network.
AddUntold(name) ==
  /\ Named(byname, name) = {}
  /\ Place(name, {"untold"})
  /\ wanted' = [wanted EXCEPT ![name] = "added"]
  /\ UNCHANGED <<srcs, api, told, phase>>

\* cors_ntrip_del_source: a task for every caster that runs.
QueueDeletion(name, because, why) ==
  LET running == {c \in Caster : boot[c] = "ready"}
      half == \E c \in Caster : boot[c] = "half"
      late == \E c \in Caster : c <= NCaster /\ boot[c] \in {"none", "off"}
  IN  /\ \A c \in running : Len(delq[c]) < MaxDel
      /\ delq' = [c \in Caster |-> IF c \in running THEN Append(delq[c], name) ELSE delq[c]]
      /\ prog' = IF half THEN "crashed" ELSE prog
      /\ cause' = cause \union because \union (IF half THEN {"half_made"} ELSE {})
      /\ Excuse(name, why \union (IF late THEN {"no_thread"} ELSE {}))
      /\ wanted' = [wanted EXCEPT ![name] = "deleted"]

\* cors_del_source and cmd_delete_source: the source is looked up by its name,
FindSource(name) ==
  /\ phase = "open" /\ api = Idle
  /\ IF Named(byname, name) = {}
     THEN /\ Excuse(name, Raced(name))
          /\ wanted' = [wanted EXCEPT ![name] = "deleted"]
          /\ UNCHANGED api
     ELSE /\ \E i \in Named(byname, name) : api' = [op |-> "del", id |-> i, name |-> name]
          /\ UNCHANGED <<wanted, excuse>>
  /\ UNCHANGED <<tables, threads, srcs, queues, told, cause, phase, prog>>

\* and its identifier is read, which the caster may have freed, to tell the network.
DelSource ==
  /\ api.op = "del"
  /\ \/ told' = told \ {api.id}
     \/ api.id \notin byname /\ UNCHANGED told
  /\ QueueDeletion(api.name, CASE api.id <= NFile -> {"table_freed"}
                               [] api.name \in VrsNames -> {"no_client"}
                               [] OTHER -> {},
                   IF Queued(api.name) THEN {"raced"} ELSE {})
  /\ api' = Idle
  /\ UNCHANGED <<tables, threads, srcs, addq, phase>>

\* vrs_del_vsta.
DelVsta(name) ==
  /\ phase # "closed" /\ name \in VrsNames /\ wanted[name] = "added"
  /\ QueueDeletion(name, {"no_client"}, Raced(name))
  /\ UNCHANGED <<tables, threads, srcs, addq, api, told, phase>>

-----------------------------------------------------------------------------
(* cors_ntrip_close, by the thread that gives the commands.                *)

\* The thread that makes the casters has been joined.
Close ==
  /\ phase = "open" /\ api = Idle
  /\ \A c \in 1 .. NCaster : boot[c] # "none"
  /\ phase' = "closing"
  /\ UNCHANGED <<tables, threads, srcs, queues, api, told, history, prog>>

\* cors_ntrip_caster_close: the handle it wakes the caster with is made with the
\* queues.  What is queued stays so.
CloseCaster(c) ==
  /\ phase = "closing" /\ boot[c] \notin {"none", "stopped"}
  /\ \A k \in DOMAIN tbl : boot[tbl[k]] # "stopped" => \A j \in DOMAIN tbl : tbl[j] = c => j <= k
  /\ \/ /\ boot[c] \in {"off", "half"}
        /\ prog' = "crashed" /\ cause' = cause \union {"half_made"}
        /\ UNCHANGED <<boot, srcs>>
     \/ /\ boot[c] = "ready" /\ todo[c] = {}
        /\ boot' = [boot EXCEPT ![c] = "stopped"]
        /\ srcs' = [srcs EXCEPT ![c] = {}]
        /\ UNCHANGED <<prog, cause>>
  /\ UNCHANGED <<tables, tbl, todo, queues, api, told, wanted, excuse, phase>>

\* free_ntrip: the elements are freed in the first table and then taken out of
\* the second, where those that were added later are the same ones.
FreeNtrip ==
  /\ phase = "closing" /\ \A k \in DOMAIN tbl : boot[tbl[k]] = "stopped"
  /\ phase' = "closed"
  /\ tbl' = <<>> /\ byname' = {} /\ byid' = {}
  /\ \/ UNCHANGED <<prog, cause>>
     \/ /\ \E i \in byid : i > NFile
        /\ prog' = "crashed" /\ cause' = cause \union {"freed_twice"}
  /\ UNCHANGED <<nameOf, freed, boot, todo, srcs, queues, api, told, wanted, excuse>>

-----------------------------------------------------------------------------

CasterStep(c) == Mark(c) \/ Ready(c) \/ StartSource(c) \/ DoAdd(c) \/ DoDel(c)

Next ==
  /\ prog = "runs"
  /\ \/ \E c \in Caster : StartCaster(c) \/ CasterStep(c) \/ CloseCaster(c)
     \/ \E name \in Name : AddSource(name) \/ AddUntold(name) \/ FindSource(name) \/ DelVsta(name)
     \/ Tell \/ DelSource \/ Close \/ FreeNtrip

\* The threads of the casters run; each loop comes to both of its handles.
Spec == /\ Init /\ [][Next]_vars
        /\ \A c \in Caster : /\ WF_vars(prog = "runs" /\ (Mark(c) \/ Ready(c) \/ StartSource(c)))
                             /\ WF_vars(prog = "runs" /\ DoAdd(c))
                             /\ WF_vars(prog = "runs" /\ DoDel(c))

-----------------------------------------------------------------------------

TypeOK ==
  /\ nameOf \in Seq(Name) /\ Len(nameOf) \in NFile .. MaxId
  /\ byname \subseteq DOMAIN nameOf /\ byid \subseteq DOMAIN nameOf
  /\ freed \subseteq DOMAIN nameOf
  /\ tbl \in Seq(Caster) /\ boot \in [Caster -> Boot]
  /\ todo \in [Caster -> SUBSET DOMAIN nameOf] /\ srcs \in [Caster -> SUBSET DOMAIN nameOf]
  /\ addq \in [Caster -> Seq(DOMAIN nameOf)] /\ delq \in [Caster -> Seq(Name)]
  /\ api \in Command /\ told \subseteq DOMAIN nameOf
  /\ wanted \in [Name -> {"added", "deleted"}]
  /\ excuse \in [Name -> SUBSET {"raced", "not_started", "no_thread", "name_freed", "untold"}]
  /\ cause \subseteq {"half_made", "new_caster", "burst", "table_freed", "no_client", "freed_twice"}
  /\ phase \in {"open", "closing", "closed"} /\ prog \in {"runs", "crashed"}

\* A source that runs can be found by its name, so that it can be deleted, unless
\* it was added twice before a caster came to the first addition.
ClientsRegistered ==
  prog = "runs" =>
    \A i \in Clients : i \in byname \/ "raced" \in excuse[nameOf[i]]

\* The two tables hold the same sources, until a source of the file is deleted:
\* the decoder, the network and the monitor then miss those they ask for.
TablesAgree == byid = byname \/ "table_freed" \in cause

\* No two clients read from one source, unless it was added twice before a
\* caster came to the first addition.
OneClientEach ==
  \A i, j \in Clients : nameOf[i] = nameOf[j] /\ i # j => "raced" \in excuse[nameOf[i]]

\* A caster has more sources than MAX_SRCS only if it was given some while others
\* were waiting.
WithinCapacity == \A c \in Caster : Cardinality(srcs[c]) > MaxSrcs => "burst" \in cause

\* What holds of the sources and their clients at any time, but for requests that
\* raced: each can be found by its name, is there once, and has its place
\* (ntrip.c:182, :205, ntripcaster.c:217).
SourcesSound == TypeOK /\ ClientsRegistered /\ OneClientEach /\ WithinCapacity

\* When nothing is under way for a name, its client runs if and only if it was
\* added last, and the network knows this client and no other of the name: but
\* for the requests that raced, came before a caster ran or from the monitor,
\* clients that did not start and names read after they were freed.
Settled ==
  phase = "open" /\ prog = "runs" /\ (\A c \in 1 .. NCaster : boot[c] # "none") =>
    \A name \in Name :
      ~Waiting(name) /\ excuse[name] \ {"untold"} = {} =>
        /\ wanted[name] = "added" <=> Named(Clients, name) # {}
        /\ name \notin VrsNames /\ excuse[name] = {} =>
             Named(told, name) = Named(Clients, name)

\* What ends the program: a caster that is not all made or was made when all were
\* full, a station without a client that is deleted, the table that went with a
\* source of the file, the elements that are in both tables at the end.
CrashExcused ==
  prog = "crashed" =>
    cause \intersect {"half_made", "new_caster", "no_client", "table_freed", "freed_twice"} # {}

\* A caster that runs comes to what it was asked to do, until it is closed.
Handled ==
  \A c \in Caster :
    boot[c] = "ready" /\ addq[c] # <<>> ~> addq[c] = <<>> \/ boot[c] = "stopped" \/ prog = "crashed"
=============================================================================
