-------------------------- MODULE NtripAgentProofs --------------------------
(***************************************************************************)
(* Proofs about the NTRIP agent, for any rovers, mount points and users,   *)
(* and any number of chunks, positions and refused requests; and at the    *)
(* end about the monitor, which serves its connections in the same way.    *)
(***************************************************************************)
EXTENDS NtripAgent, FiniteSetTheorems, TLAPS

\* A structure for every connection that was accepted, and none before; one connection
\* at a time is offered.
Structures ==
  /\ cb # "none" => loop = "up"
  /\ \A c \in Conn : sock[c] \in {"none", "waiting", "offered"} <=> mem[c] = "none"
  /\ loop = "up" => \A c \in Conn : sock[c] \in {"open", "ended"} <=> mem[c] = "live"
  /\ loop \in {"off", "failed"} => \A c \in Conn : sock[c] \in {"none", "waiting"}
  /\ loop \in {"ended", "joined"} => \A c \in Conn : sock[c] \notin {"open", "ended"}
  /\ \A c, d \in Conn : sock[c] = "offered" /\ sock[d] = "offered" => c = d

\* Before the loop runs nothing was done.
BeforeLoop ==
  loop \in {"off", "failed"} =>
    /\ auth = {} /\ del_queue = <<>> /\ send_queue = <<>>
    /\ \A m \in Name : cs[m] = {}

\* Subscribed, even when the program has crashed; who was let in has a mount point.
Listed ==
  loop = "up" =>
    /\ \A c \in auth : mem[c] = "live" /\ mntpnt[c] \in Name
    /\ \A m \in Name, c \in Conn : c \in cs[m] <=> mem[c] = "live" /\ c \in auth /\ mntpnt[c] = m

\* The chunks of a queue wait in the order of each mount point, up to the last that
\* was taken.
InOrder(q, s) ==
  \A i \in DOMAIN q :
    /\ q[i][2] <= s[q[i][1]]
    /\ \/ q[i][2] = s[q[i][1]]
       \/ \E j \in DOMAIN q : i < j /\ q[j] = <<q[i][1], q[i][2] + 1>>
    /\ \A j \in DOMAIN q : i < j /\ q[j][1] = q[i][1] => q[i][2] < q[j][2]

\* Whoever has the chunk n of m gets the next of those that wait.
GetsNext(q, s, m, n) ==
  /\ n = s[m] \/ \E i \in DOMAIN q : q[i] = <<m, n + 1>>
  /\ \A i \in DOMAIN q : q[i][1] = m => n < q[i][2]

Chunks ==
  /\ InOrder(send_queue, sent)
  /\ \A m \in Name : \A c \in cs[m] :
       sock[c] = "open" /\ last[c] # 0 => GetsNext(send_queue, sent, m, last[c])
  /\ NoGaps

\* A deletion that was asked for once finds the connection that asked for it.
Deletions ==
  /\ loop = "up" =>
       \A i \in DOMAIN del_queue : del_queue[i] \notin again =>
         /\ \A j \in DOMAIN del_queue : del_queue[j] = del_queue[i] => j = i
         /\ \E c \in over : mem[c] = "live" /\ addr[c] = del_queue[i]
  /\ loop = "up" => \A c \in Conn : sock[c] = "ended" => \E i \in DOMAIN del_queue : del_queue[i] = addr[c]
  /\ Innocent

\* What wakes the loop up.
Wakes ==
  loop = "up" =>
    /\ del_queue # <<>> => "del" \in sig \/ cb = "del"
    /\ send_queue # <<>> => "send" \in sig \/ cb = "send"
    /\ \A c \in Conn : sock[c] = "offered" => "add" \in sig

AgentInv == /\ TypeOK /\ Structures /\ BeforeLoop /\ Listed /\ Chunks /\ Deletions
            /\ Wakes /\ CrashExcused

-----------------------------------------------------------------------------
(* Types.                                                                  *)

LEMMA Bounds == MaxChunk \in Nat /\ MaxMove \in Nat /\ MaxAsk \in Nat
<1>1. {MaxChunk, MaxMove, MaxAsk} \subseteq Nat
  BY AgentAssumption DEF AgentAssumption
<1> QED BY ONLY <1>1, Zenon

LEMMA Names == "" \notin Name
BY AgentAssumption, Zenon DEF AgentAssumption, Name

LEMMA InitTypes == Init => TypeOK
<1> SUFFICES ASSUME Init PROVE TypeOK
  OBVIOUS
<1>1. 0 \in 0 .. MaxChunk /\ 0 \in 0 .. MaxMove
  BY Bounds
<1>2. /\ sock \in [Conn -> Socket] /\ mem \in [Conn -> {"none", "live", "freed"}]
      /\ addr \in [Conn -> Conn] /\ mntpnt \in [Conn -> Name \union {""}]
      /\ cs \in [Name -> SUBSET Conn]
  BY DEF Init, Socket
<1>3. sent \in [Name -> 0 .. MaxChunk] /\ last \in [Conn -> 0 .. MaxChunk] /\ moves \in 0 .. MaxMove
  BY <1>1 DEF Init
<1>4. Live = {}
  BY DEF Init, Live
<1>5. del_queue = <<>> /\ send_queue = <<>>
  BY DEF Init
<1>6. del_queue \in Seq(Conn) /\ send_queue \in Seq(Name \X (1 .. MaxChunk))
  BY <1>5
<1> QED BY <1>2, <1>3, <1>4, <1>5, <1>6 DEF Init, TypeOK

\* A request for a deletion.
LEMMA AskTypes ==
  ASSUME TypeOK, NEW c \in Conn, AskDeletion(c)
  PROVE  /\ del_queue' \in Seq(Conn) /\ sig' \subseteq {"add", "del", "send", "close"}
         /\ over' \subseteq Conn /\ again' \subseteq Conn
<1>1. addr[c] \in Conn /\ del_queue \in Seq(Conn)
  BY DEF TypeOK
<1>2. del_queue' \in Seq(Conn)
  BY <1>1 DEF AskDeletion
<1> QED BY <1>1, <1>2 DEF AskDeletion, TypeOK

\* A copy that is made or moved.
LEMMA SubscribeTypes ==
  ASSUME TypeOK, prog = "runs", NEW c \in Conn, NEW old, NEW m \in Name, Subscribe(c, old, m)
  PROVE  /\ cq_tbl' \subseteq Name /\ cs' \in [Name -> SUBSET Conn]
         /\ mntpnt' \in [Conn -> Name \union {""}] /\ last' \in [Conn -> 0 .. MaxChunk]
         /\ prog' \in {"runs", "crashed"}
<1>1. 0 \in 0 .. MaxChunk
  BY Bounds
<1>2. cq_tbl' \subseteq Name
  BY DEF Subscribe, TypeOK
<1>3. CASE UNCHANGED <<cs, mntpnt, last>>
  BY <1>2, <1>3 DEF Subscribe, TypeOK, Crash
<1>4. CASE /\ cs' = [n \in Name |-> IF n = m THEN cs[n] \union {c}
                                    ELSE IF n = old THEN cs[n] \ {c} ELSE cs[n]]
           /\ mntpnt' = [mntpnt EXCEPT ![c] = m] /\ last' = [last EXCEPT ![c] = 0]
           /\ UNCHANGED prog
  BY <1>1, <1>2, <1>4 DEF TypeOK
<1> QED BY <1>3, <1>4 DEF Subscribe

\* No two structures are alive at an address.
LEMMA TypesStep ==
  ASSUME TypeOK, Structures, prog = "runs", Next
  PROVE  TypeOK'
<1>1. ASSUME NEW c \in Conn, Arrive(c) \/ Offer(c)
      PROVE  TypeOK'
  <2>1. /\ sock' \in [Conn -> Socket] /\ sig' \subseteq {"add", "del", "send", "close"}
        /\ UNCHANGED <<thread, mem, addr, state, tables, queues, user_tbl, sent, history, prog>>
    <3>1. CASE Arrive(c)
      BY <3>1 DEF Arrive, TypeOK, Socket
    <3>2. CASE Offer(c)
      BY <3>2 DEF Offer, TypeOK, Socket
    <3> QED BY <1>1, <3>1, <3>2
  <2> QED BY <2>1 DEF TypeOK, Live, thread, state, tables, queues, history
<1>2. ASSUME NEW c \in Conn, Accept(c)
      PROVE  TypeOK'
  <2>1. PICK a \in {c} \union {addr[d] : d \in {d \in Conn : mem[d] = "freed"}} :
               At(a) = {} /\ addr' = [addr EXCEPT ![c] = a]
    BY <1>2 DEF Accept
  <2>2. a \in Conn
    <3>1. \A d \in Conn : addr[d] \in Conn
      BY DEF TypeOK
    <3> QED BY <2>1, <3>1
  <2>3. /\ sock' \in [Conn -> Socket] /\ mem' \in [Conn -> {"none", "live", "freed"}]
        /\ addr' \in [Conn -> Conn] /\ sig' \subseteq {"add", "del", "send", "close"}
        /\ \A d \in Conn : /\ mem'[d] = IF d = c THEN "live" ELSE mem[d]
                           /\ addr'[d] = IF d = c THEN a ELSE addr[d]
    BY <1>2, <2>1, <2>2 DEF Accept, TypeOK, Socket
  <2>4. \A d, e \in Live' : addr'[d] = addr'[e] => d = e
    <3>1. \A d \in Live' : d = c \/ (d \in Live /\ addr[d] # a)
      BY <2>1, <2>3 DEF Live, At
    <3> QED BY <2>3, <3>1 DEF TypeOK, Live
  <2>5. UNCHANGED <<thread, state, tables, queues, user_tbl, sent, history, prog>>
    BY <1>2 DEF Accept
  <2> QED BY <2>3, <2>4, <2>5 DEF TypeOK, thread, state, tables, queues, history
<1>3. ASSUME NEW c \in Conn, Refuse(c)
      PROVE  TypeOK'
  <2>1. near' \subseteq Conn /\ mntpnt' \in [Conn -> Name \union {""}]
    <3>1. CASE UNCHANGED <<near, mntpnt>>
      BY <3>1 DEF TypeOK
    <3>2. ASSUME NEW m \in Name \union {""}, mntpnt' = [mntpnt EXCEPT ![c] = m],
                 near' = IF m = Near THEN near \union {c} ELSE near \ {c}
          PROVE  near' \subseteq Conn /\ mntpnt' \in [Conn -> Name \union {""}]
      BY <3>2 DEF TypeOK
    <3> QED BY <1>3, <3>1, <3>2, Zenon DEF Refuse
  <2>2. AskDeletion(c)
        /\ UNCHANGED <<thread, conns, auth, tables, send_queue, user_tbl, sent, moves, last, skipped, prog>>
    BY <1>3 DEF Refuse
  <2> QED BY <2>1, <2>2, AskTypes DEF TypeOK, Live, thread, conns, tables
<1>4. ASSUME NEW c \in Conn, NEW m \in Name, LetIn(c, m)
      PROVE  TypeOK'
  <2>1. auth' \subseteq Conn /\ near' \subseteq Conn /\ Subscribe(c, m, m)
        /\ UNCHANGED <<sig, thread, conns, queues, user_tbl, sent, moves, skipped, over, again>>
    BY <1>4 DEF LetIn, TypeOK
  <2> QED BY <2>1, SubscribeTypes DEF TypeOK, Live, thread, conns, queues
<1>5. ASSUME NEW c \in Conn, NEW m \in Mount, Position(c, m)
      PROVE  TypeOK'
  <2>1. m \in Name /\ Subscribe(c, mntpnt[c], m) /\ moves' \in 0 .. MaxMove
        /\ UNCHANGED <<sig, thread, conns, auth, near, queues, user_tbl, sent, skipped, over, again>>
    <3>1. moves + 1 \in 0 .. MaxMove
      <4>1. moves < MaxMove /\ moves \in 0 .. MaxMove
        BY <1>5 DEF Position, TypeOK
      <4> QED BY <4>1, Bounds
    <3> QED BY <1>5, <3>1 DEF Position, Name
  <2> QED BY <2>1, SubscribeTypes DEF TypeOK, Live, thread, conns, queues
<1>6. ASSUME NEW c \in Conn, End(c)
      PROVE  TypeOK'
  <2>1. sock' \in [Conn -> Socket] /\ AskDeletion(c)
        /\ UNCHANGED <<thread, mem, addr, state, tables, send_queue, user_tbl, sent, moves, last, skipped, prog>>
    BY <1>6 DEF End, TypeOK, Socket
  <2> QED BY <2>1, AskTypes DEF TypeOK, Live, thread, state, tables
<1>7. ASSUME Boot \/ Close \/ Drain("del") \/ Drained("del", del_queue)
             \/ Drain("send") \/ Drained("send", send_queue)
             \/ (\E u \in User : DelUser(u))
      PROVE  TypeOK'
  <2>1. /\ loop' \in {"off", "up", "failed", "ended", "joined"} /\ cb' \in {"none", "del", "send"}
        /\ sig' \subseteq {"add", "del", "send", "close"} /\ user_tbl' \subseteq User
        /\ prog' \in {"runs", "crashed"}
    BY <1>7 DEF Boot, Close, Drain, Drained, DelUser, Crash, TypeOK, thread
  <2>2. UNCHANGED <<conns, state, tables, queues, sent, history>>
    BY <1>7 DEF Boot, Close, Drain, Drained, DelUser
  <2> QED BY <2>1, <2>2 DEF TypeOK, Live, conns, state, tables, queues, history
<1>8. ASSUME DelTask
      PROVE  TypeOK'
  <2>1. del_queue' \in Seq(Conn)
        /\ UNCHANGED <<sig, thread, addr, cq_tbl, send_queue, user_tbl, sent, history>>
    <3>1. del_queue \in Seq(Conn) /\ del_queue # <<>> /\ del_queue' = Tail(del_queue)
      BY <1>8 DEF DelTask, TypeOK
    <3>2. Tail(del_queue) \in Seq(Conn)
      BY <3>1
    <3> QED BY <1>8, <3>1, <3>2 DEF DelTask
  <2>2. CASE UNCHANGED <<cs, sock, mem, state>> /\ prog' \in {"runs", "crashed"}
    BY <2>1, <2>2 DEF TypeOK, Live, thread, state, history
  <2>3. ASSUME NEW c \in At(Head(del_queue)),
               cs' = [m \in Name |-> IF m = mntpnt[c] THEN cs[m] \ {c} ELSE cs[m]],
               sock' = [sock EXCEPT ![c] = "closed"], mem' = [mem EXCEPT ![c] = "freed"],
               auth' = auth \ {c}, near' = near \ {c}, mntpnt' = [mntpnt EXCEPT ![c] = ""],
               UNCHANGED prog
        PROVE  TypeOK'
    <3>1. c \in Conn
      BY DEF At, Live
    <3>2. /\ cs' \in [Name -> SUBSET Conn] /\ sock' \in [Conn -> Socket]
          /\ mem' \in [Conn -> {"none", "live", "freed"}]
          /\ auth' \subseteq Conn /\ near' \subseteq Conn /\ mntpnt' \in [Conn -> Name \union {""}]
          /\ Live' \subseteq Live
      BY <2>3, <3>1 DEF TypeOK, Socket, Live
    <3> QED BY <2>1, <2>3, <3>2 DEF TypeOK, thread, history
  <2> QED BY <1>8, <2>2, <2>3 DEF DelTask
<1>9. ASSUME NEW m \in Mount, Send(m)
      PROVE  TypeOK'
  <2>1. m \in Name /\ sent[m] + 1 \in 1 .. MaxChunk
    <3>1. m \in Name
      BY DEF Name
    <3>2. sent[m] \in 0 .. MaxChunk /\ sent[m] < MaxChunk /\ MaxChunk \in Nat
      BY <1>9, <3>1, Bounds DEF Send, TypeOK
    <3> QED BY <3>1, <3>2
  <2>2. /\ sent' \in [Name -> 0 .. MaxChunk] /\ send_queue' \in Seq(Name \X (1 .. MaxChunk))
        /\ sig' \subseteq {"add", "del", "send", "close"}
    <3>1. sent[m] + 1 \in 0 .. MaxChunk
      BY <2>1
    <3>2. sent' = [sent EXCEPT ![m] = sent[m] + 1]
      BY <1>9 DEF Send
    <3>3. sent' \in [Name -> 0 .. MaxChunk]
      BY <2>1, <3>1, <3>2 DEF TypeOK
    <3>4. <<m, sent[m] + 1>> \in Name \X (1 .. MaxChunk)
      BY <2>1
    <3>5. send_queue \in Seq(Name \X (1 .. MaxChunk)) /\ send_queue' = Append(send_queue, <<m, sent[m] + 1>>)
      BY <1>9 DEF Send, TypeOK
    <3>6. send_queue' \in Seq(Name \X (1 .. MaxChunk))
      BY <3>4, <3>5
    <3> QED BY <1>9, <3>3, <3>6 DEF Send, TypeOK
  <2>3. UNCHANGED <<thread, conns, state, tables, del_queue, user_tbl, history, prog>>
    BY <1>9 DEF Send
  <2> QED BY <2>2, <2>3 DEF TypeOK, Live, thread, conns, state, tables, history
<1>10. ASSUME SendTask
       PROVE  TypeOK'
  <2>1. Head(send_queue) \in Name \X (1 .. MaxChunk)
        /\ send_queue' \in Seq(Name \X (1 .. MaxChunk))
    <3>1. /\ send_queue \in Seq(Name \X (1 .. MaxChunk)) /\ send_queue # <<>>
          /\ send_queue' = Tail(send_queue)
      BY <1>10 DEF SendTask, TypeOK
    <3> QED BY <3>1
  <2>2. last' \in [Conn -> 0 .. MaxChunk] /\ skipped' \subseteq Conn
    <3>1. Head(send_queue)[2] \in 0 .. MaxChunk
      BY <2>1, Bounds
    <3>2. cs[Head(send_queue)[1]] \subseteq Conn
      BY <2>1 DEF TypeOK
    <3>3. Distribute(Head(send_queue))
      BY <1>10 DEF SendTask
    <3> QED BY <3>1, <3>2, <3>3 DEF Distribute, TypeOK
  <2>3. UNCHANGED <<sig, thread, conns, state, tables, del_queue, user_tbl, sent, moves, over, again, prog>>
    BY <1>10 DEF SendTask
  <2> QED BY <2>1, <2>2, <2>3 DEF TypeOK, Live, thread, conns, state, tables
<1>11. ASSUME EndLoop
       PROVE  TypeOK'
  <2>1. sock' \in [Conn -> Socket] /\ loop' = "ended"
        /\ UNCHANGED <<sig, cb, mem, addr, state, tables, queues, user_tbl, sent, history, prog>>
    BY <1>11 DEF EndLoop, TypeOK, Socket
  <2> QED BY <2>1 DEF TypeOK, Live, state, tables, queues, history
<1>12. ASSUME Joined
       PROVE  TypeOK'
  <2>1. /\ mem' \in [Conn -> {"none", "live", "freed"}] /\ Live' = {} /\ loop' = "joined"
        /\ cs' \in [Name -> SUBSET Conn] /\ user_tbl' = {}
        /\ UNCHANGED <<sig, cb, sock, addr, state, cq_tbl, queues, sent, history, prog>>
    BY <1>12 DEF Joined, TypeOK, Live
  <2> QED BY <2>1 DEF TypeOK, state, queues, history
<1> QED
  BY <1>1, <1>2, <1>3, <1>4, <1>5, <1>6, <1>7, <1>8, <1>9, <1>10, <1>11, <1>12
  DEF Next, Loop

-----------------------------------------------------------------------------
(* The parts of the invariant.                                             *)

\* The connection that a task of the queue deletes, if there is one.
Deleted(c) ==
  /\ c \in Live /\ addr[c] = Head(del_queue)
  /\ cs' = [m \in Name |-> IF m = mntpnt[c] THEN cs[m] \ {c} ELSE cs[m]]
  /\ sock' = [sock EXCEPT ![c] = "closed"] /\ mem' = [mem EXCEPT ![c] = "freed"]
  /\ auth' = auth \ {c} /\ mntpnt' = [mntpnt EXCEPT ![c] = ""]
  /\ prog' = prog

NobodyDeleted ==
  /\ \A c \in Live : addr[c] # Head(del_queue)
  /\ UNCHANGED <<cs, sock, mem, auth, mntpnt>>

LEMMA DelTaskCases ==
  ASSUME DelTask
  PROVE  (\E c \in Conn : Deleted(c)) \/ NobodyDeleted
BY DEF DelTask, Deleted, NobodyDeleted, At, Live, state

\* What a subscription does, where it does not crash.
Subscribed1(c, old, m) ==
  \/ c \in cs[m] /\ UNCHANGED <<cs, mntpnt, last>>
  \/ /\ c \notin cs[m] /\ (old = m \/ c \in cs[old])
     /\ \A n \in Name : cs'[n] = IF n = m THEN cs[n] \union {c}
                                 ELSE IF n = old THEN cs[n] \ {c} ELSE cs[n]
     /\ \A d \in Conn : /\ mntpnt'[d] = IF d = c THEN m ELSE mntpnt[d]
                        /\ last'[d] = IF d = c THEN 0 ELSE last[d]
     /\ prog' = prog
  \/ c \notin cs[m] /\ old # m /\ c \notin cs[old] /\ UNCHANGED <<cs, mntpnt, last>>

LEMMA SubscribeCases ==
  ASSUME TypeOK, NEW c \in Conn, NEW old, NEW m \in Name, Subscribe(c, old, m)
  PROVE  Subscribed1(c, old, m)
<1>1. CASE UNCHANGED <<cs, mntpnt, last>>
  BY <1>1 DEF Subscribe, Subscribed1
<1>2. CASE /\ c \notin cs[m] /\ (old = m \/ c \in cs[old])
           /\ cs' = [n \in Name |-> IF n = m THEN cs[n] \union {c}
                                    ELSE IF n = old THEN cs[n] \ {c} ELSE cs[n]]
           /\ mntpnt' = [mntpnt EXCEPT ![c] = m] /\ last' = [last EXCEPT ![c] = 0]
           /\ UNCHANGED prog
  BY <1>2 DEF Subscribed1, TypeOK
<1> QED BY <1>1, <1>2 DEF Subscribe

LEMMA StructuresStep ==
  ASSUME TypeOK, Structures, prog = "runs", Next
  PROVE  Structures'
<1>0. sock \in [Conn -> Socket] /\ mem \in [Conn -> {"none", "live", "freed"}]
  BY DEF TypeOK
<1>1. CASE UNCHANGED <<loop, cb, sock, mem>>
  BY <1>1 DEF Structures
<1>2. CASE Boot \/ Drain("del") \/ Drained("del", del_queue) \/ Drain("send") \/ Drained("send", send_queue)
  <2>1. UNCHANGED <<sock, mem>> /\ (cb' # "none" => loop' = "up")
        /\ (loop' = loop \/ (loop = "off" /\ loop' \in {"up", "failed"}))
    BY <1>2 DEF Boot, Drain, Drained, Idle, conns, Structures
  <2> QED BY <2>1 DEF Structures
<1>3. ASSUME NEW c \in Conn, Arrive(c) \/ Offer(c) \/ End(c)
      PROVE  Structures'
  <2>1. CASE Arrive(c)
    BY <1>0, <2>1 DEF Arrive, thread, Structures
  <2>2. CASE Offer(c)
    BY <1>0, <2>2 DEF Offer, Idle, thread, Structures
  <2>3. CASE End(c)
    BY <1>0, <2>3 DEF End, Idle, thread, Structures
  <2> QED BY <1>3, <2>1, <2>2, <2>3
<1>4. ASSUME NEW c \in Conn, Accept(c)
      PROVE  Structures'
  BY <1>0, <1>4 DEF Accept, Idle, thread, Structures
<1>5. CASE DelTask
  <2>0. loop = "up" /\ UNCHANGED <<loop, cb>>
    BY <1>5 DEF DelTask, thread, Structures
  <2>1. ASSUME NEW c \in Conn, Deleted(c)
        PROVE  Structures'
    <3>1. mem[c] = "live"
      BY <2>1 DEF Deleted, Live
    <3>2. \A d \in Conn : /\ sock'[d] = IF d = c THEN "closed" ELSE sock[d]
                          /\ mem'[d] = IF d = c THEN "freed" ELSE mem[d]
      BY <1>0, <2>1 DEF Deleted
    <3> QED BY <2>0, <3>1, <3>2 DEF Structures
  <2>2. CASE NobodyDeleted
    BY <2>0, <2>2 DEF NobodyDeleted, Structures
  <2> QED BY <1>5, <2>1, <2>2, DelTaskCases
<1>6. CASE EndLoop
  BY <1>0, <1>6 DEF EndLoop, Idle, Structures
<1>7. CASE Joined
  BY <1>0, <1>7 DEF Joined, Structures
<1> QED
  BY <1>1, <1>2, <1>3, <1>4, <1>5, <1>6, <1>7
  DEF Next, Loop, Refuse, LetIn, Position, Send, SendTask, DelUser, Close, thread, conns

LEMMA BeforeStep ==
  ASSUME Structures, BeforeLoop, prog = "runs", Next
  PROVE  BeforeLoop'
<1> SUFFICES ASSUME loop' \in {"off", "failed"} PROVE BeforeLoop'
  BY DEF BeforeLoop
<1>1. Boot \/ Close \/ \E c \in Conn : Arrive(c)
  BY DEF Next, Loop, Idle, Drain, Drained, DelTask, SendTask, Structures, thread, EndLoop, Joined,
         Offer, Accept, Refuse, LetIn, Position, End, Send, DelUser
<1>2. UNCHANGED <<auth, del_queue, send_queue, cs>> /\ loop \in {"off", "failed"}
  BY <1>1 DEF Boot, Close, Arrive, state, tables, queues, thread
<1> QED BY <1>2 DEF BeforeLoop

\* A step that changes one connection.
LEMMA ListedOne ==
  ASSUME Listed, loop = "up", auth \subseteq Conn, auth' \subseteq Conn, NEW c \in Conn,
         \A d \in Conn : d # c => /\ mem'[d] = mem[d] /\ mntpnt'[d] = mntpnt[d]
                                  /\ d \in auth' <=> d \in auth
                                  /\ \A m \in Name : d \in cs'[m] <=> d \in cs[m],
         c \in auth' => mem'[c] = "live" /\ mntpnt'[c] \in Name,
         \A m \in Name : c \in cs'[m] <=> mem'[c] = "live" /\ c \in auth' /\ mntpnt'[c] = m
  PROVE  Listed'
<1>1. \A d \in auth : mem[d] = "live" /\ mntpnt[d] \in Name
  BY DEF Listed
<1>2. \A m \in Name, d \in Conn : d \in cs[m] <=> mem[d] = "live" /\ d \in auth /\ mntpnt[d] = m
  BY DEF Listed
<1>3. ASSUME NEW d \in auth'
      PROVE  mem'[d] = "live" /\ mntpnt'[d] \in Name
  BY <1>1, <1>3
<1>4. ASSUME NEW m \in Name, NEW d \in Conn
      PROVE  d \in cs'[m] <=> mem'[d] = "live" /\ d \in auth' /\ mntpnt'[d] = m
  BY <1>2, <1>4
<1> QED BY <1>3, <1>4 DEF Listed

\* A rover is in the table of its mount point and in no other.
LEMMA ListedStep ==
  ASSUME TypeOK, Structures, BeforeLoop, Listed, prog = "runs", Next
  PROVE  Listed'
<1>0. /\ mem \in [Conn -> {"none", "live", "freed"}] /\ auth \subseteq Conn
      /\ mntpnt \in [Conn -> Name \union {""}] /\ cs \in [Name -> SUBSET Conn] /\ Mount \subseteq Name
  BY DEF TypeOK, Name
<1>a. ASSUME loop = "up"
      PROVE  \A m \in Name, d \in Conn : d \in cs[m] <=> mem[d] = "live" /\ d \in auth /\ mntpnt[d] = m
  BY <1>a DEF Listed
<1>b. auth' \subseteq Conn
  BY TypesStep DEF TypeOK
<1>1. CASE UNCHANGED <<loop, auth, mem, mntpnt, cs>>
  BY <1>1 DEF Listed
<1>2. CASE Boot
  BY <1>2 DEF Boot, BeforeLoop, Listed, conns, state, tables
<1>3. ASSUME NEW c \in Conn, Accept(c)
      PROVE  Listed'
  <2>1. loop = "up" /\ mem[c] = "none" /\ UNCHANGED <<loop, auth, mntpnt, cs>>
    BY <1>3 DEF Accept, Idle, Structures, thread, state, tables
  <2>2. \A d \in Conn : d # c => mem'[d] = mem[d]
    BY <1>0, <1>3 DEF Accept
  <2>3. c \notin auth
    BY <2>1 DEF Listed
  <2>4. \A m \in Name : c \notin cs[m]
    BY <1>a, <2>1
  <2> QED BY <1>0, <2>1, <2>2, <2>3, <2>4, ListedOne
<1>4. ASSUME NEW c \in Conn, Refuse(c)
      PROVE  Listed'
  <2>1. loop = "up" /\ c \notin auth /\ UNCHANGED <<loop, auth, mem, cs>>
    BY <1>4 DEF Refuse, Idle, thread, conns, tables
  <2>2. \A d \in Conn : d # c => mntpnt'[d] = mntpnt[d]
    <3>1. CASE UNCHANGED mntpnt
      BY <3>1
    <3>2. CASE \E m \in Name \union {""} : mntpnt' = [mntpnt EXCEPT ![c] = m]
      BY <1>0, <3>2
    <3> QED BY <1>4, <3>1, <3>2 DEF Refuse
  <2>3. \A m \in Name : c \notin cs[m]
    BY <1>a, <2>1
  <2> QED BY <1>0, <2>1, <2>2, <2>3, ListedOne
<1>5. ASSUME NEW c \in Conn, NEW m \in Name, LetIn(c, m)
      PROVE  Listed'
  <2>1. loop = "up" /\ mem[c] = "live" /\ c \notin auth /\ auth' = auth \union {c}
        /\ UNCHANGED <<loop, mem>> /\ Subscribe(c, m, m)
    BY <1>5 DEF LetIn, Idle, Structures, thread, conns
  <2>2. \A n \in Name : c \notin cs[n]
    BY <1>a, <2>1
  <2>3. Subscribed1(c, m, m)
    BY <2>1, SubscribeCases
  <2>4. /\ \A n \in Name : cs'[n] = IF n = m THEN cs[n] \union {c} ELSE cs[n]
        /\ \A d \in Conn : mntpnt'[d] = IF d = c THEN m ELSE mntpnt[d]
    BY <2>2, <2>3 DEF Subscribed1
  <2>5. \A n \in Name : c \in cs'[n] <=> n = m
    BY <2>2, <2>4
  <2>6. mntpnt'[c] = m /\ mem'[c] = "live" /\ c \in auth'
    BY <2>1, <2>4
  <2>7. \A d \in Conn : d # c => /\ mem'[d] = mem[d] /\ mntpnt'[d] = mntpnt[d]
                                 /\ d \in auth' <=> d \in auth
                                 /\ \A n \in Name : d \in cs'[n] <=> d \in cs[n]
    BY <2>1, <2>4
  <2> QED BY <1>0, <1>b, <2>1, <2>5, <2>6, <2>7, ListedOne
<1>6. ASSUME NEW c \in Conn, NEW m \in Mount, Position(c, m)
      PROVE  Listed'
  <2>1. loop = "up" /\ mem[c] = "live" /\ c \in auth /\ m \in Name
        /\ UNCHANGED <<loop, mem, auth>> /\ Subscribe(c, mntpnt[c], m)
    BY <1>0, <1>6 DEF Position, Idle, Structures, thread, conns
  <2>2. mntpnt[c] \in Name /\ \A n \in Name : c \in cs[n] <=> n = mntpnt[c]
    <3>1. mntpnt[c] \in Name
      BY <2>1 DEF Listed
    <3> QED BY <1>a, <2>1, <3>1
  <2>3. Subscribed1(c, mntpnt[c], m)
    BY <2>1, SubscribeCases
  <2>4. CASE UNCHANGED <<cs, mntpnt>>
    BY <2>1, <2>4 DEF Listed
  <2>5. CASE /\ \A n \in Name : cs'[n] = IF n = m THEN cs[n] \union {c}
                                         ELSE IF n = mntpnt[c] THEN cs[n] \ {c} ELSE cs[n]
             /\ \A d \in Conn : mntpnt'[d] = IF d = c THEN m ELSE mntpnt[d]
    <3>1. \A n \in Name : c \in cs'[n] <=> n = m
      BY <2>2, <2>5
    <3>2. mntpnt'[c] = m /\ mem'[c] = "live" /\ c \in auth'
      BY <2>1, <2>5
    <3>3. \A d \in Conn : d # c => /\ mem'[d] = mem[d] /\ mntpnt'[d] = mntpnt[d]
                                   /\ d \in auth' <=> d \in auth
                                   /\ \A n \in Name : d \in cs'[n] <=> d \in cs[n]
      BY <2>1, <2>5
    <3> QED BY <1>0, <1>b, <2>1, <3>1, <3>2, <3>3, ListedOne
  <2> QED BY <2>2, <2>3, <2>4, <2>5 DEF Subscribed1
<1>7. CASE DelTask
  <2>0. loop = "up" /\ UNCHANGED <<loop, cb>>
    BY <1>7 DEF DelTask, thread, Structures
  <2>1. ASSUME NEW c \in Conn, Deleted(c)
        PROVE  Listed'
    <3>1. /\ \A m \in Name : cs'[m] = IF m = mntpnt[c] THEN cs[m] \ {c} ELSE cs[m]
          /\ \A d \in Conn : /\ mem'[d] = IF d = c THEN "freed" ELSE mem[d]
                             /\ mntpnt'[d] = IF d = c THEN "" ELSE mntpnt[d]
          /\ auth' = auth \ {c}
      BY <1>0, <2>1 DEF Deleted
    <3>2. ASSUME NEW m \in Name
          PROVE  c \notin cs'[m]
      <4>1. CASE m = mntpnt[c]
        BY <3>1, <4>1
      <4>2. CASE m # mntpnt[c]
        BY <1>a, <2>0, <3>1, <4>2
      <4> QED BY <4>1, <4>2
    <3>3. \A d \in Conn : d # c => /\ mem'[d] = mem[d] /\ mntpnt'[d] = mntpnt[d]
                                   /\ d \in auth' <=> d \in auth
                                   /\ \A n \in Name : d \in cs'[n] <=> d \in cs[n]
      BY <3>1
    <3>4. c \notin auth'
      BY <3>1
    <3> QED BY <1>0, <1>b, <2>0, <3>2, <3>3, <3>4, ListedOne
  <2>2. CASE NobodyDeleted
    BY <2>0, <2>2 DEF NobodyDeleted, Listed
  <2> QED BY <1>7, <2>1, <2>2, DelTaskCases
<1>8. CASE EndLoop \/ Joined
  BY <1>8 DEF EndLoop, Joined, Listed
<1> QED
  BY <1>1, <1>2, <1>3, <1>4, <1>5, <1>6, <1>7, <1>8
  DEF Next, Loop, Arrive, Offer, End, Drain, Drained, Send, SendTask, DelUser, Close, thread,
      conns, state, tables

-----------------------------------------------------------------------------
(* The chunks.                                                             *)

\* The end and the rest of a queue.
LEMMA AppendAt ==
  ASSUME NEW S, NEW q \in Seq(S), NEW x \in S
  PROVE  /\ DOMAIN Append(q, x) = 1 .. Len(q) + 1 /\ DOMAIN q = 1 .. Len(q) /\ Len(q) \in Nat
         /\ \A i \in 1 .. Len(q) : Append(q, x)[i] = q[i]
         /\ Append(q, x)[Len(q) + 1] = x
OBVIOUS

LEMMA TailAt ==
  ASSUME NEW S, NEW q \in Seq(S), q # <<>>
  PROVE  /\ \A i \in DOMAIN Tail(q) : i \in Nat \ {0} /\ i + 1 \in DOMAIN q /\ Tail(q)[i] = q[i + 1]
         /\ \A j \in DOMAIN q : /\ j \in Nat /\ j >= 1
                                /\ j # 1 => j - 1 \in DOMAIN Tail(q) /\ Tail(q)[j - 1] = q[j]
         /\ 1 \in DOMAIN q /\ Head(q) = q[1] /\ Head(q) \in S /\ Tail(q) \in Seq(S)
<1>1. Len(q) \in Nat \ {0} /\ DOMAIN q = 1 .. Len(q) /\ DOMAIN Tail(q) = 1 .. Len(q) - 1
  OBVIOUS
<1>2. \A i \in 1 .. Len(q) - 1 : Tail(q)[i] = q[i + 1]
  OBVIOUS
<1>3. ASSUME NEW i \in DOMAIN Tail(q)
      PROVE  i \in Nat \ {0} /\ i + 1 \in DOMAIN q
  BY ONLY <1>1, <1>3
<1>4. ASSUME NEW j \in DOMAIN q
      PROVE  j \in Nat /\ j >= 1 /\ (j # 1 => j - 1 \in 1 .. Len(q) - 1 /\ (j - 1) + 1 = j)
  BY ONLY <1>1, <1>4
<1>5. 1 \in DOMAIN q
  BY ONLY <1>1
<1>6. Head(q) = q[1] /\ Head(q) \in S /\ Tail(q) \in Seq(S)
  OBVIOUS
<1>7. ASSUME NEW j \in DOMAIN q, j # 1
      PROVE  Tail(q)[j - 1] = q[j]
  <2>1. Tail(q)[j - 1] = q[(j - 1) + 1]
    BY <1>2, <1>4, <1>7
  <2> QED BY <1>4, <1>7, <2>1
<1> QED BY <1>1, <1>2, <1>3, <1>4, <1>5, <1>6, <1>7

LEMMA AppendInOrder ==
  ASSUME NEW q \in Seq(Name \X Nat), NEW s \in [Name -> Nat], NEW m \in Name, InOrder(q, s)
  PROVE  InOrder(Append(q, <<m, s[m] + 1>>), [s EXCEPT ![m] = s[m] + 1])
<1> DEFINE x == <<m, s[m] + 1>>
           p == Append(q, x)
           t == [s EXCEPT ![m] = s[m] + 1]
<1>1. x \in Name \X Nat /\ x[1] = m /\ x[2] = s[m] + 1 /\ s[m] \in Nat
  OBVIOUS
<1>2. /\ DOMAIN p = 1 .. Len(q) + 1 /\ DOMAIN q = 1 .. Len(q) /\ Len(q) \in Nat
      /\ \A i \in 1 .. Len(q) : p[i] = q[i]
      /\ p[Len(q) + 1] = x
  BY <1>1, AppendAt
<1>3. \A n \in Name : t[n] = IF n = m THEN s[m] + 1 ELSE s[n]
  OBVIOUS
<1>4. \A i \in 1 .. Len(q) : q[i][1] \in Name /\ q[i][2] \in Nat /\ q[i] = <<q[i][1], q[i][2]>>
  BY <1>2
<1> HIDE DEF p, t, x
<1>5. ASSUME NEW i \in DOMAIN p
      PROVE  /\ p[i][2] <= t[p[i][1]]
             /\ \/ p[i][2] = t[p[i][1]]
                \/ \E j \in DOMAIN p : i < j /\ p[j] = <<p[i][1], p[i][2] + 1>>
             /\ \A j \in DOMAIN p : i < j /\ p[j][1] = p[i][1] => p[i][2] < p[j][2]
  <2>1. CASE i = Len(q) + 1
    <3>1. p[i][1] = m /\ p[i][2] = s[m] + 1 /\ t[m] = s[m] + 1
      BY <1>1, <1>2, <1>3, <2>1
    <3>2. p[i][2] <= t[p[i][1]] /\ p[i][2] = t[p[i][1]]
      BY <1>1, <3>1
    <3>3. ASSUME NEW j \in DOMAIN p
          PROVE  ~ (i < j)
      BY <1>2, <2>1, <3>3
    <3> QED BY <3>2, <3>3
  <2>2. CASE i \in 1 .. Len(q)
    <3> DEFINE a == q[i][1]
               n == q[i][2]
    <3>1. p[i] = q[i] /\ a \in Name /\ n \in Nat /\ i \in DOMAIN q /\ s[a] \in Nat
      BY <1>2, <1>4, <2>2
    <3>2. /\ n <= s[a]
          /\ n = s[a] \/ \E j \in DOMAIN q : i < j /\ q[j] = <<a, n + 1>>
          /\ \A j \in DOMAIN q : i < j /\ q[j][1] = a => n < q[j][2]
      BY <3>1 DEF InOrder
    <3> HIDE DEF a, n
    <3>3. n <= t[a]
      <4>1. t[a] = s[a] \/ t[a] = s[a] + 1
        BY <1>3, <3>1
      <4> QED BY ONLY <3>1, <3>2, <4>1
    <3>4. n = t[a] \/ \E j \in DOMAIN p : i < j /\ p[j] = <<a, n + 1>>
      <4>1. CASE n = s[a] /\ a = m
        <5>1. x = <<a, n + 1>>
          BY <4>1 DEF x
        <5>2. Len(q) + 1 \in DOMAIN p /\ i < Len(q) + 1
          BY <1>2, <2>2
        <5> QED BY <1>2, <5>1, <5>2
      <4>2. CASE n = s[a] /\ a # m
        BY <1>3, <3>1, <4>2
      <4>3. ASSUME NEW j \in DOMAIN q, i < j, q[j] = <<a, n + 1>>
            PROVE  \E l \in DOMAIN p : i < l /\ p[l] = <<a, n + 1>>
        <5>1. j \in DOMAIN p /\ p[j] = q[j]
          BY <1>2, <4>3
        <5> QED BY <4>3, <5>1
      <4> QED BY <3>2, <4>1, <4>2, <4>3
    <3>5. ASSUME NEW j \in DOMAIN p, i < j, p[j][1] = a
          PROVE  n < p[j][2]
      <4>1. CASE j \in 1 .. Len(q)
        BY <1>2, <3>2, <3>5, <4>1
      <4>2. CASE j = Len(q) + 1
        <5>1. a = m /\ p[j][2] = s[m] + 1
          BY <1>1, <1>2, <3>5, <4>2
        <5>2. n <= s[m] /\ n \in Nat /\ s[m] \in Nat
          BY <1>1, <3>1, <3>2, <5>1
        <5> QED BY ONLY <5>1, <5>2
      <4> QED BY <1>2, <4>1, <4>2
    <3> QED BY <3>1, <3>3, <3>4, <3>5 DEF a, n
  <2>3. i \in 1 .. Len(q) \/ i = Len(q) + 1
    BY <1>2
  <2> QED BY <2>1, <2>2, <2>3
<1> QED BY <1>5 DEF InOrder, p, t, x

LEMMA TailInOrder ==
  ASSUME NEW q \in Seq(Name \X Nat), NEW s \in [Name -> Nat], q # <<>>, InOrder(q, s)
  PROVE  InOrder(Tail(q), s)
<1> DEFINE p == Tail(q)
<1>1. /\ \A i \in DOMAIN p : i \in Nat \ {0} /\ i + 1 \in DOMAIN q /\ p[i] = q[i + 1]
      /\ \A j \in DOMAIN q : /\ j \in Nat /\ j >= 1
                             /\ j # 1 => j - 1 \in DOMAIN p /\ p[j - 1] = q[j]
  BY TailAt
<1> HIDE DEF p
<1>2. ASSUME NEW i \in DOMAIN p
      PROVE  /\ p[i][2] <= s[p[i][1]]
             /\ \/ p[i][2] = s[p[i][1]]
                \/ \E j \in DOMAIN p : i < j /\ p[j] = <<p[i][1], p[i][2] + 1>>
             /\ \A j \in DOMAIN p : i < j /\ p[j][1] = p[i][1] => p[i][2] < p[j][2]
  <2>1. p[i] = q[i + 1] /\ i + 1 \in DOMAIN q
    BY <1>1
  <2>2. p[i][2] <= s[p[i][1]]
    BY <2>1 DEF InOrder
  <2>3. ASSUME NEW j \in DOMAIN q, i + 1 < j, q[j] = <<p[i][1], p[i][2] + 1>>
        PROVE  \E l \in DOMAIN p : i < l /\ p[l] = <<p[i][1], p[i][2] + 1>>
    <3>1. i \in Nat /\ j \in Nat
      BY <1>1
    <3>2. j # 1 /\ i < j - 1
      BY ONLY <2>3, <3>1
    <3>3. j - 1 \in DOMAIN p /\ p[j - 1] = q[j]
      BY <1>1, <3>2, Zenon
    <3> QED BY <2>3, <3>2, <3>3
  <2>4. p[i][2] = s[p[i][1]] \/ \E j \in DOMAIN q : i + 1 < j /\ q[j] = <<p[i][1], p[i][2] + 1>>
    BY <2>1 DEF InOrder
  <2>5. ASSUME NEW j \in DOMAIN p, i < j, p[j][1] = p[i][1]
        PROVE  p[i][2] < p[j][2]
    <3>1. p[j] = q[j + 1] /\ j + 1 \in DOMAIN q /\ i + 1 < j + 1
      <4>1. i \in Nat /\ j \in Nat /\ p[j] = q[j + 1] /\ j + 1 \in DOMAIN q
        BY <1>1
      <4> QED BY <2>5, <4>1
    <3>2. q[j + 1][1] = q[i + 1][1] => q[i + 1][2] < q[j + 1][2]
      BY <2>1, <3>1 DEF InOrder
    <3> QED BY <2>1, <2>5, <3>1, <3>2
  <2> QED BY <2>2, <2>3, <2>4, <2>5
<1> QED BY <1>2 DEF InOrder, p

LEMMA AppendGetsNext ==
  ASSUME NEW q \in Seq(Name \X Nat), NEW s \in [Name -> Nat], NEW m \in Name, InOrder(q, s),
         NEW l \in Name, NEW n \in Nat, GetsNext(q, s, l, n)
  PROVE  GetsNext(Append(q, <<m, s[m] + 1>>), [s EXCEPT ![m] = s[m] + 1], l, n)
<1> DEFINE x == <<m, s[m] + 1>>
           p == Append(q, x)
           t == [s EXCEPT ![m] = s[m] + 1]
<1>1. x \in Name \X Nat /\ x[1] = m /\ x[2] = s[m] + 1 /\ s[m] \in Nat
  OBVIOUS
<1>2. /\ DOMAIN p = 1 .. Len(q) + 1 /\ DOMAIN q = 1 .. Len(q) /\ Len(q) \in Nat
      /\ \A i \in 1 .. Len(q) : p[i] = q[i]
      /\ p[Len(q) + 1] = x
  BY <1>1, AppendAt
<1>3. t[l] = IF l = m THEN s[m] + 1 ELSE s[l]
  OBVIOUS
<1> HIDE DEF p, t, x
<1>4. n <= s[l]
  <2>1. CASE n = s[l]
    BY <2>1
  <2>2. ASSUME NEW i \in DOMAIN q, q[i] = <<l, n + 1>>
        PROVE  n <= s[l]
    <3>1. n + 1 <= s[l]
      BY <2>2 DEF InOrder
    <3>2. s[l] \in Nat
      OBVIOUS
    <3> QED BY <3>1, <3>2
  <2> QED BY <2>1, <2>2 DEF GetsNext
<1>5. n = t[l] \/ \E i \in DOMAIN p : p[i] = <<l, n + 1>>
  <2>1. CASE n = s[l] /\ l = m
    <3>1. x = <<l, n + 1>>
      BY <2>1 DEF x
    <3>2. Len(q) + 1 \in DOMAIN p
      BY <1>2
    <3> QED BY <1>2, <3>1, <3>2
  <2>2. CASE n = s[l] /\ l # m
    BY <1>3, <2>2
  <2>3. ASSUME NEW i \in DOMAIN q, q[i] = <<l, n + 1>>
        PROVE  \E j \in DOMAIN p : p[j] = <<l, n + 1>>
    <3>1. i \in DOMAIN p /\ p[i] = q[i]
      BY <1>2, <2>3
    <3> QED BY <2>3, <3>1
  <2> QED BY <2>1, <2>2, <2>3 DEF GetsNext
<1>6. ASSUME NEW i \in DOMAIN p, p[i][1] = l
      PROVE  n < p[i][2]
  <2>1. CASE i \in 1 .. Len(q)
    BY <1>2, <1>6, <2>1 DEF GetsNext
  <2>2. CASE i = Len(q) + 1
    <3>1. l = m /\ p[i][2] = s[m] + 1
      BY <1>1, <1>2, <1>6, <2>2
    <3> QED BY <1>1, <1>4, <3>1
  <2> QED BY <1>2, <2>1, <2>2
<1> QED BY <1>5, <1>6 DEF GetsNext, p, t, x

\* Who does not get the first chunk keeps what comes next.
LEMMA TailGetsNext ==
  ASSUME NEW q \in Seq(Name \X Nat), NEW s \in [Name -> Nat], q # <<>>,
         NEW m \in Name, NEW n \in Nat, GetsNext(q, s, m, n), Head(q)[1] # m
  PROVE  GetsNext(Tail(q), s, m, n)
<1> DEFINE p == Tail(q)
<1>1. /\ \A i \in DOMAIN p : i \in Nat \ {0} /\ i + 1 \in DOMAIN q /\ p[i] = q[i + 1]
      /\ \A j \in DOMAIN q : /\ j \in Nat /\ j >= 1
                             /\ j # 1 => j - 1 \in DOMAIN p /\ p[j - 1] = q[j]
      /\ Head(q) = q[1]
  BY TailAt
<1> HIDE DEF p
<1>2. ASSUME NEW i \in DOMAIN q, q[i] = <<m, n + 1>>
      PROVE  \E j \in DOMAIN p : p[j] = <<m, n + 1>>
  <2>1. i # 1
    BY <1>1, <1>2
  <2>2. i - 1 \in DOMAIN p /\ p[i - 1] = q[i]
    BY <1>1, <2>1, Zenon
  <2> QED BY <1>2, <2>2
<1>3. ASSUME NEW i \in DOMAIN p, p[i][1] = m
      PROVE  n < p[i][2]
  <2>1. i + 1 \in DOMAIN q /\ p[i] = q[i + 1]
    BY <1>1
  <2> QED BY <1>3, <2>1 DEF GetsNext
<1> QED BY <1>2, <1>3 DEF GetsNext, p

\* The first chunk is the next, and after it comes what waits.
LEMMA HeadGetsNext ==
  ASSUME NEW q \in Seq(Name \X Nat), NEW s \in [Name -> Nat], q # <<>>, InOrder(q, s)
  PROVE  /\ GetsNext(Tail(q), s, Head(q)[1], Head(q)[2])
         /\ \A n \in Nat : GetsNext(q, s, Head(q)[1], n) => n = Head(q)[2] - 1
<1> DEFINE p == Tail(q)
           m == Head(q)[1]
           k == Head(q)[2]
<1>1. /\ \A i \in DOMAIN p : i \in Nat \ {0} /\ i + 1 \in DOMAIN q /\ p[i] = q[i + 1]
      /\ \A j \in DOMAIN q : /\ j \in Nat /\ j >= 1
                             /\ j # 1 => j - 1 \in DOMAIN p /\ p[j - 1] = q[j]
      /\ 1 \in DOMAIN q /\ Head(q) = q[1] /\ Head(q) \in Name \X Nat
  BY TailAt
<1>2. m \in Name /\ k \in Nat /\ q[1][1] = m /\ q[1][2] = k /\ 1 \in DOMAIN q /\ s[m] \in Nat
  BY <1>1
<1> HIDE DEF p, m, k
<1>3. /\ k <= s[m]
      /\ k = s[m] \/ \E j \in DOMAIN q : 1 < j /\ q[j] = <<m, k + 1>>
      /\ \A j \in DOMAIN q : 1 < j /\ q[j][1] = m => k < q[j][2]
  BY <1>2 DEF InOrder
<1>4. ASSUME NEW j \in DOMAIN q, 1 < j
      PROVE  j - 1 \in DOMAIN p /\ p[j - 1] = q[j]
  <2>1. j # 1
    BY <1>1, <1>4
  <2> QED BY <1>1, <2>1, Zenon
<1>5. ASSUME NEW i \in DOMAIN p, p[i][1] = m
      PROVE  k < p[i][2]
  <2>1. i + 1 \in DOMAIN q /\ 1 < i + 1 /\ p[i] = q[i + 1]
    <3>1. i \in Nat \ {0} /\ i + 1 \in DOMAIN q /\ p[i] = q[i + 1]
      BY <1>1
    <3> QED BY <3>1
  <2> QED BY <1>3, <1>5, <2>1
<1>6. GetsNext(p, s, m, k)
  BY <1>3, <1>4, <1>5 DEF GetsNext
<1>7. ASSUME NEW n \in Nat, GetsNext(q, s, m, n)
      PROVE  n = k - 1
  <2>1. n < k
    BY <1>2, <1>7 DEF GetsNext
  <2>2. n # s[m]
    BY <1>2, <1>3, <2>1
  <2>3. PICK i \in DOMAIN q : q[i] = <<m, n + 1>>
    BY <1>7, <2>2 DEF GetsNext
  <2>4. CASE i = 1
    BY <1>2, <2>3, <2>4
  <2>5. CASE i # 1
    <3>1. 1 < i
      BY <1>1, <2>5
    <3>2. k < n + 1
      <4>1. q[i][1] = m /\ q[i][2] = n + 1
        BY <2>3
      <4> QED BY <1>3, <3>1, <4>1
    <3> QED BY <1>2, <2>1, <3>2
  <2> QED BY <2>4, <2>5
<1> QED BY <1>6, <1>7 DEF p, m, k

\* A step that leaves the chunks alone, and nobody new who has got one.
LEMMA ChunksKept ==
  ASSUME Chunks, UNCHANGED <<send_queue, sent, skipped>>,
         \A m \in Name : \A c \in cs'[m] : sock'[c] = "open" /\ last'[c] # 0 =>
             c \in cs[m] /\ sock[c] = "open" /\ last'[c] = last[c]
  PROVE  Chunks'
<1>1. ASSUME NEW m \in Name, NEW c \in cs'[m], sock'[c] = "open", last'[c] # 0
      PROVE  GetsNext(send_queue, sent, m, last'[c])
  <2>1. c \in cs[m] /\ sock[c] = "open" /\ last[c] # 0 /\ last'[c] = last[c]
    BY <1>1
  <2> QED BY <2>1 DEF Chunks
<1>2. InOrder(send_queue, sent) /\ NoGaps
  BY DEF Chunks
<1> QED BY <1>1, <1>2 DEF Chunks, NoGaps

\* Everybody gets every chunk of his mount point, in order.
LEMMA ChunksStep ==
  ASSUME TypeOK, Structures, BeforeLoop, Listed, Chunks, prog = "runs", Next
  PROVE  Chunks'
<1>0. /\ sock \in [Conn -> Socket] /\ cs \in [Name -> SUBSET Conn] /\ Mount \subseteq Name
  BY DEF TypeOK, Name
<1>a. ASSUME loop = "up"
      PROVE  \A m \in Name, d \in Conn : d \in cs[m] <=> mem[d] = "live" /\ d \in auth /\ mntpnt[d] = m
  BY <1>a DEF Listed
<1>b. /\ send_queue \in Seq(Name \X Nat) /\ sent \in [Name -> Nat]
      /\ \A c \in Conn : last[c] \in Nat
  <2>1. 0 .. MaxChunk \subseteq Nat /\ 1 .. MaxChunk \subseteq Nat
    BY Bounds
  <2>2. Name \X (1 .. MaxChunk) \subseteq Name \X Nat
    BY <2>1
  <2>3. send_queue \in Seq(Name \X Nat)
    <3>1. send_queue \in Seq(Name \X (1 .. MaxChunk))
      BY DEF TypeOK
    <3> HIDE DEF Name
    <3>2. ASSUME NEW S, NEW T, S \subseteq T, NEW q \in Seq(S)
          PROVE  q \in Seq(T)
      BY <3>2
    <3> QED BY <2>2, <3>1, <3>2, Zenon
  <2> QED BY <2>1, <2>3 DEF TypeOK
<1>1. CASE UNCHANGED <<send_queue, sent, skipped, cs, last, sock>>
  BY <1>1, ChunksKept
<1>2. ASSUME NEW c \in Conn, Arrive(c) \/ Offer(c) \/ End(c)
      PROVE  Chunks'
  <2>1. UNCHANGED <<send_queue, sent, skipped, cs, last>>
    BY <1>2 DEF Arrive, Offer, End, queues, tables, history
  <2>2. \A d \in Conn : sock'[d] = "open" => sock[d] = "open"
    BY <1>0, <1>2 DEF Arrive, Offer, End
  <2>3. \A m \in Name : cs[m] \subseteq Conn
    BY <1>0
  <2> QED BY <2>1, <2>2, <2>3, ChunksKept
<1>3. ASSUME NEW c \in Conn, Accept(c)
      PROVE  Chunks'
  <2>1. UNCHANGED <<send_queue, sent, skipped, cs, last>> /\ mem[c] = "none" /\ loop = "up"
    BY <1>3 DEF Accept, Idle, Structures, queues, tables, history
  <2>2. \A d \in Conn : d # c => sock'[d] = sock[d]
    BY <1>0, <1>3 DEF Accept
  <2>3. \A m \in Name : cs[m] \subseteq Conn /\ c \notin cs[m]
    BY <1>0, <1>a, <2>1
  <2> QED BY <2>1, <2>2, <2>3, ChunksKept
<1>4. ASSUME NEW c \in Conn, NEW old, NEW m \in Name, Subscribe(c, old, m),
             UNCHANGED <<send_queue, sent, skipped, sock>>
      PROVE  Chunks'
  <2>1. Subscribed1(c, old, m)
    BY <1>4, SubscribeCases
  <2>2. CASE UNCHANGED <<cs, last>>
    BY <1>1, <1>4, <2>2
  <2>3. CASE /\ \A n \in Name : cs'[n] = IF n = m THEN cs[n] \union {c}
                                         ELSE IF n = old THEN cs[n] \ {c} ELSE cs[n]
             /\ \A d \in Conn : last'[d] = IF d = c THEN 0 ELSE last[d]
    <3>1. ASSUME NEW n \in Name, NEW d \in cs'[n], last'[d] # 0
          PROVE  d \in cs[n] /\ last'[d] = last[d]
      <4>1. cs[n] \subseteq Conn
        BY <1>0
      <4>2. d \in cs[n] \union {c}
        BY <2>3, <3>1
      <4>3. d # c
        BY <2>3, <3>1
      <4> QED BY <2>3, <4>1, <4>2, <4>3
    <3> QED BY <1>4, <3>1, ChunksKept
  <2> QED BY <2>1, <2>2, <2>3 DEF Subscribed1
<1>5. CASE DelTask
  <2>0. UNCHANGED <<send_queue, sent, skipped, last>>
    BY <1>5 DEF DelTask, history
  <2>1. ASSUME NEW c \in Conn, Deleted(c)
        PROVE  Chunks'
    <3>1. \A m \in Name : cs'[m] \subseteq cs[m] /\ cs[m] \subseteq Conn
      BY <1>0, <2>1 DEF Deleted
    <3>2. \A d \in Conn : sock'[d] = "open" => sock[d] = "open"
      BY <1>0, <2>1 DEF Deleted
    <3> QED BY <2>0, <3>1, <3>2, ChunksKept
  <2>2. CASE NobodyDeleted
    BY <1>1, <2>0, <2>2 DEF NobodyDeleted
  <2> QED BY <1>5, <2>1, <2>2, DelTaskCases
<1>6. CASE EndLoop
  <2>1. UNCHANGED <<send_queue, sent, skipped, cs, last>>
    BY <1>6 DEF EndLoop, queues, tables, history
  <2>2. \A d \in Conn : sock'[d] # "open"
    BY <1>6 DEF EndLoop
  <2>3. \A m \in Name : cs[m] \subseteq Conn
    BY <1>0
  <2> QED BY <2>1, <2>2, <2>3, ChunksKept
<1>7. CASE Joined
  <2>1. UNCHANGED <<send_queue, sent, skipped>> /\ \A m \in Name : cs'[m] = {}
    BY <1>7 DEF Joined, queues, history
  <2> QED BY <2>1, ChunksKept
<1>8. ASSUME NEW m \in Mount, Send(m)
      PROVE  Chunks'
  <2>1. /\ m \in Name /\ send_queue' = Append(send_queue, <<m, sent[m] + 1>>)
        /\ sent' = [sent EXCEPT ![m] = sent[m] + 1]
        /\ UNCHANGED <<cs, sock, last, skipped>>
    BY <1>8 DEF Send, Name, conns, tables, history
  <2>2. InOrder(send_queue, sent)
    BY DEF Chunks
  <2>3. InOrder(send_queue', sent')
    BY <1>b, <2>1, <2>2, AppendInOrder
  <2>4. ASSUME NEW l \in Name, NEW c \in cs[l], sock[c] = "open", last[c] # 0
        PROVE  GetsNext(send_queue', sent', l, last[c])
    <3>1. last[c] \in Nat
      BY <1>0, <1>b
    <3>2. GetsNext(send_queue, sent, l, last[c])
      BY <2>4 DEF Chunks
    <3>3. GetsNext(Append(send_queue, <<m, sent[m] + 1>>), [sent EXCEPT ![m] = sent[m] + 1], l, last[c])
      BY <1>b, <2>1, <2>2, <3>1, <3>2, AppendGetsNext
    <3> QED BY <2>1, <3>3
  <2> QED BY <2>1, <2>3, <2>4 DEF Chunks, NoGaps
<1>9. CASE SendTask
  <2> DEFINE a == Head(send_queue)[1]
             k == Head(send_queue)[2]
  <2>1. /\ send_queue # <<>> /\ send_queue' = Tail(send_queue) /\ Distribute(Head(send_queue))
        /\ UNCHANGED <<cs, sock, sent>> /\ loop = "up"
    BY <1>9 DEF SendTask, Structures, conns, tables
  <2>2. InOrder(send_queue, sent) /\ NoGaps
    BY DEF Chunks
  <2>3. a \in Name /\ k \in Nat
    BY <1>b, <2>1
  <2>4. InOrder(send_queue', sent')
    BY <1>b, <2>1, <2>2, TailInOrder
  <2>5. GetsNext(Tail(send_queue), sent, a, k)
        /\ \A n \in Nat : GetsNext(send_queue, sent, a, n) => n = k - 1
    BY <1>b, <2>1, <2>2, HeadGetsNext
  <2>6. /\ \A c \in Conn : last'[c] = IF c \in cs[a] /\ sock[c] = "open" THEN k ELSE last[c]
        /\ skipped' = skipped \union {c \in cs[a] : sock[c] = "open" /\ last[c] # 0 /\ last[c] # k - 1}
    BY <2>1 DEF Distribute
  <2> HIDE DEF a, k
  <2>7. ASSUME NEW c \in cs[a], sock[c] = "open", last[c] # 0
        PROVE  last[c] = k - 1
    <3>1. last[c] \in Nat
      BY <1>0, <1>b, <2>3
    <3>2. GetsNext(send_queue, sent, a, last[c])
      BY <2>3, <2>7 DEF Chunks
    <3> QED BY <2>5, <3>1, <3>2
  <2>8. skipped' = {}
    BY <2>2, <2>6, <2>7 DEF NoGaps
  <2>9. ASSUME NEW m \in Name, NEW c \in cs[m], sock[c] = "open", last'[c] # 0
        PROVE  GetsNext(Tail(send_queue), sent, m, last'[c])
    <3>0. c \in Conn /\ last[c] \in Nat
      BY <1>0, <1>b
    <3>1. CASE m = a
      BY <2>5, <2>6, <2>9, <3>0, <3>1
    <3>2. CASE m # a
      <4>1. c \notin cs[a]
        BY <1>a, <2>1, <2>3, <3>0, <3>2
      <4>2. last'[c] = last[c]
        BY <2>6, <3>0, <4>1
      <4>3. GetsNext(send_queue, sent, m, last[c])
        BY <2>9, <4>2 DEF Chunks
      <4> QED BY <1>b, <2>1, <3>0, <3>2, <4>2, <4>3, TailGetsNext DEF a
    <3> QED BY <3>1, <3>2
  <2> QED BY <2>1, <2>4, <2>8, <2>9 DEF Chunks, NoGaps
<1>10. ASSUME NEW c \in Conn, NEW m \in Name, LetIn(c, m)
       PROVE  Chunks'
  BY <1>4, <1>10 DEF LetIn, queues, conns
<1>11. ASSUME NEW c \in Conn, NEW m \in Mount, Position(c, m)
       PROVE  Chunks'
  BY <1>0, <1>4, <1>11 DEF Position, queues, conns
<1> QED
  BY <1>1, <1>2, <1>3, <1>5, <1>6, <1>7, <1>8, <1>9, <1>10, <1>11
  DEF Next, Loop, Boot, Drain, Drained, Close, DelUser, Refuse, queues, history, tables, conns

-----------------------------------------------------------------------------
(* The deletions.                                                          *)

\* A step that deletes nobody and asks for no deletion.
LEMMA DeletionsKept ==
  ASSUME Deletions, UNCHANGED <<del_queue, again, over>>, over \subseteq Conn,
         loop' = "up" => loop = "up",
         \A c \in Conn : /\ mem[c] = "live" => mem'[c] = "live" /\ addr'[c] = addr[c]
                         /\ sock'[c] \in {"ended", "closed"} => sock'[c] = sock[c] /\ addr'[c] = addr[c]
  PROVE  Deletions'
<1>1. ASSUME loop' = "up", NEW i \in DOMAIN del_queue, del_queue[i] \notin again
      PROVE  /\ \A j \in DOMAIN del_queue : del_queue[j] = del_queue[i] => j = i
             /\ \E c \in over : mem'[c] = "live" /\ addr'[c] = del_queue[i]
  <2>1. /\ \A j \in DOMAIN del_queue : del_queue[j] = del_queue[i] => j = i
        /\ \E c \in over : mem[c] = "live" /\ addr[c] = del_queue[i]
    BY <1>1 DEF Deletions
  <2>2. PICK c \in over : mem[c] = "live" /\ addr[c] = del_queue[i]
    BY <2>1
  <2>3. mem'[c] = "live" /\ addr'[c] = del_queue[i]
    BY <2>2
  <2> QED BY <2>1, <2>3
<1>2. ASSUME loop' = "up", NEW c \in Conn, sock'[c] = "ended"
      PROVE  \E i \in DOMAIN del_queue : del_queue[i] = addr'[c]
  <2>1. sock[c] = "ended" /\ addr'[c] = addr[c] /\ loop = "up"
    BY <1>2
  <2> QED BY <2>1 DEF Deletions
<1>3. ASSUME loop' = "up", NEW c \in Conn, sock'[c] = "closed"
      PROVE  c \in over \/ addr'[c] \in again
  <2>1. sock[c] = "closed" /\ addr'[c] = addr[c] /\ loop = "up"
    BY <1>3
  <2> QED BY <2>1 DEF Deletions, Innocent
<1> QED BY <1>1, <1>2, <1>3 DEF Deletions, Innocent

\* A connection that asks for its deletion.
LEMMA DeletionsAsked ==
  ASSUME TypeOK, Deletions, loop = "up", NEW c \in Conn, mem[c] = "live", AskDeletion(c),
         UNCHANGED <<mem, addr>>,
         \A d \in Conn : sock'[d] \in {"ended", "closed"} => sock'[d] = sock[d] \/ (d = c /\ sock'[d] = "ended")
  PROVE  Deletions'
<1> DEFINE x == addr[c]
           q == del_queue
           p == Append(q, x)
<1>1. /\ del_queue' = p /\ over' = over \union {c} /\ over \subseteq Conn /\ q \in Seq(Conn) /\ x \in Conn
      /\ again \subseteq again'
      /\ (\E j \in DOMAIN q : q[j] = x) => x \in again'
  <2>1. (\E j \in DOMAIN q : q[j] = x) => Contains(q, x)
    <3>0. del_queue \in Seq(Conn)
      BY DEF TypeOK
    <3>1. DOMAIN q = 1 .. Len(q)
      BY <3>0
    <3> QED BY <3>1 DEF Contains
  <2>2. again' = IF Contains(q, x) THEN again \union {x} ELSE again
    BY DEF AskDeletion
  <2>3. del_queue' = p /\ over' = over \union {c} /\ over \subseteq Conn /\ q \in Seq(Conn) /\ x \in Conn
    BY DEF AskDeletion, TypeOK
  <2> HIDE DEF q, x, p
  <2> QED BY <2>1, <2>2, <2>3
<1>2. /\ DOMAIN p = 1 .. Len(q) + 1 /\ DOMAIN q = 1 .. Len(q) /\ Len(q) \in Nat
      /\ \A i \in 1 .. Len(q) : p[i] = q[i]
      /\ p[Len(q) + 1] = x
  BY <1>1, AppendAt
<1> HIDE DEF p
<1>3. ASSUME NEW i \in DOMAIN p
      PROVE  (i \in DOMAIN q /\ p[i] = q[i]) \/ (i = Len(q) + 1 /\ p[i] = x)
  BY <1>2, <1>3
<1>4. Len(q) + 1 \in DOMAIN p /\ \A i \in DOMAIN q : i \in DOMAIN p /\ p[i] = q[i]
  BY <1>2
<1>5. ASSUME NEW i \in DOMAIN p, p[i] \notin again'
      PROVE  /\ \A j \in DOMAIN p : p[j] = p[i] => j = i
             /\ \E d \in over' : mem[d] = "live" /\ addr[d] = p[i]
  <2>1. CASE i \in DOMAIN q /\ p[i] = q[i]
    <3>1. q[i] # x /\ q[i] \notin again
      BY <1>1, <1>5, <2>1
    <3>2. /\ \A j \in DOMAIN q : q[j] = q[i] => j = i
          /\ \E d \in over : mem[d] = "live" /\ addr[d] = q[i]
      BY <2>1, <3>1 DEF Deletions
    <3> QED BY <1>1, <1>3, <2>1, <3>1, <3>2
  <2>2. CASE i = Len(q) + 1 /\ p[i] = x
    <3>1. \A j \in DOMAIN q : q[j] # x
      BY <1>1, <1>5, <2>2
    <3> QED BY <1>1, <1>3, <2>2, <3>1
  <2> QED BY <1>3, <2>1, <2>2
<1>6. ASSUME NEW d \in Conn, sock'[d] = "ended"
      PROVE  \E i \in DOMAIN p : p[i] = addr[d]
  <2>1. CASE d = c
    BY <1>2, <1>4, <2>1
  <2>2. CASE d # c
    <3>1. sock[d] = "ended"
      BY <1>6, <2>2
    <3>2. PICK i \in DOMAIN q : q[i] = addr[d]
      BY <3>1 DEF Deletions
    <3> QED BY <1>4, <3>2
  <2> QED BY <2>1, <2>2
<1>7. ASSUME NEW d \in Conn, sock'[d] = "closed"
      PROVE  d \in over' \/ addr[d] \in again'
  <2>1. sock[d] = "closed"
    BY <1>7
  <2>2. d \in over \/ addr[d] \in again
    BY <2>1 DEF Deletions, Innocent
  <2> QED BY <1>1, <2>2
<1> HIDE DEF q, x
<1> QED BY <1>1, <1>5, <1>6, <1>7 DEF Deletions, Innocent

\* A task of the queue: the head names the connection that asked for it, unless it
\* was asked for twice.
LEMMA DeletionsTask ==
  ASSUME TypeOK, Structures, Deletions, DelTask
  PROVE  Deletions'
<1> DEFINE q == del_queue
           p == Tail(q)
<1>1. /\ loop = "up" /\ del_queue' = p /\ q # <<>> /\ q \in Seq(Conn) /\ over \subseteq Conn
      /\ UNCHANGED <<loop, addr, over, again>>
  BY DEF DelTask, TypeOK, Structures, thread, history
<1>2. /\ \A i \in DOMAIN p : i \in Nat \ {0} /\ i + 1 \in DOMAIN q /\ p[i] = q[i + 1]
      /\ \A j \in DOMAIN q : /\ j \in Nat /\ j >= 1
                             /\ j # 1 => j - 1 \in DOMAIN p /\ p[j - 1] = q[j]
      /\ 1 \in DOMAIN q /\ Head(q) = q[1]
  BY <1>1, TailAt
<1> HIDE DEF p
<1>3. \A i \in DOMAIN q : q[i] \notin again =>
         /\ \A j \in DOMAIN q : q[j] = q[i] => j = i
         /\ \E c \in over : mem[c] = "live" /\ addr[c] = q[i]
  BY <1>1 DEF Deletions
<1>4. \A c \in Conn : sock[c] = "ended" => mem[c] = "live" /\ \E i \in DOMAIN q : q[i] = addr[c]
  BY <1>1 DEF Deletions, Structures
<1>5. \A c \in Conn : sock[c] = "closed" => c \in over \/ addr[c] \in again
  BY <1>1 DEF Deletions, Innocent
<1>6. \A c, d \in Conn : mem[c] = "live" /\ mem[d] = "live" /\ addr[c] = addr[d] => c = d
  BY DEF TypeOK, Live
<1>7. mem \in [Conn -> {"none", "live", "freed"}] /\ sock \in [Conn -> Socket]
  BY DEF TypeOK
<1> HIDE DEF q
<1>8. ASSUME NEW i \in DOMAIN p, p[i] \notin again
      PROVE  \A j \in DOMAIN p : p[j] = p[i] => j = i
  <2>1. i + 1 \in DOMAIN q /\ q[i + 1] \notin again /\ p[i] = q[i + 1] /\ i \in Nat
    BY <1>2, <1>8
  <2>2. ASSUME NEW j \in DOMAIN p, p[j] = p[i]
        PROVE  j = i
    <3>1. j + 1 \in DOMAIN q /\ p[j] = q[j + 1] /\ j \in Nat
      BY <1>2
    <3>2. j + 1 = i + 1
      BY <1>3, <2>1, <2>2, <3>1
    <3> QED BY ONLY <2>1, <3>1, <3>2
  <2> QED BY <2>2
\* Who ended waits behind the head, unless the head is his.
<1>9. ASSUME NEW d \in Conn, sock[d] = "ended", addr[d] # q[1]
      PROVE  \E i \in DOMAIN p : p[i] = addr[d]
  <2>1. PICK i \in DOMAIN q : q[i] = addr[d]
    BY <1>4, <1>9
  <2>2. i # 1
    BY <1>9, <2>1
  <2>3. i - 1 \in DOMAIN p /\ p[i - 1] = q[i]
    BY <1>2, <2>2
  <2> QED BY <2>1, <2>3
<1>10. ASSUME NEW c \in Conn, Deleted(c)
       PROVE  Deletions'
  <2>1. /\ mem[c] = "live" /\ addr[c] = q[1]
        /\ \A d \in Conn : /\ sock'[d] = IF d = c THEN "closed" ELSE sock[d]
                           /\ mem'[d] = IF d = c THEN "freed" ELSE mem[d]
    BY <1>2, <1>7, <1>10 DEF Deleted, Live, q
  <2>2. ASSUME NEW i \in DOMAIN p, p[i] \notin again
        PROVE  \E d \in over : mem'[d] = "live" /\ addr[d] = p[i]
    <3>1. i + 1 \in DOMAIN q /\ q[i + 1] \notin again /\ p[i] = q[i + 1] /\ i \in Nat \ {0}
      BY <1>2, <2>2
    <3>2. PICK d \in over : mem[d] = "live" /\ addr[d] = q[i + 1]
      BY <1>3, <3>1
    <3>3. d # c
      <4>1. ASSUME d = c
            PROVE  FALSE
        <5>1. q[1] = q[i + 1]
          BY <2>1, <3>2, <4>1
        <5>2. 1 = i + 1
          BY <1>2, <1>3, <3>1, <5>1
        <5> QED BY <3>1, <5>2
      <4> QED BY <4>1
    <3> QED BY <1>1, <2>1, <3>1, <3>2, <3>3
  <2>3. ASSUME NEW d \in Conn, sock'[d] = "ended"
        PROVE  \E i \in DOMAIN p : p[i] = addr[d]
    <3>1. d # c /\ sock[d] = "ended"
      BY <2>1, <2>3
    <3>2. addr[d] # q[1]
      BY <1>4, <1>6, <2>1, <3>1
    <3> QED BY <1>9, <3>1, <3>2
  <2>4. ASSUME NEW d \in Conn, sock'[d] = "closed"
        PROVE  d \in over \/ addr[d] \in again
    <3>1. CASE d = c /\ q[1] \notin again
      <4>1. PICK e \in over : mem[e] = "live" /\ addr[e] = q[1]
        BY <1>2, <1>3, <3>1
      <4>2. e = c
        BY <1>1, <1>6, <2>1, <4>1
      <4> QED BY <3>1, <4>2
    <3>2. CASE d = c /\ q[1] \in again
      BY <2>1, <3>2
    <3>3. CASE d # c
      BY <1>5, <2>1, <2>4, <3>3
    <3> QED BY <3>1, <3>2, <3>3
  <2> QED BY <1>1, <1>8, <2>2, <2>3, <2>4 DEF Deletions, Innocent
<1>11. CASE NobodyDeleted
  <2>1. UNCHANGED <<sock, mem>> /\ \A d \in Conn : mem[d] = "live" => addr[d] # q[1]
    BY <1>2, <1>11 DEF NobodyDeleted, Live, q
  <2>2. ASSUME NEW i \in DOMAIN p, p[i] \notin again
        PROVE  \E d \in over : mem[d] = "live" /\ addr[d] = p[i]
    <3>1. i + 1 \in DOMAIN q /\ p[i] = q[i + 1]
      BY <1>2
    <3> QED BY <1>3, <2>2, <3>1
  <2>3. ASSUME NEW d \in Conn, sock[d] = "ended"
        PROVE  \E i \in DOMAIN p : p[i] = addr[d]
    BY <1>4, <1>9, <2>1, <2>3
  <2> QED BY <1>1, <1>5, <1>8, <2>1, <2>2, <2>3 DEF Deletions, Innocent
<1> QED BY <1>10, <1>11, DelTaskCases

\* A connection is deleted only if it asked for it, or its address was in the queue twice.
LEMMA DeletionsStep ==
  ASSUME TypeOK, Structures, BeforeLoop, Deletions, prog = "runs", Next
  PROVE  Deletions'
<1>0. /\ sock \in [Conn -> Socket] /\ mem \in [Conn -> {"none", "live", "freed"}]
      /\ addr \in [Conn -> Conn] /\ over \subseteq Conn
  BY DEF TypeOK
<1>1. CASE UNCHANGED <<loop, sock, mem, addr, del_queue, again, over>>
  BY <1>0, <1>1, DeletionsKept
<1>2. CASE Boot
  <2>1. del_queue' = <<>> /\ \A c \in Conn : sock'[c] \in {"none", "waiting"}
    BY <1>2 DEF Boot, BeforeLoop, Structures, conns, queues
  <2> QED BY <2>1 DEF Deletions, Innocent
<1>3. ASSUME NEW c \in Conn, Arrive(c) \/ Offer(c) \/ Accept(c)
      PROVE  Deletions'
  <2>1. UNCHANGED <<loop, del_queue, again, over>>
    BY <1>3 DEF Arrive, Offer, Accept, thread, queues, history
  <2>2. /\ \A d \in Conn : d # c => sock'[d] = sock[d] /\ mem'[d] = mem[d] /\ addr'[d] = addr[d]
        /\ sock'[c] \notin {"ended", "closed"}
    BY <1>0, <1>3 DEF Arrive, Offer, Accept
  <2>3. mem[c] # "live"
    BY <1>3 DEF Arrive, Offer, Accept, Structures
  <2> QED BY <1>0, <2>1, <2>2, <2>3, DeletionsKept
<1>4. ASSUME NEW c \in Conn, Refuse(c) \/ End(c)
      PROVE  Deletions'
  <2>1. AskDeletion(c) /\ loop = "up" /\ mem[c] = "live" /\ UNCHANGED <<loop, mem, addr>>
    BY <1>4 DEF Refuse, End, Idle, Structures, thread, conns
  <2>2. \A d \in Conn : sock'[d] = sock[d] \/ (d = c /\ sock'[d] = "ended")
    BY <1>0, <1>4 DEF Refuse, End, conns
  <2> QED BY <2>1, <2>2, DeletionsAsked
<1>5. CASE DelTask
  BY <1>5, DeletionsTask
<1>6. CASE EndLoop \/ Joined
  BY <1>6 DEF EndLoop, Joined, Deletions, Innocent
<1> QED
  BY <1>1, <1>2, <1>3, <1>4, <1>5, <1>6
  DEF Next, Loop, Drain, Drained, Send, SendTask, DelUser, Close, LetIn, Position, thread,
      conns, queues, history

-----------------------------------------------------------------------------
(* Wakes and crashes.                                                      *)

LEMMA WakesStep ==
  ASSUME TypeOK, Structures, BeforeLoop, Wakes, prog = "runs", Next
  PROVE  Wakes'
<1> SUFFICES ASSUME loop' = "up" PROVE Wakes'
  BY DEF Wakes
<1>0. sock \in [Conn -> Socket]
  BY DEF TypeOK
<1>1. CASE UNCHANGED <<loop, sig, cb, sock, del_queue, send_queue>>
  BY <1>1 DEF Wakes
<1>2. CASE Boot
  <2>1. del_queue' = <<>> /\ send_queue' = <<>> /\ \A c \in Conn : sock'[c] \in {"none", "waiting"}
    BY <1>2 DEF Boot, BeforeLoop, Structures, conns, queues
  <2> QED BY <2>1 DEF Wakes
<1>3. ASSUME NEW c \in Conn, Arrive(c) \/ Offer(c) \/ Accept(c)
      PROVE  Wakes'
  <2>1. UNCHANGED <<loop, cb, del_queue, send_queue>>
    BY <1>3 DEF Arrive, Offer, Accept, thread, queues
  <2>2. CASE Arrive(c)
    BY <1>0, <2>1, <2>2 DEF Arrive, Wakes
  <2>3. CASE Offer(c)
    BY <1>0, <2>1, <2>3 DEF Offer, Wakes
  <2>4. CASE Accept(c)
    BY <1>0, <2>1, <2>4 DEF Accept, Wakes, Structures
  <2> QED BY <1>3, <2>2, <2>3, <2>4
<1>4. ASSUME NEW c \in Conn, Refuse(c) \/ End(c)
      PROVE  Wakes'
  <2>1. sig' = sig \union {"del"} /\ UNCHANGED <<loop, cb, send_queue>>
    BY <1>4 DEF Refuse, End, AskDeletion, thread
  <2>2. \A d \in Conn : sock'[d] = "offered" => sock[d] = "offered"
    BY <1>0, <1>4 DEF Refuse, End, conns
  <2> QED BY <2>1, <2>2 DEF Wakes
<1>5. CASE Drain("del") \/ Drain("send")
  BY <1>5 DEF Drain, Idle, Wakes, conns, queues
<1>6. CASE Drained("del", del_queue) \/ Drained("send", send_queue)
  BY <1>6 DEF Drained, Wakes, conns, queues
<1>7. CASE DelTask
  <2>1. cb = "del" /\ UNCHANGED <<loop, cb, sig, send_queue>>
    BY <1>7 DEF DelTask, thread
  <2>2. \A d \in Conn : sock'[d] = "offered" => sock[d] = "offered"
    BY <1>0, <1>7, DelTaskCases DEF Deleted, NobodyDeleted
  <2> QED BY <2>1, <2>2 DEF Wakes
<1>8. CASE SendTask
  BY <1>8 DEF SendTask, Wakes, thread, conns
<1>9. ASSUME NEW m \in Mount, Send(m)
      PROVE  Wakes'
  BY <1>9 DEF Send, Wakes, thread, conns
<1>10. CASE Close
  BY <1>10 DEF Close, Wakes, thread, conns, queues
<1>11. CASE EndLoop \/ Joined
  BY <1>11 DEF EndLoop, Joined
<1> QED
  BY <1>1, <1>2, <1>3, <1>4, <1>5, <1>6, <1>7, <1>8, <1>9, <1>10, <1>11
  DEF Next, Loop, DelUser, LetIn, Position, thread, conns, queues

\* Who moves has a copy where he comes from, and a task finds whom it deletes.
LEMMA CrashStep ==
  ASSUME TypeOK, Structures, Listed, Deletions, prog = "runs", Next
  PROVE  CrashExcused'
<1> SUFFICES ASSUME prog' = "crashed"
             PROVE  again' # {} \/ (loop' \in {"off", "failed"} /\ "close" \in sig')
  BY DEF CrashExcused
<1>1. CASE Close
  BY <1>1 DEF Close, thread
<1>2. CASE DelTask
  <2>1. /\ del_queue \in Seq(Conn) /\ del_queue # <<>> /\ loop = "up" /\ UNCHANGED again
        /\ over \subseteq Conn
    BY <1>2 DEF DelTask, TypeOK, Structures, history
  <2>2. 1 \in DOMAIN del_queue /\ Head(del_queue) = del_queue[1]
    BY <2>1, TailAt
  <2>3. \A c \in Live : addr[c] # Head(del_queue)
    BY <1>2 DEF DelTask, At
  <2>4. del_queue[1] \in again
    BY <2>1, <2>2, <2>3 DEF Deletions, Live
  <2> QED BY <2>1, <2>4
<1>3. ASSUME NEW c \in Conn, NEW m \in Name, LetIn(c, m)
      PROVE  FALSE
  BY <1>3 DEF LetIn, Subscribe
<1>4. ASSUME NEW c \in Conn, NEW m \in Mount, Position(c, m)
      PROVE  FALSE
  <2>1. loop = "up" /\ c \in auth /\ mntpnt[c] \in Name /\ mem[c] = "live"
    BY <1>4 DEF Position, Idle, Listed
  <2>2. c \in cs[mntpnt[c]]
    BY <2>1 DEF Listed
  <2> QED BY <1>4, <2>2 DEF Position, Subscribe
<1> QED
  BY <1>1, <1>2, <1>3, <1>4
  DEF Next, Loop, Boot, Drain, Drained, Send, SendTask, DelUser, Arrive, Offer, Accept, Refuse,
      End, EndLoop, Joined

-----------------------------------------------------------------------------
(* The theorems.                                                           *)

LEMMA InitAgent == Init => AgentInv
<1> SUFFICES ASSUME Init PROVE AgentInv
  OBVIOUS
<1>1. TypeOK
  BY InitTypes
<1>2. Structures /\ BeforeLoop /\ Listed /\ Wakes /\ CrashExcused
  BY DEF Init, Structures, BeforeLoop, Listed, Wakes, CrashExcused
<1>3. Deletions
  BY DEF Init, Deletions, Innocent
<1>4. Chunks
  <2>1. send_queue = <<>> /\ skipped = {} /\ \A m \in Name : cs[m] = {}
    BY DEF Init
  <2>2. DOMAIN send_queue = {}
    BY <2>1
  <2> QED BY <2>1, <2>2 DEF Chunks, InOrder, NoGaps
<1> QED BY <1>1, <1>2, <1>3, <1>4 DEF AgentInv

LEMMA AgentStep == AgentInv /\ [Next]_vars => AgentInv'
<1> SUFFICES ASSUME AgentInv, [Next]_vars PROVE AgentInv'
  OBVIOUS
<1>1. CASE UNCHANGED vars
  <2>1. UNCHANGED <<sig, loop, cb, sock, mem, addr, auth, near, mntpnt, cq_tbl, cs, del_queue, send_queue>>
    BY <1>1 DEF vars, thread, conns, state, tables, queues
  <2>2. UNCHANGED <<user_tbl, sent, moves, last, skipped, over, again, prog>>
    BY <1>1 DEF vars, history
  <2>a. TypeOK'
    <3>1. Live' = Live /\ TypeOK
      BY <2>1 DEF AgentInv, Live
    <3> QED BY <2>1, <2>2, <3>1 DEF TypeOK
  <2>3. Structures' /\ BeforeLoop' /\ Listed'
    BY <2>1, <2>2 DEF AgentInv, Structures, BeforeLoop, Listed
  <2>4. Chunks' /\ Deletions'
    BY <2>1, <2>2 DEF AgentInv, Chunks, NoGaps, Deletions, Innocent
  <2>5. Wakes' /\ CrashExcused'
    BY <2>1, <2>2 DEF AgentInv, Wakes, CrashExcused
  <2> QED BY <2>a, <2>3, <2>4, <2>5 DEF AgentInv
<1>2. CASE Next
  <2>1. prog = "runs"
    BY <1>2 DEF Next
  <2> QED
    BY <1>2, <2>1, TypesStep, StructuresStep, BeforeStep, ListedStep, ChunksStep, DeletionsStep,
       WakesStep, CrashStep DEF AgentInv
<1> QED BY <1>1, <1>2

\* AgentInv holds in every state of the agent, whatever the rovers, the mount points
\* and the order of requests, positions, deletions and chunks.
THEOREM AgentInductive == Spec => []AgentInv
<1>1. Init => AgentInv
  BY InitAgent
<1>2. AgentInv /\ [Next]_vars => AgentInv'
  BY AgentStep
<1> QED BY <1>1, <1>2, PTL DEF Spec

\* Every rover is in the table of its mount point and in no other, and is closed only
\* if it is over (ntripagent.c:163-175, :284, :288-292).
THEOREM RoversAreServed == Spec => []RoversServed
<1>1. AgentInv => RoversServed
  <2>1. AgentInv => TypeOK /\ Innocent
    BY DEF AgentInv, Deletions
  <2>2. AgentInv => Subscribed
    BY DEF AgentInv, Listed, Subscribed
  <2> QED BY <2>1, <2>2 DEF RoversServed
<1> QED BY <1>1, AgentInductive, PTL

\* A rover misses no chunk and gets none twice or late (ntripagent.c:387-400).
THEOREM ChunksHaveNoGaps == Spec => []NoGaps
<1>1. AgentInv => NoGaps
  BY DEF AgentInv, Chunks
<1> QED BY <1>1, AgentInductive, PTL

\* The agent ends only by a deletion asked for twice or a close that finds no loop
\* (ntripagent.c:194, :238, :445, :496): no subscription ever looks for a copy in vain.
THEOREM CrashesAreExcused == Spec => []CrashExcused
<1>1. AgentInv => CrashExcused
  BY DEF AgentInv
<1> QED BY <1>1, AgentInductive, PTL

\* No task and no connection waits without a wake-up (ntripagent.c:238, :248, :278, :387).
THEOREM LoopIsAwake == Spec => []Awake
<1>1. AgentInv => Awake
  <2> SUFFICES ASSUME AgentInv, loop = "up"
               PROVE  /\ del_queue # <<>> => "del" \in sig \/ cb = "del"
                      /\ send_queue # <<>> => "send" \in sig \/ cb = "send"
                      /\ \A c \in Conn : /\ sock[c] = "offered" => "add" \in sig
                                         /\ sock[c] = "ended" => Contains(del_queue, addr[c])
    BY DEF Awake
  <2>1. del_queue \in Seq(Conn)
    BY DEF AgentInv, TypeOK
  <2>2. DOMAIN del_queue = 1 .. Len(del_queue)
    BY <2>1
  <2>3. ASSUME NEW c \in Conn, sock[c] = "ended"
        PROVE  Contains(del_queue, addr[c])
    <3>1. \E i \in DOMAIN del_queue : del_queue[i] = addr[c]
      BY <2>3 DEF AgentInv, Deletions
    <3> QED BY <2>2, <3>1 DEF Contains
  <2> QED BY <2>3 DEF AgentInv, Wakes
<1> QED BY <1>1, AgentInductive, PTL

-----------------------------------------------------------------------------
(* Monitor.  Its variables that have the names of the agent's are the same *)
(* here; what is proved is about Monitor alone.                            *)

CONSTANTS Source, MaxReport
VARIABLES name, q_tbl, md_tbl, data_queue, distr_queue, known, reports, asked, got

M == INSTANCE Monitor

\* Callbacks run in the loop.
CallbackInLoop == cb # "none" => loop = "up"

\* A connection that was not accepted has no structure and asked for nothing.
NotYet == \A c \in Conn : sock[c] \in {"none", "waiting", "offered"} =>
                            mem[c] = "none" /\ name[c] = "unnamed"

\* Before the loop runs nobody was accepted.
NoLoopYet ==
  loop \in {"off", "failed"} =>
    /\ \A c \in Conn : sock[c] \in {"none", "waiting"}
    /\ \A s \in Source : md_tbl[s] = {}
    /\ del_queue = <<>> /\ data_queue = <<>> /\ distr_queue = <<>>

\* Whoever waits for an answer was accepted, and a result that waits was counted.
Asked == \A i \in DOMAIN distr_queue : mem[distr_queue[i]] # "none"
Reported == data_queue # <<>> => reports > 0

MonInv == /\ M!TypeOK /\ CallbackInLoop /\ NotYet /\ NoLoopYet /\ Asked /\ Reported
          /\ M!Subscribed /\ M!OnlyItsSource /\ M!DeletedOnce /\ M!Awake /\ M!CrashExcused

\* What holds of the loop and its queues, and of the connections.
LoopPart == CallbackInLoop /\ Reported /\ M!Awake
ConnPart == NotYet /\ NoLoopYet /\ Asked /\ M!Subscribed /\ M!OnlyItsSource /\ M!DeletedOnce

-----------------------------------------------------------------------------
(* Sequences.                                                              *)

\* The empty set as a sequence is empty.
LEMMA NothingToSeq == SetToSeq({}) = <<>>
<1>1. Cardinality({}) = 0
  BY FS_EmptySet
<1>2. 1 .. 0 = {}
  OBVIOUS
<1>3. \E f \in [1 .. 0 -> {}] : IsInjective(f)
  <2> DEFINE g == [x \in {} |-> x]
  <2>1. g \in [1 .. 0 -> {}] /\ IsInjective(g)
    BY <1>2 DEF IsInjective
  <2> QED BY <2>1
<1>4. SetToSeq({}) \in [1 .. 0 -> {}]
  BY <1>1, <1>3 DEF SetToSeq
<1> QED BY <1>2, <1>4

\* Nobody is in a queue twice that somebody new is put into.
LEMMA AppendOnce ==
  ASSUME NEW S, NEW q \in Seq(S), NEW c \in S,
         \A i, j \in DOMAIN q : q[i] = q[j] => i = j,
         \A i \in DOMAIN q : q[i] # c
  PROVE  /\ \A i, j \in DOMAIN Append(q, c) : Append(q, c)[i] = Append(q, c)[j] => i = j
         /\ \A d \in S : (\E i \in DOMAIN Append(q, c) : Append(q, c)[i] = d)
                           <=> d = c \/ \E i \in DOMAIN q : q[i] = d
<1> DEFINE r == Append(q, c)
           n == Len(q)
<1>1. /\ n \in Nat /\ DOMAIN q = 1 .. n /\ DOMAIN r = 1 .. n + 1
      /\ \A i \in 1 .. n : r[i] = q[i]
      /\ r[n + 1] = c
  OBVIOUS
<1> HIDE DEF r, n
<1>2. \A i, j \in DOMAIN r : r[i] = r[j] => i = j
  <2> SUFFICES ASSUME NEW i \in 1 .. n + 1, NEW j \in 1 .. n + 1, r[i] = r[j]
               PROVE  i = j
    BY <1>1
  <2>1. CASE i \in 1 .. n /\ j \in 1 .. n
    BY <1>1, <2>1
  <2>2. CASE i = n + 1 \/ j = n + 1
    BY <1>1, <2>2
  <2> QED BY <1>1, <2>1, <2>2
<1>3. ASSUME NEW d \in S
      PROVE  (\E i \in DOMAIN r : r[i] = d) <=> d = c \/ \E i \in DOMAIN q : q[i] = d
  BY <1>1
<1> QED BY <1>2, <1>3 DEF r

\* The first of a queue in which nobody is twice is gone from the rest.
LEMMA TailOnce ==
  ASSUME NEW S, NEW q \in Seq(S), q # <<>>,
         \A i, j \in DOMAIN q : q[i] = q[j] => i = j
  PROVE  /\ \A i, j \in DOMAIN Tail(q) : Tail(q)[i] = Tail(q)[j] => i = j
         /\ \A d \in S : (\E i \in DOMAIN Tail(q) : Tail(q)[i] = d)
                           <=> d # Head(q) /\ \E i \in DOMAIN q : q[i] = d
<1> DEFINE r == Tail(q)
           n == Len(q)
<1>1. /\ n \in Nat \ {0} /\ DOMAIN q = 1 .. n /\ DOMAIN r = 1 .. n - 1
      /\ \A i \in 1 .. n - 1 : r[i] = q[i + 1]
      /\ Head(q) = q[1]
  OBVIOUS
<1> HIDE DEF r, n
<1>2. \A i, j \in DOMAIN r : r[i] = r[j] => i = j
  BY <1>1
<1>3. ASSUME NEW d \in S
      PROVE  (\E i \in DOMAIN r : r[i] = d) <=> d # Head(q) /\ \E i \in DOMAIN q : q[i] = d
  <2>1. ASSUME NEW i \in DOMAIN r, r[i] = d
        PROVE  d # Head(q) /\ \E k \in DOMAIN q : q[k] = d
    BY <1>1, <2>1
  <2>2. ASSUME d # Head(q), NEW i \in DOMAIN q, q[i] = d
        PROVE  \E k \in DOMAIN r : r[k] = d
    <3>1. i \in 2 .. n
      BY <1>1, <2>2
    <3>2. i - 1 \in DOMAIN r /\ r[i - 1] = d
      BY <1>1, <2>2, <3>1
    <3> QED BY <3>2
  <2> QED BY <2>1, <2>2
<1> QED BY <1>2, <1>3 DEF r

-----------------------------------------------------------------------------
(* One lemma per action.                                                   *)

\* Before the loop starts.
LEMMA InitMonInv == M!MonitorNames /\ M!Init => MonInv
<1> SUFFICES ASSUME M!MonitorNames, M!Init PROVE MonInv
  OBVIOUS
<1>1. /\ loop = "off" /\ cb = "none" /\ sig = {} /\ prog = "runs"
      /\ reports = 0 /\ asked = 0 /\ known \subseteq Source /\ q_tbl = {}
      /\ del_queue = <<>> /\ data_queue = <<>> /\ distr_queue = <<>>
  BY DEF M!Init
<1>2. /\ sock \in [Conn -> M!Socket] /\ mem \in [Conn -> {"none", "live", "freed"}]
      /\ name \in [Conn -> Source \union {"unnamed"}]
      /\ \A c \in Conn : sock[c] = "none" /\ mem[c] = "none" /\ name[c] = "unnamed"
  BY DEF M!Init, M!Socket
<1>3. /\ md_tbl \in [Source -> SUBSET Conn] /\ got \in [Conn -> SUBSET (Source \union {"gone"})]
      /\ \A s \in Source : md_tbl[s] = {}
      /\ \A c \in Conn : got[c] = {}
  BY DEF M!Init
<1>4. 0 \in 0 .. MaxReport /\ 0 \in 0 .. MaxAsk
  BY DEF M!MonitorNames
<1>5. M!TypeOK
  BY <1>1, <1>2, <1>3, <1>4 DEF M!TypeOK
<1>6. LoopPart /\ M!CrashExcused
  BY <1>1 DEF LoopPart, CallbackInLoop, Reported, M!Awake, M!CrashExcused
<1>7. NotYet /\ NoLoopYet /\ Asked
  BY <1>1, <1>2, <1>3 DEF NotYet, NoLoopYet, Asked
<1>8. M!OnlyItsSource /\ M!Subscribed /\ M!DeletedOnce
  BY <1>1, <1>2, <1>3 DEF M!OnlyItsSource, M!Subscribed, M!DeletedOnce
<1> QED BY <1>5, <1>6, <1>7, <1>8 DEF MonInv, LoopPart

\* What leaves the connections, the tables and the deletions alone, in a loop that
\* runs or not as before, keeps what is said of them.
LEMMA ConnUnchanged ==
  ASSUME MonInv, prog = "runs", UNCHANGED <<M!conns, M!tables, got, del_queue, distr_queue>>,
         loop' = loop, loop \in {"off", "failed"} => data_queue' = data_queue
  PROVE  ConnPart'
<1>1. /\ sock' = sock /\ mem' = mem /\ name' = name /\ md_tbl' = md_tbl /\ q_tbl' = q_tbl
      /\ got' = got /\ del_queue' = del_queue /\ distr_queue' = distr_queue
  BY DEF M!conns, M!tables
<1>2. NotYet' /\ Asked' /\ M!OnlyItsSource'
  BY <1>1 DEF MonInv, NotYet, Asked, M!OnlyItsSource
<1>3. NoLoopYet'
  BY <1>1 DEF MonInv, NoLoopYet
<1>4. M!Subscribed' /\ M!DeletedOnce'
  BY <1>1 DEF MonInv, M!Subscribed, M!DeletedOnce
<1> QED BY <1>2, <1>3, <1>4 DEF ConnPart

\* The loop starts, or gets no port.
LEMMA BootStep == ASSUME MonInv, prog = "runs", M!Boot PROVE MonInv'
<1>1. /\ loop = "off" /\ loop' \in {"up", "failed"} /\ cb' = cb /\ sig' = sig
      /\ sock' = sock /\ mem' = mem /\ name' = name /\ md_tbl' = md_tbl /\ q_tbl' = q_tbl
      /\ del_queue' = del_queue /\ data_queue' = data_queue /\ distr_queue' = distr_queue
      /\ known' = known /\ reports' = reports /\ asked' = asked /\ got' = got /\ prog' = prog
  BY DEF M!Boot, M!conns, M!tables, M!queues, M!counts
<1>2. /\ \A c \in Conn : sock[c] \in {"none", "waiting"} /\ mem[c] = "none" /\ name[c] = "unnamed"
      /\ \A s \in Source : md_tbl[s] = {}
      /\ del_queue = <<>> /\ data_queue = <<>> /\ distr_queue = <<>>
      /\ cb = "none"
  BY <1>1 DEF MonInv, NoLoopYet, NotYet, CallbackInLoop
<1>3. M!TypeOK'
  BY <1>1, <1>2 DEF MonInv, M!TypeOK
<1>4. NotYet' /\ NoLoopYet' /\ Asked' /\ M!OnlyItsSource' /\ Reported'
  BY <1>1, <1>2 DEF MonInv, NotYet, NoLoopYet, Asked, M!OnlyItsSource, Reported
<1>5. CallbackInLoop' /\ M!Awake' /\ M!CrashExcused'
  BY <1>1, <1>2 DEF CallbackInLoop, M!Awake, M!CrashExcused
<1>6. M!Subscribed'
  BY <1>1, <1>2 DEF M!Subscribed
<1>7. M!DeletedOnce'
  <2>1. DOMAIN del_queue' = {} /\ \A c \in Conn : sock'[c] # "ended"
    BY <1>1, <1>2
  <2> QED BY <2>1 DEF M!DeletedOnce
<1> QED BY <1>3, <1>4, <1>5, <1>6, <1>7 DEF MonInv

\* A client connects.
LEMMA ArriveStep == ASSUME MonInv, prog = "runs", NEW c \in Conn, M!Arrive(c) PROVE MonInv'
<1>1. /\ sock[c] = "none" /\ sock' = [sock EXCEPT ![c] = "waiting"]
      /\ loop' = loop /\ cb' = cb /\ sig' = sig
      /\ mem' = mem /\ name' = name /\ md_tbl' = md_tbl /\ q_tbl' = q_tbl
      /\ del_queue' = del_queue /\ data_queue' = data_queue /\ distr_queue' = distr_queue
      /\ known' = known /\ reports' = reports /\ asked' = asked /\ got' = got /\ prog' = prog
  BY DEF M!Arrive, M!thread, M!tables, M!queues, M!counts
<1>2. sock \in [Conn -> M!Socket] /\ sock' \in [Conn -> M!Socket]
  BY <1>1 DEF MonInv, M!TypeOK, M!Socket
<1>3. \A d \in Conn : sock'[d] = IF d = c THEN "waiting" ELSE sock[d]
  BY <1>1, <1>2
<1>4. M!TypeOK'
  BY <1>1, <1>2, <1>3 DEF MonInv, M!TypeOK
<1>5. NotYet' /\ NoLoopYet'
  BY <1>1, <1>3 DEF MonInv, NotYet, NoLoopYet
<1>6. Asked' /\ M!OnlyItsSource' /\ Reported' /\ CallbackInLoop' /\ M!Awake' /\ M!CrashExcused'
  BY <1>1 DEF MonInv, Asked, M!OnlyItsSource, Reported, CallbackInLoop, M!Awake, M!CrashExcused
<1>7. M!Subscribed' /\ M!DeletedOnce'
  BY <1>1, <1>3 DEF MonInv, M!Subscribed, M!DeletedOnce
<1> QED BY <1>4, <1>5, <1>6, <1>7 DEF MonInv

\* on_new_connection.
LEMMA OfferStep == ASSUME MonInv, prog = "runs", NEW c \in Conn, M!Offer(c) PROVE MonInv'
<1>1. /\ loop = "up" /\ sock[c] = "waiting" /\ sock' = [sock EXCEPT ![c] = "offered"]
      /\ loop' = loop /\ cb' = cb /\ sig' = sig \union {"add"}
      /\ mem' = mem /\ name' = name /\ md_tbl' = md_tbl /\ q_tbl' = q_tbl
      /\ del_queue' = del_queue /\ data_queue' = data_queue /\ distr_queue' = distr_queue
      /\ known' = known /\ reports' = reports /\ asked' = asked /\ got' = got /\ prog' = prog
  BY DEF M!Offer, M!Idle, M!thread, M!tables, M!queues, M!counts
<1>2. sock \in [Conn -> M!Socket] /\ sock' \in [Conn -> M!Socket]
  BY <1>1 DEF MonInv, M!TypeOK, M!Socket
<1>3. \A d \in Conn : sock'[d] = IF d = c THEN "offered" ELSE sock[d]
  BY <1>1, <1>2
<1>4. M!TypeOK'
  BY <1>1, <1>2, <1>3 DEF MonInv, M!TypeOK
<1>5. NotYet' /\ NoLoopYet'
  BY <1>1, <1>3 DEF MonInv, NotYet, NoLoopYet
<1>6. Asked' /\ M!OnlyItsSource' /\ Reported' /\ CallbackInLoop' /\ M!Awake' /\ M!CrashExcused'
  BY <1>1 DEF MonInv, Asked, M!OnlyItsSource, Reported, CallbackInLoop, M!Awake, M!CrashExcused
<1>7. M!Subscribed' /\ M!DeletedOnce'
  BY <1>1, <1>3 DEF MonInv, M!Subscribed, M!DeletedOnce
<1> QED BY <1>4, <1>5, <1>6, <1>7 DEF MonInv

\* on_add_monitor: a structure that asked for nothing yet.
LEMMA AcceptStep ==
  ASSUME M!MonitorNames, MonInv, prog = "runs", NEW c \in Conn, M!Accept(c)
  PROVE  MonInv'
<1>1. /\ loop = "up" /\ sock[c] = "offered" /\ sock' = [sock EXCEPT ![c] = "open"]
      /\ mem' = [mem EXCEPT ![c] = "live"]
      /\ loop' = loop /\ cb' = cb /\ sig' = sig \ {"add"}
      /\ name' = name /\ md_tbl' = md_tbl /\ q_tbl' = q_tbl
      /\ del_queue' = del_queue /\ data_queue' = data_queue /\ distr_queue' = distr_queue
      /\ known' = known /\ reports' = reports /\ asked' = asked /\ got' = got /\ prog' = prog
  BY DEF M!Accept, M!Idle, M!thread, M!tables, M!queues, M!counts
<1>2. /\ sock \in [Conn -> M!Socket] /\ sock' \in [Conn -> M!Socket]
      /\ mem \in [Conn -> {"none", "live", "freed"}] /\ mem' \in [Conn -> {"none", "live", "freed"}]
  BY <1>1 DEF MonInv, M!TypeOK, M!Socket
<1>3. \A d \in Conn : /\ sock'[d] = IF d = c THEN "open" ELSE sock[d]
                      /\ mem'[d] = IF d = c THEN "live" ELSE mem[d]
  BY <1>1, <1>2
<1>4. mem[c] = "none" /\ name[c] = "unnamed" /\ "unnamed" \notin Source
  BY <1>1 DEF MonInv, NotYet, M!MonitorNames
<1>5. M!TypeOK'
  BY <1>1, <1>2, <1>3 DEF MonInv, M!TypeOK
<1>6. NotYet' /\ NoLoopYet'
  <2>1. NotYet'
    BY <1>1, <1>3 DEF MonInv, NotYet
  <2>2. NoLoopYet'
    BY <1>1 DEF NoLoopYet
  <2> QED BY <2>1, <2>2
<1>7. Asked'
  <2> SUFFICES ASSUME NEW i \in DOMAIN distr_queue PROVE mem'[distr_queue[i]] # "none"
    BY <1>1 DEF Asked
  <2>1. distr_queue \in Seq(Conn) /\ mem[distr_queue[i]] # "none"
    BY DEF MonInv, M!TypeOK, Asked
  <2>2. distr_queue[i] \in Conn
    BY <2>1
  <2> QED BY <1>3, <2>1, <2>2
<1>8. M!OnlyItsSource' /\ Reported' /\ CallbackInLoop' /\ M!Awake' /\ M!CrashExcused'
  BY <1>1 DEF MonInv, M!OnlyItsSource, Reported, CallbackInLoop, M!Awake, M!CrashExcused
<1>9. M!Subscribed'
  <2> SUFFICES ASSUME NEW s \in Source, NEW d \in Conn
               PROVE  d \in md_tbl[s] <=> mem'[d] = "live" /\ name[d] = s
    BY <1>1 DEF M!Subscribed
  <2>1. d \in md_tbl[s] <=> mem[d] = "live" /\ name[d] = s
    BY <1>1 DEF MonInv, M!Subscribed
  <2>2. CASE d = c
    BY <1>4, <2>1, <2>2
  <2>3. CASE d # c
    BY <1>3, <2>1, <2>3
  <2> QED BY <2>2, <2>3
<1>10. M!DeletedOnce'
  BY <1>1, <1>3 DEF MonInv, M!DeletedOnce
<1> QED BY <1>5, <1>6, <1>7, <1>8, <1>9, <1>10 DEF MonInv

\* A connection ends: it is not in the queue of deletions yet.
LEMMA EndStep == ASSUME MonInv, prog = "runs", NEW c \in Conn, M!End(c) PROVE MonInv'
<1>1. /\ loop = "up" /\ sock[c] = "open" /\ sock' = [sock EXCEPT ![c] = "ended"]
      /\ del_queue' = Append(del_queue, c) /\ sig' = sig \union {"del"}
      /\ loop' = loop /\ cb' = cb
      /\ mem' = mem /\ name' = name /\ md_tbl' = md_tbl /\ q_tbl' = q_tbl
      /\ data_queue' = data_queue /\ distr_queue' = distr_queue
      /\ known' = known /\ reports' = reports /\ asked' = asked /\ got' = got /\ prog' = prog
  BY DEF M!End, M!Idle, M!thread, M!tables, M!counts
<1>2. sock \in [Conn -> M!Socket] /\ sock' \in [Conn -> M!Socket] /\ del_queue \in Seq(Conn)
  BY <1>1 DEF MonInv, M!TypeOK, M!Socket
<1>3. \A d \in Conn : sock'[d] = IF d = c THEN "ended" ELSE sock[d]
  BY <1>1, <1>2
<1>4. M!TypeOK'
  <2>1. del_queue' \in Seq(Conn) /\ sig' \subseteq {"add", "del", "data", "distr", "close"}
    BY <1>1, <1>2 DEF MonInv, M!TypeOK
  <2>2. \A d \in Conn : mem'[d] = "live" <=> sock'[d] \in {"open", "ended"}
    BY <1>1, <1>3 DEF MonInv, M!TypeOK
  <2> QED BY <1>1, <1>2, <2>1, <2>2 DEF MonInv, M!TypeOK
<1>5. NotYet' /\ NoLoopYet'
  <2>1. NotYet'
    BY <1>1, <1>3 DEF MonInv, NotYet
  <2>2. NoLoopYet'
    BY <1>1 DEF NoLoopYet
  <2> QED BY <2>1, <2>2
<1>6. Asked' /\ M!OnlyItsSource' /\ Reported' /\ CallbackInLoop' /\ M!Awake' /\ M!CrashExcused'
  BY <1>1 DEF MonInv, Asked, M!OnlyItsSource, Reported, CallbackInLoop, M!Awake, M!CrashExcused
<1>7. M!Subscribed'
  BY <1>1 DEF MonInv, M!Subscribed
<1>8. M!DeletedOnce'
  <2>1. /\ \A i, j \in DOMAIN del_queue : del_queue[i] = del_queue[j] => i = j
        /\ \A d \in Conn : (\E i \in DOMAIN del_queue : del_queue[i] = d) <=> sock[d] = "ended"
    BY <1>1 DEF MonInv, M!DeletedOnce
  <2>2. \A i \in DOMAIN del_queue : del_queue[i] # c
    BY <1>1, <2>1
  <2>3. /\ \A i, j \in DOMAIN Append(del_queue, c) :
             Append(del_queue, c)[i] = Append(del_queue, c)[j] => i = j
        /\ \A d \in Conn : (\E i \in DOMAIN Append(del_queue, c) : Append(del_queue, c)[i] = d)
                             <=> d = c \/ \E i \in DOMAIN del_queue : del_queue[i] = d
    BY <1>2, <2>1, <2>2, AppendOnce
  <2>4. \A d \in Conn : (\E i \in DOMAIN del_queue' : del_queue'[i] = d) <=> sock'[d] = "ended"
    BY <1>1, <1>3, <2>1, <2>3
  <2> QED BY <1>1, <2>3, <2>4 DEF M!DeletedOnce
<1> QED BY <1>4, <1>5, <1>6, <1>7, <1>8 DEF MonInv

\* monitor_src_updconn: the copy is in the table of the name it asked for, and its
\* results start anew if that is another one.
LEMMA ReadSourceStep ==
  ASSUME MonInv, prog = "runs", NEW c \in Conn, NEW s \in Source, M!ReadSource(c, s)
  PROVE  MonInv'
<1>1. /\ loop = "up" /\ sock[c] = "open" /\ q_tbl' = q_tbl \union {s} /\ M!Subscribe(c, s)
      /\ loop' = loop /\ cb' = cb /\ sig' = sig /\ sock' = sock /\ mem' = mem
      /\ del_queue' = del_queue /\ data_queue' = data_queue /\ distr_queue' = distr_queue
      /\ known' = known /\ reports' = reports /\ asked' = asked /\ prog' = prog
  BY DEF M!ReadSource, M!Idle, M!thread, M!queues, M!counts
<1>2. /\ md_tbl \in [Source -> SUBSET Conn] /\ name \in [Conn -> Source \union {"unnamed"}]
      /\ got \in [Conn -> SUBSET (Source \union {"gone"})]
      /\ mem[c] = "live"
  BY <1>1 DEF MonInv, M!TypeOK
<1>3. /\ md_tbl' \in [Source -> SUBSET Conn]
      /\ \A t \in Source : md_tbl'[t] = IF t = s THEN md_tbl[t] \union {c}
                                        ELSE IF t = name[c] THEN md_tbl[t] \ {c} ELSE md_tbl[t]
  BY <1>1, <1>2 DEF M!Subscribe
<1>4. /\ name' \in [Conn -> Source \union {"unnamed"}]
      /\ \A d \in Conn : name'[d] = IF d = c THEN s ELSE name[d]
  BY <1>1, <1>2 DEF M!Subscribe
<1>5. /\ got' \in [Conn -> SUBSET (Source \union {"gone"})]
      /\ \A d \in Conn : got'[d] = IF d = c /\ s # name[c] THEN {} ELSE got[d]
  BY <1>1, <1>2 DEF M!Subscribe
<1>6. M!TypeOK'
  BY <1>1, <1>3, <1>4, <1>5 DEF MonInv, M!TypeOK
<1>7. NotYet' /\ NoLoopYet'
  <2>1. NotYet'
    BY <1>1, <1>4 DEF MonInv, NotYet
  <2>2. NoLoopYet'
    BY <1>1 DEF NoLoopYet
  <2> QED BY <2>1, <2>2
<1>8. Asked' /\ Reported' /\ CallbackInLoop' /\ M!Awake' /\ M!CrashExcused' /\ M!DeletedOnce'
  BY <1>1 DEF MonInv, Asked, Reported, CallbackInLoop, M!Awake, M!CrashExcused, M!DeletedOnce
<1>9. M!OnlyItsSource'
  <2> SUFFICES ASSUME NEW d \in Conn PROVE got'[d] \subseteq {name'[d]}
    BY DEF M!OnlyItsSource
  <2>1. got[d] \subseteq {name[d]}
    BY DEF MonInv, M!OnlyItsSource
  <2> QED BY <1>4, <1>5, <2>1
<1>10. M!Subscribed'
  <2> SUFFICES ASSUME NEW t \in Source, NEW d \in Conn
               PROVE  d \in md_tbl'[t] <=> mem[d] = "live" /\ name'[d] = t
    BY <1>1 DEF M!Subscribed
  <2>1. d \in md_tbl[t] <=> mem[d] = "live" /\ name[d] = t
    BY <1>1 DEF MonInv, M!Subscribed
  <2>2. CASE d = c
    BY <1>2, <1>3, <1>4, <2>1, <2>2
  <2>3. CASE d # c
    BY <1>3, <1>4, <2>1, <2>3
  <2> QED BY <2>2, <2>3
<1> QED BY <1>6, <1>7, <1>8, <1>9, <1>10 DEF MonInv

\* monitor_bsta_distr.
LEMMA ReadProvinceStep ==
  ASSUME M!MonitorNames, MonInv, prog = "runs", NEW c \in Conn, M!ReadProvince(c)
  PROVE  MonInv'
<1>1. /\ loop = "up" /\ sock[c] = "open" /\ asked < MaxAsk /\ asked' = asked + 1
      /\ distr_queue' = Append(distr_queue, c) /\ sig' = sig \union {"distr"}
      /\ loop' = loop /\ cb' = cb /\ sock' = sock /\ mem' = mem /\ name' = name
      /\ md_tbl' = md_tbl /\ q_tbl' = q_tbl
      /\ del_queue' = del_queue /\ data_queue' = data_queue
      /\ known' = known /\ reports' = reports /\ got' = got /\ prog' = prog
  BY DEF M!ReadProvince, M!Idle, M!thread, M!conns, M!tables
<1>2. distr_queue \in Seq(Conn) /\ mem[c] = "live" /\ asked \in 0 .. MaxAsk
  BY <1>1 DEF MonInv, M!TypeOK
<1>3. asked' \in 0 .. MaxAsk
  BY <1>1, <1>2 DEF M!MonitorNames
<1>4. M!TypeOK'
  BY <1>1, <1>2, <1>3 DEF MonInv, M!TypeOK
<1>5. NotYet' /\ NoLoopYet'
  BY <1>1 DEF MonInv, NotYet, NoLoopYet
<1>6. Asked'
  <2> SUFFICES ASSUME NEW i \in DOMAIN distr_queue' PROVE mem[distr_queue'[i]] # "none"
    BY <1>1 DEF Asked
  <2>1. CASE i \in DOMAIN distr_queue
    BY <1>1, <1>2, <2>1 DEF MonInv, Asked
  <2>2. CASE i \notin DOMAIN distr_queue
    <3>1. distr_queue'[i] = c
      BY <1>1, <1>2, <2>2
    <3> QED BY <1>2, <3>1
  <2> QED BY <2>1, <2>2
<1>7. Reported' /\ CallbackInLoop' /\ M!Awake' /\ M!CrashExcused' /\ M!DeletedOnce'
  BY <1>1 DEF MonInv, Reported, CallbackInLoop, M!Awake, M!CrashExcused, M!DeletedOnce
<1>8. M!Subscribed' /\ M!OnlyItsSource'
  BY <1>1 DEF MonInv, M!Subscribed, M!OnlyItsSource
<1> QED BY <1>4, <1>5, <1>6, <1>7, <1>8 DEF MonInv

\* A source comes.
LEMMA RegisterStep ==
  ASSUME MonInv, prog = "runs", NEW s \in Source, M!Register(s)
  PROVE  MonInv'
<1>1. /\ known' = known \union {s} /\ sig' = sig /\ loop' = loop /\ cb' = cb
      /\ UNCHANGED <<M!conns, M!tables, got, del_queue, distr_queue>>
      /\ data_queue' = data_queue /\ reports' = reports /\ asked' = asked /\ prog' = prog
  BY DEF M!Register, M!thread, M!queues, M!counts
<1>2. ConnPart'
  BY <1>1, ConnUnchanged
<1>3. M!TypeOK' /\ LoopPart' /\ M!CrashExcused'
  BY <1>1 DEF MonInv, M!TypeOK, LoopPart, CallbackInLoop, Reported, M!Awake, M!CrashExcused, M!conns, M!tables
<1> QED BY <1>2, <1>3 DEF MonInv, LoopPart, ConnPart

\* A source goes: the results that wait lead nowhere.
LEMMA UnregisterStep ==
  ASSUME MonInv, prog = "runs", NEW s \in Source, M!Unregister(s)
  PROVE  MonInv'
<1>1. /\ known' = known \ {s} /\ sig' = sig /\ loop' = loop /\ cb' = cb
      /\ UNCHANGED <<M!conns, M!tables, got, del_queue, distr_queue>>
      /\ data_queue' = [i \in DOMAIN data_queue |->
                          IF data_queue[i] = s THEN "gone" ELSE data_queue[i]]
      /\ reports' = reports /\ asked' = asked /\ prog' = prog
  BY DEF M!Unregister, M!thread, M!counts
<1>2. data_queue \in Seq(Source \union {"gone"})
  BY DEF MonInv, M!TypeOK
<1>3. /\ data_queue' \in Seq(Source \union {"gone"})
      /\ data_queue = <<>> => data_queue' = <<>>
  <2>1. /\ Len(data_queue) \in Nat /\ DOMAIN data_queue = 1 .. Len(data_queue)
        /\ \A i \in DOMAIN data_queue : data_queue[i] \in Source \union {"gone"}
    BY <1>2
  <2>2. data_queue' \in [1 .. Len(data_queue) -> Source \union {"gone"}]
    BY <1>1, <2>1
  <2> QED BY <2>1, <2>2
<1>4. ConnPart'
  BY <1>1, <1>3, ConnUnchanged DEF MonInv, NoLoopYet
<1>5. M!TypeOK' /\ LoopPart' /\ M!CrashExcused'
  BY <1>1, <1>3 DEF MonInv, M!TypeOK, LoopPart, CallbackInLoop, Reported, M!Awake, M!CrashExcused, M!conns, M!tables
<1> QED BY <1>4, <1>5 DEF MonInv, LoopPart, ConnPart

\* cors_monitor_src, or the crash where there is no loop.
LEMMA ReportStep ==
  ASSUME M!MonitorNames, MonInv, prog = "runs", NEW s \in Source, M!Report(s)
  PROVE  MonInv'
<1>1. /\ loop \in {"off", "up", "failed"} /\ reports < MaxReport /\ reports' = reports + 1
      /\ UNCHANGED <<M!conns, M!tables, got, del_queue, distr_queue>>
      /\ loop' = loop /\ cb' = cb /\ known' = known /\ asked' = asked
  BY DEF M!Report, M!thread
<1>2. reports \in 0 .. MaxReport /\ MaxReport \in Nat /\ data_queue \in Seq(Source \union {"gone"})
  BY DEF MonInv, M!TypeOK, M!MonitorNames
<1>3. reports' \in 0 .. MaxReport /\ reports' > 0
  BY <1>1, <1>2
<1>4. CASE loop = "up"
  <2>1. /\ data_queue' = Append(data_queue, s) /\ sig' = sig \union {"data"} /\ prog' = prog
    BY <1>4 DEF M!Report
  <2>2. data_queue' \in Seq(Source \union {"gone"})
    BY <1>2, <2>1
  <2>3. ConnPart'
    BY <1>1, <1>4, ConnUnchanged
  <2>4. M!TypeOK'
    BY <1>1, <1>3, <2>1, <2>2 DEF MonInv, M!TypeOK, M!conns, M!tables
  <2>5. LoopPart' /\ M!CrashExcused'
    BY <1>1, <1>3, <2>1 DEF MonInv, LoopPart, CallbackInLoop, Reported, M!Awake, M!CrashExcused
  <2> QED BY <2>3, <2>4, <2>5 DEF MonInv, LoopPart, ConnPart
<1>5. CASE loop # "up"
  <2>1. data_queue' = data_queue /\ sig' = sig /\ prog' = "crashed"
    BY <1>5 DEF M!Report
  <2>2. ConnPart'
    BY <1>1, <2>1, ConnUnchanged
  <2>3. M!TypeOK'
    BY <1>1, <1>3, <2>1 DEF MonInv, M!TypeOK, M!conns, M!tables
  <2>4. LoopPart' /\ M!CrashExcused'
    BY <1>1, <1>3, <1>5, <2>1 DEF MonInv, LoopPart, CallbackInLoop, Reported, M!Awake, M!CrashExcused
  <2> QED BY <2>2, <2>3, <2>4 DEF MonInv, LoopPart, ConnPart
<1> QED BY <1>4, <1>5

\* A callback starts.
LEMMA DrainStep ==
  ASSUME MonInv, prog = "runs", NEW q \in {"del", "data", "distr"}, M!Drain(q)
  PROVE  MonInv'
<1>1. /\ loop = "up" /\ cb = "none" /\ cb' = q /\ sig' = sig \ {q} /\ loop' = loop
      /\ UNCHANGED <<M!conns, M!tables, got, del_queue, distr_queue>>
      /\ data_queue' = data_queue /\ reports' = reports /\ asked' = asked
      /\ known' = known /\ prog' = prog
  BY DEF M!Drain, M!Idle, M!queues, M!counts
<1>2. ConnPart'
  BY <1>1, ConnUnchanged
<1>3. M!TypeOK' /\ LoopPart' /\ M!CrashExcused'
  BY <1>1 DEF MonInv, M!TypeOK, LoopPart, CallbackInLoop, Reported, M!Awake, M!CrashExcused, M!conns, M!tables
<1> QED BY <1>2, <1>3 DEF MonInv, LoopPart, ConnPart

\* A callback ends: its queue is empty.
LEMMA DrainedStep ==
  ASSUME MonInv, prog = "runs",
         \/ M!Drained("del", del_queue) \/ M!Drained("data", data_queue)
         \/ M!Drained("distr", distr_queue)
  PROVE  MonInv'
<1>1. /\ loop = "up" /\ cb' = "none" /\ sig' = sig /\ loop' = loop
      /\ UNCHANGED <<M!conns, M!tables, M!queues, got>>
      /\ reports' = reports /\ asked' = asked /\ known' = known /\ prog' = prog
      /\ \/ cb = "del" /\ del_queue = <<>>
         \/ cb = "data" /\ data_queue = <<>>
         \/ cb = "distr" /\ distr_queue = <<>>
  BY DEF M!Drained, M!counts
<1>2. ConnPart'
  BY <1>1, ConnUnchanged DEF M!queues
<1>3. M!TypeOK' /\ LoopPart' /\ M!CrashExcused'
  BY <1>1 DEF MonInv, M!TypeOK, LoopPart, CallbackInLoop, Reported, M!Awake, M!CrashExcused, M!conns, M!tables,
              M!queues
<1> QED BY <1>2, <1>3 DEF MonInv, LoopPart, ConnPart

\* do_delete_monitor_work: the structure is there, and nothing is left of it.
LEMMA DelTaskStep == ASSUME MonInv, prog = "runs", M!DelTask PROVE MonInv'
<1> DEFINE c == Head(del_queue)
<1>1. /\ cb = "del" /\ del_queue # <<>> /\ del_queue' = Tail(del_queue)
      /\ prog' = IF mem[c] = "live" THEN prog ELSE "crashed"
      /\ md_tbl' = [s \in Source |-> IF s = name[c] THEN md_tbl[s] \ {c} ELSE md_tbl[s]]
      /\ sock' = [sock EXCEPT ![c] = "closed"] /\ mem' = [mem EXCEPT ![c] = "freed"]
      /\ sig' = sig /\ loop' = loop /\ cb' = cb /\ name' = name /\ q_tbl' = q_tbl
      /\ data_queue' = data_queue /\ distr_queue' = distr_queue
      /\ known' = known /\ reports' = reports /\ asked' = asked /\ got' = got
  BY DEF M!DelTask, M!thread, M!counts
<1>2. loop = "up"
  BY <1>1 DEF MonInv, CallbackInLoop
<1>3. /\ sock \in [Conn -> M!Socket] /\ mem \in [Conn -> {"none", "live", "freed"}]
      /\ del_queue \in Seq(Conn) /\ md_tbl \in [Source -> SUBSET Conn]
  BY DEF MonInv, M!TypeOK
<1>4. /\ \A i, j \in DOMAIN del_queue : del_queue[i] = del_queue[j] => i = j
      /\ \A d \in Conn : (\E i \in DOMAIN del_queue : del_queue[i] = d) <=> sock[d] = "ended"
  BY <1>2 DEF MonInv, M!DeletedOnce
<1>5. /\ c \in Conn /\ sock[c] = "ended" /\ Tail(del_queue) \in Seq(Conn)
  <2>1. c \in Conn /\ Tail(del_queue) \in Seq(Conn) /\ 1 \in DOMAIN del_queue /\ del_queue[1] = c
    BY <1>1, <1>3
  <2> QED BY <1>4, <2>1
<1>6. mem[c] = "live" /\ prog' = prog
  BY <1>1, <1>2, <1>5 DEF MonInv, M!TypeOK
<1> HIDE DEF c
<1>7. /\ sock' \in [Conn -> M!Socket] /\ mem' \in [Conn -> {"none", "live", "freed"}]
      /\ md_tbl' \in [Source -> SUBSET Conn]
      /\ \A d \in Conn : /\ sock'[d] = IF d = c THEN "closed" ELSE sock[d]
                         /\ mem'[d] = IF d = c THEN "freed" ELSE mem[d]
      /\ \A s \in Source : md_tbl'[s] = IF s = name[c] THEN md_tbl[s] \ {c} ELSE md_tbl[s]
  BY <1>1, <1>3, <1>5 DEF M!Socket
<1>8. M!TypeOK'
  BY <1>1, <1>2, <1>5, <1>6, <1>7 DEF MonInv, M!TypeOK
<1>9. NotYet' /\ NoLoopYet'
  <2>1. NotYet'
    BY <1>1, <1>7 DEF MonInv, NotYet
  <2>2. NoLoopYet'
    BY <1>1, <1>2 DEF NoLoopYet
  <2> QED BY <2>1, <2>2
<1>10. Asked'
  <2> SUFFICES ASSUME NEW i \in DOMAIN distr_queue PROVE mem'[distr_queue[i]] # "none"
    BY <1>1 DEF Asked
  <2>1. distr_queue \in Seq(Conn) /\ mem[distr_queue[i]] # "none"
    BY DEF MonInv, M!TypeOK, Asked
  <2>2. distr_queue[i] \in Conn
    BY <2>1
  <2> QED BY <1>7, <2>1, <2>2
<1>11. Reported' /\ CallbackInLoop' /\ M!CrashExcused' /\ M!OnlyItsSource'
  BY <1>1, <1>6 DEF MonInv, Reported, CallbackInLoop, M!CrashExcused, M!OnlyItsSource
<1>12. M!Awake'
  BY <1>1 DEF MonInv, M!Awake
<1>13. M!Subscribed'
  <2> SUFFICES ASSUME NEW s \in Source, NEW d \in Conn
               PROVE  d \in md_tbl'[s] <=> mem'[d] = "live" /\ name[d] = s
    BY <1>1 DEF M!Subscribed
  <2>1. d \in md_tbl[s] <=> mem[d] = "live" /\ name[d] = s
    BY <1>2 DEF MonInv, M!Subscribed
  <2>2. CASE d = c
    BY <1>7, <2>1, <2>2
  <2>3. CASE d # c
    BY <1>7, <2>1, <2>3
  <2> QED BY <2>2, <2>3
<1>14. M!DeletedOnce'
  <2>1. /\ \A i, j \in DOMAIN Tail(del_queue) : Tail(del_queue)[i] = Tail(del_queue)[j] => i = j
        /\ \A d \in Conn : (\E i \in DOMAIN Tail(del_queue) : Tail(del_queue)[i] = d)
                             <=> d # c /\ \E i \in DOMAIN del_queue : del_queue[i] = d
    BY <1>1, <1>3, <1>4, TailOnce DEF c
  <2>2. \A d \in Conn : (\E i \in DOMAIN del_queue' : del_queue'[i] = d) <=> sock'[d] = "ended"
    BY <1>1, <1>4, <1>7, <2>1
  <2> QED BY <1>1, <2>1, <2>2 DEF M!DeletedOnce
<1> QED BY <1>8, <1>9, <1>10, <1>11, <1>12, <1>13, <1>14 DEF MonInv

\* do_monitor_pnt_work: no send fails, since whoever is in a table is connected.
LEMMA ReportTaskStep == ASSUME MonInv, prog = "runs", M!ReportTask PROVE MonInv'
<1> DEFINE s == Head(data_queue)
           to == IF s \in q_tbl THEN md_tbl[s] ELSE {}
           failed == {c \in to : sock[c] = "closed"}
<1>1. /\ cb = "data" /\ data_queue # <<>> /\ data_queue' = Tail(data_queue)
      /\ prog' = IF s = "gone" THEN "crashed" ELSE prog
      /\ got' = [c \in Conn |-> IF c \in to \ failed THEN got[c] \union {s} ELSE got[c]]
      /\ del_queue' = del_queue \o SetToSeq(failed)
      /\ sig' = IF failed = {} THEN sig ELSE sig \union {"del"}
      /\ loop' = loop /\ cb' = cb /\ sock' = sock /\ mem' = mem /\ name' = name
      /\ md_tbl' = md_tbl /\ q_tbl' = q_tbl /\ distr_queue' = distr_queue
      /\ known' = known /\ reports' = reports /\ asked' = asked
  <2>1. /\ cb = "data" /\ data_queue # <<>> /\ data_queue' = Tail(data_queue)
        /\ prog' = IF s = "gone" THEN "crashed" ELSE prog
    BY DEF M!ReportTask
  <2>2. got' = [c \in Conn |-> IF c \in to \ failed THEN got[c] \union {s} ELSE got[c]]
    BY DEF M!ReportTask
  <2>3. /\ del_queue' = del_queue \o SetToSeq(failed)
        /\ sig' = IF failed = {} THEN sig ELSE sig \union {"del"}
    <3>1. M!SetToSeq(failed) = SetToSeq(failed)
      BY Zenon DEF M!SetToSeq, SetToSeq, M!IsInjective, IsInjective, M!Cardinality, Cardinality
    <3> QED BY <3>1 DEF M!ReportTask
  <2>4. /\ loop' = loop /\ cb' = cb /\ sock' = sock /\ mem' = mem /\ name' = name
        /\ md_tbl' = md_tbl /\ q_tbl' = q_tbl /\ distr_queue' = distr_queue
        /\ known' = known /\ reports' = reports /\ asked' = asked
    BY DEF M!ReportTask, M!thread, M!conns, M!tables, M!counts
  <2> QED BY <2>1, <2>2, <2>3, <2>4
<1>2. loop = "up" /\ reports > 0
  BY <1>1 DEF MonInv, CallbackInLoop, Reported
<1>3. /\ data_queue \in Seq(Source \union {"gone"}) /\ del_queue \in Seq(Conn)
      /\ q_tbl \subseteq Source /\ md_tbl \in [Source -> SUBSET Conn]
      /\ got \in [Conn -> SUBSET (Source \union {"gone"})]
  BY DEF MonInv, M!TypeOK
<1>4. s \in Source \union {"gone"} /\ Tail(data_queue) \in Seq(Source \union {"gone"})
  BY <1>1, <1>3
<1> HIDE DEF s
<1>5. /\ to \subseteq Conn
      /\ \A c \in to : s \in Source /\ c \in md_tbl[s] /\ mem[c] = "live" /\ name[c] = s
  BY <1>2, <1>3 DEF MonInv, M!Subscribed
<1>6. failed = {}
  BY <1>2, <1>5 DEF MonInv, M!TypeOK
<1> HIDE DEF to, failed
<1>7. del_queue' = del_queue /\ sig' = sig
  <2>1. SetToSeq(failed) = <<>>
    BY <1>6, NothingToSeq
  <2> QED BY <1>1, <1>3, <1>6, <2>1
<1>8. /\ got' \in [Conn -> SUBSET (Source \union {"gone"})]
      /\ \A c \in Conn : got'[c] = IF c \in to THEN got[c] \union {s} ELSE got[c]
  BY <1>1, <1>3, <1>4, <1>6
<1>9. M!TypeOK'
  BY <1>1, <1>4, <1>7, <1>8 DEF MonInv, M!TypeOK
<1>10. NotYet' /\ NoLoopYet' /\ Asked' /\ CallbackInLoop'
  BY <1>1, <1>2 DEF MonInv, NotYet, NoLoopYet, Asked, CallbackInLoop
<1>11. Reported' /\ M!Awake' /\ M!CrashExcused'
  BY <1>1, <1>2, <1>7 DEF MonInv, Reported, M!Awake, M!CrashExcused
<1>12. M!Subscribed' /\ M!DeletedOnce'
  BY <1>1, <1>2, <1>7 DEF MonInv, M!Subscribed, M!DeletedOnce
<1>13. M!OnlyItsSource'
  <2> SUFFICES ASSUME NEW c \in Conn PROVE got'[c] \subseteq {name[c]}
    BY <1>1 DEF M!OnlyItsSource
  <2>1. got[c] \subseteq {name[c]}
    BY DEF MonInv, M!OnlyItsSource
  <2> QED BY <1>5, <1>8, <2>1
<1> QED BY <1>9, <1>10, <1>11, <1>12, <1>13 DEF MonInv

\* monitor_bsta_distr_moni.
LEMMA DistrTaskStep == ASSUME MonInv, prog = "runs", M!DistrTask PROVE MonInv'
<1>1. /\ cb = "distr" /\ distr_queue # <<>> /\ distr_queue' = Tail(distr_queue)
      /\ prog' = IF mem[Head(distr_queue)] = "live" THEN prog ELSE "crashed"
      /\ loop' = loop /\ cb' = cb /\ sig' = sig /\ sock' = sock /\ mem' = mem /\ name' = name
      /\ md_tbl' = md_tbl /\ q_tbl' = q_tbl /\ del_queue' = del_queue /\ data_queue' = data_queue
      /\ known' = known /\ reports' = reports /\ asked' = asked /\ got' = got
  BY DEF M!DistrTask, M!thread, M!conns, M!tables, M!counts
<1>2. /\ loop = "up" /\ distr_queue \in Seq(Conn) /\ Tail(distr_queue) \in Seq(Conn)
      /\ Head(distr_queue) \in Conn /\ 1 \in DOMAIN distr_queue /\ distr_queue[1] = Head(distr_queue)
      /\ \A i \in DOMAIN Tail(distr_queue) :
           i + 1 \in DOMAIN distr_queue /\ Tail(distr_queue)[i] = distr_queue[i + 1]
  BY <1>1 DEF MonInv, CallbackInLoop, M!TypeOK
<1>3. M!TypeOK'
  BY <1>1, <1>2 DEF MonInv, M!TypeOK
<1>4. Asked'
  BY <1>1, <1>2 DEF MonInv, Asked
<1>5. NotYet' /\ NoLoopYet' /\ CallbackInLoop' /\ Reported' /\ M!Awake'
  BY <1>1, <1>2 DEF MonInv, NotYet, NoLoopYet, CallbackInLoop, Reported, M!Awake
<1>6. M!Subscribed' /\ M!OnlyItsSource' /\ M!DeletedOnce'
  BY <1>1 DEF MonInv, M!Subscribed, M!OnlyItsSource, M!DeletedOnce
<1>7. M!CrashExcused'
  <2> SUFFICES ASSUME mem[Head(distr_queue)] # "live" PROVE \E c \in Conn : mem[c] = "freed"
    BY <1>1 DEF MonInv, M!CrashExcused
  <2>1. mem[Head(distr_queue)] # "none"
    BY <1>2 DEF MonInv, Asked
  <2> QED BY <1>2, <2>1 DEF MonInv, M!TypeOK
<1> QED BY <1>3, <1>4, <1>5, <1>6, <1>7 DEF MonInv

\* cors_monitor_close.
LEMMA CloseStep == ASSUME MonInv, prog = "runs", M!Close PROVE MonInv'
<1>1. /\ loop \in {"off", "up", "failed"} /\ sig' = sig \union {"close"}
      /\ prog' = IF loop = "up" THEN prog ELSE "crashed"
      /\ loop' = loop /\ cb' = cb /\ UNCHANGED <<M!conns, M!tables, got, del_queue, distr_queue>>
      /\ data_queue' = data_queue /\ known' = known /\ reports' = reports /\ asked' = asked
  BY DEF M!Close, M!thread, M!queues, M!counts
<1>2. ConnPart'
  BY <1>1, ConnUnchanged
<1>3. M!TypeOK' /\ LoopPart' /\ M!CrashExcused'
  BY <1>1 DEF MonInv, M!TypeOK, LoopPart, CallbackInLoop, Reported, M!Awake, M!CrashExcused, M!conns, M!tables
<1> QED BY <1>2, <1>3 DEF MonInv, LoopPart, ConnPart

\* The loop ends and every socket with it.
LEMMA EndLoopStep == ASSUME MonInv, prog = "runs", M!EndLoop PROVE MonInv'
<1>1. /\ loop' = "ended" /\ cb = "none"
      /\ sock' = [c \in Conn |-> IF sock[c] \in {"open", "ended"} THEN "closed" ELSE sock[c]]
      /\ sig' = sig /\ cb' = cb /\ mem' = mem /\ name' = name /\ md_tbl' = md_tbl /\ q_tbl' = q_tbl
      /\ del_queue' = del_queue /\ data_queue' = data_queue /\ distr_queue' = distr_queue
      /\ known' = known /\ reports' = reports /\ asked' = asked /\ got' = got /\ prog' = prog
  BY DEF M!EndLoop, M!Idle, M!tables, M!queues, M!counts
<1>2. /\ sock' \in [Conn -> M!Socket]
      /\ \A c \in Conn : sock'[c] = IF sock[c] \in {"open", "ended"} THEN "closed" ELSE sock[c]
  BY <1>1 DEF MonInv, M!TypeOK, M!Socket
<1>3. M!TypeOK'
  BY <1>1, <1>2 DEF MonInv, M!TypeOK
<1>4. NotYet'
  BY <1>1, <1>2 DEF MonInv, NotYet
<1>5. NoLoopYet' /\ M!Awake' /\ M!Subscribed' /\ M!DeletedOnce'
  BY <1>1 DEF NoLoopYet, M!Awake, M!Subscribed, M!DeletedOnce
<1>6. Asked' /\ M!OnlyItsSource' /\ Reported' /\ CallbackInLoop' /\ M!CrashExcused'
  BY <1>1 DEF MonInv, Asked, M!OnlyItsSource, Reported, CallbackInLoop, M!CrashExcused
<1> QED BY <1>3, <1>4, <1>5, <1>6 DEF MonInv

\* What is left is freed.
LEMMA JoinedStep == ASSUME MonInv, prog = "runs", M!Joined PROVE MonInv'
<1>1. /\ loop = "ended" /\ loop' = "joined"
      /\ mem' = [c \in Conn |-> IF mem[c] = "live" THEN "freed" ELSE mem[c]]
      /\ q_tbl' = {} /\ md_tbl' = [s \in Source |-> {}]
      /\ sig' = sig /\ cb' = cb /\ sock' = sock /\ name' = name
      /\ del_queue' = del_queue /\ data_queue' = data_queue /\ distr_queue' = distr_queue
      /\ known' = known /\ reports' = reports /\ asked' = asked /\ got' = got /\ prog' = prog
  BY DEF M!Joined, M!queues, M!counts
<1>2. /\ mem' \in [Conn -> {"none", "live", "freed"}]
      /\ \A c \in Conn : mem'[c] = IF mem[c] = "live" THEN "freed" ELSE mem[c]
  BY <1>1 DEF MonInv, M!TypeOK
<1>3. M!TypeOK'
  BY <1>1, <1>2 DEF MonInv, M!TypeOK
<1>4. NotYet'
  BY <1>1, <1>2 DEF MonInv, NotYet
<1>5. Asked'
  <2> SUFFICES ASSUME NEW i \in DOMAIN distr_queue PROVE mem'[distr_queue[i]] # "none"
    BY <1>1 DEF Asked
  <2>1. distr_queue \in Seq(Conn) /\ mem[distr_queue[i]] # "none"
    BY DEF MonInv, M!TypeOK, Asked
  <2>2. distr_queue[i] \in Conn
    BY <2>1
  <2> QED BY <1>2, <2>1, <2>2
<1>6. NoLoopYet' /\ M!Awake' /\ M!Subscribed' /\ M!DeletedOnce'
  BY <1>1 DEF NoLoopYet, M!Awake, M!Subscribed, M!DeletedOnce
<1>7. cb = "none"
  BY <1>1 DEF MonInv, CallbackInLoop
<1>8. M!OnlyItsSource' /\ Reported' /\ CallbackInLoop' /\ M!CrashExcused'
  BY <1>1, <1>7 DEF MonInv, M!OnlyItsSource, Reported, CallbackInLoop, M!CrashExcused
<1> QED BY <1>3, <1>4, <1>5, <1>6, <1>8 DEF MonInv

\* The program does nothing.
LEMMA StutterStep == ASSUME MonInv, UNCHANGED M!vars PROVE MonInv'
<1>1. /\ loop' = loop /\ cb' = cb /\ sig' = sig /\ sock' = sock /\ mem' = mem /\ name' = name
      /\ md_tbl' = md_tbl /\ q_tbl' = q_tbl
      /\ del_queue' = del_queue /\ data_queue' = data_queue /\ distr_queue' = distr_queue
      /\ known' = known /\ reports' = reports /\ asked' = asked /\ got' = got /\ prog' = prog
  BY DEF M!vars, M!thread, M!conns, M!tables, M!queues, M!counts
<1>2. M!TypeOK' /\ NotYet' /\ NoLoopYet' /\ Asked' /\ Reported' /\ CallbackInLoop'
  BY <1>1 DEF MonInv, M!TypeOK, NotYet, NoLoopYet, Asked, Reported, CallbackInLoop
<1>3. M!Subscribed' /\ M!OnlyItsSource' /\ M!DeletedOnce' /\ M!Awake' /\ M!CrashExcused'
  BY <1>1 DEF MonInv, M!Subscribed, M!OnlyItsSource, M!DeletedOnce, M!Awake, M!CrashExcused
<1> QED BY <1>2, <1>3 DEF MonInv

\* The invariant of the module.
THEOREM MonitorInductive == M!MonitorNames => (M!Spec => []MonInv)
<1> SUFFICES ASSUME M!MonitorNames PROVE M!Spec => []MonInv
  OBVIOUS
<1>1. M!Init => MonInv
  BY InitMonInv
<1>2. MonInv /\ [M!Next]_M!vars => MonInv'
  <2> SUFFICES ASSUME MonInv, [M!Next]_M!vars PROVE MonInv'
    OBVIOUS
  <2>1. CASE UNCHANGED M!vars
    BY <2>1, StutterStep
  <2>2. CASE M!Next
    <3>1. prog = "runs"
      BY <2>2 DEF M!Next
    <3>2. CASE M!Boot \/ M!Close \/ M!EndLoop \/ M!Joined
      BY <3>1, <3>2, BootStep, CloseStep, EndLoopStep, JoinedStep
    <3>3. CASE M!Drain("del") \/ M!Drain("data") \/ M!Drain("distr")
      BY <3>1, <3>3, DrainStep
    <3>4. CASE M!Drained("del", del_queue) \/ M!Drained("data", data_queue) \/ M!Drained("distr", distr_queue)
      BY <3>1, <3>4, DrainedStep
    <3>5. CASE M!DelTask \/ M!ReportTask \/ M!DistrTask
      BY <3>1, <3>5, DelTaskStep, ReportTaskStep, DistrTaskStep
    <3>6. ASSUME NEW c \in Conn, M!Arrive(c) \/ M!Offer(c) \/ M!Accept(c) \/ M!End(c) \/ M!ReadProvince(c)
          PROVE  MonInv'
      BY <3>1, <3>6, ArriveStep, OfferStep, AcceptStep, EndStep, ReadProvinceStep
    <3>7. ASSUME NEW c \in Conn, NEW s \in Source, M!ReadSource(c, s) PROVE MonInv'
      BY <3>1, <3>7, ReadSourceStep
    <3>8. ASSUME NEW s \in Source, M!Register(s) \/ M!Unregister(s) \/ M!Report(s) PROVE MonInv'
      BY <3>1, <3>8, RegisterStep, UnregisterStep, ReportStep
    <3> QED BY <2>2, <3>2, <3>3, <3>4, <3>5, <3>6, <3>7, <3>8 DEF M!Next
  <2> QED BY <2>1, <2>2
<1> QED BY <1>1, <1>2, PTL DEF M!Spec

-----------------------------------------------------------------------------
(* What follows.                                                           *)

\* The tables have the connections that are there, under the name they asked for
\* last, and each gets results of that source only (monitor_src.c:110-138, :184).
THEOREM ResultsGoWhereAsked == M!MonitorNames => (M!Spec => [](M!Subscribed /\ M!OnlyItsSource))
<1> SUFFICES ASSUME M!MonitorNames PROVE M!Spec => [](M!Subscribed /\ M!OnlyItsSource)
  OBVIOUS
<1>1. MonInv => M!Subscribed /\ M!OnlyItsSource
  BY DEF MonInv
<1> QED BY <1>1, MonitorInductive, PTL

\* Connections that ended are deleted once, and no task is left without a signal
\* (monitor.c:85-97, :215).
THEOREM EndedAreDeletedOnce == M!MonitorNames => (M!Spec => [](M!DeletedOnce /\ M!Awake))
<1> SUFFICES ASSUME M!MonitorNames PROVE M!Spec => [](M!DeletedOnce /\ M!Awake)
  OBVIOUS
<1>1. MonInv => M!DeletedOnce /\ M!Awake
  BY DEF MonInv
<1> QED BY <1>1, MonitorInductive, PTL

\* Nothing but what CrashExcused names ends the program: the deletion of a
\* connection never finds it freed (monitor.c:89).
THEOREM MonitorCrashExcused == M!MonitorNames => (M!Spec => []M!CrashExcused)
<1> SUFFICES ASSUME M!MonitorNames PROVE M!Spec => []M!CrashExcused
  OBVIOUS
<1>1. MonInv => M!CrashExcused
  BY DEF MonInv
<1> QED BY <1>1, MonitorInductive, PTL

=============================================================================
