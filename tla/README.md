# A verification development for `cors`

`cors` is a server for GNSS reference networks: it reads RTCM streams of base
stations over NTRIP, keeps a Delaunay network of the stations, processes the
network's baselines with RTK, interpolates observations for virtual reference
stations (VRS) and serves them to rovers. Every part runs in one or more threads
of its own, on libuv event loops or in polling loops, and hands work to the
others through queues in shared memory. There is nothing persistent and no
distributed protocol; what is hard is threads that share tables without locks,
tasks that outlive what they point to, start-up and shutdown in the right order,
and redundant data structures under long sequences of updates.

This directory models that in TLA+, checks the models with TLC on small instances,
and proves the safety properties for all instances with TLAPS. Paths below are
relative to the repository's `src/` (the program's sources) unless they begin with
`lib/` or `include/`.

## 1. Inventory

| Part | Source | State | Operations and interactions | What is hard | What makes it correct |
|---|---|---|---|---|---|
| RTCM decoder | `rtcm/decoder.c` | `decode_queue`, `qlock`, `data_tbl` (a context per stream), two `uv_async_t`, `state` | `cors_rtcm_decode` from every caster thread queues a chunk and sends a wake-up; the decoder thread drains the queue; `cors_rtcm_decoder_close` from the main thread | wake-ups that are merged, emptiness read without the lock, close against late readers | no chunk lost, reordered or decoded twice; no context used after it is freed; close ends |
| RTCM 3 framing | `rtcm/rtcm.c` | `buff`, `nbyte`, `len` of a stream | `input_rtcm3x` under the loop of `do_rtcm_decode_work` | chunks may end anywhere | the frames do not depend on how the stream was cut; no copy past the buffer |
| Messages to epochs | `rtcm/rtcm3.c`, `rtcm/encoder.c` | `obs`, `obsflag`, `staid`, `time`, `lock` of a stream | a message of observations adds to the epoch, the last one closes it; the encoder takes an epoch apart | messages lost, times known modulo a week or a day, streams that change over | an epoch is whole, of one time and one station, and comes once; a slip is told |
| Task queue | `lib/queue/queue.h` | a ring of nodes | insert at the tail and remove the head under a lock, test without it | the pointer writes of an insertion seen half done | a FIFO; the sentinel is never taken for a task |
| Station network | `dtrignet/dtrignet.c` | vertices, edges, neighbour and edge lists, triangles with pointers to edges | add and delete a vertex or an edge, rebuild from a triangulation | four structures updated apart, differences reported by the way | the lists agree with the edges; nothing points to what went |
| NRTK thread | `nrtk/nrtk.c` | the network, the list of RTK engines, a queue for each kind of task | takes sources and baselines added and deleted, asks engines for baselines; synchronises subnets and triangles in time and updates VRS | a queue per kind loses the order between kinds; pointers to the engines' baselines | the engines process the network's edges; a subnet's epoch is handed on once, in order |
| RTK engine | `nrtk/srtk.c` | `bl_tbl`, three queues, `state`, `bl->on` and `bl->time` | two polling threads: one makes a task when both stations have an epoch, one solves it; baselines requested by the NRTK thread and the command line | observations overwritten while they are compared and copied; `bl->on` counted by two threads; baselines freed | epochs in order, none twice, none overlooked; one baseline for two stations |
| Facade and stores | `cors/cors.c` | observations, ephemerides (two generations), solutions of baselines, station data | `start_cors` (line 22) and `cors_close` (line 92) start and stop all threads; `cors_updobs`, `cors_updnav`, `updblsol` | stores without locks; closing a component before those that use it | the newest ephemeris is computed with; shutdown ends and frees last |
| NTRIP registry | `ntrip/ntrip.c` | `info_tbl` by name and by srcid, casters | add, delete, find a source; srcids count up | looked at when a request is made, changed when a caster comes to it | a name has one client, and both tables agree |
| NTRIP caster | `ntrip/ntripcaster.c` | `src_tbl`, add and delete queues | one event loop for many clients; forwards chunks to the decoder | name used after it was freed (lines 212, 217), additions and deletions on queues of their own | what was asked last of a name is what it comes to |
| NTRIP client | `ntrip/ntripclient.c` | socket, `state`, the timer of the position reports, the raw log file, the posted reconnection | connect, request, read, reconnect when a connection fails (`reconn_ntripcli`); there is no time-out | callbacks of closed handles, a deletion with something outstanding, a retry that fails at once | one connection at a time; one retry for each that breaks; data of an answered one only |
| NTRIP agent | `ntrip/ntripagent.c` | rover connections, copies of them in a table per mount point, users, queues of chunks and deletions | accept, authenticate, move a rover to the nearest station, send | a deletion task names an address that may be freed or used again | a rover is in the table of its mount point only, and gets its chunks in order |
| VRS | `vrs/vrs.c` | virtual stations, their triangle and master station, `vsta_list` of every master | add, delete and update virtual stations, generate observations | the network changes under them; updates wait with pointers | a virtual station is in the list of its master, a corner of its triangle |
| Monitor | `monitor/*.c` | connections, copies of them in a table per source, queues of deletions, results and questions | subscribe, report, answer, delete | a copy left behind; a report whose source went | a connection gets results of the source it asked for last, and is deleted once |
| Single point positioning | `pnt/pnt.c` | a queue | the decoder's hand-off by the same lines; results go to the monitor | as the decoder; its place in start and stop | as the decoder |
| Command engine | `engine/engine.c` | the global `cors`, `vt` | text commands, start and stop guards | a stop before the start is through | no start twice, no stop of what did not start |
| Algorithms | `gpos/*`, `common/*`, `rinex/*`, `rtcm/rtcm2.c`, `rtcm3e.c` | per baseline or stream | numeric | floating point | not for a model checker, but for the choice of ephemerides and the detection of slips |
| Vendored | `lib/libuv`, `lib/kdtree`, `lib/triangulator`, `lib/uthash`, `lib/draw` | | | | libuv's async wake-up is part of `RtcmDecoder`; triangulation is a constant |

`ci.c`, `mengine.c` and `mppp.c` are empty shells. `PROJECT.json` lists every
component with its status, and every hazard with its line and the properties that
would catch it.

## 2. Plan

Done, the most important first:

1. *The hand-off between threads*: `FifoChannel` (abstract), `RtcmDecoder` and
   `QueueRing`, both shown to implement it; `RtcmFramer`.
2. *The station network*: `Dtrignet`, `Nrtk`.
3. *The RTK engine*: `Srtk`.
4. *Network and engine together*: `NrtkSync`, which composes `Dtrignet` with an
   abstraction of `Srtk` and the thread between them.
5. *All threads together*: `Lifecycle`, the order of start and stop.
6. *Sources*: `NtripCaster` (registry and casters), `NtripClient`.
7. *Customers*: `NtripAgent`, `Vrs` (which composes `Dtrignet` with virtual stations),
   `Monitor`.
8. *What the streams say*: `RtcmObs` (epochs), `EphStore` (ephemerides), `SlipChain`
   (cycle slips).
9. *Proofs*: for every module the inductive invariant and, from it, every invariant and
   action property that its run checks; the steps of the two refinements of `FifoChannel`.

Left, in order of what it would add:

- several engines in `NrtkSync`, which start at `NTRK_MAX_BLS` (64) baselines;
- `NrtkSync` over `Srtk` itself, in place of the engine that solves a task in one step;
- the tables by srcid of the monitor (`monitor_rtcm.c`, `monitor_nav.c`).

## 3. The modules

### `FifoChannel`
The abstract promise of every hand-off queue: accepted tasks are processed one at a
time, in order, once, and every one is processed unless the channel is shut.

### `RtcmDecoder`
`rtcm/decoder.c` with `uv_async_send`, `uv__async_io` and `uv__async_spin` of
`lib/libuv/src/unix/async.c`, an action for every atomic access.

| Model | Code |
|---|---|
| `Decode`, `Insert` | `cors_rtcm_decode`: the test of `state`, the context, `QUEUE_INSERT_TAIL` |
| `SendLoad`, `SendCas`, `SendWrite`, `SendMark` | `uv_async_send` on the decode handle, or for `closer` on the close handle |
| `MakeClose`, `Boot` | `rtcm_decoder_thread` up to `state=1` |
| `Poll`, `SpinDecode`, `SpinClose`, `Exit` | `uv__async_io` over the two handles, and the end of `uv_run` |
| `Empty`, `Pop`, `Work` | `rtcm_decode_cb` |
| `Leave`, `Close`, `Join` | `cors_ntrip_close` joining the readers, then `cors_rtcm_decoder_close` |

Readers are a thread for each stream, the finest interleaving of any distribution of
streams over casters. What a decoded message changes elsewhere (observations,
ephemerides, `cors_pnt_pos`) belongs to those components; here a chunk is the pair of
its stream and the number of the call. `MakeClose` takes lines 161 and 162 as one step: a
close between the allocation of its handle and `uv_async_init` is an end in
`Lifecycle` (`WakeNothing`).

### `QueueRing`
`queue.h`, a step for every pointer write, with the lock of the producers and the
consumer's unlocked test. `RtcmDecoder` uses a sequence for the queue: that this is
sound is what `RingIsChannel` shows. `chan` is the history of the nodes that are in, from
the write that publishes one to the write that unlinks it; `Forward` says that who follows
the pointers meets just these.

### `RtcmFramer`, `MCRtcmFramer`
`input_rtcm3x` with the caller's loop, beside `input_rtcm3` fed with the same bytes.
A step is a turn of the loop. What the length field says and whether a parity fits
are constant operators; the MC module gives them over an alphabet of two bytes, one
of them the preamble, so that preambles occur inside messages and parities fail. `owed` is what
the piecewise reader has that the bytewise one has yet to be fed with.

### `Dtrignet`, `Nrtk`, `MCNrtk`
`Dtrignet` has the operations of `dtrignet.c` as operators from a network to the
networks it may become, with the differences reported, and the variable `dtrig_net` of the
three modules that extend it. `Nrtk` has an action for every
kind of task of the NRTK thread that touches the network, and the baselines `bls` that
the engines were asked for. The history variables say what the properties need:
`used` (srcids are never given again, `generate_source_id`), `cut` (edges deleted by
hand since the last build) and `orphan` (baselines requested for unknown stations).

`Triangulation(V)` is any set of triangles over `V`: positions change with the streams,
so two builds over the same stations need not agree. The MC module gives, for three
stations, two rotations, both orientations and the degenerate case, for four, both diagonals and the
case of one station inside the others.

Faithful to the code and worth knowing: a network that was never initialised crashes on
the first addition (`kdtree`), `DelSource` may crash because `edge_add` and `edge_del`
are uninitialised, and engines may answer before `updbl_queue` is initialised
(`InitDone`). The crashes are ends of behaviours (`alive`); the properties hold of
everything up to them.

### `Srtk`
`srtk.c` with the unprotected write of `cors_updobs`. The rtk thread reads and writes
observations and `bl->on` one access a step. `bl[b].at` says where the memory of a
baseline is; `UseAfterFree` and `DoubleFree` are ends of behaviours. An observation is
its epoch. `bl->time` is the later of the two epochs copied for a task (`Copy`), but what is solved
is the epoch of the rover's copy (`Epoch`, `Solve`). Three histories say what the properties
excuse: `torn` (baselines with a lost update of `bl->on`), `behind` (baselines whose last task
has the rover's observations of an older epoch than the base's) and `ended` (what freed memory
a crash met, and where).

### `NrtkSync`, `MCNrtkSync`
The NRTK thread whole, from its loop over the subnets (`Visit`, `Sync`, `Update`,
`Triangles`) through its five queues, drained kind by kind (`TakeFrom`, `NextPhase`),
composed with `Dtrignet` and with an engine. `Srtk` takes the engine apart; here it
matters what it answers and when. `Look` and `Check` compare the epochs of the two
stations, `CopyRover` and `CopyBase` copy the observations that are there by then and make a task,
each with one access to what the decoder replaces. `Solve` publishes the solution in
`blsol`, with the epochs of both copies: nrtk.c takes the later of them for its time
(`rtk->time`, rtkpos.c:1328). `AddBaseline` leaves the pointer to the new baseline in `updbl_queue`, and
`DoUpdBl` puts it at its edge (`edge_bl`). The model begins with `nrtk_init`, which builds
the network of the file station by station (`InitStation`) and asks the engine for all
its edges (`InitEngine`); there is one engine. A queue is a sequence of batches: what one
change of the network puts into it comes in the order of the hash table, which `CHOOSE`
stands for. `DelBaseline` takes a baseline out of the table, `FreeBaseline` frees it when
no task needs it, and `FreedTwice` is the end of one that is asked to go again.

The history variables say what the properties excuse: edges asked for more than once
(`again`), added or deleted by hand (`half`), deleted before the engine had them
(`missed`), cut since the last build (`torn`), and stations whose epoch was overwritten while the thread
was at it (`raced`). A baseline that comes back finds its solution in the table and gets
no `bl->sol` (cors.c:371), so that its stations never synchronise again: that is one
of the cases of `again`.

### `Lifecycle`
`start_cors`, `cors_close` and the start, thread function and close of every
component: ten threads, of which `thr` says how far each is, `made` whether its
handles are missing, there, or freed with the pointer left (`include/uve.h`), and `inbox`
whether it has work. Work goes from one component to the next (`Read`, `Decode`,
`Position`, `Report`, `Solve`, `Answer`, `Nearest`, `Interpolate`) at any moment of start
and stop, and `Deliver` is what it meets there. `pool` is libuv's pool of threads, which
`close_uv_loop` shuts with the first loop that ends: what is asked of it later locks a
mutex that was destroyed, and either ends the program (`PostDies`) or is never done. Three things a second
run finds of the first: `decoder->state` is 1, stale handles, and engines in the
table of the network.

### `NtripCaster`
`ntrip.c` and `ntripcaster.c`: the sources file and its casters (`StartCaster`, `Mark`,
`Ready`, `StartSource`), commands (`AddSource`, `DelSource`, with `Tell` for the network),
requests of the monitor and the VRS (`AddUntold`, `DelVsta`), the two queues of each caster (`DoAdd`,
`DoDel`), and close. A source is the srcid it was given, since several may have a name.
`wanted` is what was asked last of a name, `excuse` what may have kept it from
being done, `cause` what may end the program.

### `NtripClient`
A client from `do_add_source` to its deletion. Every attempt to connect has a socket, a
timer and a file of its own, each in one of the states libuv can have it in, so that a
callback for an old attempt is told from one for the present. `Delete` may come between
any two callbacks.

### `NtripAgent`
`ntripagent.c`: connections (`Offer`, `Accept`, `End`), requests (`LetIn`, `Refuse`),
positions that move a rover to another table (`Position`, `Subscribe`), chunks
(`Send`, `SendTask`), deletions (`AskDeletion`, `DelTask`) and close. `addr` gives a
connection the address of a freed one, `sig` and `cb` are the merged wake-ups and the
queue being drained.

### `Vrs`, `MCVrs`
`vrs.c` with the parts of `nrtk.c` that drive it, over `Dtrignet`. `Place` is
`upd_vrs_stas`: the triangle (`Trigs`, any of the network's, by position), the nearest
corner as the master, and the master's list. `AddBl` and `DelBl` change an edge by hand, which
leaves the triangles' pointers as they are; `cut` and `added` are the edges that went and came so
since the last build, and `OtherEdge` is a freed edge whose address another has got. `Epoch` leaves updates, `Take` and `Work` are
the vrs thread.

### `Monitor`
`monitor.c`, `monitor_src.c` and `monitor_bsta_distr.c`, with merged wake-ups like
`NtripAgent`. `name` is `md->m_src.name`, `md_tbl` has the copies by source. The registry
(`Register`, `Unregister`) loses sources while results for them wait.

### `RtcmObs`, `MCRtcmObs`
`decode_type1002` to `1012`, `save_msm_obs`, `adjweek`, `adjday_glot`, `test_staid` and
`obsindex` of `rtcm3.c` as one reader of messages, and `rtcm_encode_obs` as one of the
stations that may send (`Encode`). A stream loses messages, pauses, and changes over to
another station. `calm` is a stream without a pause of more than half a period, `torn` a
change within an epoch. Weeks of 16 and days of 8 steps keep the arithmetic of the
half-period.

### `EphStore`, `SlipChain`
Two small modules on what is lost between a stream and those who compute with it:
ephemerides from the decoders over `cors_updnav` to `seleph` and `selgeph`, and a cycle
slip from the lock time of a message to `detslp_ll`. Both exist for their proofs.

## 4. What the runs check

| Run | Module | Bounds | Distinct states |
|---|---|---|---|
| `decoder` | `RtcmDecoder` | two streams, two chunks each | 28,414 |
| `ring` | `QueueRing` | four nodes, so that a node is inserted between a removal and older ones | 7,365 |
| `framer` | `MCRtcmFramer` | frames of 6 to 8 bytes, chunks of 1 to 7: every cut, up to a frame over 8 chunks, and two frames ending in a chunk | 107,468 |
| `network` | `MCNrtk` | five srcids, four stations at a time, two baselines by hand: the network shrinks below three and grows again | 2,224,255 |
| `engine` | `Srtk` | two stations, two epochs, two requests and two deletions | 237,459 |
| `engine_sync` | `Srtk` | one baseline, two epochs | violated, see the findings |
| `sync` | `MCNrtkSync` | two stations of the file and a third, two epochs of each, two requests, `MaxWork` of both together, five baselines | 3,291,209 |
| `life` | `Lifecycle` | two runs of start and stop | 753,802 |
| `registry` | `NtripCaster` | one source in the file, one more, one virtual station, room for one in a caster, three srcids, a deletion in a queue | 2,473,094 |
| `client` | `NtripClient` | three attempts to connect | 1,086,401 |
| `agent` | `NtripAgent` | two rovers, two mount points and the nearest, two chunks of each, two moves | 4,518,800 |
| `epochs` | `MCRtcmObs` | three epochs of up to four satellites of which three fit | 2,773,792 |

All but `engine_sync` pass, each within three minutes on two workers but for the configuration
of `Vrs`, which takes four. Four more
configurations stand beside the proofs of modules that have no listed run: `Vrs.cfg`
(for `MCVrs`, 8,835,536 states), `Monitor.cfg` (685,940), `EphStore.cfg` (323,896) and
`SlipChain.cfg` (27,827). They check the same properties on a small instance.

Properties, by run. A name in brackets is a part of the one before it.

- *decoder*. `IInv` [`SenderOwnsHandle`, `NeverAborts`, `ContextAlive` and more]: the inductive
  invariant of the proofs; the two compare-and-exchanges of `uv_async_send` never meet a
  third value, and no context is used after it was freed. `BlockedOnlyWhenEmpty`: no lost
  wake-up although sends are merged. `ImplementsChannel`: order, no loss, no duplicate,
  and every accepted chunk is decoded or the loop is closed. `CloseReturns`: the join ends.
- *ring*. `RingSound` [`Forward`, `NeverPopsSentinel`, `RingClosed`]: the consumer sees the
  queue at every pointer write. `RingIsChannel`: order, no loss, no duplicate.
- *framer*. `ReadsAlike`: the same frames and the same place in the stream as the
  bytewise reader. `BufferSound` [`InBuffer`, `ChunkUsedUp`].
- *network*. `IInv` [`EdgeListExact`, `NeighboursBacked`, `NoDeadStation`, `NoRotatedTwin`,
  `StationsKnown`], `TrianglePointers`: the redundant structures. `BaselinesFollowEdges`:
  the differences bring the engines to the edges. With fewer than three stations a
  build removes nothing (dtrignet.c:223), and an edge cut by hand leaves the triangles
  pointing to it: the properties name both.
- *engine*. `EpochsInOrder`: an epoch is solved once, in order. `BaselinesSound`
  [`CountsTasks`, `OneDirection`]: `bl->on` is the number of the baseline's tasks, and two
  stations have one baseline. `FreedWhenDone`: it is not freed under a task that is solved; what
  is read of it after `bl->on--` can be freed, in its last task only. Both but for a
  lost update (`torn`). `LastEpochSolved`: no epoch that stays is overlooked, but for one of which
  the base's copy was made and the rover's not (`behind`).
  `WaitEnds`: `del_baseline` does not wait for ever, but for a lost update or a
  close.
- *sync*. `NetworkServed` [`EdgesServed`, `NoStrayBaseline`]: when nothing waits, edges and
  baselines agree. `EpochsForward`: a subnet's epoch is handed on in order. `Synchronised`:
  when all threads rest, a delivered epoch was handed on or will be at the next visit; and what
  counts as its solutions was made of observations of it, but where the engine copied two
  epochs (`Mixed`).
  `CrashExcused`.
- *life*. `StopsClean` [`NothingLeft`, `LogKept`]: a stop that completes leaves no thread, and
  the first run writes its log to the end. `StopReturns`: it completes, but for a file
  asked of libuv's threads after they were gone and an engine started under the stop.
  `CrashExcused`: in particular no work reaches a component that `cors_close` has closed, and a
  destroyed mutex is locked only in a second run or once a stop has begun.
- *registry*. `SourcesSound` [`ClientsRegistered`, `OneClientEach`, `WithinCapacity`],
  `TablesAgree`, `Settled`: what was asked last of a name is what its client and the
  network come to. `Handled`: a caster comes to its additions. `CrashExcused`.
- *client*. `IInv` [`OneConnection`, `PassedOnlyIfAnswered`, `DroppedByAnswer`, `RequestFirst`,
  `ClosedOnce` and what the proofs add]: among them, data of an answered connection is thrown away
  in the read with the answer or after a split one, and not otherwise. `RetryInHand`, `Retries`: every connection that
  breaks leads to one more attempt. `CrashExcused`.
- *agent*. `RoversServed` [`Subscribed`, `Innocent`]: a rover has a copy in the table of its
  mount point and in no other, and is not closed for another. `NoGaps`: it gets the chunks in
  order. `Awake`: what waits for the loop has its wake-up. `CrashExcused`.
- *epochs*. `EpochSound` [`TimeRight`, `OneStation`], `OneEpoch`, `Complete`, `OnceEach`: an epoch
  arrives whole, with its own time and station, and once.

*What ends the program.* Much of this code ends badly in some order of events.
Where a model reaches freed or missing memory it says so (`prog`, `crash`) and stops, and
`CrashExcused` lists the circumstances: an end in any other is a violation. Likewise
a property that the code breaks in named circumstances names them, by a history
variable that records the event and never the failure itself.

*Bounds in guards*: `MaxCalls`, `MaxChunk`, `MaxVertex`, `MaxManual`, `MaxTime`, `MaxAdd`,
`MaxDel`, `MaxReq`, `MaxWork`, `MaxBl`, `MaxRuns`, `MaxId`, `MaxConn`, `MaxMove`, `MaxAsk`,
`MaxEpoch`, `MaxReport`, `MaxQueue`, `MaxIssue`, `MaxLock`. What a bound ends is the supply
of inputs, and each allows an input to be given, taken back and given again. `MaxWork`
of `NrtkSync` is the tightest. It counts an epoch of a station as one and a request as two:
two requests leave room for two epochs, of one station or of both, one for four, and none for
all six. Deadlock is
not checked where the program ends (closed, crashed, or out of inputs); `framer` checks
it. No symmetry is used: several runs check liveness, and srcids are ordered.

### Fairness
- `RtcmDecoder`: a thread inside a call goes on (`Insert`, `Send`, `Join`), and so does
  the event loop. A stream need not deliver, nobody need close. Waiting is on
  conditions that, once true, stay true until taken, so weak fairness is enough.
- `QueueRing`: the consumer is woken while the queue is not empty, which is what
  `RtcmDecoder` shows; a producer that holds the lock goes on.
- `Srtk`: both threads poll in a loop that neither blocks nor sleeps (srtk.c:219-223,
  295-300), so each goes on.
- `NtripClient`: libuv calls back what it was asked for (`OnReconn`, `Event` of each
  attempt). Nothing says that a connection succeeds or that a server answers.
- `NtripCaster`: the threads come up, and a caster whose handle is pending drains its
  queue (`DoAdd`, `DoDel`). Nobody need make a request.
- `Lifecycle`: every thread goes on through its start, loop and end; the console's
  `Ask` and `Join` too, once a stop has begun. Sources need not deliver.
- `RtcmFramer`, `Nrtk`, `NrtkSync`, `NtripAgent`, `RtcmObs`, `Vrs`, `Monitor`, `EphStore` and
  `SlipChain` state safety only and assume none. Where something must not be forgotten they say
  so by what is pending (`Awake`, `Synchronised`).

### Findings
`engine_sync`: README.md:11 of the repository promises the time synchronisation of the
stations' observations, and `srtk.c` is compiled with strict synchronisation (lines
11-12), yet the observations are compared at lines 108-112 and copied at line 115 while
the decoder thread overwrites them: a task can pair two epochs. If the rover's copy is the older
one, the epoch of the base is never solved for the rover (`behind`): `bl->time` says that it was
done (line 105). nrtk.c does not notice, since it compares `rtk->time`, the later of the two
(rtkpos.c:1328), and hands the solution on as one of that epoch.

More that the models show, and that no text of the repository rules out:

- *Baselines.* A lost update of `bl->on` frees a baseline in use or waits for ever
  (srtk.c:188); lines 190-198 use it after it was counted down; one deleted twice is freed twice (srtk.c:464); a close can leave the rtk
  thread waiting for tasks nobody solves (srtk.c:244). A baseline that is deleted and
  asked for again never synchronises (cors.c:371).
- *Network.* One that was never initialised crashes on the first addition;
  `DelSource` frees uninitialised pointers; engines may answer before `updbl_queue` is
  initialised (nrtk.c:218). An edge deleted by hand leaves triangles with a pointer to it
  (dtrignet.c:373-386), so that a virtual station is not interpolated along it, or along
  another edge that has got its address.
- *Start and stop.* Sources are started first and reach threads without handles;
  `decoder->state` is still 1 in a second run; engines stay in the table after a stop;
  `uv_library_shutdown` at the end of the first loop (include/uve.h:50) takes away the
  threads that other loops have files written by, and the mutex that the next request locks
  (threadpool.c:179-180, 142-143).
- *Sources.* A name requested twice before a caster runs has two clients, of which one
  cannot be deleted; a name is looked up after it was freed (ntripcaster.c:217).
- *Client.* Data that comes in one read with the answer is thrown away, and an answer that comes in
  two reads is never recognised, so that all data of the connection is (ntripclient.c:113-130); a retry whose lookup fails at once is the
  last (ntripclient.c:52).
- *Agent and VRS.* A refused rover that hangs up is deleted twice (ntripagent.c:284);
  `cors_ntrip_agent_add_user` tests the wrong pointer after its lookup (ntripagent.c:522), so
  that no user is ever added; the test on `vrs_near_bl` is inverted (vrs.c:384); a virtual station that was moved stays in the list of
  its old master after its deletion (vrs.c:147).
- *Streams.* A change of a GLONASS satellite's health within an issue reaches the decoder
  (rtcm3.c:827-829) and is thrown away by the store (cors.c:135-136), whose second
  generation is seen for GLONASS only. The encoder puts systems of more than 64 cells in
  one message (encoder.c:167), which rtcm.c:331-335 and rtcm3.c:2115 do not take. The
  half-cycle bit is added as 3 (rtcm3.c:2054-2055) where rtklib.h:399-400 has bits, so
  that an open half-cycle ambiguity reads as a slip (rtkpos.c:246), and both together as
  neither. After a full epoch
  the older kinds of messages of the next are skipped (rtcm3.c:324).

## 5. What is proved

All theorems hold for any sets of streams, srcids, stations, names and connections and any
bounds. Every invariant and action property of the runs is proved, from these named
assumptions on the constants, which TLC evaluates with the runs:

- `TriangulationAssumption`: triangles are over the given stations, have three different
  corners, and are not given twice. The triangulator is a constant otherwise.
- `NrtkAssumption`, `NrtkSyncAssumption`, `SrtkAssumption`, `CasterAssumption`, `ClientAssumption`,
  `AgentAssumption`, `RtcmObsAssumption`, `LifecycleAssumption`, `DecoderAssumption` and
  `RingAssumption`: the bounds are numbers, and the names for "none" are no names of things.
- `FramerAssumption`: a frame with its parity fits into the buffer.
- `VrsNames`, `MonitorNames`, `EphBounds` and `LockBound`, the same of the modules without a
  listed run, are hypotheses of their theorems.

Each argument has the same shape: an inductive invariant with one lemma for each action, or
for each part of the invariant that several actions can disturb, and the properties from it. A
module without a proof module of its own is taken in by `INSTANCE` beside one that it shares
variables with.

*`RtcmDecoderProofs`*, the way of a chunk.
`Inductive`: `IInv` of `RtcmDecoder`. Its parts: `SenderOwnsHandle` (a
handle is at 1 exactly while one thread is between its two compare-and-exchanges),
`WakeupRecorded` (a marked handle has its wake-up in the eventfd, or the loop has read it
and not looked yet), `TasksAnnounced` (tasks that wait have the loop draining, a pending
handle, or a sender yet to look), `ContextsKept` and `ClosedLast`. That the
loop blocks only over an empty queue needs the
wake-up of every waiting task followed from the sender through the handle and the
eventfd to the loop. From it: `SendSafe`, `NoLostWakeup`, `NoUseAfterFree`, and
`FirstInFirstOut`, the step simulation to `FifoChannel`.
`RingIsSound` and `RingIsFifo` are the same for `QueueRing`: `Backward` says where `prev` may
lag one write behind `next`, `Inserting` and `Removing` what the writes so far have
prepared; the test outside the lock is harmless because only the consumer takes nodes out.
`FramerStaysInBuffer` and `ReadersAgree`: `Follows` relates the two readers of `RtcmFramer` after
every turn. What the bytewise reader has with what it is owed is what the other has
(`CatchesUp`), but for a byte before a frame (`SkipsByte`) and the end of a frame that the
other has handed on (`EndsFrame`).

*`NrtkProofs`*, the network and who uses it.
First lemmas on the operations of `Dtrignet`, for any network: `Link` and `Unlink` keep the
lists consistent, the latter also when it takes one direction of an edge
(`LinkConsistent`, `UnlinkConsistent`); a build does, reports exactly the difference of
the edges, and with three stations leaves the triangulation (`BuildConsistent`); triangles
stay unique up to rotation (`NoTwinKept`); after a build and `upd_dtrig_edge` the
network is closed, whatever was left in it before (`RebuiltClosed`); and what adding and
deleting a vertex make of a sound network (`AddVertexStep`, `DelVertexStep`).
`NetworkInductive`: `IInv` of `Nrtk`. It adds that the network only has stations with a
srcid that was given out (`StationsKnown`): without it a new station could find old
edges of its own, of which the engines would not be told. From it a theorem for each property
of the run `network`. No bound on the number of stations is needed: the only fact on
cardinalities is which of its three cases a build takes.
`VrsInductive`, `MasterReachesStation`, `MasterInterpolates`, `DeletedIsForgotten`: the
virtual stations. The invariant adds that the network is sound (`NetworkSound`), that there
is nothing before `init_vrs` (`NothingYet`), and that lists only have stations that are or
were there (`Listed`). That the master has both edges of the triangle uses `RebuiltClosed`, and
holds unless one of the two was deleted by hand since (`cut`).
`SyncInductive`: network and engine together, `SyncInv` of `NrtkSync`. `EdgesKept` follows every
edge that was asked for once and not by hand: its two directions share one baseline, which is
asked for, on its way or known to the edge, and stays in the table while the edge is there.
`Solved` follows the two copies of a baseline's last task to its solution, `Baselines` what the
engine's thread found before it, and `Times`
orders what was handed on, marked and received of a station. From it `NetworkIsServed`,
`CrashesAreExcused`, `EpochsGoForward` and `SynchronisedAtRest`. The last one is where all
three meet: at rest the solutions of all edges of a station are of the epoch of its
observations, so that the next comparison succeeds or was made. The decoder may replace the
observations between any two of the engine's four accesses: that the later copy is the epoch that
both stations come to rest at is what `Due` and `Solved` give, and the other copy is of the same
epoch unless the task was `Mixed`.

*`SrtkProofs`*, the engine. `SrtkInductive`: `Counts` is the sum of what the two threads are
doing to `bl->on` and the tasks that wait; `TimeIsLast` and `Readings` say where an epoch is
between `rt.time_cur` and `bl->time` while the decoder overwrites the observations. From it
`BaselinesAreSound`, `EpochsAreInOrder` and `NotFreedInUse`; epochs are solved in order
although `bl->time` and what is solved may differ, because the rover's copy is later than
`bl->time`, which is no earlier than what any task before solved; a count is excused only when one
thread's write fell between the read and the write of the other (`torn`).

*`NtripClientProofs`*. `ClientInductive` and a
theorem for each part. The invariant says what old attempts can still have outstanding
(`Untouched`, `AnswerSeen`, `RequestSent`), what a freed client leaves (`Freed`) and which file
`cli->raw` names (`Logged`).

*`NtripCasterProofs`*. `CasterInductive`: a source is at home at one caster, in its table, its queue
or its start-up list (`Places`), what is alive has different names unless requests raced
(`Unique`), and `Requests` relates what was asked last of a name (`wanted`) to where its
sources and deletions are (`Wanted`) and to what the network was told (`Told`). From it
`SourcesAreSound`, `TablesHoldTheSame`, `RequestsAreSettled` and `CrashesAreExcused`.

*`NtripAgentProofs`*. `AgentInductive`: `Deletions` (a deletion asked for once finds the connection
that asked for it, though addresses are used again), `Chunks` (a rover has every chunk but
those that wait for it, in order) and `Wakes`. From it `RoversAreServed`,
`ChunksHaveNoGaps`, `CrashesAreExcused` and `LoopIsAwake`. Of the monitor, in the same way:
`MonitorInductive`, `ResultsGoWhereAsked`, `EndedAreDeletedOnce`, `MonitorCrashExcused`. The
central argument is that a connection is in the deletion queue exactly once from its end to its
deletion, so that no deletion finds it freed.

*`RtcmObsProofs`*, what is made of the streams. `ObsInductive`: `Times` (with no long pause what
is in the observations is of the time they are marked with), `Marked` (and of one station),
`Progress` (of an epoch that can arrive whole, what is not there is still to come). The
resolution of weeks and days is the lemma `NearestRight`, for any length of them. From it
`EpochsAreSound`, `EpochsAreWhole`, `EpochsAreComplete` and `EpochsComeOnce`.
`NewestIsKept`: while no issue is overtaken by older ones and no
issue of data comes again, the two generations are the two newest issues (`TwoNewest`).
`NewestIsTaken`: an issue newer than all before is computed with from the step in which
it comes. `SlipsAreFlagged`: a slip between two epochs that are taken
starts the phase anew, but for three named cases. `NoAlarmIsFalse`: without a slip
that only happens while the half-cycle ambiguity is open or has just been resolved.

*`LifecycleProofs`*. `LifecycleInductive`: how far every thread is follows from where `start_cors`
and `cors_close` are (`Launched`, `Told`, `Joined`), but for a stop before everything was up
(`early`). From it `StopsAreClean` and `EndsAreExcused`: each stage of the way of the work is
closed before what it works with.

What the proofs corrected. Several properties were true on the small instances and not in
general. `Settled` took a deletion to have raced by what was under way when the source was looked
up by its name; what comes between that and its task (`DelSource`) counts too. `OneEpoch` needs pauses strictly shorter than half a week or day: at exactly
half the nearest one is not unique. `OnceEach` had to say what a step does, not what the last
epoch was. And a baseline can be freed twice with nothing done by hand: an
edge goes, comes back and goes again before the engine has come to the first deletion, and both
deletions name the same baseline. This takes three requests, one more than the run
`sync` has room for; `CrashExcused` of `NrtkSync` names it.

Only model-checked is liveness under fairness, which is beyond the prover, as is `ENABLED`:
`CloseReturns`, `LastEpochSolved`, `WaitEnds`, `Retries`, `Handled`, `StopReturns`, and the fairness half
of `ImplementsChannel` and `RingIsChannel`. `Settled`, `Synchronised` and `NetworkServed` say what has happened
once nothing waits; that this comes about is not stated, since requests and observations
never need to cease.

## 6. What is not modelled

Most of the repository's lines are vendored libraries (libuv, the triangulator, stb_image,
uthash) and numeric code taken over from RTKLIB (`common/rtkcmn.c`, `rinex/rinex.c`,
`gpos/*`, `rtcm/rtcm3e.c`, tables such as `geoid.c`): pure computation over floating-point
numbers and bits, without state that outlives a call. The modules cover the code that runs
the server, a small part of the whole. The text of reports and commands is left out
because nothing depends on it.

Within the modelled files: the distribution of baselines over several engines
(`NTRK_MAX_BLS`), the time of triangles, which is only logged, and the close of `nrtk.c` but
for its place in `Lifecycle`; positions, the k-d tree and freeing in `dtrignet.c`; the RTCM 2
reader and the file readers of `rtcm.c`; the fields of messages, the messages of
state-space corrections and of station data in `rtcm3.c`; the tables by srcid of the monitor and
the file of its stations; the ephemerides and station messages that the agent sends along;
observations read half written, which are numbers that the filter cannot tell from noise. The
lookups in the hash tables that no lock protects are taken as atomic.
