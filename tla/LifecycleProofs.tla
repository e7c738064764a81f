-------------------------- MODULE LifecycleProofs --------------------------
(***************************************************************************)
(* Start and stop, for any number of runs of the server: the two           *)
(* properties of Lifecycle that the run "life" checks for two runs, and    *)
(* the inductive invariant they need.                                      *)
(*                                                                         *)
(* How far a thread is follows from where start_cors and cors_close are,   *)
(* but for a stop that comes too early; the proof is that table (Launched, *)
(* Told, Joined, Whole).                                                   *)
(***************************************************************************)
EXTENDS Lifecycle, TLAPS

\* Those whose close returns when there is no handle, and the casters with them.
Skipped == {"ntrip", "caster", "decoder", "pnt"}

\* Before the first start there is nothing.
Fresh == runs = 0 => /\ con = "off" /\ (\A c \in Comp : thr[c] = "off")
                     /\ pool = "unused" /\ file = "none" /\ decst = 0 /\ freed = {}

\* What start_cors has not come to is off, and nothing else.
Launched == /\ \A i \in 1 .. 9 : next <= i <=> thr[StartOrder[i]] = "off"
            /\ thr["cors"] \in {"off", "boot"} => next = 1
            /\ thr["ntrip"] \in {"off", "boot"} => thr["caster"] = "off"

\* A thread that runs has its handles.
Handles == \A c \in Loops : thr[c] = "run" => made[c] = "made"

\* The states of the polling threads count what has begun; that of the decoder
\* is left at 1 for a second run.
States == /\ \A c \in {"srtk", "engine"} :
               /\ thr[c] \in {"off", "gone"} => st[c] = 0
               /\ thr[c] = "boot" => st[c] \in 0 .. 1
          /\ con = "up" /\ thr["nrtk"] \in {"boot", "run"} => st["nrtk"] = 1
          /\ decst = 1 /\ thr["decoder"] \in {"off", "boot"} => runs > 1

\* Who is told to end has had its turn in cors_close, and nobody ends untold but
\* for a listener without a port.
Told == /\ con = "up" => sent = {} /\ ~early
        /\ \A i \in 1 .. 10 : CloseOrder[i] \in sent => i < at \/ (i = at /\ con # "ask")
        /\ \A c \in Loops : thr[c] = "gone" => c \in sent \/ c \in noport
        /\ thr["nrtk"] = "gone" => "engine" \in sent /\ thr["engine"] = "gone"

\* A stop that came when everything was up meets nothing that has yet to come up.
Whole == con \in {"ask", "join"} /\ ~early => \A c \in Comp : thr[c] \in {"run", "gone"}

\* What cors_close is through with has ended, or was skipped too early.
Joined == \A i \in 1 .. 10 :
            (con \in {"ask", "join"} /\ i < at) \/ (con = "off" /\ runs > 0)
              => thr[CloseOrder[i]] = "gone" \/ (early /\ CloseOrder[i] \in Skipped)

\* A freed table is one whose owner has ended, or is left from the run before.
Tables == /\ "registry" \in freed => next = 1 \/ thr["caster"] = "gone"
          /\ "network" \in freed => next <= 6 \/ thr["nrtk"] = "gone"

\* libuv's threads go with the first loop that ends.
Log == runs = 1 /\ con = "up" => pool \in {"unused", "up"} /\ file # "lost"

LifeInv == /\ TypeOK /\ Fresh /\ Launched /\ Handles /\ States /\ Told /\ Whole /\ Joined
           /\ Tables /\ Log /\ CrashExcused

-----------------------------------------------------------------------------
\* The two orders, place by place.
LEMMA Starts ==
  /\ Len(StartOrder) = 9
  /\ StartOrder[1] = "ntrip" /\ StartOrder[2] = "agent" /\ StartOrder[3] = "decoder"
  /\ StartOrder[4] = "pnt" /\ StartOrder[5] = "srtk" /\ StartOrder[6] = "engine"
  /\ StartOrder[7] = "nrtk" /\ StartOrder[8] = "vrs" /\ StartOrder[9] = "monitor"
BY DEF StartOrder

LEMMA Closes ==
  /\ Len(CloseOrder) = 10
  /\ CloseOrder[1] = "ntrip" /\ CloseOrder[2] = "caster" /\ CloseOrder[3] = "decoder"
  /\ CloseOrder[4] = "pnt" /\ CloseOrder[5] = "monitor" /\ CloseOrder[6] = "srtk"
  /\ CloseOrder[7] = "nrtk" /\ CloseOrder[8] = "vrs" /\ CloseOrder[9] = "agent"
  /\ CloseOrder[10] = "cors"
BY DEF CloseOrder

LEMMA Sizes == Len(StartOrder) = 9 /\ Len(CloseOrder) = 10
BY Starts, Closes

LEMMA NoCrash == ASSUME crash = <<>> PROVE CrashExcused
BY DEF CrashExcused

\* The end of the program, where it is excused
LEMMA Dies ==
  ASSUME LifeInv, Alive, NEW why, NEW where \in Comp, crash' = <<why, where>>,
         UNCHANGED <<con, at, next, thr, made, st, decst, sent, inbox, freed, runs,
                     early, noport>>,
         pool' \in {"unused", "up", "down", "kept"}, file' \in {"none", "opening", "open", "lost"},
         Fresh', Log',
         why \in {"deliver", "close", "join", "table", "network", "answer", "pool"},
         why = "pool" => /\ where = "caster" /\ pool = "down" /\ pool' = pool
                         /\ (runs > 1 \/ con # "up"),
         why = "deliver" => \/ thr[where] \in {"off", "boot"} /\ (where = "decoder" => runs > 1)
                            \/ where \in noport \/ early,
         why = "close" => early \/ where \in noport,
         why = "join" => where = "engine" /\ runs > 1,
         why = "table" => con \in {"ask", "join"} /\ thr["caster"] = "gone",
         why = "network" => con \in {"ask", "join"} /\ thr["nrtk"] = "gone",
         why = "answer" => next <= 9
  PROVE  LifeInv'
<1>1. TypeOK'
  <2>1. crash' \in {"deliver", "close", "join", "table", "network", "answer", "pool"} \X Comp
    OBVIOUS
  <2> QED BY <2>1 DEF LifeInv, TypeOK
<1>2. Launched' /\ Handles' /\ States'
  BY DEF LifeInv, Launched, Handles, States
<1>3. Told' /\ Whole'
  BY DEF LifeInv, Told, Whole
<1>4. Joined' /\ Tables'
  BY DEF LifeInv, Joined, Tables
<1>5. CrashExcused'
  BY Starts DEF CrashExcused
<1> QED BY <1>1, <1>2, <1>3, <1>4, <1>5 DEF LifeInv

\* Work that goes from one to the next
LEMMA Works ==
  ASSUME LifeInv, Alive, UNCHANGED <<console, next, threads, freed, noport, crash>>,
         inbox' \subseteq Inboxes,
         pool' \in {"unused", "up", "down", "kept"}, file' \in {"none", "opening", "open", "lost"},
         Fresh', Log'
  PROVE  LifeInv'
<1>1. TypeOK'
  BY DEF LifeInv, TypeOK, console, threads
<1>2. Launched' /\ Handles' /\ States'
  BY DEF LifeInv, Launched, Handles, States, console, threads
<1>3. Told' /\ Whole'
  BY DEF LifeInv, Told, Whole, console, threads
<1>4. Joined' /\ Tables'
  BY DEF LifeInv, Joined, Tables, console, threads
<1>5. CrashExcused'
  BY DEF Alive, CrashExcused
<1> QED BY <1>1, <1>2, <1>3, <1>4, <1>5 DEF LifeInv

-----------------------------------------------------------------------------
\* What the invariant says of a thread that is up, by the place of another in
\* the two orders: nobody who is closed later is gone but for the early stop.
LEMMA InOrder ==
  ASSUME LifeInv, NEW i \in 1 .. 10, NEW j \in 1 .. 10, i < j, ~early,
         CloseOrder[j] \in Loops, thr[CloseOrder[j]] = "gone", CloseOrder[j] \notin noport,
         thr[CloseOrder[i]] # "gone"
  PROVE  FALSE
<1>1. CloseOrder[j] \in sent
  BY DEF LifeInv, Told
<1>2. j <= at /\ con # "up"
  BY <1>1 DEF LifeInv, Told, TypeOK
<1>3. (con \in {"ask", "join"} /\ i < at) \/ (con = "off" /\ runs > 0)
  <2>1. runs # 0
    BY Closes, <1>1 DEF LifeInv, Fresh, Loops, Comp
  <2> QED BY <1>2, <2>1, Closes DEF LifeInv, TypeOK
<1> QED BY <1>3 DEF LifeInv, Joined

\* A handle that is missing where work arrives or a close is asked for
LEMMA Missing ==
  ASSUME LifeInv, NEW c \in Loops, made[c] # "made"
  PROVE  thr[c] \in {"off", "boot", "gone"}
BY DEF LifeInv, Handles, TypeOK, Comp

LEMMA InitLife == Init => LifeInv
<1> SUFFICES ASSUME Init PROVE LifeInv
  OBVIOUS
<1>1. TypeOK
  <2>1. /\ con \in {"off", "up", "ask", "join"} /\ at \in 1 .. Len(CloseOrder)
        /\ next \in 1 .. Len(StartOrder) + 1 /\ runs \in 0 .. MaxRuns
    BY LifecycleAssumption, Sizes DEF Init
  <2>2. /\ thr \in [Comp -> {"off", "boot", "run", "gone"}]
        /\ made \in [Loops -> {"null", "made", "stale"}]
        /\ st \in [Polling -> 0 .. 2] /\ decst \in 0 .. 1
    BY DEF Init
  <2> QED BY <2>1, <2>2 DEF Init, TypeOK
<1>2. Fresh /\ Log /\ Whole /\ Joined /\ Tables
  BY DEF Init, Fresh, Log, Whole, Joined, Tables
<1>3. \A i \in 1 .. 9 : StartOrder[i] \in Comp
  BY Starts DEF Comp, Loops, Polling
<1>4. Launched
  BY <1>3 DEF Init, Launched, Comp, Loops
<1>5. Handles /\ States /\ Told
  BY DEF Init, Handles, States, Told, Comp, Loops, Polling
<1>6. CrashExcused
  BY NoCrash DEF Init
<1> QED BY <1>1, <1>2, <1>4, <1>5, <1>6 DEF LifeInv

LEMMA StartKeeps == ASSUME LifeInv, Start PROVE LifeInv'
<1>1. TypeOK'
  <2>1. /\ con' \in {"off", "up", "ask", "join"} /\ at' \in 1 .. Len(CloseOrder)
        /\ next' \in 1 .. Len(StartOrder) + 1 /\ runs' \in 0 .. MaxRuns
    BY LifecycleAssumption, Sizes DEF LifeInv, TypeOK, Start
  <2>2. thr' \in [Comp -> {"off", "boot", "run", "gone"}]
    BY DEF Start
  <2> QED BY <2>1, <2>2 DEF LifeInv, TypeOK, Start
<1>2. Fresh' /\ Joined' /\ Whole'
  BY DEF LifeInv, TypeOK, Start, Fresh, Joined, Whole
<1>3. \A i \in 1 .. 9 : StartOrder[i] \in Comp \ {"cors"}
  BY Starts DEF Comp, Loops, Polling
<1>4. Launched'
  BY <1>3 DEF Start, Launched, Comp, Loops
<1>5. Handles' /\ States' /\ Told'
  BY DEF LifeInv, TypeOK, Start, Handles, States, Told, Comp, Loops, Polling, Fresh
<1>6. Tables' /\ Log'
  BY DEF LifeInv, TypeOK, Start, Tables, Log, Fresh
<1>7. CrashExcused'
  BY NoCrash DEF Start, Alive, CrashExcused
<1> QED BY <1>1, <1>2, <1>4, <1>5, <1>6, <1>7 DEF LifeInv

LEMMA BootCorsKeeps == ASSUME LifeInv, BootCors PROVE LifeInv'
<1>1. TypeOK'
  BY DEF LifeInv, TypeOK, BootCors, console, Comp, Loops
<1>2. \A i \in 1 .. 9 : StartOrder[i] \in Comp \ {"cors"}
  BY Starts DEF Comp, Loops, Polling
<1>3. Fresh' /\ Whole' /\ Tables' /\ Log'
  BY DEF LifeInv, TypeOK, BootCors, console, Fresh, Whole, Tables, Log, Comp, Loops
<1>4. Launched'
  BY <1>2 DEF LifeInv, TypeOK, BootCors, Launched, Comp, Loops
<1>5. Handles' /\ States' /\ Told'
  BY DEF LifeInv, TypeOK, BootCors, console, Handles, States, Told, Comp, Loops, Polling
<1>6. Joined'
  BY Closes DEF LifeInv, TypeOK, BootCors, console, Joined, Comp, Loops, Polling
<1>7. CrashExcused'
  BY DEF BootCors, Alive, CrashExcused
<1> QED BY <1>1, <1>3, <1>4, <1>5, <1>6, <1>7 DEF LifeInv

\* What start_cors comes to is off, and neither the components' own thread nor
\* the casters, which the ntrip thread starts.
LEMMA Launching ==
  ASSUME LifeInv, next <= Len(StartOrder)
  PROVE  /\ StartOrder[next] \in Comp \ {"cors", "caster"}
         /\ thr[StartOrder[next]] = "off"
         /\ \A i \in 1 .. 9 : i # next => StartOrder[i] # StartOrder[next]
<1>1. next \in 1 .. 9
  BY Sizes DEF LifeInv, TypeOK
<1>2. thr[StartOrder[next]] = "off"
  BY <1>1 DEF LifeInv, Launched
<1>3. StartOrder[next] \in Comp \ {"cors", "caster"}
  BY <1>1, Starts DEF Comp, Loops, Polling
<1>4. \A i \in 1 .. 9 : i # next => StartOrder[i] # StartOrder[next]
  BY <1>1, Starts
<1> QED BY <1>2, <1>3, <1>4

LEMMA LaunchKeeps == ASSUME LifeInv, Launch PROVE LifeInv'
<1> DEFINE c == StartOrder[next]
<1>0. next \in 1 .. 9
  BY Sizes DEF LifeInv, TypeOK, Launch
<1>1. /\ c \in Comp \ {"cors", "caster"} /\ thr[c] = "off"
      /\ \A i \in 1 .. 9 : i # next => StartOrder[i] # c
  BY Launching DEF Launch
<1>2. /\ thr' = [thr EXCEPT ![c] = "boot"] /\ next' = next + 1 /\ thr["cors"] = "run"
      /\ st' = CASE c \in {"srtk", "engine"} -> [st EXCEPT ![c] = @ + 1]
                 [] c = "nrtk" -> [st EXCEPT ![c] = 1]
                 [] OTHER -> st
      /\ inbox' = IF c = "engine" THEN inbox \union {c} ELSE inbox
      /\ freed' = CASE c = "ntrip" -> freed \ {"registry"}
                    [] c = "engine" -> freed \ {"network"}
                    [] OTHER -> freed
      /\ UNCHANGED <<con, at, runs, early, made, decst, sent, pool, file, noport, crash>>
      /\ crash = <<>>
  BY DEF Launch, Up, console, Alive
<1>3. (c = "ntrip" <=> next = 1) /\ (c = "engine" <=> next = 6)
  BY <1>0, Starts
<1> HIDE DEF c
<1>4. thr' \in [Comp -> {"off", "boot", "run", "gone"}]
  BY <1>1, <1>2 DEF LifeInv, TypeOK
<1>5. \A x \in Comp : x # c => thr'[x] = thr[x]
  BY <1>1, <1>2 DEF LifeInv, TypeOK
<1>6. thr'[c] = "boot"
  BY <1>1, <1>2 DEF LifeInv, TypeOK
<1>7. st' \in [Polling -> 0 .. 2] /\ (c \in {"srtk", "engine"} => st'[c] = 1)
      /\ (c = "nrtk" => st'[c] = 1)
      /\ \A x \in Polling : x # c => st'[x] = st[x]
  <2>1. CASE c \in {"srtk", "engine"}
    <3>1. st[c] = 0
      BY <1>1, <2>1 DEF LifeInv, States
    <3>2. st' = [st EXCEPT ![c] = 1]
      BY <1>2, <2>1, <3>1
    <3> QED BY <2>1, <3>2 DEF LifeInv, TypeOK, Polling
  <2>2. CASE c = "nrtk"
    BY <1>2, <2>2 DEF LifeInv, TypeOK, Polling
  <2>3. CASE c \notin {"srtk", "engine", "nrtk"}
    BY <1>2, <2>3 DEF LifeInv, TypeOK, Polling
  <2> QED BY <2>1, <2>2, <2>3
<1>8. TypeOK'
  <2>1. next' \in 1 .. Len(StartOrder) + 1 /\ at' \in 1 .. Len(CloseOrder)
    BY <1>0, <1>2, Sizes DEF LifeInv, TypeOK
  <2>2. inbox' \subseteq Inboxes /\ freed' \subseteq {"registry", "network"}
    BY <1>2 DEF LifeInv, TypeOK, Inboxes
  <2> QED BY <1>2, <1>4, <1>7, <2>1, <2>2 DEF LifeInv, TypeOK
<1>9. Fresh' /\ Log'
  BY <1>2 DEF LifeInv, Fresh, Log, Comp, Loops
<1>10. Launched'
  <2>1. \A i \in 1 .. 9 : StartOrder[i] \in Comp
    BY Starts DEF Comp, Loops, Polling
  <2>2. \A i \in 1 .. 9 : next' <= i <=> thr'[StartOrder[i]] = "off"
    <3> SUFFICES ASSUME NEW i \in 1 .. 9
                 PROVE  next' <= i <=> thr'[StartOrder[i]] = "off"
      OBVIOUS
    <3>1. CASE i = next
      BY <1>0, <1>2, <1>6, <3>1 DEF c
    <3>2. CASE i # next
      <4>1. StartOrder[i] # c /\ StartOrder[i] \in Comp
        BY <1>1, <2>1, <3>2
      <4>2. thr'[StartOrder[i]] = thr[StartOrder[i]]
        BY <4>1, <1>5
      <4>3. next' <= i <=> next <= i
        BY <1>0, <1>2, <3>2
      <4> QED BY <4>2, <4>3 DEF LifeInv, Launched
    <3> QED BY <3>1, <3>2
  <2> QED BY <1>1, <1>2, <1>5, <2>2 DEF LifeInv, Launched, Comp, Loops
<1>11. Handles'
  BY <1>2, <1>5, <1>6 DEF LifeInv, Handles, Comp
<1>12. States'
  BY <1>1, <1>2, <1>5, <1>6, <1>7 DEF LifeInv, States, Comp, Loops, Polling
<1>13. Told'
  BY <1>1, <1>2, <1>5, <1>6 DEF LifeInv, Told, Comp, Loops, Polling
<1>14. Whole'
  BY <1>1, <1>2 DEF LifeInv, Whole
<1>15. Joined'
  <2>1. \A i \in 1 .. 10 : CloseOrder[i] \in Comp
    BY Closes DEF Comp, Loops, Polling
  <2> QED BY <1>1, <1>2, <1>5, <2>1 DEF LifeInv, Joined
<1>16. Tables'
  BY <1>0, <1>1, <1>2, <1>3, <1>5 DEF LifeInv, Tables, Comp, Loops, Polling
<1>17. CrashExcused'
  BY <1>2 DEF CrashExcused
<1> QED BY <1>8, <1>9, <1>10, <1>11, <1>12, <1>13, <1>14, <1>15, <1>16, <1>17 DEF LifeInv

\* One thread that goes on, and the others that do not
LEMMA GoesOn ==
  ASSUME LifeInv, NEW c \in Comp, NEW v \in {"off", "boot", "run", "gone"},
         thr' = [thr EXCEPT ![c] = v]
  PROVE  /\ thr' \in [Comp -> {"off", "boot", "run", "gone"}]
         /\ thr'[c] = v /\ \A x \in Comp : x # c => thr'[x] = thr[x]
BY DEF LifeInv, TypeOK

\* Places that are threads
LEMMA Places ==
  /\ \A i \in 1 .. 9 : StartOrder[i] \in Comp \ {"cors", "caster"}
  /\ \A i \in 1 .. 10 : CloseOrder[i] \in Comp \ {"engine"}
  /\ \A c \in Comp : c \in Loops \/ c \in {"srtk", "engine", "nrtk"}
  /\ Loops \subseteq Comp /\ "srtk" \notin Loops /\ "engine" \notin Loops /\ "nrtk" \notin Loops
BY Starts, Closes DEF Comp, Loops, Polling

LEMMA DecoderEntersKeeps == ASSUME LifeInv, DecoderEnters PROVE LifeInv'
<1>1. TypeOK'
  BY DEF LifeInv, TypeOK, DecoderEnters, console
<1>2. Fresh' /\ Launched' /\ Handles' /\ States'
  BY DEF LifeInv, DecoderEnters, console, Fresh, Launched, Handles, States
<1>3. Told' /\ Whole' /\ Joined'
  BY DEF LifeInv, DecoderEnters, console, Told, Whole, Joined
<1>4. Tables' /\ Log'
  BY DEF LifeInv, DecoderEnters, console, Tables, Log
<1>5. CrashExcused'
  BY DEF DecoderEnters, Alive, CrashExcused
<1> QED BY <1>1, <1>2, <1>3, <1>4, <1>5 DEF LifeInv

LEMMA StartCastersKeeps == ASSUME LifeInv, StartCasters PROVE LifeInv'
<1>1. /\ thr["ntrip"] = "boot" /\ made["ntrip"] = "made" /\ crash = <<>>
      /\ thr' = [thr EXCEPT !["ntrip"] = "run", !["caster"] = "boot"]
      /\ UNCHANGED <<con, at, runs, early, next, made, st, decst, sent, inbox, pool, file, freed,
                     noport, crash>>
  BY DEF StartCasters, console, Alive
<1>2. /\ thr' \in [Comp -> {"off", "boot", "run", "gone"}]
      /\ thr'["ntrip"] = "run" /\ thr'["caster"] = "boot"
      /\ \A x \in Comp \ {"ntrip", "caster"} : thr'[x] = thr[x]
  BY <1>1 DEF LifeInv, TypeOK, Comp, Loops
<1>3. thr["caster"] = "off" /\ next # 1
  BY <1>1, Starts DEF LifeInv, Launched
<1>4. TypeOK'
  BY <1>1, <1>2 DEF LifeInv, TypeOK
<1>5. Fresh' /\ Log'
  BY <1>1 DEF LifeInv, Fresh, Log, Comp, Loops
<1>6. Launched'
  <2>1. \A i \in 1 .. 9 : (thr'[StartOrder[i]] = "off" <=> thr[StartOrder[i]] = "off")
    <3> SUFFICES ASSUME NEW i \in 1 .. 9
                 PROVE  thr'[StartOrder[i]] = "off" <=> thr[StartOrder[i]] = "off"
      OBVIOUS
    <3>1. StartOrder[i] \in Comp \ {"caster"}
      BY Places
    <3> QED BY <1>1, <1>2, <3>1
  <2>2. \A i \in 1 .. 9 : next' <= i <=> thr'[StartOrder[i]] = "off"
    BY <1>1, <2>1 DEF LifeInv, Launched
  <2>3. thr'["cors"] = thr["cors"]
    BY <1>2 DEF Comp, Loops
  <2> QED BY <1>1, <1>2, <2>2, <2>3 DEF LifeInv, Launched
<1>7. Handles'
  BY <1>1, <1>2, Places DEF LifeInv, Handles
<1>8. States'
  BY <1>1, <1>2 DEF LifeInv, States, Comp, Loops, Polling
<1>9. Told'
  BY <1>1, <1>2 DEF LifeInv, Told, Comp, Loops, Polling
<1>10. Whole'
  BY <1>1, <1>3 DEF LifeInv, Whole, Comp, Loops
<1>11. Joined'
  BY <1>1, <1>2, <1>3, Places DEF LifeInv, Joined
<1>12. Tables'
  BY <1>1, <1>2, <1>3 DEF LifeInv, Tables, Comp, Loops, Polling
<1>13. CrashExcused'
  BY <1>1 DEF CrashExcused
<1> QED BY <1>4, <1>5, <1>6, <1>7, <1>8, <1>9, <1>10, <1>11, <1>12, <1>13 DEF LifeInv

\* A thread that has come up, or that had no port: it was in its start, so that
\* the stop is an early one and nothing is over for it.
LEMMA ComesUp ==
  ASSUME LifeInv, Alive, NEW c \in Comp \ {"cors"}, NEW v \in {"boot", "run"},
         thr[c] = "boot", c \in Loops /\ v = "run" => made'[c] = "made",
         c = "ntrip" => v = "boot",
         thr' = [thr EXCEPT ![c] = v],
         \A x \in Loops : x # c => made'[x] = made[x],
         UNCHANGED <<console, next, sent, freed, noport, crash>>,
         TypeOK', States', Log'
  PROVE  LifeInv'
<1>1. /\ thr' \in [Comp -> {"off", "boot", "run", "gone"}]
      /\ thr'[c] = v /\ \A x \in Comp : x # c => thr'[x] = thr[x]
  BY GoesOn
<1>2. Fresh'
  BY DEF LifeInv, Fresh, console
<1>3. Launched'
  BY <1>1, Places DEF LifeInv, Launched, Comp, Loops
<1>4. Handles'
  BY <1>1, Places DEF LifeInv, Handles
<1>5. Told'
  BY <1>1 DEF LifeInv, Told, console, Comp, Loops, Polling
<1>6. Whole'
  BY DEF LifeInv, Whole, console
<1>7. Joined'
  BY <1>1, Places DEF LifeInv, Joined, console
<1>8. Tables'
  BY <1>1, Places DEF LifeInv, Tables, Comp, Loops, Polling
<1>9. CrashExcused'
  BY DEF Alive, CrashExcused
<1> QED BY <1>2, <1>3, <1>4, <1>5, <1>6, <1>7, <1>8, <1>9 DEF LifeInv

\* What asking libuv's threads does to the types and the log
LEMMA Posts ==
  ASSUME LifeInv, NEW ok \in {"opening", "open"}, Post(ok, "lost"), UNCHANGED <<con, runs>>
  PROVE  /\ pool' \in {"unused", "up", "down", "kept"}
         /\ file' \in {"none", "opening", "open", "lost"} /\ Log'
BY DEF LifeInv, TypeOK, Log, Post

LEMMA StoresTyped ==
  LifeInv => /\ pool \in {"unused", "up", "down", "kept"} /\ inbox \subseteq Inboxes
             /\ file \in {"none", "opening", "open", "lost"} /\ Log
BY DEF LifeInv, TypeOK

\* An end of the program that leaves everything as it is
LEMMA DiesAt ==
  ASSUME LifeInv, Alive, NEW why, NEW where \in Comp, Die(why, where),
         thr[where] # "off" \/ con = "ask",
         why \in {"close", "join", "table", "network", "answer", "pool"},
         why = "pool" => where = "caster" /\ pool = "down" /\ (runs > 1 \/ con # "up"),
         why = "close" => early \/ where \in noport,
         why = "join" => where = "engine" /\ runs > 1,
         why = "table" => con \in {"ask", "join"} /\ thr["caster"] = "gone",
         why = "network" => con \in {"ask", "join"} /\ thr["nrtk"] = "gone",
         why = "answer" => next <= 9
  PROVE  LifeInv'
<1>1. runs' = runs /\ con' = con /\ pool' = pool /\ file' = file
  BY DEF Die
<1>2. Fresh' /\ Log'
  BY <1>1, StoresTyped DEF Log, LifeInv, Fresh
<1>3. pool' \in {"unused", "up", "down", "kept"} /\ file' \in {"none", "opening", "open", "lost"}
  BY <1>1, StoresTyped
<1> QED BY <1>2, <1>3, Dies DEF Die

\* A request after libuv's threads have gone: not in the first run before a stop
LEMMA PostDiesKeeps ==
  ASSUME LifeInv, Alive, thr["caster"] # "off", PostDies("caster") PROVE LifeInv'
<1>1. "caster" \in Comp
  BY DEF Comp, Loops
<1>2. pool = "down" /\ Die("pool", "caster")
  BY DEF PostDies
<1>3. runs > 1 \/ con # "up"
  <2>1. runs # 0 /\ (runs # 1 \/ con # "up")
    BY <1>2 DEF LifeInv, Fresh, Log
  <2> QED BY <2>1, LifecycleAssumption DEF LifeInv, TypeOK
<1> QED BY <1>1, <1>2, <1>3, DiesAt

LEMMA BootLoopKeeps == ASSUME LifeInv, NEW c \in Loops, BootLoop(c) PROVE LifeInv'
<1>1. CASE c = "caster" /\ PostDies(c)
  BY <1>1, PostDiesKeeps DEF BootLoop
<1>2. CASE ~(c = "caster" /\ PostDies(c))
  <2>1. /\ crash = <<>> /\ c # "cors" /\ thr[c] = "boot" /\ made' = [made EXCEPT ![c] = "made"]
        /\ thr' = [thr EXCEPT ![c] = IF c = "ntrip" THEN "boot" ELSE "run"]
        /\ decst' = IF c = "decoder" THEN 1 ELSE decst
        /\ inbox' = IF c \in {"decoder", "pnt", "monitor"} THEN inbox \ {c} ELSE inbox
        /\ IF c = "caster" THEN Post("opening", "lost") ELSE UNCHANGED <<pool, file>>
        /\ UNCHANGED <<con, at, runs, early, next, st, sent, freed, noport, crash>>
    <3>1. thr = [thr EXCEPT ![c] = thr[c]]
      BY DEF LifeInv, TypeOK
    <3> QED BY <1>2, <3>1 DEF BootLoop, console, Alive
  <2>2. c \in Comp
    BY Places
  <2>3. /\ thr' \in [Comp -> {"off", "boot", "run", "gone"}]
        /\ \A x \in Comp : x # c => thr'[x] = thr[x]
        /\ thr'[c] = IF c = "ntrip" THEN "boot" ELSE "run"
    BY <2>1, <2>2, GoesOn
  <2>4. /\ made' \in [Loops -> {"null", "made", "stale"}] /\ made'[c] = "made"
        /\ \A x \in Loops : x # c => made'[x] = made[x]
    BY <2>1 DEF LifeInv, TypeOK
  <2>5. /\ pool' \in {"unused", "up", "down", "kept"}
        /\ file' \in {"none", "opening", "open", "lost"} /\ Log'
    <3>1. CASE c = "caster"
      BY <3>1, <2>1, Posts
    <3>2. CASE c # "caster"
      BY <3>2, <2>1 DEF LifeInv, TypeOK, Log
    <3> QED BY <3>1, <3>2
  <2>6. decst' \in 0 .. 1 /\ inbox' \subseteq Inboxes
    BY <2>1 DEF LifeInv, TypeOK
  <2>7. TypeOK'
    BY <2>1, <2>3, <2>4, <2>5, <2>6 DEF LifeInv, TypeOK
  <2>8. States'
    BY <2>1, <2>3, Places DEF LifeInv, States, Comp, Loops, Polling
  <2> DEFINE v == IF c = "ntrip" THEN "boot" ELSE "run"
  <2>9. v \in {"boot", "run"} /\ (c = "ntrip" => v = "boot") /\ thr' = [thr EXCEPT ![c] = v]
    BY <2>1
  <2> HIDE DEF v
  <2> QED BY <2>1, <2>2, <2>4, <2>5, <2>7, <2>8, <2>9, ComesUp DEF Alive, console
<1> QED BY <1>1, <1>2

LEMMA BootPollingKeeps == ASSUME LifeInv, NEW c \in Polling, BootPolling(c) PROVE LifeInv'
<1>1. /\ crash = <<>> /\ thr[c] = "boot" /\ thr' = [thr EXCEPT ![c] = "run"]
      /\ st' = IF c = "nrtk" THEN st ELSE [st EXCEPT ![c] = @ + 1]
      /\ UNCHANGED <<con, at, runs, early, next, made, decst, sent, inbox, pool, file, freed,
                     noport, crash>>
  BY DEF BootPolling, console, Alive
<1>2. c \in Comp \ Loops /\ c \in {"srtk", "engine", "nrtk"} /\ c # "cors"
  BY Places DEF Comp, Polling, Loops
<1>3. /\ thr' \in [Comp -> {"off", "boot", "run", "gone"}]
      /\ thr'[c] = "run" /\ \A x \in Comp : x # c => thr'[x] = thr[x]
  BY <1>1, <1>2, GoesOn
<1>4. st' \in [Polling -> 0 .. 2] /\ \A x \in Polling : x # c => st'[x] = st[x]
      /\ (c = "nrtk" => st' = st)
  <2>1. CASE c = "nrtk"
    BY <2>1, <1>1 DEF LifeInv, TypeOK
  <2>2. CASE c # "nrtk"
    <3>1. st[c] \in 0 .. 1
      BY <2>2, <1>1, <1>2 DEF LifeInv, States
    <3>2. st' = [st EXCEPT ![c] = st[c] + 1]
      BY <1>1, <2>2
    <3> QED BY <2>2, <3>1, <3>2 DEF LifeInv, TypeOK
  <2> QED BY <2>1, <2>2
<1>5. TypeOK'
  BY <1>1, <1>3, <1>4 DEF LifeInv, TypeOK
<1>6. States'
  BY <1>1, <1>2, <1>3, <1>4 DEF LifeInv, States, Comp, Loops, Polling
<1>7. Log'
  BY <1>1 DEF LifeInv, Log
<1> QED BY <1>1, <1>2, <1>5, <1>6, <1>7, ComesUp DEF Alive, console

LEMMA NoPortKeeps == ASSUME LifeInv, NEW c \in Loops, NoPort(c) PROVE LifeInv'
<1>1. /\ crash = <<>> /\ c \in {"agent", "monitor"} /\ thr[c] = "boot"
      /\ thr' = [thr EXCEPT ![c] = "gone"] /\ noport' = noport \union {c}
      /\ UNCHANGED <<con, at, runs, early, next, made, st, decst, sent, inbox, pool, file, freed,
                     crash>>
  BY DEF NoPort, console, Alive
<1>2. /\ thr' \in [Comp -> {"off", "boot", "run", "gone"}]
      /\ thr'[c] = "gone" /\ \A x \in Comp : x # c => thr'[x] = thr[x]
  BY <1>1, Places, GoesOn
<1>3. TypeOK'
  BY <1>1, <1>2 DEF LifeInv, TypeOK
<1>4. Fresh' /\ Log'
  BY <1>1, Places DEF LifeInv, Fresh, Log
<1>5. Launched'
  BY <1>1, <1>2, Places DEF LifeInv, Launched, Comp, Loops
<1>6. Handles' /\ States'
  BY <1>1, <1>2, Places DEF LifeInv, Handles, States, Comp, Loops, Polling
<1>7. Told'
  BY <1>1, <1>2, Places DEF LifeInv, Told, Comp, Loops, Polling
<1>8. Whole'
  BY <1>1, <1>2, Places DEF LifeInv, Whole
<1>9. Joined'
  BY <1>1, <1>2, Places DEF LifeInv, Joined
<1>10. Tables'
  BY <1>1, <1>2 DEF LifeInv, Tables, Comp, Loops, Polling
<1>11. CrashExcused'
  BY <1>1 DEF CrashExcused
<1> QED BY <1>3, <1>4, <1>5, <1>6, <1>7, <1>8, <1>9, <1>10, <1>11 DEF LifeInv

\* Work from one that runs to one that is closed later meets no handle only as
\* CrashExcused says.
LEMMA NotClosed ==
  ASSUME LifeInv, NEW i \in 1 .. 10, NEW j \in 1 .. 10, i < j, CloseOrder[j] \in Loops,
         made[CloseOrder[j]] # "made", thr[CloseOrder[i]] = "run"
  PROVE  \/ thr[CloseOrder[j]] \in {"off", "boot"} \/ CloseOrder[j] \in noport \/ early
<1>1. thr[CloseOrder[j]] \in {"off", "boot", "gone"}
  BY Missing
<1>2. early \in BOOLEAN
  BY DEF LifeInv, TypeOK
<1> QED BY <1>1, <1>2, InOrder

LEMMA NotFresh == ASSUME LifeInv, NEW c \in Comp, thr[c] # "off"
                  PROVE  runs # 0 /\ (UNCHANGED runs => Fresh')
BY DEF LifeInv, Fresh

\* Work for c, of one that runs
LEMMA DeliverKeeps ==
  ASSUME LifeInv, Alive, NEW i \in 1 .. 10, NEW j \in 1 .. 10, i < j, CloseOrder[j] \in Loops,
         CloseOrder[j] # "decoder", thr[CloseOrder[i]] = "run", NEW rest \in SUBSET Inboxes,
         CloseOrder[j] \in Inboxes, Deliver(CloseOrder[j], rest), UNCHANGED file
  PROVE  LifeInv'
<1> DEFINE c == CloseOrder[j]
<1>1. CASE made[c] = "made"
  <2>1. /\ inbox' = rest \union {c}
        /\ UNCHANGED <<console, next, threads, pool, freed, noport, crash>>
    BY <1>1 DEF Deliver
  <2>2. Fresh' /\ Log'
    BY <2>1, Places, NotFresh, StoresTyped DEF console, Log
  <2> QED BY <2>1, <2>2, StoresTyped, Works
<1>2. CASE made[c] # "made"
  <2>1. Die("deliver", c)
    BY <1>2 DEF Deliver
  <2>2. \/ thr[c] \in {"off", "boot"} \/ c \in noport \/ early
    BY <1>2, NotClosed
  <2>3. c \in Comp
    BY Places
  <2>4. runs' = runs /\ con' = con /\ pool' = pool /\ file' = file
    BY <2>1 DEF Die
  <2>5. Fresh' /\ Log'
    BY <2>4, Places, NotFresh, StoresTyped DEF Log
  <2>6. pool' \in {"unused", "up", "down", "kept"} /\ file' \in {"none", "opening", "open", "lost"}
    BY <2>4, StoresTyped
  <2> HIDE DEF c
  <2> QED BY <2>1, <2>2, <2>3, <2>5, <2>6, Dies DEF Die, c
<1> QED BY <1>1, <1>2

LEMMA ReadKeeps == ASSUME LifeInv, Read PROVE LifeInv'
<1>1. Alive /\ thr["caster"] = "run" /\ "caster" \in Comp /\ "decoder" \in Comp
  BY Places DEF Read, Up, Comp, Loops
<1>2. CASE PostDies("caster")
  BY <1>1, <1>2, PostDiesKeeps
<1>3. CASE ~PostDies("caster")
  <2>1. /\ IF file = "open" THEN Post("open", "lost") ELSE UNCHANGED <<pool, file>>
        /\ UNCHANGED <<console, next, threads, freed, noport>>
        /\ \/ inbox' = inbox /\ crash' = crash
           \/ inbox' = inbox \union {"decoder"} /\ crash' = crash
           \/ /\ decst # 0 /\ made["decoder"] # "made"
              /\ crash' = <<"deliver", "decoder">> /\ inbox' = inbox
    BY <1>3 DEF Read
  <2>2. /\ pool' \in {"unused", "up", "down", "kept"}
        /\ file' \in {"none", "opening", "open", "lost"} /\ Log'
    <3>1. CASE file = "open"
      BY <3>1, <2>1, Posts DEF console
    <3>2. CASE file # "open"
      BY <3>2, <2>1, StoresTyped DEF Log, console
    <3> QED BY <3>1, <3>2
  <2>3. Fresh'
    BY <1>1, <2>1, NotFresh DEF console
  <2>4. CASE crash' = crash
    <3>1. inbox' \subseteq Inboxes
      BY <1>1, <2>1, <2>4, StoresTyped DEF Inboxes, Alive
    <3> QED BY <1>1, <2>1, <2>2, <2>3, <2>4, <3>1, Works
  <2>5. CASE decst # 0 /\ made["decoder"] # "made" /\ crash' = <<"deliver", "decoder">>
             /\ inbox' = inbox
    <3>1. thr["decoder"] \in {"off", "boot"} \/ "decoder" \in noport \/ early
      BY <1>1, <2>5, NotClosed, Closes, 2 \in 1 .. 10, 3 \in 1 .. 10 DEF Loops
    <3>2. thr["decoder"] \in {"off", "boot"} => runs > 1
      BY <2>5 DEF LifeInv, TypeOK, States
    <3> QED BY <1>1, <2>1, <2>2, <2>3, <2>5, <3>1, <3>2, Dies DEF console, threads
  <2> QED BY <2>1, <2>4, <2>5
<1> QED BY <1>2, <1>3

LEMMA DecodeKeeps == ASSUME LifeInv, Decode PROVE LifeInv'
<1>1. Deliver(CloseOrder[4], (inbox \ {"decoder"}) \union {"nrtk"})
  BY Closes DEF Decode
<1>2. (inbox \ {"decoder"}) \union {"nrtk"} \in SUBSET Inboxes
  BY StoresTyped DEF Inboxes
<1>3. CloseOrder[4] \in Loops /\ CloseOrder[4] \in Inboxes /\ CloseOrder[4] # "decoder"
  BY Closes DEF Loops, Inboxes
<1> QED BY <1>1, <1>2, <1>3, Closes, DeliverKeeps, 3 \in 1 .. 10, 4 \in 1 .. 10 DEF Decode, Up

LEMMA PositionKeeps == ASSUME LifeInv, Position PROVE LifeInv'
<1>1. Deliver(CloseOrder[5], inbox \ {"pnt"})
  BY Closes DEF Position
<1>2. inbox \ {"pnt"} \in SUBSET Inboxes
  BY StoresTyped
<1>3. CloseOrder[5] \in Loops /\ CloseOrder[5] \in Inboxes /\ CloseOrder[5] # "decoder"
  BY Closes DEF Loops, Inboxes
<1> QED BY <1>1, <1>2, <1>3, Closes, DeliverKeeps, 4 \in 1 .. 10, 5 \in 1 .. 10 DEF Position, Up

LEMMA SolveKeeps == ASSUME LifeInv, Solve PROVE LifeInv'
<1>1. inbox \ {"nrtk"} \in SUBSET Inboxes
  BY StoresTyped
<1>2. CASE thr["vrs"] = "off"
  <2>1. /\ inbox' = inbox \ {"nrtk"}
        /\ UNCHANGED <<console, next, threads, pool, file, freed, noport, crash>>
    BY <1>2 DEF Solve
  <2>2. Fresh' /\ Log'
    BY <2>1, NotFresh, StoresTyped DEF Solve, Up, Log, console, Comp, Polling
  <2> QED BY <1>1, <2>1, <2>2, StoresTyped, Works DEF Solve
<1>3. CASE thr["vrs"] # "off"
  <2>1. Deliver(CloseOrder[8], inbox \ {"nrtk"})
    BY <1>3, Closes DEF Solve
  <2>2. CloseOrder[8] \in Loops /\ CloseOrder[8] \in Inboxes /\ CloseOrder[8] # "decoder"
    BY Closes DEF Loops, Inboxes
  <2> QED BY <1>1, <2>1, <2>2, Closes, DeliverKeeps, 7 \in 1 .. 10, 8 \in 1 .. 10 DEF Solve, Up
<1> QED BY <1>2, <1>3

\* An owner that has ended was told to, by a stop that is not through: those who
\* still run are closed after it.
LEMMA Stopping ==
  ASSUME LifeInv, NEW c \in {"monitor", "agent", "vrs"}, thr[c] = "run",
         thr["caster"] = "gone" \/ thr["nrtk"] = "gone"
  PROVE  con \in {"ask", "join"}
<1>1. c \in Comp /\ "caster" \in Loops
  BY Places DEF Loops
<1>2. runs # 0
  BY <1>1, NotFresh
<1>3. con # "up"
  <2>1. "caster" \notin noport
    BY DEF LifeInv, TypeOK
  <2>2. "caster" \in sent \/ "engine" \in sent
    BY <1>1, <2>1 DEF LifeInv, Told
  <2> QED BY <2>2 DEF LifeInv, Told
<1>4. con # "off"
  <2> SUFFICES ASSUME con = "off" PROVE FALSE
    OBVIOUS
  <2>1. runs > 0
    BY <1>2, LifecycleAssumption DEF LifeInv, TypeOK
  <2>2. PICK i \in 1 .. 10 : CloseOrder[i] = c
    BY Closes, 5 \in 1 .. 10, 8 \in 1 .. 10, 9 \in 1 .. 10
  <2> QED BY <2>1, <2>2 DEF LifeInv, Joined, Skipped
<1> QED BY <1>3, <1>4 DEF LifeInv, TypeOK

LEMMA RegistryFreed ==
  ASSUME LifeInv, NEW c \in {"monitor", "agent"}, thr[c] = "run", "registry" \in freed
  PROVE  con \in {"ask", "join"} /\ thr["caster"] = "gone"
<1>1. next # 1
  BY Starts, 2 \in 1 .. 9, 9 \in 1 .. 9 DEF LifeInv, Launched
<1> QED BY <1>1, Stopping DEF LifeInv, Tables

LEMMA NetworkFreed ==
  ASSUME LifeInv, thr["vrs"] = "run", "network" \in freed
  PROVE  con \in {"ask", "join"} /\ thr["nrtk"] = "gone"
<1>1. ~(next <= 6)
  BY Starts, 8 \in 1 .. 9 DEF LifeInv, Launched, TypeOK
<1> QED BY <1>1, Stopping DEF LifeInv, Tables

LEMMA TakesWork ==
  ASSUME LifeInv, Alive, NEW c \in Comp, thr[c] # "off", NEW x, inbox' = inbox \ {x},
         UNCHANGED <<console, next, threads, pool, file, freed, noport, crash>>
  PROVE  LifeInv'
<1>1. Fresh' /\ Log'
  BY NotFresh, StoresTyped DEF Log, console
<1> QED BY <1>1, StoresTyped, Works

LEMMA ReportKeeps == ASSUME LifeInv, Report PROVE LifeInv'
<1>1. Alive /\ thr["monitor"] = "run" /\ "monitor" \in Comp
  BY Places DEF Report, Up, Loops
<1>2. CASE "registry" \in freed
  BY <1>1, <1>2, RegistryFreed, DiesAt DEF Report
<1>3. CASE "registry" \notin freed
  BY <1>1, <1>3, TakesWork DEF Report
<1> QED BY <1>2, <1>3

LEMMA NearestKeeps == ASSUME LifeInv, Nearest PROVE LifeInv'
<1>1. Alive /\ thr["agent"] = "run" /\ "agent" \in Comp /\ "registry" \in freed
  BY Places DEF Nearest, Up, Loops
<1> QED BY <1>1, RegistryFreed, DiesAt DEF Nearest

LEMMA AnswerKeeps == ASSUME LifeInv, Answer PROVE LifeInv'
<1>1. Alive /\ thr["engine"] = "run" /\ "engine" \in Comp
  BY DEF Answer, Up, Comp, Polling
<1>2. CASE thr["nrtk"] = "off" /\ runs = 1
  <2>1. next <= 9
    BY <1>2, Starts, 7 \in 1 .. 9 DEF LifeInv, TypeOK, Launched
  <2> QED BY <1>1, <1>2, <2>1, DiesAt DEF Answer
<1>3. CASE ~(thr["nrtk"] = "off" /\ runs = 1)
  BY <1>1, <1>3, TakesWork DEF Answer
<1> QED BY <1>2, <1>3

LEMMA InterpolateKeeps == ASSUME LifeInv, Interpolate PROVE LifeInv'
<1>1. Alive /\ thr["vrs"] = "run" /\ "vrs" \in Comp
  BY Places DEF Interpolate, Up, Loops
<1>2. CASE "network" \in freed
  BY <1>1, <1>2, NetworkFreed, DiesAt DEF Interpolate
<1>3. CASE "network" \notin freed
  BY <1>1, <1>3, TakesWork DEF Interpolate
<1> QED BY <1>2, <1>3

LEMMA OpenedKeeps == ASSUME LifeInv, Opened PROVE LifeInv'
<1>1. /\ Alive /\ file' = "open" /\ file = "opening"
      /\ UNCHANGED <<console, next, threads, inbox, pool, freed, noport, crash>>
  BY DEF Opened
<1>2. Fresh' /\ Log'
  BY <1>1 DEF LifeInv, Fresh, Log, console
<1> QED BY <1>1, <1>2, StoresTyped, Works

LEMMA StopKeeps == ASSUME LifeInv, Stop PROVE LifeInv'
<1>1. /\ crash = <<>> /\ con = "up" /\ con' = "ask" /\ at' = 1
      /\ early' = (\E c \in Comp : thr[c] \in {"off", "boot"})
      /\ UNCHANGED <<next, thr, made, st, decst, sent, inbox, pool, file, freed, runs, noport,
                     crash>>
  BY DEF Stop, threads, Alive
<1>2. TypeOK'
  <2>1. at' \in 1 .. Len(CloseOrder) /\ early' \in BOOLEAN
    BY <1>1, Sizes
  <2> QED BY <1>1, <2>1 DEF LifeInv, TypeOK
<1>3. Fresh' /\ Log'
  BY <1>1 DEF LifeInv, Fresh, Log
<1>4. Launched' /\ Handles' /\ States'
  BY <1>1 DEF LifeInv, Launched, Handles, States
<1>5. Told'
  BY <1>1 DEF LifeInv, Told
<1>6. Whole'
  <2> SUFFICES ASSUME ~early', NEW c \in Comp PROVE thr[c] \in {"run", "gone"}
    BY <1>1 DEF Whole
  <2>1. thr[c] \notin {"off", "boot"}
    BY <1>1
  <2> QED BY <2>1 DEF LifeInv, TypeOK
<1>7. Joined'
  BY <1>1 DEF Joined
<1>8. Tables'
  BY <1>1 DEF LifeInv, Tables
<1>9. CrashExcused'
  BY <1>1 DEF CrashExcused
<1> QED BY <1>2, <1>3, <1>4, <1>5, <1>6, <1>7, <1>8, <1>9 DEF LifeInv

\* The component whose turn it is has not been told to end.
LEMMA NotYetTold ==
  ASSUME LifeInv, con = "ask", ~early, CloseOrder[at] \in Loops, thr[CloseOrder[at]] # "run"
  PROVE  CloseOrder[at] \in noport
<1>1. at \in 1 .. 10 /\ CloseOrder[at] \in Comp
  BY Sizes, Places DEF LifeInv, TypeOK
<1>2. thr[CloseOrder[at]] = "gone"
  BY <1>1 DEF LifeInv, Whole
<1>3. CloseOrder[at] \notin sent
  BY <1>1 DEF LifeInv, Told
<1> QED BY <1>2, <1>3 DEF LifeInv, Told

LEMMA SkipKeeps == ASSUME LifeInv, Alive, con = "ask", Skip PROVE LifeInv'
<1> DEFINE c == CloseOrder[at]
<1>1. /\ c \in {"ntrip", "decoder", "pnt"} /\ made[c] = "null"
      /\ at' = at + IF c = "ntrip" THEN 2 ELSE 1
      /\ UNCHANGED <<con, next, thr, made, st, decst, sent, inbox, pool, file, freed, runs,
                     early, noport, crash>>
  BY DEF Skip, threads
<1>2. at \in {1, 3, 4} /\ (c = "ntrip" <=> at = 1)
  BY <1>1, Sizes, Closes DEF LifeInv, TypeOK
<1>3. early
  <2>1. thr[c] # "run"
    BY <1>1 DEF LifeInv, Handles, Loops
  <2>2. c \in Loops /\ c \notin noport
    BY <1>1 DEF Loops, LifeInv, TypeOK
  <2>3. early \in BOOLEAN
    BY DEF LifeInv, TypeOK
  <2> QED BY <2>1, <2>2, <2>3, NotYetTold
<1>4. at' \in 1 .. 5 /\ at < at' /\ \A i \in 1 .. 10 : i < at' => i < at \/ CloseOrder[i] \in Skipped
  BY <1>1, <1>2, Closes DEF Skipped
<1> HIDE DEF c
<1>5. TypeOK'
  BY <1>1, <1>4, Sizes DEF LifeInv, TypeOK
<1>6. Fresh' /\ Log' /\ Whole'
  BY <1>1 DEF LifeInv, Fresh, Log, Whole
<1>7. Launched' /\ Handles' /\ States'
  BY <1>1 DEF LifeInv, Launched, Handles, States
<1>8. Told'
  <2>1. \A i \in 1 .. 10 : CloseOrder[i] \in sent => i < at'
    BY <1>4, <1>2 DEF LifeInv, Told
  <2> QED BY <1>1, <2>1 DEF LifeInv, Told
<1>9. Joined'
  BY <1>1, <1>3, <1>4 DEF LifeInv, Joined
<1>10. Tables'
  BY <1>1 DEF LifeInv, Tables
<1>11. CrashExcused'
  BY <1>1 DEF CrashExcused, Alive
<1> QED BY <1>5, <1>6, <1>7, <1>8, <1>9, <1>10, <1>11 DEF LifeInv

LEMMA WakeKeeps == ASSUME LifeInv, Alive, con = "ask", Wake PROVE LifeInv'
<1> DEFINE c == CloseOrder[at]
<1>1. /\ c \in Loops /\ sent' = sent \union {c} /\ con' = "join"
      /\ UNCHANGED <<at, next, thr, made, st, decst, inbox, pool, file, freed, runs, early,
                     noport, crash>>
  BY DEF Wake
<1>2. at \in 1 .. 10 /\ \A i \in 1 .. 10 : CloseOrder[i] = c => i = at
  BY Sizes, Closes DEF LifeInv, TypeOK
<1> HIDE DEF c
<1>3. TypeOK'
  BY <1>1, Places DEF LifeInv, TypeOK
<1>4. Fresh' /\ Log' /\ Whole'
  BY <1>1 DEF LifeInv, Fresh, Log, Whole
<1>5. Launched' /\ Handles' /\ States'
  BY <1>1 DEF LifeInv, Launched, Handles, States
<1>6. Told'
  BY <1>1, <1>2 DEF LifeInv, Told
<1>7. Joined' /\ Tables'
  BY <1>1 DEF LifeInv, Joined, Tables
<1>8. CrashExcused'
  BY <1>1 DEF CrashExcused, Alive
<1> QED BY <1>3, <1>4, <1>5, <1>6, <1>7, <1>8 DEF LifeInv

LEMMA WakeNothingKeeps == ASSUME LifeInv, Alive, con = "ask", WakeNothing PROVE LifeInv'
<1> DEFINE c == CloseOrder[at]
<1>1. c \in Loops /\ made[c] # "made" /\ Die("close", c)
  BY DEF WakeNothing
<1>2. thr[c] # "run"
  BY <1>1 DEF LifeInv, Handles
<1>3. early \/ c \in noport
  <2>1. early \in BOOLEAN
    BY DEF LifeInv, TypeOK
  <2> QED BY <1>1, <1>2, <2>1, NotYetTold
<1> HIDE DEF c
<1> QED BY <1>1, <1>3, Places, DiesAt

LEMMA ClearStateKeeps == ASSUME LifeInv, Alive, con = "ask", ClearState PROVE LifeInv'
<1> DEFINE c == CloseOrder[at]
<1>1. /\ c \in Polling /\ st' = [st EXCEPT ![c] = 0] /\ con' = "join"
      /\ UNCHANGED <<at, next, thr, made, decst, sent, inbox, pool, file, freed, runs, early,
                     noport, crash>>
  BY DEF ClearState
<1> HIDE DEF c
<1>2. st' \in [Polling -> 0 .. 2] /\ st'[c] = 0 /\ \A x \in Polling : x # c => st'[x] = st[x]
  BY <1>1 DEF LifeInv, TypeOK
<1>3. TypeOK'
  BY <1>1, <1>2 DEF LifeInv, TypeOK
<1>4. Fresh' /\ Log' /\ Whole'
  BY <1>1 DEF LifeInv, Fresh, Log, Whole
<1>5. Launched' /\ Handles'
  BY <1>1 DEF LifeInv, Launched, Handles
<1>6. States'
  BY <1>1, <1>2 DEF LifeInv, States, Polling
<1>7. Told'
  BY <1>1 DEF LifeInv, Told
<1>8. Joined' /\ Tables'
  BY <1>1 DEF LifeInv, Joined, Tables
<1>9. CrashExcused'
  BY <1>1 DEF CrashExcused, Alive
<1> QED BY <1>3, <1>4, <1>5, <1>6, <1>7, <1>8, <1>9 DEF LifeInv

LEMMA AskKeeps == ASSUME LifeInv, Ask PROVE LifeInv'
BY SkipKeeps, WakeKeeps, WakeNothingKeeps, ClearStateKeeps DEF Ask

LEMMA JoinKeeps == ASSUME LifeInv, Join PROVE LifeInv'
<1>1. /\ crash = <<>> /\ con = "join" /\ thr[CloseOrder[at]] = "gone"
      /\ con' = (IF at = 10 THEN "off" ELSE "ask") /\ at' = (IF at = 10 THEN at ELSE at + 1)
      /\ freed' = IF CloseOrder[at] = "caster" THEN freed \union {"registry"} ELSE freed
      /\ UNCHANGED <<next, thr, made, st, decst, sent, inbox, pool, file, runs, early, noport,
                     crash>>
  BY Sizes DEF Join, threads, Alive
<1>2. at \in 1 .. 10
  BY Sizes DEF LifeInv, TypeOK
<1>3. TypeOK'
  <2>1. at' \in 1 .. Len(CloseOrder)
    BY <1>1, <1>2, Sizes
  <2> QED BY <1>1, <2>1 DEF LifeInv, TypeOK
<1>4. Fresh' /\ Log' /\ Whole'
  BY <1>1 DEF LifeInv, Fresh, Log, Whole
<1>5. Launched' /\ Handles' /\ States'
  BY <1>1 DEF LifeInv, Launched, Handles, States
<1>6. Told'
  BY <1>1, <1>2 DEF LifeInv, Told
<1>7. Joined'
  <2> SUFFICES ASSUME NEW i \in 1 .. 10, i < at' \/ con' = "off"
               PROVE  thr[CloseOrder[i]] = "gone" \/ (early /\ CloseOrder[i] \in Skipped)
    BY <1>1 DEF Joined
  <2>1. CASE i = at
    BY <1>1, <2>1
  <2>2. CASE i # at
    <3>1. i < at
      BY <1>1, <1>2, <2>2
    <3> QED BY <1>1, <3>1 DEF LifeInv, Joined
  <2> QED BY <2>1, <2>2
<1>8. Tables'
  BY <1>1 DEF LifeInv, Tables
<1>9. CrashExcused'
  BY <1>1 DEF CrashExcused
<1> QED BY <1>3, <1>4, <1>5, <1>6, <1>7, <1>8, <1>9 DEF LifeInv

\* A thread that ends after it was told to
LEMMA Ends ==
  ASSUME LifeInv, Alive, NEW c \in Comp, thr[c] = "run", thr' = [thr EXCEPT ![c] = "gone"],
         c \in Loops => c \in sent,
         c = "nrtk" => "engine" \in sent /\ thr["engine"] = "gone",
         c \in {"srtk", "engine"} => st[c] = 0,
         \A x \in Loops : x # c => made'[x] = made[x],
         UNCHANGED <<console, next, st, decst, sent, noport, crash>>,
         "registry" \in freed' => "registry" \in freed,
         "network" \in freed' => "network" \in freed \/ c = "nrtk",
         TypeOK', Log'
  PROVE  LifeInv'
<1>1. /\ thr' \in [Comp -> {"off", "boot", "run", "gone"}]
      /\ thr'[c] = "gone" /\ \A x \in Comp : x # c => thr'[x] = thr[x]
  BY GoesOn
<1>2. UNCHANGED <<con, at, runs, early>>
  BY DEF console
<1>3. Fresh'
  BY NotFresh, <1>2
<1>4. Launched'
  <2>1. \A i \in 1 .. 9 : (thr'[StartOrder[i]] = "off" <=> thr[StartOrder[i]] = "off")
    BY <1>1, Places
  <2>2. \A i \in 1 .. 9 : next' <= i <=> thr'[StartOrder[i]] = "off"
    BY <2>1 DEF LifeInv, Launched
  <2> QED BY <1>1, <2>2 DEF LifeInv, Launched, Comp, Loops
<1>5. Handles'
  BY <1>1, Places DEF LifeInv, Handles
<1>6. States'
  BY <1>1, <1>2 DEF LifeInv, States, Comp, Loops, Polling
<1>7. Told'
  BY <1>1, <1>2, Places DEF LifeInv, Told, Comp, Polling
<1>8. Whole'
  BY <1>1, <1>2 DEF LifeInv, Whole
<1>9. Joined'
  BY <1>1, <1>2, Places DEF LifeInv, Joined
<1>10. Tables'
  BY <1>1 DEF LifeInv, Tables, Comp, Loops, Polling
<1>11. CrashExcused'
  BY DEF Alive, CrashExcused
<1> QED BY <1>3, <1>4, <1>5, <1>6, <1>7, <1>8, <1>9, <1>10, <1>11 DEF LifeInv

LEMMA LoopEndsKeeps == ASSUME LifeInv, NEW c \in Loops, LoopEnds(c) PROVE LifeInv'
<1>1. /\ Alive /\ thr[c] = "run" /\ c \in sent
      /\ thr' = [thr EXCEPT ![c] = "gone"] /\ made' = [made EXCEPT ![c] = "stale"]
      /\ pool' = CASE pool = "up" -> "down" [] pool = "unused" -> "kept" [] OTHER -> pool
      /\ file' = IF pool = "up" /\ file = "opening" THEN "open" ELSE file
      /\ UNCHANGED <<console, next, st, decst, sent, inbox, freed, noport, crash>>
  BY DEF LoopEnds, Up
<1>2. c \in Comp /\ c \notin {"srtk", "engine", "nrtk"}
  BY Places
<1>3. thr' \in [Comp -> {"off", "boot", "run", "gone"}]
  BY <1>1, <1>2, GoesOn
<1>4. /\ made' \in [Loops -> {"null", "made", "stale"}]
      /\ \A x \in Loops : x # c => made'[x] = made[x]
  BY <1>1 DEF LifeInv, TypeOK
<1>5. /\ pool' \in {"unused", "up", "down", "kept"}
      /\ file' \in {"none", "opening", "open", "lost"}
  BY <1>1 DEF LifeInv, TypeOK
<1>6. TypeOK'
  BY <1>1, <1>3, <1>4, <1>5 DEF LifeInv, TypeOK, console
<1>7. Log'
  BY <1>1 DEF LifeInv, Told, Log, console
<1> QED BY <1>1, <1>2, <1>4, <1>6, <1>7, Ends

LEMMA SrtkEndsKeeps == ASSUME LifeInv, NEW c \in {"srtk", "engine"}, SrtkEnds(c) PROVE LifeInv'
<1>1. /\ Alive /\ thr[c] = "run" /\ st[c] = 0 /\ thr' = [thr EXCEPT ![c] = "gone"]
      /\ UNCHANGED <<console, next, made, st, decst, sent, inbox, pool, file, freed, noport, crash>>
  BY DEF SrtkEnds, Up
<1>2. c \in Comp /\ c \notin Loops /\ c # "nrtk"
  BY Places DEF Comp, Polling
<1>3. thr' \in [Comp -> {"off", "boot", "run", "gone"}]
  BY <1>1, <1>2, GoesOn
<1>4. TypeOK'
  BY <1>1, <1>3 DEF LifeInv, TypeOK, console
<1>5. Log'
  BY <1>1 DEF LifeInv, Log, console
<1> QED BY <1>1, <1>2, <1>4, <1>5, Ends

LEMMA CloseEnginesKeeps == ASSUME LifeInv, CloseEngines PROVE LifeInv'
<1>1. Alive /\ thr["nrtk"] = "run" /\ st["nrtk"] = 0 /\ "engine" \in Comp /\ "nrtk" \in Comp
  BY DEF CloseEngines, Up, Comp, Polling
<1>2. CASE runs > 1 /\ Die("join", "engine")
  <2>1. thr["engine"] # "off"
    <3>1. ~(next <= 7)
      BY <1>1, Starts, 7 \in 1 .. 9 DEF LifeInv, Launched
    <3> QED BY <3>1, Starts, 6 \in 1 .. 9 DEF LifeInv, Launched, TypeOK
  <2> QED BY <1>1, <1>2, <2>1, DiesAt
<1>3. ASSUME st' = [st EXCEPT !["engine"] = 0], sent' = sent \union {"engine"},
             UNCHANGED <<console, next, thr, made, decst, inbox, pool, file, freed, noport, crash>>
      PROVE  LifeInv'
  <2>1. st' \in [Polling -> 0 .. 2] /\ st'["engine"] = 0
        /\ \A x \in Polling : x # "engine" => st'[x] = st[x]
    BY <1>3 DEF LifeInv, TypeOK, Polling
  <2>2. UNCHANGED <<con, at, runs, early>>
    BY <1>3 DEF console
  <2>3. con # "up"
    BY <1>1 DEF LifeInv, States
  <2>4. TypeOK'
    BY <1>1, <1>3, <2>1, <2>2 DEF LifeInv, TypeOK
  <2>5. Fresh' /\ Log' /\ Whole'
    BY <1>3, <2>2 DEF LifeInv, Fresh, Log, Whole
  <2>6. Launched' /\ Handles'
    BY <1>3 DEF LifeInv, Launched, Handles
  <2>7. States'
    BY <1>3, <2>1, <2>2 DEF LifeInv, States, Polling
  <2>8. Told'
    BY <1>3, <2>2, <2>3, Places DEF LifeInv, Told
  <2>9. Joined' /\ Tables'
    BY <1>3, <2>2 DEF LifeInv, Joined, Tables
  <2>10. CrashExcused'
    BY <1>1, <1>3 DEF CrashExcused, Alive
  <2> QED BY <2>4, <2>5, <2>6, <2>7, <2>8, <2>9, <2>10 DEF LifeInv
<1> QED BY <1>2, <1>3 DEF CloseEngines

LEMMA NrtkEndsKeeps == ASSUME LifeInv, NrtkEnds PROVE LifeInv'
<1>1. /\ Alive /\ thr["nrtk"] = "run" /\ "engine" \in sent /\ thr["engine"] = "gone"
      /\ thr' = [thr EXCEPT !["nrtk"] = "gone"] /\ freed' = freed \union {"network"}
      /\ UNCHANGED <<console, next, made, st, decst, sent, inbox, pool, file, noport, crash>>
  BY DEF NrtkEnds, Up
<1>2. "nrtk" \in Comp /\ "nrtk" \notin Loops
  BY Places DEF Comp, Polling
<1>3. thr' \in [Comp -> {"off", "boot", "run", "gone"}]
  BY <1>1, <1>2, GoesOn
<1>4. TypeOK'
  BY <1>1, <1>3 DEF LifeInv, TypeOK, console
<1>5. Log'
  BY <1>1 DEF LifeInv, Log, console
<1> QED BY <1>1, <1>2, <1>4, <1>5, Ends

-----------------------------------------------------------------------------
\* The invariant is inductive: however often the server is started and whenever it is stopped.
THEOREM LifecycleInductive == Spec => []LifeInv
<1>1. Init => LifeInv
  BY InitLife
<1>2. ASSUME LifeInv, Next PROVE LifeInv'
  BY <1>2, StartKeeps, BootCorsKeeps, LaunchKeeps, DecoderEntersKeeps, StartCastersKeeps,
     BootLoopKeeps, NoPortKeeps, LoopEndsKeeps, BootPollingKeeps, ReadKeeps, DecodeKeeps,
     PositionKeeps, ReportKeeps, NearestKeeps, AnswerKeeps, SolveKeeps, InterpolateKeeps,
     OpenedKeeps, StopKeeps, AskKeeps, JoinKeeps, SrtkEndsKeeps, CloseEnginesKeeps, NrtkEndsKeeps
     DEF Next
<1>3. ASSUME LifeInv, UNCHANGED vars PROVE LifeInv'
  <2>1. TypeOK' /\ Fresh' /\ Launched' /\ Handles'
    BY <1>3 DEF LifeInv, vars, TypeOK, Fresh, Launched, Handles
  <2>2. States' /\ Told' /\ Whole' /\ Joined'
    BY <1>3 DEF LifeInv, vars, States, Told, Whole, Joined
  <2>3. Tables' /\ Log' /\ CrashExcused'
    BY <1>3 DEF LifeInv, vars, Tables, Log, CrashExcused
  <2> QED BY <2>1, <2>2, <2>3 DEF LifeInv
<1>4. LifeInv /\ [Next]_vars => LifeInv'
  BY <1>2, <1>3
<1> QED BY <1>1, <1>4, PTL DEF Spec

\* A stop that completes leaves no thread, and the log of the first run is written
\* as long as the server is up (cors.c:92): StopsClean of the run "life".
THEOREM StopsAreClean == Spec => []StopsClean
<1>1. ASSUME LifeInv PROVE NothingLeft
  <2> SUFFICES ASSUME con = "off", ~early, NEW c \in Comp
               PROVE  thr[c] \in {"off", "gone"}
    BY DEF NothingLeft
  <2>1. CASE runs = 0
    BY <1>1, <2>1 DEF LifeInv, Fresh
  <2>2. CASE runs # 0
    <3>1. runs > 0
      BY <1>1, <2>2, LifecycleAssumption DEF LifeInv, TypeOK
    <3>2. \A i \in 1 .. 10 : thr[CloseOrder[i]] = "gone"
      BY <1>1, <3>1 DEF LifeInv, Joined
    <3>3. \A i \in 1 .. 10 : CloseOrder[i] = c => thr[c] = "gone"
      BY <3>2
    <3>4. CASE c = "engine"
      BY <1>1, <3>2, <3>4, Closes, 7 \in 1 .. 10 DEF LifeInv, Told
    <3>5. CASE c # "engine"
      <4>1. \E i \in 1 .. 10 : CloseOrder[i] = c
        BY <3>5, Closes, 1 \in 1 .. 10, 2 \in 1 .. 10, 3 \in 1 .. 10, 4 \in 1 .. 10, 5 \in 1 .. 10,
           6 \in 1 .. 10, 7 \in 1 .. 10, 8 \in 1 .. 10, 9 \in 1 .. 10, 10 \in 1 .. 10
           DEF Comp, Loops, Polling
      <4> QED BY <3>3, <4>1
    <3> QED BY <3>4, <3>5
  <2> QED BY <2>1, <2>2
<1>2. ASSUME LifeInv PROVE LogKept
  <2> SUFFICES ASSUME file = "lost", con = "up" PROVE runs > 1
    BY DEF LogKept
  <2>1. runs # 0 /\ runs # 1
    BY <1>2 DEF LifeInv, Fresh, Log
  <2> QED BY <1>2, <2>1, LifecycleAssumption DEF LifeInv, TypeOK
<1>3. LifeInv => StopsClean
  BY <1>1, <1>2 DEF StopsClean, LifeInv
<1> QED BY <1>3, LifecycleInductive, PTL

\* The server ends badly only where CrashExcused says; in particular no work reaches a
\* component after cors_close has closed it.
THEOREM EndsAreExcused == Spec => []CrashExcused
<1>1. LifeInv => CrashExcused
  BY DEF LifeInv
<1> QED BY <1>1, LifecycleInductive, PTL

=============================================================================
