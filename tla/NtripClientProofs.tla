------------------------- MODULE NtripClientProofs -------------------------
(***************************************************************************)
(* Proofs for NtripClient, for any number of attempts to connect.  Each    *)
(* callback of the event loop keeps the inductive invariant IInv.  In each *)
(* lemma step 0 (or d) states what the callback does to each variable; the *)
(* conjuncts that it does not disturb come first.                          *)
(***************************************************************************)
EXTENDS NtripClient, TLAPS

\* Closing the raw file changes the entry of that file only, and leaves it closed.
LEMMA CloseFileFacts ==
  ASSUME TypeOK, NEW f, f \in [Conn -> File],
         raw # 0 => f[raw] \in {"open", "closed", "twice"}
  PROVE  /\ CloseFile(f) \in [Conn -> File]
         /\ \A d \in Conn : d # raw => CloseFile(f)[d] = f[d]
         /\ raw # 0 => CloseFile(f)[raw] = IF f[raw] = "open" THEN "closed" ELSE "twice"
  BY ClientAssumption DEF TypeOK, CloseFile, Conn, File

\* do_add_source.
LEMMA StartInductive ==
  ASSUME IInv, Start
  PROVE  IInv'
<1>0. /\ TypeOK /\ OneConnection /\ PassedOnlyIfAnswered /\ DroppedByAnswer
      /\ RequestFirst /\ RetryInHand /\ CrashExcused
         /\ ClosedOnce /\ Untouched
      /\ Unborn /\ Alive /\ GivenUp /\ AnswerSeen /\ RequestSent /\ Freed /\ Logged
  BY DEF IInv
<1>1. CASE Connecting(tcp, timer, file) /\ cli' = "live"
  <2>0. /\ cli = "new"
        /\ cli' = "live"
        /\ n < MaxConn /\ n' = n + 1
        /\ tcp' = [tcp EXCEPT ![n + 1] = "connecting"]
        /\ timer' = [timer EXCEPT ![n + 1] = "running"]
        /\ file' = [file EXCEPT ![n + 1] = "opening"]
        /\ UNCHANGED <<state, raw, reconn, answer, passed, dropped, wrote, excuse, prog>>
    BY <1>1 DEF Start, Connecting, NotConnecting, NotFound, streams
  <2>a. reconn = 0
    BY <1>0, <2>0, ClientAssumption DEF Unborn
  <2>b. n + 1 \in Conn /\ tcp'[n'] = "connecting"
    BY <1>0, <2>0, ClientAssumption, <2>a DEF TypeOK, Conn
  <2>1. (PassedOnlyIfAnswered /\ DroppedByAnswer
         /\ RequestFirst /\ CrashExcused)'
    BY <1>0, <2>0 DEF PassedOnlyIfAnswered, DroppedByAnswer, RequestFirst,
       CrashExcused
  <2>2. TypeOK'
    BY <1>0, <2>0, ClientAssumption, <2>a, <2>b DEF TypeOK, Conn, Socket, Timer, File
  <2>3. (OneConnection /\ RetryInHand /\ Untouched /\ Unborn /\ Alive /\ GivenUp)'
    BY <1>0, <2>0, ClientAssumption, <2>a, <2>b DEF TypeOK, OneConnection, RetryInHand,
       Untouched, Unborn, Alive, GivenUp, Conn
  <2>4. (AnswerSeen /\ RequestSent)'
    BY <1>0, <2>0, ClientAssumption, <2>a, <2>b DEF TypeOK, AnswerSeen, RequestSent,
       OneConnection, Untouched, Alive, Unborn, Conn
  <2>5. (ClosedOnce /\ Freed /\ Logged)'
    BY <1>0, <2>0, ClientAssumption, <2>a, <2>b DEF TypeOK, ClosedOnce, Freed, Logged,
       Unborn, Untouched, OneConnection, RetryInHand, GivenUp, Alive, Opening, Conn
  <2> QED BY <2>1, <2>2, <2>3, <2>4, <2>5 DEF IInv
<1>2. CASE NotConnecting(tcp, timer, file) /\ cli' = "freed"
  <2>0. /\ cli = "new"
        /\ cli' = "freed"
        /\ n < MaxConn /\ n' = n + 1
        /\ tcp' = [tcp EXCEPT ![n + 1] = "closing"]
        /\ timer' = [timer EXCEPT ![n + 1] = "closed"]
        /\ file' = CloseFile(file)
        /\ UNCHANGED <<state, raw, reconn, answer, passed, dropped, wrote, excuse, prog>>
    BY <1>2 DEF Start, Connecting, NotConnecting, NotFound, streams
  <2>1. (PassedOnlyIfAnswered /\ DroppedByAnswer
         /\ RequestFirst /\ CrashExcused)'
    BY <1>0, <2>0 DEF PassedOnlyIfAnswered, DroppedByAnswer, RequestFirst,
       CrashExcused
  <2>2. TypeOK'
    BY <1>0, <2>0, ClientAssumption DEF TypeOK, Conn, Socket, Timer, File, CloseFile
  <2>3. (OneConnection /\ RetryInHand /\ Untouched /\ Unborn /\ Alive /\ GivenUp)'
    BY <1>0, <2>0, ClientAssumption DEF TypeOK, OneConnection, RetryInHand, Untouched,
       Unborn, Alive, GivenUp, CloseFile, Conn
  <2>4. (AnswerSeen /\ RequestSent)'
    BY <1>0, <2>0, ClientAssumption DEF TypeOK, AnswerSeen, RequestSent, OneConnection,
       Untouched, Alive, Unborn, Conn
  <2>5. (ClosedOnce /\ Freed /\ Logged)'
    BY <1>0, <2>0, ClientAssumption DEF TypeOK, ClosedOnce, Freed, Logged, Unborn,
       Untouched, OneConnection, RetryInHand, GivenUp, Alive, Opening, CloseFile, Conn
  <2> QED BY <2>1, <2>2, <2>3, <2>4, <2>5 DEF IInv
<1>3. CASE NotFound(tcp, timer, file) /\ cli' = "freed"
  <2>0. /\ cli = "new"
        /\ cli' = "freed"
        /\ UNCHANGED <<n, tcp, timer, state, raw, file, reconn, answer, passed,
                       dropped, wrote, excuse, prog>>
    BY <1>3 DEF Start, Connecting, NotConnecting, NotFound, streams
  <2>1. (PassedOnlyIfAnswered /\ DroppedByAnswer /\ RequestFirst /\ CrashExcused
         /\ ClosedOnce /\ Untouched /\ GivenUp /\ AnswerSeen /\ RequestSent)'
    BY <1>0, <2>0 DEF PassedOnlyIfAnswered, DroppedByAnswer, RequestFirst,
       CrashExcused, ClosedOnce, Untouched, GivenUp, AnswerSeen, RequestSent, Opening
  <2>2. TypeOK'
    BY <1>0, <2>0, ClientAssumption DEF TypeOK
  <2>3. (OneConnection /\ RetryInHand /\ Unborn /\ Alive)'
    BY <1>0, <2>0, ClientAssumption DEF TypeOK, OneConnection, RetryInHand, Unborn,
       Alive, Untouched, GivenUp, Conn
  <2>4. (Freed /\ Logged)'
    BY <1>0, <2>0, ClientAssumption DEF TypeOK, Freed, Logged, Unborn, Untouched,
       OneConnection, RetryInHand, GivenUp, Alive, Opening, Conn
  <2> QED BY <2>1, <2>2, <2>3, <2>4 DEF IInv
<1> QED BY <1>1, <1>2, <1>3 DEF Start

\* do_del_source.
LEMMA DeleteInductive ==
  ASSUME IInv, Delete
  PROVE  IInv'
<1>0. /\ TypeOK /\ OneConnection /\ PassedOnlyIfAnswered /\ DroppedByAnswer
      /\ RequestFirst /\ RetryInHand /\ CrashExcused
         /\ ClosedOnce /\ Untouched
      /\ Unborn /\ Alive /\ GivenUp /\ AnswerSeen /\ RequestSent /\ Freed /\ Logged
  BY DEF IInv
<1>d. /\ cli = "live"
      /\ cli' = "freed"
      /\ prog' = IF tcp[n] = "gone" THEN "crashed" ELSE prog
      /\ tcp' = CloseTcp(tcp)
      /\ timer' = CloseTimer(timer)
      /\ file' = CloseFile(file)
      /\ excuse' = excuse \union Pending
      /\ UNCHANGED <<n, state, raw, reconn, answer, passed, dropped, wrote>>
  BY DEF Delete, streams
<1>a. n \in Conn
  BY <1>0, <1>d, ClientAssumption DEF Alive, TypeOK, Conn
<1>b. tcp' = [tcp EXCEPT ![n] = Shut(tcp[n])] /\ timer' = [timer EXCEPT ![n] = "closed"]
  BY <1>0, <1>d, ClientAssumption, <1>a DEF Alive, CloseTcp, CloseTimer
<1>c. /\ file' \in [Conn -> File]
      /\ \A d \in Conn : d # raw => file'[d] = file[d]
      /\ raw # 0 => file'[raw] = IF file[raw] = "open" THEN "closed" ELSE "twice"
  BY <1>0, <1>d, CloseFileFacts DEF TypeOK, Logged
<1>1. (PassedOnlyIfAnswered /\ DroppedByAnswer /\ RequestFirst)'
  BY <1>0, <1>d DEF PassedOnlyIfAnswered, DroppedByAnswer, RequestFirst
<1>2. TypeOK'
  BY <1>0, <1>d, ClientAssumption, <1>a, <1>b DEF TypeOK, Conn, Socket, Shut, Timer,
     File, CloseFile, Excuse, Pending
<1>3. OneConnection'
  BY <1>0, <1>a, <1>b DEF TypeOK, OneConnection, Shut
<1>9. (RetryInHand /\ Unborn /\ Alive)'
  BY <1>d DEF RetryInHand, Unborn, Alive
<1>10. GivenUp'
  <2>1. "gave_up" \in excuse' => "gave_up" \in excuse
    <3>1. Pending \subseteq {"reconn", "open"}
      BY DEF Pending
    <3> QED BY <1>d, <3>1
  <2>2. n > 0 /\ tcp'[n] = Shut(tcp[n])
    BY <1>0, <1>a, <1>b, <1>d DEF TypeOK, Alive
  <2> QED BY <1>0, <1>d, <2>1, <2>2 DEF GivenUp, Shut
<1>6. Untouched'
  <2>1. \A d \in Conn : d > n => tcp'[d] = tcp[d] /\ timer'[d] = timer[d]
    BY <1>0, <1>a, <1>b DEF TypeOK, Conn
  <2>2. \A d \in Conn : d > n => file'[d] = file[d]
    BY <1>0, <1>a, <1>c, ClientAssumption DEF TypeOK, Conn, Untouched, Logged
  <2> QED BY <1>0, <1>d, <2>1, <2>2 DEF Untouched
<1>4. (AnswerSeen /\ RequestSent)'
  BY <1>0, <1>d, ClientAssumption, <1>a, <1>b DEF TypeOK, AnswerSeen, RequestSent,
     OneConnection, Untouched, Alive, Unborn, Conn, Shut
<1>5. CrashExcused'
  BY <1>0, <1>d DEF CrashExcused, RetryInHand
<1>7. (ClosedOnce /\ Logged)'
  <2>1. raw # 0 => raw \in Conn
    BY <1>0 DEF TypeOK, Conn
  <2>2. excuse \subseteq excuse' /\ (Opening # {} => "open" \in excuse')
    BY <1>d DEF Pending
  <2>3. ASSUME NEW d \in Conn, file'[d] = "twice"
        PROVE  file[d] = "twice" \/ (raw # 0 /\ file[raw] # "open")
    <3>1. d # 0
      BY ClientAssumption DEF Conn
    <3> QED BY <1>c, <2>3, <3>1
  <2>4. ClosedOnce'
    BY <1>0, <1>d, <2>2, <2>3 DEF ClosedOnce, Logged
  <2>5. Logged'
    BY <1>0, <1>c, <1>d DEF Logged
  <2> QED BY <2>4, <2>5
<1>8. Freed'
  BY <1>0, <1>c, <1>d DEF TypeOK, Freed, Pending, Opening, Logged, Conn
<1> QED BY <1>1, <1>2, <1>3, <1>4, <1>5, <1>6, <1>7, <1>8, <1>9, <1>10 DEF IInv

\* on_connect.
LEMMA ConnectedInductive ==
  ASSUME NEW c \in Conn, IInv, Connected(c)
  PROVE  IInv'
<1>0. /\ TypeOK /\ OneConnection /\ PassedOnlyIfAnswered /\ DroppedByAnswer
      /\ RequestFirst /\ RetryInHand /\ CrashExcused
         /\ ClosedOnce /\ Untouched
      /\ Unborn /\ Alive /\ GivenUp /\ AnswerSeen /\ RequestSent /\ Freed /\ Logged
  BY DEF IInv
<1>1. CASE n < MaxConn /\ Fail(c) /\ UNCHANGED wrote
  <2>0. /\ tcp[c] = "connecting"
        /\ n < MaxConn
        /\ state' = 0
        /\ tcp' = [tcp EXCEPT ![c] = "failed"]
        /\ reconn' = reconn + 1
        /\ UNCHANGED <<cli, n, timer, raw, file, answer, passed, dropped, wrote,
                       excuse, prog>>
    BY <1>1 DEF Connected, Fail, memory
  <2>a. c = n /\ cli = "live" /\ reconn = 0
    BY <1>0, <2>0, ClientAssumption DEF OneConnection, RetryInHand, GivenUp
  <2>1. (PassedOnlyIfAnswered /\ DroppedByAnswer /\ RequestFirst
         /\ CrashExcused /\ ClosedOnce /\ Alive /\ Logged)'
    BY <1>0, <2>0 DEF PassedOnlyIfAnswered, DroppedByAnswer, RequestFirst,
       CrashExcused, ClosedOnce, Alive, Logged, Opening
  <2>2. TypeOK'
    BY <1>0, <2>0, ClientAssumption, <2>a DEF TypeOK, Conn, Socket
  <2>3. (OneConnection /\ RetryInHand /\ Untouched /\ Unborn /\ GivenUp)'
    BY <1>0, <2>0, ClientAssumption, <2>a DEF TypeOK, OneConnection, RetryInHand,
       Untouched, Unborn, GivenUp, Alive, Conn
  <2>4. (AnswerSeen /\ RequestSent)'
    BY <1>0, <2>0, ClientAssumption, <2>a DEF TypeOK, AnswerSeen, RequestSent,
       OneConnection, Untouched, Alive, Unborn, Conn
  <2>5. Freed'
    BY <1>0, <2>0, ClientAssumption, <2>a DEF TypeOK, Freed, Unborn, Untouched,
       OneConnection, RetryInHand, GivenUp, Alive, Opening, Conn
  <2> QED BY <2>1, <2>2, <2>3, <2>4, <2>5 DEF IInv
<1>2. CASE /\ tcp' = [tcp EXCEPT ![c] = "up"]
           /\ wrote' = [wrote EXCEPT ![c] = IF @ = "nothing" THEN "request" ELSE @]
           /\ UNCHANGED reconn
  <2>0. /\ tcp[c] = "connecting"
        /\ state' = 0
        /\ tcp' = [tcp EXCEPT ![c] = "up"]
        /\ wrote' = [wrote EXCEPT ![c] = IF wrote[c] = "nothing" THEN "request" ELSE wrote[c]]
        /\ UNCHANGED <<cli, n, timer, raw, file, reconn, answer, passed, dropped,
                       excuse, prog>>
    BY <1>2 DEF Connected, Fail, memory
  <2>a. c = n /\ cli = "live" /\ reconn = 0
    BY <1>0, <2>0, ClientAssumption DEF OneConnection, RetryInHand, GivenUp
  <2>1. (PassedOnlyIfAnswered /\ DroppedByAnswer /\ CrashExcused /\ ClosedOnce
         /\ Unborn /\ Alive /\ Freed /\ Logged)'
    BY <1>0, <2>0 DEF PassedOnlyIfAnswered, DroppedByAnswer, CrashExcused,
       ClosedOnce, Unborn, Alive, Freed, Logged, Opening
  <2>2. TypeOK'
    BY <1>0, <2>0, ClientAssumption, <2>a DEF TypeOK, Conn, Socket
  <2>3. (OneConnection /\ RetryInHand /\ Untouched /\ GivenUp)'
    BY <1>0, <2>0, ClientAssumption, <2>a DEF TypeOK, OneConnection, RetryInHand,
       Untouched, GivenUp, Alive, Unborn, Conn
  <2>4. (AnswerSeen /\ RequestFirst /\ RequestSent)'
    BY <1>0, <2>0, ClientAssumption, <2>a DEF TypeOK, AnswerSeen, RequestFirst,
       RequestSent, OneConnection, Untouched, Alive, Unborn, Conn
  <2> QED BY <2>1, <2>2, <2>3, <2>4 DEF IInv
<1>3. CASE tcp' = [tcp EXCEPT ![c] = "mute"] /\ UNCHANGED <<reconn, wrote>>
  <2>0. /\ tcp[c] = "connecting"
        /\ state' = 0
        /\ tcp' = [tcp EXCEPT ![c] = "mute"]
        /\ UNCHANGED <<cli, n, timer, raw, file, reconn, answer, passed, dropped,
                       wrote, excuse, prog>>
    BY <1>3 DEF Connected, Fail, memory
  <2>a. c = n /\ cli = "live" /\ reconn = 0
    BY <1>0, <2>0, ClientAssumption DEF OneConnection, RetryInHand, GivenUp
  <2>1. (PassedOnlyIfAnswered /\ DroppedByAnswer /\ RequestFirst /\ CrashExcused
         /\ ClosedOnce /\ Unborn /\ Alive /\ Freed /\ Logged)'
    BY <1>0, <2>0 DEF PassedOnlyIfAnswered, DroppedByAnswer, RequestFirst,
       CrashExcused, ClosedOnce, Unborn, Alive, Freed, Logged, Opening
  <2>2. TypeOK'
    BY <1>0, <2>0, ClientAssumption, <2>a DEF TypeOK, Conn, Socket
  <2>3. (OneConnection /\ RetryInHand /\ Untouched /\ GivenUp)'
    BY <1>0, <2>0, ClientAssumption, <2>a DEF TypeOK, OneConnection, RetryInHand,
       Untouched, GivenUp, Alive, Unborn, Conn
  <2>4. (AnswerSeen /\ RequestSent)'
    BY <1>0, <2>0, ClientAssumption, <2>a DEF TypeOK, AnswerSeen, RequestSent,
       OneConnection, Untouched, Alive, Unborn, Conn
  <2> QED BY <2>1, <2>2, <2>3, <2>4 DEF IInv
<1> QED BY <1>1, <1>2, <1>3 DEF Connected

\* on_connect of a connection that was cancelled.
LEMMA CancelledInductive ==
  ASSUME NEW c \in Conn, IInv, Cancelled(c)
  PROVE  IInv'
<1>0. /\ TypeOK /\ OneConnection /\ PassedOnlyIfAnswered /\ DroppedByAnswer
      /\ RequestFirst /\ RetryInHand /\ CrashExcused
         /\ ClosedOnce /\ Untouched
      /\ Unborn /\ Alive /\ GivenUp /\ AnswerSeen /\ RequestSent /\ Freed /\ Logged
  BY DEF IInv
<1>d. /\ tcp[c] = "cancelled"
      /\ tcp' = [tcp EXCEPT ![c] = "closing"]
      /\ UNCHANGED <<cli, n, timer, state, raw, file, reconn, answer, passed,
                     dropped, wrote, excuse, prog>>
  BY DEF Cancelled, memory, streams
<1>1. (PassedOnlyIfAnswered /\ DroppedByAnswer /\ RequestFirst /\ CrashExcused
       /\ ClosedOnce /\ Unborn /\ Alive /\ Freed /\ Logged)'
  BY <1>0, <1>d DEF PassedOnlyIfAnswered, DroppedByAnswer, RequestFirst,
     CrashExcused, ClosedOnce, Unborn, Alive, Freed, Logged, Opening
<1>2. TypeOK'
  BY <1>0, <1>d, ClientAssumption DEF TypeOK, Conn, Socket
<1>3. (OneConnection /\ RetryInHand /\ Untouched /\ GivenUp)'
  BY <1>0, <1>d, ClientAssumption DEF TypeOK, OneConnection, RetryInHand, Untouched,
     GivenUp, Alive, Unborn, Conn
<1>4. (AnswerSeen /\ RequestSent)'
  BY <1>0, <1>d, ClientAssumption DEF TypeOK, AnswerSeen, RequestSent, OneConnection,
     Untouched, Alive, Unborn, Conn
<1> QED BY <1>1, <1>2, <1>3, <1>4 DEF IInv

\* on_close_cb.
LEMMA ClosedInductive ==
  ASSUME NEW c \in Conn, IInv, Closed(c)
  PROVE  IInv'
<1>0. /\ TypeOK /\ OneConnection /\ PassedOnlyIfAnswered /\ DroppedByAnswer
      /\ RequestFirst /\ RetryInHand /\ CrashExcused
         /\ ClosedOnce /\ Untouched
      /\ Unborn /\ Alive /\ GivenUp /\ AnswerSeen /\ RequestSent /\ Freed /\ Logged
  BY DEF IInv
<1>d. /\ tcp[c] = "closing"
      /\ tcp' = [tcp EXCEPT ![c] = "gone"]
      /\ UNCHANGED <<cli, n, timer, state, raw, file, reconn, answer, passed,
                     dropped, wrote, excuse, prog>>
  BY DEF Closed, memory, streams
<1>1. (PassedOnlyIfAnswered /\ DroppedByAnswer /\ RequestFirst /\ CrashExcused
       /\ ClosedOnce /\ Unborn /\ Alive /\ Freed /\ Logged)'
  BY <1>0, <1>d DEF PassedOnlyIfAnswered, DroppedByAnswer, RequestFirst,
     CrashExcused, ClosedOnce, Unborn, Alive, Freed, Logged, Opening
<1>2. TypeOK'
  BY <1>0, <1>d, ClientAssumption DEF TypeOK, Conn, Socket
<1>3. (OneConnection /\ RetryInHand /\ Untouched /\ GivenUp)'
  BY <1>0, <1>d, ClientAssumption DEF TypeOK, OneConnection, RetryInHand, Untouched,
     GivenUp, Alive, Unborn, Conn
<1>4. (AnswerSeen /\ RequestSent)'
  BY <1>0, <1>d, ClientAssumption DEF TypeOK, AnswerSeen, RequestSent, OneConnection,
     Untouched, Alive, Unborn, Conn
<1> QED BY <1>1, <1>2, <1>3, <1>4 DEF IInv

\* on_read_cb at the end of a connection.
LEMMA ReadErrorInductive ==
  ASSUME NEW c \in Conn, IInv, ReadError(c)
  PROVE  IInv'
<1>0. /\ TypeOK /\ OneConnection /\ PassedOnlyIfAnswered /\ DroppedByAnswer
      /\ RequestFirst /\ RetryInHand /\ CrashExcused
         /\ ClosedOnce /\ Untouched
      /\ Unborn /\ Alive /\ GivenUp /\ AnswerSeen /\ RequestSent /\ Freed /\ Logged
  BY DEF IInv
<1>d. /\ tcp[c] = "up"
      /\ n < MaxConn
      /\ tcp' = [tcp EXCEPT ![c] = "failed"]
      /\ reconn' = reconn + 1
      /\ UNCHANGED <<cli, n, timer, state, raw, file, answer, passed, dropped,
                     wrote, excuse, prog>>
  BY DEF ReadError, Fail, memory, streams
<1>a. c = n /\ cli = "live" /\ reconn = 0
  BY <1>0, <1>d, ClientAssumption DEF OneConnection, RetryInHand, GivenUp
<1>1. (PassedOnlyIfAnswered /\ DroppedByAnswer /\ RequestFirst
       /\ CrashExcused /\ ClosedOnce /\ Alive /\ Logged)'
  BY <1>0, <1>d DEF PassedOnlyIfAnswered, DroppedByAnswer, RequestFirst,
     CrashExcused, ClosedOnce, Alive, Logged, Opening
<1>2. TypeOK'
  BY <1>0, <1>d, ClientAssumption, <1>a DEF TypeOK, Conn, Socket
<1>3. (OneConnection /\ RetryInHand /\ Untouched /\ Unborn /\ GivenUp)'
  BY <1>0, <1>d, ClientAssumption, <1>a DEF TypeOK, OneConnection, RetryInHand,
     Untouched, Unborn, GivenUp, Alive, Conn
<1>4. (AnswerSeen /\ RequestSent)'
  BY <1>0, <1>d, ClientAssumption, <1>a DEF TypeOK, AnswerSeen, RequestSent,
     OneConnection, Untouched, Alive, Unborn, Conn
<1>5. Freed'
  BY <1>0, <1>d, ClientAssumption, <1>a DEF TypeOK, Freed, Unborn, Untouched,
     OneConnection, RetryInHand, GivenUp, Alive, Opening, Conn
<1> QED BY <1>1, <1>2, <1>3, <1>4, <1>5 DEF IInv

\* on_read_cb with data.
LEMMA ReadInductive ==
  ASSUME NEW c \in Conn, IInv, Read(c)
  PROVE  IInv'
<1>0. /\ TypeOK /\ OneConnection /\ PassedOnlyIfAnswered /\ DroppedByAnswer
      /\ RequestFirst /\ RetryInHand /\ CrashExcused
      /\ ClosedOnce /\ Untouched
      /\ Unborn /\ Alive /\ GivenUp /\ AnswerSeen /\ RequestSent /\ Freed /\ Logged
  BY DEF IInv
<1>d. /\ tcp[c] = "up"
      /\ UNCHANGED <<cli, n, tcp, timer, raw, file, reconn, wrote, excuse, prog>>
  BY DEF Read, memory
<1>a. c = n /\ cli = "live" /\ (state = 1 <=> answer[c] = "ok")
  BY <1>0, <1>d, ClientAssumption DEF OneConnection, AnswerSeen
<1>1. (OneConnection /\ RequestFirst /\ RetryInHand /\ CrashExcused /\ ClosedOnce
       /\ Unborn /\ Alive /\ GivenUp /\ RequestSent /\ Freed /\ Logged)'
  BY <1>0, <1>d DEF OneConnection, RequestFirst, RetryInHand, CrashExcused,
     ClosedOnce, Unborn, Alive, GivenUp, RequestSent, Freed, Logged, Opening
\* The answer moves on, and the state is set by one that is recognised.
<1>2. PICK a \in Answer :
        /\ answer' = [answer EXCEPT ![c] = a] /\ a # "none"
        /\ answer[c] \in {"none", "part"} \/ a = answer[c]
        /\ state' \in {0, 1} /\ (state' = 1 <=> a = "ok")
  <2>1. CASE answer[c] = "none"
    BY <1>0, <1>a, <2>1 DEF Read, TypeOK, Answer
  <2>2. CASE answer[c] = "part"
    BY <1>0, <1>a, <2>2 DEF Read, TypeOK, Answer
  <2>3. CASE answer[c] \in {"ok", "split"}
    <3>1. answer' = answer /\ state' = state
      BY <2>3 DEF Read
    <3>2. answer = [answer EXCEPT ![c] = answer[c]]
      BY <1>0 DEF TypeOK
    <3> QED BY <1>0, <1>a, <2>3, <3>1, <3>2 DEF TypeOK, Answer
  <2> QED BY <1>0, <2>1, <2>2, <2>3 DEF Read, TypeOK, Answer
<1>3. /\ answer' \in [Conn -> Answer] /\ answer'[c] = a
      /\ \A d \in Conn : d # c => answer'[d] = answer[d]
  BY <1>0, <1>2 DEF TypeOK
<1>4. (AnswerSeen /\ Untouched)'
  BY <1>0, <1>a, <1>d, <1>2, <1>3, ClientAssumption
  DEF AnswerSeen, Untouched, OneConnection, Conn
\* What is passed on was answered before, what is thrown away had no answer that counts.
<1>5. /\ passed' = passed \/ (passed' = passed \union {c} /\ answer[c] = "ok")
      /\ dropped' \in {dropped, dropped \union {<<c, "with">>}}
           \/ (dropped' = dropped \union {<<c, "after">>} /\ answer[c] = "split")
  <2>1. CASE answer[c] = "none"
    BY <1>a, <2>1 DEF Read
  <2>2. CASE answer[c] = "part"
    BY <1>a, <2>2 DEF Read
  <2>3. CASE answer[c] \in {"ok", "split"}
    BY <1>a, <2>3 DEF Read
  <2> QED BY <1>0, <2>1, <2>2, <2>3 DEF Read, TypeOK, Answer
<1>6. TypeOK'
  BY <1>0, <1>d, <1>2, <1>3, <1>5 DEF TypeOK
<1>7. PassedOnlyIfAnswered'
  BY <1>0, <1>2, <1>3, <1>5 DEF PassedOnlyIfAnswered, TypeOK
<1>8. DroppedByAnswer'
  <2> SUFFICES ASSUME NEW d \in dropped'
               PROVE  d[2] = "with" \/ answer'[d[1]] = "split"
    BY DEF DroppedByAnswer
  <2>1. CASE d \in dropped
    <3>1. d[1] \in Conn /\ (d[2] = "with" \/ answer[d[1]] = "split")
      BY <1>0, <2>1 DEF DroppedByAnswer, TypeOK
    <3> QED BY <1>2, <1>3, <3>1
  <2>2. CASE d = <<c, "with">>
    BY <2>2
  <2>3. CASE d = <<c, "after">> /\ answer[c] = "split"
    BY <1>2, <1>3, <2>3
  <2> QED BY <1>5, <2>1, <2>2, <2>3
<1> QED BY <1>1, <1>4, <1>6, <1>7, <1>8 DEF IInv

\* timer_send_gga_cb: the timer of a client that is gone is not running.
LEMMA SendGgaInductive ==
  ASSUME NEW c \in Conn, IInv, SendGga(c)
  PROVE  IInv'
<1>0. /\ TypeOK /\ OneConnection /\ PassedOnlyIfAnswered /\ DroppedByAnswer
      /\ RequestFirst /\ RetryInHand /\ CrashExcused
         /\ ClosedOnce /\ Untouched
      /\ Unborn /\ Alive /\ GivenUp /\ AnswerSeen /\ RequestSent /\ Freed /\ Logged
  BY DEF IInv
<1>d. /\ tcp[n] = "up" /\ n \in Conn
      /\ wrote' = [wrote EXCEPT ![n] = IF wrote[n] = "nothing" THEN "gga" ELSE wrote[n]]
      /\ UNCHANGED <<cli, n, tcp, timer, state, raw, file, reconn, answer, passed,
                     dropped, excuse, prog>>
  BY <1>0 DEF SendGga, OneConnection, memory, Alive, TypeOK, Conn
<1>1. (OneConnection /\ PassedOnlyIfAnswered /\ DroppedByAnswer /\ RetryInHand
       /\ CrashExcused /\ ClosedOnce
       /\ Untouched /\ Unborn /\ Alive /\ GivenUp /\ AnswerSeen /\ Freed /\ Logged)'
  BY <1>0, <1>d DEF OneConnection, PassedOnlyIfAnswered, DroppedByAnswer,
     RetryInHand, CrashExcused, ClosedOnce, Untouched, Unborn, Alive, GivenUp, AnswerSeen,
     Freed, Logged, Opening
<1>2. TypeOK'
  BY <1>0, <1>d, ClientAssumption DEF TypeOK
<1>3. (RequestFirst /\ RequestSent)'
  BY <1>0, <1>d, ClientAssumption DEF TypeOK, RequestFirst, RequestSent, OneConnection,
     Conn
<1> QED BY <1>1, <1>2, <1>3 DEF IInv

\* on_fs_open.
LEMMA FileOpenedInductive ==
  ASSUME NEW c \in Conn, IInv, FileOpened(c), prog = "runs"
  PROVE  IInv'
<1>0. /\ TypeOK /\ OneConnection /\ PassedOnlyIfAnswered /\ DroppedByAnswer
      /\ RequestFirst /\ RetryInHand /\ CrashExcused
         /\ ClosedOnce /\ Untouched
      /\ Unborn /\ Alive /\ GivenUp /\ AnswerSeen /\ RequestSent /\ Freed /\ Logged
  BY DEF IInv
<1>1. CASE cli # "live" /\ Crash
  <2>0. /\ file[c] = "opening"
        /\ cli # "live"
        /\ prog' = "crashed"
        /\ UNCHANGED <<cli, n, tcp, timer, state, raw, file, reconn, answer,
                       passed, dropped, wrote, excuse>>
    BY <1>1 DEF FileOpened, Crash, streams
  <2>1. (OneConnection /\ PassedOnlyIfAnswered /\ DroppedByAnswer /\ RequestFirst
         /\ RetryInHand /\ ClosedOnce /\ Untouched
         /\ Unborn /\ Alive /\ GivenUp /\ AnswerSeen /\ RequestSent /\ Freed /\ Logged)'
    BY <1>0, <2>0 DEF OneConnection, PassedOnlyIfAnswered, DroppedByAnswer,
       RequestFirst, RetryInHand, ClosedOnce, Untouched, Unborn, Alive, GivenUp,
       AnswerSeen, RequestSent, Freed, Logged, Opening
  <2>2. TypeOK'
    BY <1>0, <2>0, ClientAssumption DEF TypeOK
  <2>3. CrashExcused'
    BY <1>0, <2>0, ClientAssumption DEF TypeOK, CrashExcused, Freed, Opening, Conn
  <2> QED BY <2>1, <2>2, <2>3 DEF IInv
<1>2. CASE cli = "live"
  <2>0. /\ file[c] = "opening"
        /\ cli = "live"
        /\ file' = [file EXCEPT ![c] = "open"]
        /\ raw' = c
        /\ UNCHANGED <<cli, n, tcp, timer, state, reconn, answer, passed, dropped,
                       wrote, excuse, prog>>
    BY <1>2 DEF FileOpened, streams
  <2>1. (OneConnection /\ PassedOnlyIfAnswered /\ DroppedByAnswer /\ RequestFirst /\ RetryInHand
         /\ CrashExcused /\ Alive /\ GivenUp /\ AnswerSeen /\ RequestSent)'
    BY <1>0, <2>0 DEF OneConnection, PassedOnlyIfAnswered, DroppedByAnswer,
       RequestFirst, RetryInHand, CrashExcused, Alive, GivenUp, AnswerSeen, RequestSent
  <2>2. TypeOK'
    BY <1>0, <2>0, ClientAssumption DEF TypeOK, File, Conn
  <2>3. (Untouched /\ Unborn)'
    BY <1>0, <2>0, ClientAssumption DEF TypeOK, Untouched, Unborn, Alive, Conn
  <2>4. (ClosedOnce /\ Freed /\ Logged)'
    BY <1>0, <2>0, ClientAssumption DEF TypeOK, ClosedOnce, Freed, Logged, Unborn,
       Untouched, OneConnection, RetryInHand, GivenUp, Alive, Opening, Conn
  <2> QED BY <2>1, <2>2, <2>3, <2>4 DEF IInv
<1> QED BY <1>1, <1>2 DEF FileOpened

\* on_reconn_cb of a client that is there.
LEMMA ReconnectInductive ==
  ASSUME IInv, cli = "live", reconn > 0, prog = "runs", Reconnect
  PROVE  IInv'
<1> DEFINE g == CloseFile(file)
           now == IF Opening # {} THEN {"overtaken"} ELSE {}
<1>0. /\ TypeOK /\ OneConnection /\ PassedOnlyIfAnswered /\ DroppedByAnswer
      /\ RequestFirst /\ RetryInHand /\ CrashExcused
         /\ ClosedOnce /\ Untouched
      /\ Unborn /\ Alive /\ GivenUp /\ AnswerSeen /\ RequestSent /\ Freed /\ Logged
  BY DEF IInv
<1>1. /\ n \in Conn /\ n \in Nat /\ MaxConn \in Nat
      /\ tcp \in [Conn -> Socket] /\ timer \in [Conn -> Timer] /\ file \in [Conn -> File]
      /\ raw \in 0 .. MaxConn
  BY <1>0, ClientAssumption DEF TypeOK, Alive, Conn
<1>2. reconn = 1 /\ tcp[n] = "failed" /\ "gave_up" \notin excuse
  BY <1>0 DEF TypeOK, RetryInHand, GivenUp
<1>3. /\ CloseTcp(tcp) = [tcp EXCEPT ![n] = "closing"]
      /\ CloseTimer(timer) = [timer EXCEPT ![n] = "closed"]
  BY <1>1, <1>2 DEF CloseTcp, CloseTimer, Shut, Conn
<1>4. /\ g \in [Conn -> File]
      /\ \A d \in Conn : d # raw => g[d] = file[d]
      /\ raw # 0 => g[raw] = IF file[raw] = "open" THEN "closed" ELSE "twice"
  BY <1>0, <1>1, CloseFileFacts DEF Logged
<1>5. /\ CloseFile(g) \in [Conn -> File]
      /\ \A d \in Conn : d # raw => CloseFile(g)[d] = g[d]
      /\ raw # 0 => CloseFile(g)[raw] = "twice" \/ CloseFile(g)[raw] = "closed"
  BY <1>0, <1>1, <1>4, CloseFileFacts DEF Logged
<1>6. /\ reconn' = 0
      /\ UNCHANGED <<cli, state, raw, answer, passed, dropped, wrote, prog>>
  BY <1>2 DEF Reconnect, streams, Connecting, NotConnecting, NotFound
<1>7. (PassedOnlyIfAnswered /\ DroppedByAnswer /\ RequestFirst)'
  BY <1>0, <1>6 DEF PassedOnlyIfAnswered, DroppedByAnswer, RequestFirst
<1>8. \A d \in Conn : /\ timer[d] = "running" => d = n
                      /\ tcp[d] \in {"connecting", "up", "mute", "failed"} => d = n
  BY <1>0 DEF OneConnection
<1>9. CASE Connecting(CloseTcp(tcp), CloseTimer(timer), g) /\ excuse' = excuse \union now
  <2>1. /\ n < MaxConn /\ n' = n + 1 /\ n + 1 \in Conn
        /\ tcp' = [CloseTcp(tcp) EXCEPT ![n + 1] = "connecting"]
        /\ timer' = [CloseTimer(timer) EXCEPT ![n + 1] = "running"]
        /\ file' = [g EXCEPT ![n + 1] = "opening"]
    BY <1>1, <1>9 DEF Connecting, Conn
  <2>2. /\ tcp' \in [Conn -> Socket] /\ timer' \in [Conn -> Timer] /\ file' \in [Conn -> File]
        /\ tcp'[n + 1] = "connecting" /\ timer'[n + 1] = "running" /\ file'[n + 1] = "opening"
        /\ tcp'[n] = "closing" /\ timer'[n] = "closed"
        /\ \A d \in Conn : d # n + 1 => file'[d] = g[d]
        /\ \A d \in Conn \ {n, n + 1} : tcp'[d] = tcp[d] /\ timer'[d] = timer[d]
    BY <1>1, <1>3, <1>4, <2>1 DEF Socket, Timer, File
  <2>3. excuse' = excuse \union now
    BY <1>9
  <2>4. TypeOK'
    BY <1>0, <1>1, <1>6, <2>1, <2>2, <2>3 DEF TypeOK, Excuse
  <2>5. (OneConnection /\ RetryInHand /\ Alive /\ Unborn)'
    BY <1>0, <1>1, <1>6, <1>8, <2>1, <2>2
    DEF OneConnection, RetryInHand, Alive, Unborn
  <2>6. Untouched'
    BY <1>0, <1>1, <1>4, <1>6, <2>1, <2>2 DEF Untouched, Conn, Logged
  <2>7. (CrashExcused /\ GivenUp /\ Freed)'
    BY <1>0, <1>2, <1>6, <2>3 DEF CrashExcused, GivenUp, Freed
  <2>8. (AnswerSeen /\ RequestSent)'
    BY <1>0, <1>1, <1>6, <1>8, <2>1, <2>2 DEF AnswerSeen, RequestSent, Untouched
  <2>9. ClosedOnce'
    <3>1. ASSUME NEW d \in Conn, file'[d] = "twice"
          PROVE  file[d] = "twice" \/ (raw # 0 /\ file[raw] # "open")
      <4>1. d # n + 1
        BY <2>2, <3>1
      <4>2. g[d] = "twice"
        BY <2>2, <3>1, <4>1
      <4>3. d # 0
        BY ClientAssumption DEF Conn
      <4> QED BY <1>4, <4>2, <4>3
    <3>2. Opening # {} => "overtaken" \in excuse'
      BY <2>3
    <3> QED BY <1>0, <2>3, <3>1, <3>2 DEF ClosedOnce, Logged
  <2>10. Logged'
    <3>1. raw # 0 => raw \in Conn /\ file'[raw] \in {"closed", "twice"}
      BY <1>0, <1>1, <1>4, <2>2 DEF Untouched, Logged, Conn
    <3>2. Opening' # {}
      BY <2>1, <2>2 DEF Opening
    <3> QED BY <1>6, <3>1, <3>2 DEF Logged
  <2> QED BY <1>7, <2>4, <2>5, <2>6, <2>7, <2>8, <2>9, <2>10 DEF IInv
<1>10. CASE /\ NotConnecting(CloseTcp(tcp), CloseTimer(timer), g)
            /\ excuse' = excuse \union now \union {"gave_up"}
  <2>1. /\ n < MaxConn /\ n' = n + 1 /\ n + 1 \in Conn
        /\ tcp' = [CloseTcp(tcp) EXCEPT ![n + 1] = "closing"]
        /\ timer' = [CloseTimer(timer) EXCEPT ![n + 1] = "closed"]
        /\ file' = CloseFile(g)
    BY <1>1, <1>10 DEF NotConnecting, Conn
  <2>2. /\ tcp' \in [Conn -> Socket] /\ timer' \in [Conn -> Timer]
        /\ tcp'[n + 1] = "closing" /\ timer'[n + 1] = "closed"
        /\ tcp'[n] = "closing" /\ timer'[n] = "closed"
        /\ \A d \in Conn \ {n, n + 1} : tcp'[d] = tcp[d] /\ timer'[d] = timer[d]
    BY <1>1, <1>3, <2>1 DEF Socket, Timer
  <2>3. excuse' = excuse \union now \union {"gave_up"}
    BY <1>10
  <2>4. TypeOK'
    BY <1>0, <1>1, <1>5, <1>6, <2>1, <2>2, <2>3 DEF TypeOK, Excuse
  <2>5. (OneConnection /\ RetryInHand /\ Alive /\ Unborn)'
    BY <1>0, <1>1, <1>6, <1>8, <2>1, <2>2, <2>3
    DEF OneConnection, RetryInHand, Alive, Unborn
  <2>6. Untouched'
    BY <1>0, <1>1, <1>4, <1>5, <1>6, <2>1, <2>2 DEF Untouched, Conn, Logged
  <2>7. (CrashExcused /\ GivenUp /\ Freed)'
    BY <1>0, <1>1, <1>2, <1>6, <2>1, <2>2, <2>3 DEF CrashExcused, GivenUp, Freed
  <2>8. (AnswerSeen /\ RequestSent)'
    BY <1>0, <1>1, <1>6, <1>8, <2>1, <2>2 DEF AnswerSeen, RequestSent
  <2>9. ClosedOnce'
    BY <2>3 DEF ClosedOnce
  <2>10. Logged'
    BY <1>0, <1>1, <1>5, <1>6, <2>1, <2>3 DEF Logged
  <2> QED BY <1>7, <2>4, <2>5, <2>6, <2>7, <2>8, <2>9, <2>10 DEF IInv
<1>11. CASE /\ NotFound(CloseTcp(tcp), CloseTimer(timer), g)
            /\ excuse' = excuse \union now \union {"gave_up"}
  <2>1. n' = n /\ tcp' = CloseTcp(tcp) /\ timer' = CloseTimer(timer) /\ file' = g
    BY <1>11 DEF NotFound
  <2>2. /\ tcp' \in [Conn -> Socket] /\ timer' \in [Conn -> Timer]
        /\ tcp'[n] = "closing" /\ timer'[n] = "closed"
        /\ \A d \in Conn \ {n} : tcp'[d] = tcp[d] /\ timer'[d] = timer[d]
    BY <1>1, <1>3, <2>1 DEF Socket, Timer
  <2>3. excuse' = excuse \union now \union {"gave_up"}
    BY <1>11
  <2>4. TypeOK'
    BY <1>0, <1>1, <1>4, <1>6, <2>1, <2>2, <2>3 DEF TypeOK, Excuse
  <2>5. (OneConnection /\ RetryInHand /\ Alive /\ Unborn)'
    BY <1>0, <1>1, <1>6, <1>8, <2>1, <2>2, <2>3
    DEF OneConnection, RetryInHand, Alive, Unborn
  <2>6. Untouched'
    BY <1>0, <1>1, <1>4, <1>6, <2>1, <2>2 DEF Untouched, Conn, Logged
  <2>7. (CrashExcused /\ GivenUp /\ Freed)'
    BY <1>0, <1>1, <1>2, <1>6, <2>1, <2>2, <2>3 DEF CrashExcused, GivenUp, Freed, Conn
  <2>8. (AnswerSeen /\ RequestSent)'
    BY <1>0, <1>1, <1>6, <1>8, <2>1, <2>2 DEF AnswerSeen, RequestSent
  <2>9. ClosedOnce'
    BY <2>3 DEF ClosedOnce
  <2>10. Logged'
    BY <1>0, <1>1, <1>4, <1>6, <2>1, <2>3 DEF Logged
  <2> QED BY <1>7, <2>4, <2>5, <2>6, <2>7, <2>8, <2>9, <2>10 DEF IInv
<1> QED BY <1>9, <1>10, <1>11 DEF Reconnect


\* Everything that the loop does.
LEMMA NextInductive == ASSUME IInv, [Next]_vars PROVE IInv'
<1>1. CASE UNCHANGED vars
  BY <1>1 DEF vars, IInv, TypeOK, OneConnection, PassedOnlyIfAnswered, DroppedByAnswer,
     RequestFirst, RetryInHand, CrashExcused, ClosedOnce, Untouched, Unborn, Alive,
     GivenUp, AnswerSeen, RequestSent, Freed, Logged, Opening
<1>2. CASE prog = "runs" /\ OnReconn
  <2>1. CASE cli = "live"
    BY <1>2, <2>1, ReconnectInductive DEF OnReconn
  <2>2. CASE cli # "live"
    <3>1. /\ prog' = "crashed" /\ reconn > 0
          /\ UNCHANGED <<cli, n, tcp, timer, state, raw, file, reconn, answer, passed,
                         dropped, wrote, excuse>>
      BY <1>2, <2>2 DEF OnReconn, Crash, streams
    <3>2. CrashExcused'
      BY <2>2, <3>1 DEF IInv, Freed, CrashExcused
    <3> QED
      BY <3>1, <3>2 DEF IInv, TypeOK, OneConnection, PassedOnlyIfAnswered,
         DroppedByAnswer, RequestFirst, RetryInHand, ClosedOnce, Untouched, Unborn,
         Alive, GivenUp, AnswerSeen, RequestSent, Freed, Logged, Opening
  <2> QED BY <2>1, <2>2
<1>3. ASSUME NEW c \in Conn, prog = "runs", Event(c) \/ ReadError(c) \/ Read(c) \/ SendGga(c)
      PROVE  IInv'
  BY <1>3, ConnectedInductive, CancelledInductive, ClosedInductive, FileOpenedInductive,
     ReadErrorInductive, ReadInductive, SendGgaInductive DEF Event
<1> QED BY <1>1, <1>2, <1>3, StartInductive, DeleteInductive DEF Next

LEMMA InitInductive == Init => IInv
  BY ClientAssumption
  DEF Init, IInv, TypeOK, Conn, Socket, Timer, File, Answer, Excuse, OneConnection,
      PassedOnlyIfAnswered, DroppedByAnswer, RequestFirst, RetryInHand, CrashExcused,
      ClosedOnce, Untouched, Unborn, Alive, GivenUp, AnswerSeen, RequestSent, Freed,
      Logged, Opening

\* IInv holds in every state of the client, and each property is a part of it.
THEOREM ClientInductive == Spec => []IInv
  BY InitInductive, NextInductive, PTL DEF Spec

\* The client's state keeps its type: at most one event is posted at a time.
THEOREM ClientTypeCorrect == Spec => []TypeOK
<1>1. IInv => TypeOK  BY DEF IInv
<1> QED BY <1>1, ClientInductive, PTL

\* A client has one connection and one timer, however often it reconnects.
THEOREM OneConnectionEach == Spec => []OneConnection
<1>1. IInv => OneConnection  BY DEF IInv
<1> QED BY <1>1, ClientInductive, PTL

\* Data passed on comes from a connection that was answered on its own.
THEOREM PassedAnswered == Spec => []PassedOnlyIfAnswered
<1>1. IInv => PassedOnlyIfAnswered  BY DEF IInv
<1> QED BY <1>1, ClientInductive, PTL

\* Data is thrown away with the end of the answer, in the same read, or after an answer
\* in two reads, and not otherwise (ntripclient.c:113-130).
THEOREM DroppedWithAnswer == Spec => []DroppedByAnswer
<1>1. IInv => DroppedByAnswer  BY DEF IInv
<1> QED BY <1>1, ClientInductive, PTL

\* A live client that is not connected has a retry coming or has given up.
THEOREM RetryComing == Spec => []RetryInHand
<1>1. IInv => RetryInHand  BY DEF IInv
<1> QED BY <1>1, ClientInductive, PTL

\* The three circumstances under which freed memory is used.
THEOREM CrashOnlyExcused == Spec => []CrashExcused
<1>1. IInv => CrashExcused  BY DEF IInv
<1> QED BY <1>1, ClientInductive, PTL

\* The circumstances under which a file is closed twice.
THEOREM ClosedOnceOnly == Spec => []ClosedOnce
<1>1. IInv => ClosedOnce  BY DEF IInv
<1> QED BY <1>1, ClientInductive, PTL

\* The request goes out first.
THEOREM RequestGoesFirst == Spec => []RequestFirst
<1>1. IInv => RequestFirst  BY DEF IInv
<1> QED BY <1>1, ClientInductive, PTL
=============================================================================
