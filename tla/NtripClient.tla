---------------------------- MODULE NtripClient ----------------------------
(***************************************************************************)
(* src/ntrip/ntripclient.c: the client of one mount point, run by the      *)
(* event loop of its caster.  Each attempt to connect makes a socket and a *)
(* timer, and opens a file for the raw data in the background; a failed    *)
(* connection posts an event that closes both and tries again.  The caster *)
(* deletes the client, and frees it, at any moment in between.             *)
(*                                                                         *)
(* The callbacks of a loop run one at a time, in any order; what is        *)
(* concurrent here is what has been asked of the loop and not yet          *)
(* answered: the connection, the open file, the posted event.              *)
(***************************************************************************)
EXTENDS Naturals

CONSTANT MaxConn     \* bound: attempts to connect; the last ones do not fail

ASSUME ClientAssumption == MaxConn \in Nat \ {0}

Conn == 1 .. MaxConn

VARIABLES
  cli,        \* the memory of cors_ntrip_client_t: "new", "live" or "freed"
  n,          \* cli->tcp and cli->timer_send_gga are those of this attempt
  tcp,        \* the socket of each attempt, see Socket
  timer,      \* the timer of each attempt
  state,      \* cli->state: the answer of the server has been seen
  raw,        \* cli->raw: the attempt whose file is logged to, 0 for none
  file,       \* the file of each attempt
  reconn,     \* events posted by reconn_ntripcli and not handled
  answer,     \* what the server of each attempt has answered
  passed,     \* history: attempts whose data went to cli->read_cb
  dropped,    \* history: attempts whose data was thrown away, "with" the answer
              \* that ended in the same read, or "after" it
  wrote,      \* history: the first thing sent over the socket of each attempt
  excuse,     \* history: what was under way when the client was closed
  prog        \* "crashed" once freed memory has been used

vars == <<cli, n, tcp, timer, state, raw, file, reconn, answer, passed,
          dropped, wrote, excuse, prog>>
memory == <<cli, n, raw, excuse, prog>>
streams == <<answer, passed, dropped, wrote>>

Socket == {"none", "connecting", "up", "mute", "failed", "cancelled", "closing", "gone"}
Timer  == {"none", "running", "closed"}
File   == {"none", "opening", "open", "closed", "twice"}
Answer == {"none", "part", "ok", "split", "refused"}
Excuse == {"reconn", "open", "overtaken", "gave_up"}

Init == /\ cli = "new" /\ n = 0
        /\ tcp = [c \in Conn |-> "none"]
        /\ timer = [c \in Conn |-> "none"]
        /\ state = 0 /\ raw = 0 /\ reconn = 0
        /\ file = [c \in Conn |-> "none"]
        /\ answer = [c \in Conn |-> "none"]
        /\ passed = {} /\ dropped = {}
        /\ wrote = [c \in Conn |-> "nothing"]
        /\ excuse = {} /\ prog = "runs"

Opening == {c \in Conn : file[c] = "opening"}

-----------------------------------------------------------------------------
(* cors_ntripcli_close and cors_ntripcli_start on the handles and files.   *)

\* uv_close, unless it is closing: a connection under way is cancelled.
Shut(t) == CASE t = "connecting" -> "cancelled"
             [] t \in {"up", "mute", "failed"} -> "closing"
             [] OTHER -> t

\* cli->raw keeps its number when its file is closed.
CloseFile(f) ==
  IF raw = 0 THEN f
  ELSE [f EXCEPT ![raw] = IF f[raw] = "open" THEN "closed" ELSE "twice"]

CloseTcp(t) == IF n = 0 THEN t ELSE [t EXCEPT ![n] = Shut(t[n])]
CloseTimer(t) == IF n = 0 THEN t ELSE [t EXCEPT ![n] = "closed"]

\* The attempt gets its handles, whatever was there; its file is being opened.
Connecting(t, m, f) ==
  /\ n < MaxConn
  /\ n' = n + 1
  /\ tcp' = [t EXCEPT ![n + 1] = "connecting"]
  /\ timer' = [m EXCEPT ![n + 1] = "running"]
  /\ file' = [f EXCEPT ![n + 1] = "opening"]

\* uv_tcp_connect fails at once: the handles are closed, and so is cli->raw.
NotConnecting(t, m, f) ==
  /\ n < MaxConn
  /\ n' = n + 1
  /\ tcp' = [t EXCEPT ![n + 1] = "closing"]
  /\ timer' = [m EXCEPT ![n + 1] = "closed"]
  /\ file' = CloseFile(f)

\* getaddrinfo finds no address: nothing is made.
NotFound(t, m, f) ==
  /\ n' = n /\ tcp' = t /\ timer' = m /\ file' = f

-----------------------------------------------------------------------------
(* Adding and deleting the client: do_add_source and do_del_source.        *)

Start ==
  /\ cli = "new"
  /\ \/ Connecting(tcp, timer, file) /\ cli' = "live"
     \/ NotConnecting(tcp, timer, file) /\ cli' = "freed"
     \/ NotFound(tcp, timer, file) /\ cli' = "freed"
  /\ UNCHANGED <<state, raw, reconn, streams, excuse, prog>>

\* What close leaves behind that still has the client in its hands.
Pending == (IF reconn > 0 THEN {"reconn"} ELSE {})
             \union (IF Opening # {} THEN {"open"} ELSE {})

Delete ==
  /\ cli = "live"
  /\ cli' = "freed"
  /\ prog' = IF tcp[n] = "gone" THEN "crashed" ELSE prog
  /\ tcp' = CloseTcp(tcp) /\ timer' = CloseTimer(timer) /\ file' = CloseFile(file)
  /\ excuse' = excuse \union Pending
  /\ UNCHANGED <<n, state, raw, reconn, streams>>

\* Freed memory is used: the end of the program.
Crash == prog' = "crashed" /\ UNCHANGED <<cli, n, tcp, timer, state, raw, file,
                                        reconn, streams, excuse>>

-----------------------------------------------------------------------------
(* The events of the loop.                                                 *)

\* on_reconn_cb: close and start, the outcome of which nobody looks at.
Reconnect ==
  LET t == CloseTcp(tcp)
      m == CloseTimer(timer)
      f == CloseFile(file)
      now == IF Opening # {} THEN {"overtaken"} ELSE {}
  IN  /\ reconn' = reconn - 1
      /\ \/ Connecting(t, m, f) /\ excuse' = excuse \union now
         \/ NotConnecting(t, m, f) /\ excuse' = excuse \union now \union {"gave_up"}
         \/ NotFound(t, m, f) /\ excuse' = excuse \union now \union {"gave_up"}
      /\ UNCHANGED <<cli, state, raw, streams, prog>>

OnReconn == /\ reconn > 0
            /\ IF cli = "live" THEN Reconnect ELSE Crash

Fail(c) == /\ tcp' = [tcp EXCEPT ![c] = "failed"]
           /\ reconn' = reconn + 1

\* Mutant: the state of the last connection is kept.
ConnectedStale(c) ==
  /\ tcp[c] = "connecting"
  /\ \/ /\ n < MaxConn /\ Fail(c)
        /\ UNCHANGED wrote
     \/ /\ tcp' = [tcp EXCEPT ![c] = "up"]
        /\ wrote' = [wrote EXCEPT ![c] = IF @ = "nothing" THEN "request" ELSE @]
        /\ UNCHANGED reconn
  /\ UNCHANGED <<memory, timer, state, file, answer, passed, dropped>>

\* Mutant: a connection that is refused is not tried again.
ConnectedOnce(c) ==
  /\ tcp[c] = "connecting"
  /\ state' = 0
  /\ \/ tcp' = [tcp EXCEPT ![c] = "failed"] /\ UNCHANGED wrote
     \/ /\ tcp' = [tcp EXCEPT ![c] = "up"]
        /\ wrote' = [wrote EXCEPT ![c] = IF @ = "nothing" THEN "request" ELSE @]
  /\ UNCHANGED <<memory, timer, file, reconn, answer, passed, dropped>>

\* on_connect.
Connected(c) ==
  /\ tcp[c] = "connecting"
  /\ state' = 0
  /\ \/ /\ n < MaxConn /\ Fail(c)
        /\ UNCHANGED wrote
     \/ /\ tcp' = [tcp EXCEPT ![c] = "up"]     \* the request is sent
        /\ wrote' = [wrote EXCEPT ![c] = IF @ = "nothing" THEN "request" ELSE @]
        /\ UNCHANGED reconn
     \/ /\ tcp' = [tcp EXCEPT ![c] = "mute"]   \* uv_write fails: nothing is read
        /\ UNCHANGED <<reconn, wrote>>
  /\ UNCHANGED <<memory, timer, file, answer, passed, dropped>>

\* Mutant: like every other error.
CancelledRetry(c) ==
  /\ tcp[c] = "cancelled"
  /\ tcp' = [tcp EXCEPT ![c] = "closing"]
  /\ reconn' = reconn + 1
  /\ UNCHANGED <<memory, timer, state, file, streams>>

\* on_connect of a connection that was closed first: UV_ECANCELED.
Cancelled(c) ==
  /\ tcp[c] = "cancelled"
  /\ tcp' = [tcp EXCEPT ![c] = "closing"]
  /\ UNCHANGED <<memory, timer, state, file, reconn, streams>>

\* on_close_cb frees the handle.
Closed(c) ==
  /\ tcp[c] = "closing"
  /\ tcp' = [tcp EXCEPT ![c] = "gone"]
  /\ UNCHANGED <<memory, timer, state, file, reconn, streams>>

\* Mutant: without ENA_ERCONN, the socket is closed and that is all.
ReadErrorClose(c) ==
  /\ tcp[c] = "up" /\ n < MaxConn
  /\ tcp' = [tcp EXCEPT ![c] = "closing"]
  /\ UNCHANGED <<memory, timer, state, file, reconn, streams>>

\* on_read_cb with an error or the end of the stream, which stops the reading.
ReadError(c) ==
  /\ tcp[c] = "up" /\ n < MaxConn
  /\ Fail(c)
  /\ UNCHANGED <<memory, timer, state, file, streams>>

\* on_read_cb: one read of what the server has sent.  A read that holds the
\* whole answer sets the state and is not passed on, nor is the data that it
\* holds after the answer; an answer that comes in two reads matches neither
\* time.
Read(c) ==
  /\ tcp[c] = "up"
  /\ \/ /\ answer[c] = "none" /\ answer' = [answer EXCEPT ![c] = "refused"]
        /\ UNCHANGED <<state, passed, dropped>>
     \/ /\ answer[c] = "none" /\ answer' = [answer EXCEPT ![c] = "ok"]
        /\ state' = 1
        /\ dropped' \in {dropped, dropped \union {<<c, "with">>}}
        /\ UNCHANGED passed
     \/ /\ answer[c] = "none" /\ answer' = [answer EXCEPT ![c] = "part"]
        /\ passed' = IF state = 1 THEN passed \union {c} ELSE passed
        /\ UNCHANGED <<state, dropped>>
     \/ /\ answer[c] = "part" /\ answer' = [answer EXCEPT ![c] = "split"]
        /\ IF state = 1
           THEN passed' = passed \union {c} /\ UNCHANGED dropped
           ELSE UNCHANGED passed /\ dropped' \in {dropped, dropped \union {<<c, "with">>}}
        /\ UNCHANGED state
     \/ /\ answer[c] \in {"ok", "split"}
        /\ IF state = 1
           THEN passed' = passed \union {c} /\ UNCHANGED dropped
           ELSE dropped' = dropped \union {<<c, "after">>} /\ UNCHANGED passed
        /\ UNCHANGED <<answer, state>>
  /\ UNCHANGED <<memory, tcp, timer, file, reconn, wrote>>

\* timer_send_gga_cb: uv_is_active holds of a socket that is being read.
SendGga(c) ==
  /\ timer[c] = "running"
  /\ IF cli # "live" THEN Crash
     ELSE /\ tcp[n] = "up"
          /\ wrote' = [wrote EXCEPT ![n] = IF @ = "nothing" THEN "gga" ELSE @]
          /\ UNCHANGED <<memory, tcp, timer, state, file, reconn, answer, passed, dropped>>

\* on_fs_open: also when the attempt it belongs to is over.
FileOpened(c) ==
  /\ file[c] = "opening"
  /\ IF cli # "live" THEN Crash
     ELSE /\ file' = [file EXCEPT ![c] = "open"]
          /\ raw' = c
          /\ UNCHANGED <<cli, n, tcp, timer, state, reconn, streams, excuse, prog>>

-----------------------------------------------------------------------------

Event(c) == Connected(c) \/ Cancelled(c) \/ Closed(c) \/ FileOpened(c)

Next == /\ prog = "runs"
        /\ \/ Start \/ Delete \/ OnReconn
           \/ \E c \in Conn : Event(c) \/ ReadError(c) \/ Read(c) \/ SendGga(c)

\* The loop handles posted events and reports connections and closed handles;
\* what a server sends is up to the server.
Spec == /\ Init /\ [][Next]_vars
        /\ WF_vars(prog = "runs" /\ OnReconn)
        /\ \A c \in Conn : WF_vars(prog = "runs" /\ Event(c))

-----------------------------------------------------------------------------

TypeOK ==
  /\ cli \in {"new", "live", "freed"} /\ n \in 0 .. MaxConn
  /\ tcp \in [Conn -> Socket] /\ timer \in [Conn -> Timer]
  /\ state \in {0, 1} /\ raw \in 0 .. MaxConn /\ file \in [Conn -> File]
  /\ reconn \in {0, 1}
  /\ answer \in [Conn -> Answer] /\ passed \subseteq Conn
  /\ dropped \subseteq Conn \X {"with", "after"}
  /\ wrote \in [Conn -> {"nothing", "request", "gga"}]
  /\ excuse \subseteq Excuse /\ prog \in {"runs", "crashed"}

\* A client has at most one connection that is not closed, with its timer, and
\* it is the one that cli->tcp names: reconnecting leaves none behind, and a
\* client that was deleted has none.
OneConnection ==
  \A c \in Conn :
    tcp[c] \in {"connecting", "up", "mute", "failed"} \/ timer[c] = "running"
      => c = n /\ cli = "live"

\* Data reaches the decoder only from a connection whose own server has said
\* "ICY 200 OK", whatever the connections before it had been answered.
PassedOnlyIfAnswered == \A c \in passed : answer[c] = "ok"

\* Of the data that follows the answer two things are thrown away and no more:
\* what came in one read with the end of the answer; and, when the answer itself
\* came in two reads, which on_read_cb does not put together, everything until
\* the connection breaks (ntripclient.c:113-130).
DroppedByAnswer == \A d \in dropped : d[2] = "with" \/ answer[d[1]] = "split"

\* The position report does not go out before the request.
RequestFirst == \A c \in Conn : wrote[c] # "gga"

\* A live client without a connection has a retry coming, unless an earlier one
\* could not be started: its result is not looked at.
RetryInHand ==
  cli = "live" => \/ tcp[n] \in {"connecting", "up", "mute"} /\ reconn = 0
                  \/ tcp[n] = "failed" /\ reconn = 1
                  \/ "gave_up" \in excuse

\* Freed memory is used only if the client was deleted with a retry posted or a
\* file being opened, which close does not call back, or after it had given up,
\* its handles being gone.
CrashExcused == prog = "crashed" => excuse \intersect {"reconn", "open", "gave_up"} # {}

\* A file is closed twice only if the client was closed while the file of its
\* attempt was being opened, or gave up: cli->raw is not reset.
ClosedOnce ==
  (\E c \in Conn : file[c] = "twice") => excuse \intersect {"open", "overtaken", "gave_up"} # {}

\* What the properties above rest on, for the proofs.
Untouched == \A c \in Conn : c > n => /\ tcp[c] = "none" /\ timer[c] = "none"
                                     /\ file[c] = "none" /\ answer[c] = "none"
Unborn == cli = "new" => n = 0 /\ reconn = 0 /\ raw = 0 /\ excuse = {}
Alive == cli = "live" => n > 0
GivenUp == "gave_up" \in excuse => /\ reconn = 0
                                   /\ tcp[n] \in {"cancelled", "closing", "gone"}
                                   /\ n > 0
AnswerSeen == \A c \in Conn : /\ tcp[c] = "connecting" => answer[c] = "none"
                              /\ tcp[c] = "up" => (state = 1 <=> answer[c] = "ok")
RequestSent == \A c \in Conn : tcp[c] = "up" => wrote[c] # "nothing"
Freed == cli # "live" => /\ reconn > 0 => "reconn" \in excuse
                         /\ Opening # {} => "open" \in excuse
Logged == /\ raw # 0 => file[raw] \in {"open", "closed", "twice"}
          /\ cli = "live" /\ raw # 0 /\ file[raw] # "open" =>
               Opening # {} \/ excuse \intersect {"overtaken", "gave_up"} # {}

IInv == /\ TypeOK /\ OneConnection /\ PassedOnlyIfAnswered /\ DroppedByAnswer
        /\ RequestFirst /\ RetryInHand /\ CrashExcused /\ ClosedOnce
        /\ Untouched /\ Unborn /\ Alive /\ GivenUp /\ AnswerSeen /\ RequestSent
        /\ Freed /\ Logged

\* Every failed connection is followed by another attempt, unless the client is
\* deleted, gives up, or the program ends.
Retries ==
  \A c \in Conn : tcp[c] = "failed" ~>
                    (n > c \/ cli # "live" \/ prog = "crashed" \/ "gave_up" \in excuse)
=============================================================================
