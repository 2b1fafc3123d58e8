------------------------------ MODULE SocketIO ------------------------------
(***************************************************************************)
(* A socket and its watchers: src/io/socket.c, src/io/socket-io.c and what *)
(* src/open-ssl adds to them, as operators on a record `c`.  The calls of  *)
(* C are the frames of c.stack, the running one first: a frame of the      *)
(* library is one step of it, a frame of the user is a callback, in which  *)
(* anything its user does may happen before it returns.                    *)
(***************************************************************************)
EXTENDS Naturals, Sequences

\* No buffer waits to be retried.
NoBuffer == 0

\* A socket no one started: swSocketIOInit zeroes the record, and the watchers are
\* ready but belong to no loop.
Fresh(kind) ==
  [kind |-> kind, fd |-> FALSE, active |-> {}, loop |-> FALSE,
   reconnect |-> TRUE, connecting |-> FALSE, closing |-> FALSE,
   inside |-> FALSE, deleting |-> FALSE, freed |-> FALSE,
   lastError |-> FALSE, ssl |-> FALSE,
   pending |-> [d \in {"read", "write"} |-> NoBuffer],
   want |-> [d \in {"read", "write"} |-> NoBuffer],
   stack |-> <<>>, lost |-> FALSE, dropped |-> FALSE, misretried |-> FALSE]

Secure(c) == c.kind \in {"ssl", "sslServer"}
Serving(c) == c.kind \in {"tcpServer", "sslServer"}

Call(c, frames) == [c EXCEPT !.stack = frames \o @]
Returned(c) == [c EXCEPT !.stack = Tail(@)]
On(c, watchers) == [c EXCEPT !.active = @ \cup watchers]
Off(c, watchers) == [c EXCEPT !.active = @ \ watchers]

-----------------------------------------------------------------------------
(* What the calls of socket.c return for what the system call came to: a     *)
(* read of nothing is the end of the stream, a write of nothing is not.      *)
(* swSocketReceiveMsg takes a message for good only if it has the size of a   *)
(* pointer, and reads errno for every other one.                             *)

Took == [some |-> "OK", none |-> "Close", again |-> "NotReady", fail |-> "Error"]
Gave == [Took EXCEPT !.none = "OK"]
Transfers == [Read |-> Took, ReadSplice |-> Took, Receive |-> Took, ReceiveFrom |-> Took,
              Write |-> Gave, WriteSplice |-> Gave, Send |-> Gave, SendTo |-> Gave,
              SendMsg |-> Gave]

\* A socket that cannot be bound to its address again is closed again, without
\* having tried to connect.
ReconnectSocket(c, ret) == [c EXCEPT !.fd = (ret # "None")]

\* Mutant: the session is ended and the buffers it waited for are kept.
CloseKeepingBuffers(c) ==
  [c EXCEPT !.fd = FALSE, !.ssl = FALSE, !.want = [d \in DOMAIN @ |-> NoBuffer]]

\* The descriptor is closed; swSSLSocketIOSocketCleanup also ends the session and
\* forgets the buffers it waited for.
CloseSocket(c) ==
  [c EXCEPT !.fd = FALSE, !.ssl = FALSE,
            !.pending = [d \in DOMAIN @ |-> NoBuffer],
            !.want = [d \in DOMAIN @ |-> NoBuffer]]

-----------------------------------------------------------------------------
(* Closing, starting, events                                                 *)

\* Mutant: an error met inside a callback is not noted.
CloseForgetful(c, error) ==
  IF c.inside
  THEN [c EXCEPT !.dropped = @ \/ ~error, !.lost = @ \/ error]
  ELSE Call(c, (IF error THEN <<"error">> ELSE <<>>) \o <<"shut">>)

\* Inside the callback of an event the close is only noted, as the error it was
\* asked for with; a close for no error leaves no trace.  lost and dropped
\* remember which of the two happened to this connection.
Close(c, error) ==
  IF c.inside
  THEN [c EXCEPT !.lastError = error, !.dropped = @ \/ ~error, !.lost = @ \/ error]
  ELSE Call(c, (IF error THEN <<"error">> ELSE <<>>) \o <<"shut">>)

\* The rest of swSocketIOClose, after the error was reported.
Shut(c) ==
  LET quiet == Off(c, {"io", "readTimer", "writeTimer"})
  IN  Call([CloseSocket(quiet) EXCEPT !.lost = FALSE, !.dropped = FALSE], <<"closed">>)

\* A new connection starts with no error noted.
Start(c) ==
  On([c EXCEPT !.loop = TRUE, !.lastError = FALSE, !.lost = FALSE, !.dropped = FALSE],
     {"io"})

\* The callback of the descriptor's watcher: an error or hang-up closes, else the
\* read callback, and, if it noted no error, the write callback.
IOEvent(c, events) ==
  IF "error" \in events
  THEN Close(c, TRUE)
  ELSE LET in == [c EXCEPT !.inside = TRUE]
           write == IF "write" \in events THEN <<"toWrite">> ELSE <<>>
       IN  IF "read" \in events
           THEN Call(Off(in, {"readTimer"}), <<"read">> \o write \o <<"eventEnd">>)
           ELSE Call(in, write \o <<"eventEnd">>)

ToWrite(c) == IF c.lastError THEN c ELSE Call(Off(c, {"writeTimer"}), <<"write">>)

EventEnd(c) ==
  LET out == [c EXCEPT !.inside = FALSE]
  IN  IF c.lastError THEN Close(out, TRUE) ELSE out

\* The two timers ask the user whether to go on waiting; they are periodic and
\* stay active if so.
ReadTimer(c) == Call(c, <<"readTimeout">>)
WriteTimer(c) == Call(c, <<"writeTimeout">>)

\* After a transfer: a timer waits for what was not ready, and anything else that
\* is not success closes.
Waiting(c, timer, started) == IF started THEN On(c, {timer}) ELSE Close(c, TRUE)
Settled(c, return, timer, started) ==
  CASE return = "OK" -> c
    [] return = "NotReady" -> Waiting(c, timer, started)
    [] OTHER -> Close(c, TRUE)

Read(c, outcome, started) == Settled(c, Transfers.Receive[outcome], "readTimer", started)
ReadFrom(c, outcome, started) == Settled(c, Transfers.ReceiveFrom[outcome], "readTimer", started)
ReadSplice(c, outcome, started) == Settled(c, Transfers.ReadSplice[outcome], "readTimer", started)
Write(c, outcome, started) == Settled(c, Transfers.Send[outcome], "writeTimer", started)
WriteTo(c, outcome, started) == Settled(c, Transfers.SendTo[outcome], "writeTimer", started)
WriteSplice(c, outcome, started) == Settled(c, Transfers.WriteSplice[outcome], "writeTimer", started)

-----------------------------------------------------------------------------
(* Over SSL                                                                  *)

\* What swSSLGetError makes of a call that did not succeed.
SSLError == [wantRead |-> "ReadNotReady", wantWrite |-> "WriteNotReady",
             lookup |-> "NotReady", end |-> "Close", fail |-> "Error"]

\* OpenSSL's own state (external): the buffer a call put off must be retried with.
SessionCalled(c, d, buffer, outcome) ==
  [c EXCEPT !.misretried = @ \/ c.want[d] \notin {NoBuffer, buffer},
            !.want[d] = IF outcome \in {"wantRead", "wantWrite"} THEN buffer ELSE NoBuffer]

\* swSSLSocketIORead and swSSLSocketIOWrite, which differ only in the direction d.
\* While a buffer waits only that buffer is accepted.
SSLTransfer(c, d, buffer, outcome, started) ==
  LET called == SessionCalled(c, d, buffer, outcome)
      kept == [called EXCEPT !.pending[d] = buffer]
  IN  IF c.pending[d] \notin {NoBuffer, buffer} THEN c
      ELSE CASE outcome = "some" -> [called EXCEPT !.pending[d] = NoBuffer]
             [] outcome = "wantRead" -> Waiting(kept, "readTimer", started)
             [] outcome = "wantWrite" -> Waiting(kept, "writeTimer", started)
             [] OTHER -> IF SSLError[outcome] = "NotReady" THEN called
                         ELSE Close(called, TRUE)

SSLRead(c, buffer, outcome, started) == SSLTransfer(c, "read", buffer, outcome, started)
SSLWrite(c, buffer, outcome, started) == SSLTransfer(c, "write", buffer, outcome, started)
=============================================================================
