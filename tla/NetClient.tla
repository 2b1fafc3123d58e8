----------------------------- MODULE NetClient ------------------------------
(***************************************************************************)
(* The TCP, UDP and SSL clients, which connect again after every loss, and  *)
(* the connections and acceptors of the servers: src/io/tcp-client.c,       *)
(* udp-client.c, tcp-server.c, udp-server.c, src/open-ssl/ssl-client.c and  *)
(* ssl-server.c, over SocketIO.  The edge loop delivers any event of a      *)
(* watcher that is active, one at a time, and only when nothing runs.       *)
(***************************************************************************)
EXTENDS SocketIO

CONSTANTS Kinds,     \* which of "tcp", "udp", "ssl", "udpServer", "tcpServer", "sslServer"
          MaxCalls   \* bound: calls the user makes

VARIABLES c,         \* the client, or the server's connection
          accepting, \* is the acceptor open and watched?
          calls      \* calls the user made

netVars == <<c, accepting, calls>>

\* The buffers a user of an SSL socket has.
Buffers == {1, 2}

Idle == c.stack = <<>> /\ ~c.freed
Top == Head(c.stack)
IsClient(d) == d.kind \in {"tcp", "udp", "ssl"}
UserFrames == {"error", "close", "read", "write", "connected", "stop",
               "readTimeout", "writeTimeout"}

\* The clients are to connect again; a server's connection has no such flag.
TCPClientInit == [Fresh("tcp") EXCEPT !.reconnect = TRUE]
UDPClientInit == [Fresh("udp") EXCEPT !.reconnect = TRUE]
SSLClientInit == [Fresh("ssl") EXCEPT !.reconnect = TRUE]

NewSocket(kind) ==
  CASE kind = "tcp" -> TCPClientInit
    [] kind = "udp" -> UDPClientInit
    [] kind = "ssl" -> SSLClientInit
    [] OTHER -> Fresh(kind)

Init ==
  /\ c \in {NewSocket(kind) : kind \in Kinds}
  /\ accepting = FALSE
  /\ calls = 0

Becomes(d) == c' = d /\ UNCHANGED <<accepting, calls>>
ByUser(d) == calls < MaxCalls /\ calls' = calls + 1 /\ c' = d /\ UNCHANGED accepting

-----------------------------------------------------------------------------
(* Connecting                                                                *)

ConnectWatchers == {"connectEvent", "connectTimer"}

\* The watchers that could be started, in the order the code starts them.
Begun == {{}, {"connectEvent"}, ConnectWatchers}

\* The first connect, and a later one that could not even be tried, end the
\* client's tries.
GiveUp(d) == Close([d EXCEPT !.reconnect = FALSE], TRUE)

\* The connection is there and its descriptor is watched; over SSL it needs a
\* session first.  Otherwise(_) is what the caller does when one of the two fails.
Established(d, session, started, Otherwise(_)) ==
  LET e == [d EXCEPT !.ssl = Secure(d) /\ session]
  IN  IF (Secure(d) => session) /\ started THEN Call(Start(e), <<"connected">>)
      ELSE Otherwise(e)

\* A connect in progress is watched, under a timer.
InProgress(d, begun) ==
  LET e == On([d EXCEPT !.connecting = TRUE], begun)
  IN  IF begun = ConnectWatchers THEN e ELSE GiveUp(e)

\* What is done with the outcome of a connect; a datagram socket knows no connect
\* in progress.
TCPConnectProcess(d, ret, begun) ==
  CASE ret = "OK" -> Established(d, FALSE, begun # {}, GiveUp)
    [] ret = "InProgress" -> InProgress(d, begun)
    [] ret = "None" -> GiveUp(d)
    [] OTHER -> Close(d, TRUE)

UDPConnectProcess(d, ret, begun) ==
  CASE ret = "OK" -> Established(d, FALSE, begun # {}, GiveUp)
    [] ret = "None" -> GiveUp(d)
    [] OTHER -> Close(d, TRUE)

SSLConnectProcess(d, ret, session, begun) ==
  CASE ret = "OK" -> Established(d, session, begun # {}, GiveUp)
    [] ret = "InProgress" -> InProgress(d, begun)
    [] ret = "None" -> GiveUp(d)
    [] OTHER -> Close(d, TRUE)

ConnectProcess(d, ret, session, begun) ==
  CASE d.kind = "tcp" -> TCPConnectProcess(d, ret, begun)
    [] d.kind = "udp" -> UDPConnectProcess(d, ret, begun)
    [] d.kind = "ssl" -> SSLConnectProcess(d, ret, session, begun)

Returns == {"None", "OK", "InProgress", "Error"}

\* Start: the socket is made and, if asked to, bound.
Starts(kind) ==
  /\ Idle /\ c.kind = kind /\ ~c.fd /\ "reconnectTimer" \notin c.active
  /\ LET d == [c EXCEPT !.fd = TRUE]
     IN  \/ ByUser(GiveUp(d))
         \/ \E ret \in Returns, session \in BOOLEAN, begun \in Begun :
              ByUser(ConnectProcess([d EXCEPT !.loop = TRUE], ret, session, begun))

TCPClientStart == Starts("tcp")
UDPClientStart == Starts("udp")
SSLClientStart == Starts("ssl")

\* The callback of the reconnect timer.
Reconnects(kind) ==
  /\ Idle /\ c.kind = kind /\ "reconnectTimer" \in c.active
  /\ LET d == Off(c, {"reconnectTimer"})
     IN  IF d.fd THEN Becomes(d)
         ELSE \E ret \in Returns, session \in BOOLEAN, begun \in Begun :
                Becomes(ConnectProcess(ReconnectSocket(d, ret), ret, session, begun))

TCPReconnectTimer == Reconnects("tcp")
UDPReconnectTimer == Reconnects("udp")
SSLReconnectTimer == Reconnects("ssl")

\* The connect did not come to an end in time.
ConnectTimer ==
  /\ Idle /\ "connectTimer" \in c.active
  /\ LET d == Off(c, {"connectTimer"})
     IN  Becomes(IF d.fd
                 THEN Close(Off([d EXCEPT !.connecting = FALSE], {"connectEvent"}), TRUE)
                 ELSE d)

\* It did, well or not.
ConnectEnds(kind) ==
  /\ Idle /\ c.kind = kind /\ "connectEvent" \in c.active
  /\ LET d == Off([c EXCEPT !.connecting = FALSE], ConnectWatchers)
         Lost(e) == Close(e, TRUE)
     IN  \/ Becomes(Lost(d))
         \/ \E session, started \in BOOLEAN :
              Becomes(Established(d, session, started, Lost))

TCPConnectEvent == ConnectEnds("tcp")
SSLConnectEvent == ConnectEnds("ssl")

-----------------------------------------------------------------------------
(* Closing                                                                   *)

\* Mutant: a connect in progress is left to its watchers.
ClosedConnecting(d) ==
  IF ~IsClient(d) THEN Call(d, <<"close">>)
  ELSE IF d.closing THEN d
  ELSE Call([d EXCEPT !.closing = TRUE], <<"close", "rearm">>)

\* The callback of swSocketIOClose: a server's is its user's own, a client's ends
\* a connect in progress before it calls its user's.
Closed(d) ==
  IF ~IsClient(d) THEN Call(d, <<"close">>)
  ELSE IF d.closing THEN d
  ELSE LET e == IF d.connecting THEN Off(d, ConnectWatchers) ELSE d
       IN  Call([e EXCEPT !.closing = TRUE, !.connecting = FALSE], <<"close", "rearm">>)

\* Mutant: the flag that guards the close callback stays set.
RearmClosing(d) == IF d.reconnect THEN On(d, {"reconnectTimer"}) ELSE d

\* After the user's close callback.
Rearm(d) ==
  [IF d.reconnect THEN On(d, {"reconnectTimer"}) ELSE d EXCEPT !.closing = FALSE]

\* swTCPClientStop ends what goes on and closes, also when nothing is open; only
\* then the loop is forgotten and the stop callback called.
Stop(d) ==
  LET e == Off([d EXCEPT !.reconnect = FALSE, !.connecting = FALSE],
               ConnectWatchers \cup {"reconnectTimer"})
  IN  Close(Call(e, <<"stopped">>), FALSE)

Stopped(d) == Call([d EXCEPT !.loop = FALSE], <<"stop">>)

\* swTCPClientClose; the client then connects again.
CloseClient(d) == IF d.fd THEN Close(d, FALSE) ELSE d

\* Delete with the cleanups it calls, unless it already runs.
Delete(d) ==
  LET e == Call(Off([d EXCEPT !.deleting = TRUE, !.reconnect = FALSE,
                              !.connecting = FALSE, !.loop = FALSE],
                    ConnectWatchers \cup {"reconnectTimer"}), <<"free">>)
  IN  IF d.deleting THEN d ELSE IF d.fd THEN Close(e, FALSE) ELSE e

Freed(d) == [Off(d, {"io", "readTimer", "writeTimer"}) EXCEPT !.freed = TRUE]

-----------------------------------------------------------------------------
(* Serving                                                                   *)

\* The acceptor listens and is watched; what fails on the way is closed again.
Listens(kind) ==
  /\ c.kind = kind /\ ~accepting
  /\ calls < MaxCalls /\ calls' = calls + 1
  /\ accepting' = TRUE
  /\ UNCHANGED c

TCPServerAcceptorStart == Listens("tcpServer")
SSLServerAcceptorStart == Listens("sslServer")

\* Stop, which an error of the acceptor's descriptor comes to as well.
AcceptorStop ==
  /\ accepting /\ accepting' = FALSE
  /\ UNCHANGED <<c, calls>>

\* One connection is accepted: a refused one is closed, and one that cannot be set
\* up or watched is deleted.
Accepts(kind) ==
  /\ accepting /\ Idle /\ c = NewSocket(kind)
  /\ LET served == [c EXCEPT !.fd = TRUE, !.ssl = Secure(c)]
     IN  Becomes(Start(served)) \/ Becomes(Delete(served))

TCPAcceptEvent == Accepts("tcpServer")
\* One without a session is neither served nor closed.
SSLAcceptEvent == Accepts("sslServer")

\* A datagram server is bound and watched by its one socket.
UDPServerStart ==
  /\ c.kind = "udpServer" /\ Idle /\ ~c.fd
  /\ \/ ByUser(Start([c EXCEPT !.fd = TRUE]))
     \/ ByUser(Call(c, <<"error">>))

-----------------------------------------------------------------------------
(* What the loop and the user do                                             *)

IOReady ==
  /\ Idle /\ "io" \in c.active
  /\ \E events \in ((SUBSET {"read", "write"}) \ {{}}) \cup {{"error"}} :
       Becomes(IOEvent(c, events))

TimeOut ==
  \/ Idle /\ "readTimer" \in c.active /\ Becomes(ReadTimer(c))
  \/ Idle /\ "writeTimer" \in c.active /\ Becomes(WriteTimer(c))

\* One step of the library's own code.
Step ==
  /\ c.stack # <<>>
  /\ LET d == Returned(c)
     IN  \/ Top = "shut" /\ Becomes(Shut(d))
         \/ Top = "closed" /\ Becomes(Closed(d))
         \/ Top = "rearm" /\ Becomes(Rearm(d))
         \/ Top = "toWrite" /\ Becomes(ToWrite(d))
         \/ Top = "eventEnd" /\ Becomes(EventEnd(d))
         \/ Top = "stopped" /\ Becomes(Stopped(d))
         \/ Top = "free" /\ Becomes(Freed(d))

\* A callback of the user returns; a timeout's says whether to go on waiting, and a
\* server's close callback deletes its connection.
Return ==
  /\ c.stack # <<>> /\ Top \in UserFrames
  /\ LET d == Returned(c)
     IN  \/ ~(Top = "close" /\ Serving(d)) /\ Becomes(d)
         \/ Top = "close" /\ Serving(d) /\ Becomes(Delete(d))
         \/ Top \in {"readTimeout", "writeTimeout"} /\ Becomes(Close(d, TRUE))

\* Where the user may call the library: between events, and in the callbacks that
\* tell of data or of a new connection.
MayCall == Idle \/ (c.stack # <<>> /\ Top \in {"read", "write", "connected"})

Transfer ==
  /\ MayCall /\ "io" \in c.active /\ ~Secure(c)
  /\ \E outcome \in DOMAIN Took, started \in BOOLEAN :
       \E d \in {Read(c, outcome, started), ReadFrom(c, outcome, started),
                 ReadSplice(c, outcome, started), Write(c, outcome, started),
                 WriteTo(c, outcome, started), WriteSplice(c, outcome, started)} :
         ByUser(d)

SecureTransfer ==
  /\ MayCall /\ "io" \in c.active /\ Secure(c)
  /\ \E buffer \in Buffers, outcome \in {"some", "wantRead", "wantWrite", "end", "fail"},
        started \in BOOLEAN :
       \E d \in {SSLRead(c, buffer, outcome, started), SSLWrite(c, buffer, outcome, started)} :
         ByUser(d)

Stops(kind) == MayCall /\ c.kind = kind /\ c.loop /\ ByUser(Stop(c))
TCPClientStop == Stops("tcp")
UDPClientStop == Stops("udp")
SSLClientStop == Stops("ssl")

UserClose == MayCall /\ c.loop /\ ByUser(CloseClient(c))

Deletes(kind) == Idle /\ c.kind = kind /\ ByUser(Delete(c))
TCPClientDelete == Deletes("tcp")
UDPClientDelete == Deletes("udp")
SSLClientDelete == Deletes("ssl")
SocketIODelete == Deletes("udpServer") \/ Deletes("tcpServer") \/ Deletes("sslServer")

Next ==
  \/ TCPClientStart \/ UDPClientStart \/ SSLClientStart
  \/ TCPReconnectTimer \/ UDPReconnectTimer \/ SSLReconnectTimer
  \/ ConnectTimer \/ TCPConnectEvent \/ SSLConnectEvent
  \/ TCPServerAcceptorStart \/ SSLServerAcceptorStart \/ AcceptorStop
  \/ TCPAcceptEvent \/ SSLAcceptEvent \/ UDPServerStart
  \/ IOReady \/ TimeOut \/ Step \/ Return
  \/ Transfer \/ SecureTransfer \/ UserClose
  \/ TCPClientStop \/ UDPClientStop \/ SSLClientStop
  \/ TCPClientDelete \/ UDPClientDelete \/ SSLClientDelete \/ SocketIODelete

\* The library's code runs on, callbacks return, and the loop delivers the timer a
\* lost connection waits for.
Fairness == 
  /\ WF_netVars(Step) /\ WF_netVars(Return)
  /\ WF_netVars(TCPReconnectTimer \/ UDPReconnectTimer \/ SSLReconnectTimer)

Spec == Init /\ [][Next]_netVars /\ Fairness

-----------------------------------------------------------------------------
(* The invariant                                                             *)

ASSUME NetClientAssumption ==
  Kinds \subseteq {"tcp", "udp", "ssl", "udpServer", "tcpServer", "sslServer"}

Frames == UserFrames \cup {"shut", "closed", "rearm", "toWrite", "eventEnd", "stopped", "free"}
Watchers == ConnectWatchers \cup {"io", "readTimer", "writeTimer", "reconnectTimer"}
Waits == [{"read", "write"} -> Buffers \cup {NoBuffer}]

Sockets ==
  [kind : Kinds, fd : BOOLEAN, active : SUBSET Watchers, loop : BOOLEAN,
   reconnect : BOOLEAN, connecting : BOOLEAN, closing : BOOLEAN,
   inside : BOOLEAN, deleting : BOOLEAN, freed : BOOLEAN,
   lastError : BOOLEAN, ssl : BOOLEAN, pending : Waits, want : Waits,
   stack : Seq(Frames), lost : BOOLEAN, dropped : BOOLEAN, misretried : BOOLEAN]

Runs(d, frame) == d.stack # <<>> /\ Head(d.stack) = frame
Awaits(d, frame) == \E i \in DOMAIN d.stack : d.stack[i] = frame

\* What the library does at the end of an event, after a timeout and last of all has
\* nothing below it; a server's connection is closed with nothing below but that it
\* is freed.
FrameFits(d, i) ==
  LET frame == d.stack[i]
  IN  /\ frame \in {"eventEnd", "readTimeout", "writeTimeout", "free"} => i = Len(d.stack)
      /\ frame \in {"read", "write", "toWrite", "eventEnd"} => d.inside
      /\ frame = "free" => d.deleting
      /\ frame = "connected" => IsClient(d)
      /\ Serving(d) /\ frame \in {"shut", "closed", "close"} =>
           i = Len(d.stack) \/ d.stack[i + 1] = "free"

StackFits(d) == \A i \in DOMAIN d.stack : FrameFits(d, i)
InsideEnds(d) == d.inside => d.stack # <<>> /\ d.stack[Len(d.stack)] = "eventEnd"
FreedLast(d) == d.freed => d.stack = <<>>

\* After the descriptor is closed nothing runs before the user's close callback, and
\* nothing between that and what follows it.
ClosingEnds(d) ==
  /\ \A i \in DOMAIN d.stack :
       /\ d.stack[i] = "closed" => i = 1
       /\ d.stack[i] = "rearm" => d.closing /\ (i = 1 \/ (i = 2 /\ d.stack[1] = "close"))
  /\ d.closing => \/ Runs(d, "rearm")
                  \/ Runs(d, "close") /\ Len(d.stack) > 1 /\ d.stack[2] = "rearm"

\* What is watched says what is there: a session and its buffers, a connect in progress.
WatchesHold(d) ==
  /\ ~d.fd => d.active \subseteq {"reconnectTimer"} \cup
                                  (IF Runs(d, "closed") THEN ConnectWatchers ELSE {})
  /\ "io" \in d.active /\ Secure(d) => d.ssl
  /\ d.ssl => d.fd
  /\ d.active \cap ConnectWatchers # {} =>
       d.connecting /\ IsClient(d) /\ ~d.ssl /\ "io" \notin d.active
  /\ "reconnectTimer" \in d.active \/ d.closing => ~d.fd /\ IsClient(d)
  /\ Runs(d, "closed") \/ Runs(d, "rearm") => ~d.fd

BuffersKept(d) ==
  /\ ~d.misretried
  /\ \A w \in {"read", "write"} :
       /\ d.pending[w] # NoBuffer => d.ssl
       /\ d.want[w] \in {NoBuffer, d.pending[w]}

ErrorHeld(d) ==
  /\ d.lost /\ ~d.dropped => d.lastError
  /\ d.lastError /\ "io" \in d.active => d.inside \/ Awaits(d, "shut")

Trying(d) ==
  IsClient(d) /\ d.loop /\ d.reconnect /\ ~d.freed =>
    \/ d.fd /\ "io" \in d.active
    \/ d.fd /\ d.connecting /\ ConnectWatchers \subseteq d.active
    \/ "reconnectTimer" \in d.active
    \/ Awaits(d, "shut") \/ Runs(d, "closed") \/ d.closing

\* What holds of the socket between the steps of the library's code too.
Held(d) ==
  /\ d \in Sockets
  /\ StackFits(d) /\ InsideEnds(d) /\ FreedLast(d) /\ ClosingEnds(d)
  /\ WatchesHold(d) /\ BuffersKept(d) /\ ErrorHeld(d)

SocketInv == Held(c) /\ Trying(c)

-----------------------------------------------------------------------------
(* Properties                                                                *)

\* Between events a client that is to reconnect is connected and watched, or
\* connecting under a timer, or waits for the timer of its next try; nothing is
\* watched without its descriptor, and a freed one is freed once and not used again.
KeepsTrying ==
  /\ Idle /\ IsClient(c) /\ c.loop /\ c.reconnect =>
       \/ c.fd /\ "io" \in c.active
       \/ c.fd /\ c.connecting /\ ConnectWatchers \subseteq c.active
       \/ "reconnectTimer" \in c.active
  /\ Idle /\ ~c.fd => c.active \subseteq {"reconnectTimer"}
  /\ c.freed => \A i \in DOMAIN c.stack : c.stack[i] \in UserFrames

\* An error a callback ran into closes the connection before the next event, unless
\* the user then asked for a close without error; and no later connection starts
\* with it.
LossActedOn ==
  Idle /\ "io" \in c.active => ~c.lastError /\ (c.lost => c.dropped)

\* A call OpenSSL put off is retried with the same buffer, and a buffer waits only
\* for the session that put it off.
SameBuffer ==
  /\ ~c.misretried
  /\ \A d \in DOMAIN c.pending : c.pending[d] # NoBuffer => c.ssl

\* A client that lost its connection and is to reconnect tries again.
TriesAgain ==
  (Idle /\ IsClient(c) /\ c.loop /\ c.reconnect /\ ~c.fd) ~> (c.fd \/ ~c.reconnect)
=============================================================================
