------------------------------ MODULE Splicer -------------------------------
(***************************************************************************)
(* The splicer: a client that connects to its own acceptor.  Each side      *)
(* first writes its buffer and then whatever the other side put into the    *)
(* pipe to it, so that the same bytes go round and round:                   *)
(* src/tools/splicer/splicer-state.c.                                      *)
(***************************************************************************)
EXTENDS Naturals, FiniteSets

CONSTANTS BufferSize, PipeSize, \* in units of what one call moves at most
          MaxConnections,       \* bound: connections the client makes
          MaxBytes              \* bound: bytes a side sends

VARIABLES client,   \* the connection the client has, 0 if none
          server,   \* splicerState->server, 0 for NULL
          made,     \* connections made so far; the later ones wait to be accepted
          accepted,
          open,     \* the connections whose server end is open and served
          up, down, \* bytes under way on each connection
          pipeToServer, pipeToClient,
          clientBufferWritten, serverBufferWritten,
          clientSent, clientReceived, serverSent, serverReceived,
          ofBuffers, \* how many of those sent came from the buffer, for each side
          running   \* between swSplicerStateNew and swSplicerStateDelete

splicerVars == <<client, server, made, accepted, open, up, down, pipeToServer, pipeToClient,
                 clientBufferWritten, serverBufferWritten, clientSent, clientReceived,
                 serverSent, serverReceived, ofBuffers, running>>
ends == <<client, server, made, accepted, open, running>>
clientSide == <<clientBufferWritten, clientSent, clientReceived>>
serverSide == <<serverBufferWritten, serverSent, serverReceived>>

Connections == 1..MaxConnections

\* swSplicerStateNew, when all of it succeeds: the client is connecting.
Init ==
  /\ client = 0 /\ server = 0 /\ made = 0 /\ accepted = 0 /\ open = {} /\ running = TRUE
  /\ up = [i \in Connections |-> 0] /\ down = [i \in Connections |-> 0]
  /\ pipeToServer = 0 /\ pipeToClient = 0
  /\ clientBufferWritten = FALSE /\ serverBufferWritten = FALSE
  /\ clientSent = 0 /\ clientReceived = 0 /\ serverSent = 0 /\ serverReceived = 0
  /\ ofBuffers = [side \in {"client", "server"} |-> 0]

\* The client, which connects again by itself, is connected once the system has put it
\* into the acceptor's queue.
ClientConnected ==
  /\ running /\ client = 0 /\ made < MaxConnections
  /\ client' = made + 1 /\ made' = made + 1
  /\ UNCHANGED <<server, accepted, open, running, up, down, pipeToServer, pipeToClient,
                 clientSide, serverSide, ofBuffers>>

\* onConnectionSetup: while there is a server no other is taken; the acceptor closes
\* the one refused.
ConnectionSetup ==
  /\ running /\ accepted < made
  /\ accepted' = accepted + 1
  /\ IF server = 0
     THEN server' = accepted + 1 /\ open' = open \cup {accepted + 1}
     ELSE UNCHANGED <<server, open>>
  /\ UNCHANGED <<client, made, running, up, down, pipeToServer, pipeToClient,
                 clientSide, serverSide, ofBuffers>>

\* A pipe takes what has room, and a splice may move less than there is.
Room(pipe) == PipeSize - pipe

\* onServerReadReady
ServerReadReady ==
  \E i \in open, n \in 1..Room(pipeToClient) :
    /\ running /\ n <= up[i]
    /\ up' = [up EXCEPT ![i] = @ - n]
    /\ pipeToClient' = pipeToClient + n /\ serverReceived' = serverReceived + n
    /\ UNCHANGED <<ends, down, pipeToServer, clientSide, serverBufferWritten, serverSent, ofBuffers>>

\* onServerWriteReady
ServerWriteReady ==
  \E i \in open, n \in 1..BufferSize :
    /\ running /\ serverSent + n <= MaxBytes
    /\ IF serverBufferWritten
       THEN /\ n <= pipeToServer /\ pipeToServer' = pipeToServer - n
            /\ UNCHANGED <<serverBufferWritten, ofBuffers>>
       ELSE /\ serverBufferWritten' = TRUE
            /\ ofBuffers' = [ofBuffers EXCEPT !["server"] = @ + n]
            /\ UNCHANGED pipeToServer
    /\ serverSent' = serverSent + n
    /\ down' = [down EXCEPT ![i] = @ + n]
    /\ UNCHANGED <<ends, up, pipeToClient, clientSide, serverReceived>>

\* onServerClose, of a connection that ended, failed or was silent for too long
ServerClose ==
  \E i \in open :
    /\ running
    /\ open' = open \ {i} /\ server' = 0 /\ serverBufferWritten' = FALSE
    /\ up' = [up EXCEPT ![i] = 0]
    /\ UNCHANGED <<client, made, accepted, running, down, pipeToServer, pipeToClient,
                   clientSide, serverSent, serverReceived, ofBuffers>>

\* onClientReadReady
ClientReadReady ==
  \E n \in 1..Room(pipeToServer) :
    /\ running /\ client # 0 /\ n <= down[client]
    /\ down' = [down EXCEPT ![client] = @ - n]
    /\ pipeToServer' = pipeToServer + n /\ clientReceived' = clientReceived + n
    /\ UNCHANGED <<ends, up, pipeToClient, serverSide, clientBufferWritten, clientSent, ofBuffers>>

\* Mutant: the client sends what is in the pipe to the server.
ClientWriteReadyWrongPipe ==
  \E n \in 1..BufferSize :
    /\ running /\ client # 0 /\ clientSent + n <= MaxBytes
    /\ IF clientBufferWritten
       THEN /\ n <= pipeToServer /\ pipeToServer' = pipeToServer - n
            /\ UNCHANGED <<pipeToClient, clientBufferWritten, ofBuffers>>
       ELSE /\ clientBufferWritten' = TRUE
            /\ ofBuffers' = [ofBuffers EXCEPT !["client"] = @ + n]
            /\ UNCHANGED <<pipeToServer, pipeToClient>>
    /\ clientSent' = clientSent + n
    /\ up' = [up EXCEPT ![client] = @ + n]
    /\ UNCHANGED <<ends, down, serverSide, clientReceived>>

\* onClientWriteReady
ClientWriteReady ==
  \E n \in 1..BufferSize :
    /\ running /\ client # 0 /\ clientSent + n <= MaxBytes
    /\ IF clientBufferWritten
       THEN /\ n <= pipeToClient /\ pipeToClient' = pipeToClient - n
            /\ UNCHANGED <<clientBufferWritten, ofBuffers>>
       ELSE /\ clientBufferWritten' = TRUE
            /\ ofBuffers' = [ofBuffers EXCEPT !["client"] = @ + n]
            /\ UNCHANGED pipeToClient
    /\ clientSent' = clientSent + n
    /\ up' = [up EXCEPT ![client] = @ + n]
    /\ UNCHANGED <<ends, down, pipeToServer, serverSide, clientReceived>>

\* onClientClose
ClientClose ==
  /\ running /\ client # 0
  /\ client' = 0 /\ clientBufferWritten' = FALSE
  /\ down' = [down EXCEPT ![client] = 0]
  /\ UNCHANGED <<server, made, accepted, open, running, up, pipeToServer, pipeToClient,
                 clientSent, clientReceived, serverSide, ofBuffers>>

\* swSplicerStateDelete closes both ends and the pipes; only the server it knows of is
\* stopped.
StateDelete ==
  /\ running /\ running' = FALSE
  /\ client' = 0 /\ server' = 0 /\ open' = open \ {server}
  /\ pipeToServer' = 0 /\ pipeToClient' = 0
  /\ clientReceived' = 0 /\ serverReceived' = 0 /\ clientSent' = 0 /\ serverSent' = 0
  /\ ofBuffers' = [side \in {"client", "server"} |-> 0]
  /\ clientBufferWritten' = FALSE /\ serverBufferWritten' = FALSE
  /\ UNCHANGED <<made, accepted, up, down>>

Next ==
  \/ ClientConnected \/ ConnectionSetup \/ ServerReadReady \/ ServerWriteReady \/ ServerClose
  \/ ClientReadReady \/ ClientWriteReady \/ ClientClose \/ StateDelete

\* The pipes hold what one side received and the other has not sent on, over all the
\* connections, and the splicer knows the one server it has, until it is deleted.
PipesConserve ==
  /\ pipeToClient + clientSent = serverReceived + ofBuffers["client"]
  /\ pipeToServer + serverSent = clientReceived + ofBuffers["server"]
  /\ open = {server} \ {0}
=============================================================================
