--------------------------- MODULE TrafficClient ----------------------------
(***************************************************************************)
(* The client side of the traffic generator and what one connection sends: *)
(* src/tools/traffic-generator/traffic-client.c and traffic-connection.c.   *)
(* A client is asked for every connection of every port; NetClient is what  *)
(* each of them does afterwards.                                            *)
(***************************************************************************)
EXTENDS Naturals, Sequences

CONSTANTS MaxPorts,       \* bound: ports given on the command line
          MaxConnections  \* bound: connections for each port

VARIABLES wanted,   \* the number of connections asked for, for each port
          clients,  \* for each port, the clients whose data is in its array
          counted,  \* storageDataArray->count: how many of them the port owns up to
          sending,  \* the clients told of their connection: interval timer or retry
          state     \* "none", "up" or "done"

clientVars == <<wanted, clients, counted, sending, state>>

Ports == DOMAIN wanted
Of(port) == {port} \X (1..wanted[port])
Alive == UNION {clients[p] : p \in Ports}

Init ==
  /\ wanted \in UNION {[1..n -> 1..MaxConnections] : n \in 1..MaxPorts}
  /\ clients = [p \in DOMAIN wanted |-> {}]
  /\ counted = [p \in DOMAIN wanted |-> 0]
  /\ sending = {} /\ state = "none"

\* swTrafficClientCreate for one connection after the other, until one fails.
Created(failed) ==
  [p \in Ports |-> {q \in Of(p) : q[1] < failed[1] \/ (q[1] = failed[1] /\ q[2] < failed[2])}]

\* What swTrafficClientStop stops and deletes, given what the ports own up to.
Destroyed(own) == [p \in Ports |-> {q \in Of(p) : q[2] <= own[p]}]

\* swTrafficClientStart: all are created and counted; or the start fails, and what
\* the complete ports own is stopped again: the port that failed has counted none.
Start ==
  /\ state = "none"
  /\ \/ /\ clients' = [p \in Ports |-> Of(p)]
        /\ counted' = wanted /\ state' = "up"
     \/ \E failed \in UNION {Of(p) : p \in Ports} :
          LET own == [p \in Ports |-> IF p < failed[1] THEN wanted[p] ELSE 0]
          IN /\ clients' = [p \in Ports |-> Created(failed)[p] \ Destroyed(own)[p]]
             /\ counted' = own /\ state' = "done"
  /\ UNCHANGED <<wanted, sending>>

Stop ==
  /\ state = "up" /\ state' = "done"
  /\ clients' = [p \in Ports |-> clients[p] \ Destroyed(counted)[p]]
  /\ sending' = sending \ UNION {Destroyed(counted)[p] : p \in Ports}
  /\ UNCHANGED <<wanted, counted>>

\* onClientConnected: the interval timer is started, if there is one, and the first
\* message goes out; or, if it cannot be started, the client is closed.
ClientConnected ==
  /\ state = "up"
  /\ \E q \in Alive : sending' = sending \cup {q}
  /\ UNCHANGED <<wanted, clients, counted, state>>

\* onClientClose
ClientClose ==
  /\ \E q \in sending : sending' = sending \ {q}
  /\ UNCHANGED <<wanted, clients, counted, state>>

Next == Start \/ Stop \/ ClientConnected \/ ClientClose

\* Once stopped, be it by a start that failed halfway, no client of a port that
\* had all of its clients is left, and no timer is that of a client that is gone.
StopStopsAll ==
  /\ state = "done" => \A p \in Ports : counted[p] = wanted[p] => clients[p] = {}
  /\ sending \subseteq Alive
=============================================================================
