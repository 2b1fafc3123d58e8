--------------------------- MODULE TrafficServer ----------------------------
(***************************************************************************)
(* The server side of the traffic generator,                               *)
(* src/tools/traffic-generator/traffic-server.c: what it knows of each      *)
(* connection lies in an array of slots, one array for each acceptor (one   *)
(* acceptor here), and a connection that closes gives its slot back.        *)
(***************************************************************************)
EXTENDS Naturals, Sequences

CONSTANTS Servers   \* bound: the connections accepted, each by a name of its own

VARIABLES slots,     \* the server of each slot, NoServer if it has none
          firstFree, \* position of the slot the next connection takes
          slotOf,    \* the slot a connection set up was given; 0 for no such connection
          used       \* the connections accepted so far

trafficVars == <<slots, firstFree, slotOf, used>>

NoServer == 0

Init == slots = <<>> /\ firstFree = 1 /\ slotOf = [s \in Servers |-> 0] /\ used = {}

Open == {s \in Servers : slotOf[s] # 0}

\* The positions from p on, up to the first that is past the end or taken.
FirstTakenFrom(conn, p) ==
  CHOOSE q \in p..(Len(conn) + 1) :
    /\ q = Len(conn) + 1 \/ conn[q] # NoServer
    /\ \A r \in p..(q - 1) : conn[r] = NoServer

\* onConnectionSetup: the connection takes the free slot if there is one, and
\* firstFree moves on to the next position; or a slot is made.  If the timer that
\* sends cannot be started the connection is deleted, without its slot.
ConnectionSetup(s) ==
  /\ s \notin used /\ used' = used \cup {s}
  /\ \E started \in BOOLEAN :
       /\ IF firstFree <= Len(slots)
          THEN /\ slots' = [slots EXCEPT ![firstFree] = IF started THEN s ELSE NoServer]
               /\ firstFree' = FirstTakenFrom(slots, firstFree + 1)
          ELSE /\ slots' = Append(slots, IF started THEN s ELSE NoServer)
               /\ firstFree' = firstFree + 1
       /\ slotOf' = IF started THEN [slotOf EXCEPT ![s] = firstFree] ELSE slotOf

\* Mutant: the slot keeps the pointer to the connection.
ServerCloseKept(s) ==
  /\ s \in Open /\ slots # <<>>
  /\ firstFree' = IF firstFree > slotOf[s] THEN slotOf[s] ELSE firstFree
  /\ slotOf' = [slotOf EXCEPT ![s] = 0]
  /\ UNCHANGED <<slots, used>>

\* onServerClose: the slot is free again, and firstFree the first one as far as it
\* knows; the connection is deleted.
ServerClose(s) ==
  /\ s \in Open /\ slots # <<>>
  /\ slots' = [slots EXCEPT ![slotOf[s]] = NoServer]
  /\ firstFree' = IF firstFree > slotOf[s] THEN slotOf[s] ELSE firstFree
  /\ slotOf' = [slotOf EXCEPT ![s] = 0]
  /\ UNCHANGED used

\* swTrafficServerStop closes the connection of every slot and frees the slots.
Stop ==
  /\ slots # <<>> /\ slots' = <<>> /\ firstFree' = 1
  /\ slotOf' = [s \in Servers |->
                  IF \E i \in DOMAIN slots : slots[i] = s THEN 0 ELSE slotOf[s]]
  /\ used' = Servers

Next == Stop \/ \E s \in Servers : ConnectionSetup(s) \/ ServerClose(s)

\* A slot points only to a connection that is open: swTrafficServerStop stops what
\* it points to.
SlotsLive == \A i \in DOMAIN slots : slots[i] # NoServer => slots[i] \in Open

\* The slot a connection takes is free, as the trace of onConnectionSetup says: no
\* two open connections share one.
SlotsExclusive == \A s, t \in Open : s # t => slotOf[s] # slotOf[t]
=============================================================================
