----------------------------- MODULE SystemProofs -----------------------------
(***************************************************************************)
(* Proofs about the parts around the event loop.  Each has an invariant of  *)
(* its own, which the steps of the others leave alone.                      *)
(***************************************************************************)
EXTENDS SystemMC, FunctionTheorems, SequenceTheorems, FiniteSetTheorems, WellFoundedInduction,
        TLAPS

\* A step of the system is one of each part, or leaves its variables alone.
LEMMA StepsApart ==
  ASSUME [SystemNext]_systemVars
  PROVE  /\ Log!Next \/ UNCHANGED logVars
         /\ Programs!Next \/ UNCHANGED progVars
         /\ Traffic!Next \/ UNCHANGED <<slots, firstFree, slotOf, used>>
         /\ Sources!Next \/ UNCHANGED <<wanted, clients, counted, sending, state>>
         /\ Splice!Next \/ UNCHANGED spliceVars
         /\ Line!Next \/ UNCHANGED lineVars
         /\ Tests!Next \/ UNCHANGED testVars
<1>1. CASE UNCHANGED systemVars
  BY <1>1 DEF systemVars, trafficVars
<1>2. CASE SystemNext
  BY <1>2 DEF SystemNext, trafficVars
<1> QED  BY <1>1, <1>2

-----------------------------------------------------------------------------
(* The splicer                                                               *)

\* What is conserved, and that the amounts are numbers.
SpliceInv ==
  /\ accepted \in Nat
  /\ pipeToClient \in Nat /\ pipeToServer \in Nat /\ clientSent \in Nat /\ serverSent \in Nat
  /\ clientReceived \in Nat /\ serverReceived \in Nat
  /\ ofBuffers \in [{"client", "server"} -> Nat]
  /\ Splice!PipesConserve

\* Every step of the splicer conserves the bytes.
LEMMA PipesStep ==
  ASSUME SpliceInv, Splice!Next \/ UNCHANGED spliceVars
  PROVE  SpliceInv'
<1> USE DEF Splice!clientSide, Splice!serverSide, Splice!ends
<1>1. CASE Splice!ClientConnected
  BY <1>1 DEF Splice!ClientConnected, SpliceInv, Splice!PipesConserve
<1>2. CASE Splice!ConnectionSetup
  BY <1>2 DEF Splice!ConnectionSetup, SpliceInv, Splice!PipesConserve
<1>3. CASE Splice!ServerReadReady
  <2>1. PICK n \in Nat :
          /\ pipeToClient' = pipeToClient + n /\ serverReceived' = serverReceived + n
          /\ UNCHANGED <<server, accepted, served, pipeToServer, clientSent, clientReceived,
                         serverSent, ofBuffers>>
    BY <1>3, SystemAssumption DEF Splice!ServerReadReady, Splice!Room, SpliceInv
  <2> QED  BY <2>1 DEF SpliceInv, Splice!PipesConserve
<1>4. CASE Splice!ServerWriteReady
  <2>1. PICK n \in Nat :
          /\ IF serverBufferWritten
             THEN /\ n <= pipeToServer /\ pipeToServer' = pipeToServer - n
                  /\ UNCHANGED ofBuffers
             ELSE /\ ofBuffers' = [ofBuffers EXCEPT !["server"] = @ + n]
                  /\ UNCHANGED pipeToServer
          /\ serverSent' = serverSent + n
          /\ UNCHANGED <<server, accepted, served, pipeToClient, clientSent, clientReceived,
                         serverReceived>>
    BY <1>4, SystemAssumption DEF Splice!ServerWriteReady
  <2> QED  BY <2>1 DEF SpliceInv, Splice!PipesConserve
<1>5. CASE Splice!ServerClose
  BY <1>5 DEF Splice!ServerClose, SpliceInv, Splice!PipesConserve
<1>6. CASE Splice!ClientReadReady
  <2>1. PICK n \in Nat :
          /\ pipeToServer' = pipeToServer + n /\ clientReceived' = clientReceived + n
          /\ UNCHANGED <<server, accepted, served, pipeToClient, clientSent, serverReceived,
                         serverSent, ofBuffers>>
    BY <1>6, SystemAssumption DEF Splice!ClientReadReady, Splice!Room, SpliceInv
  <2> QED  BY <2>1 DEF SpliceInv, Splice!PipesConserve
<1>7. CASE Splice!ClientWriteReady
  <2>1. PICK n \in Nat :
          /\ IF clientBufferWritten
             THEN /\ n <= pipeToClient /\ pipeToClient' = pipeToClient - n
                  /\ UNCHANGED ofBuffers
             ELSE /\ ofBuffers' = [ofBuffers EXCEPT !["client"] = @ + n]
                  /\ UNCHANGED pipeToClient
          /\ clientSent' = clientSent + n
          /\ UNCHANGED <<server, accepted, served, pipeToServer, clientReceived,
                         serverSent, serverReceived>>
    BY <1>7, SystemAssumption DEF Splice!ClientWriteReady
  <2> QED  BY <2>1 DEF SpliceInv, Splice!PipesConserve
<1>8. CASE Splice!ClientClose
  BY <1>8 DEF Splice!ClientClose, SpliceInv, Splice!PipesConserve
<1>9. CASE Splice!StateDelete
  BY <1>9 DEF Splice!StateDelete, SpliceInv, Splice!PipesConserve
<1>10. CASE UNCHANGED spliceVars
  BY <1>10 DEF spliceVars, SpliceInv, Splice!PipesConserve
<1> QED
  BY <1>1, <1>2, <1>3, <1>4, <1>5, <1>6, <1>7, <1>8, <1>9, <1>10 DEF Splice!Next

\* The splicer's pipes hold what one side received and the other has not sent on, over all
\* connections and for any size of pipes and buffers (onServerReadReady to onClientClose,
\* src/tools/splicer/splicer-state.c), and it knows the one server it has.
THEOREM PipesConserved == SystemSpec => []PipesConserve
<1>1. SystemInit => SpliceInv
  BY DEF SystemInit, Splice!Init, SpliceInv, Splice!PipesConserve
<1>2. SpliceInv /\ [SystemNext]_systemVars => SpliceInv'
  BY PipesStep, StepsApart
<1>3. SpliceInv => PipesConserve
  BY DEF SpliceInv, PipesConserve
<1> QED  BY <1>1, <1>2, <1>3, PTL DEF SystemSpec

-----------------------------------------------------------------------------
(* The log manager                                                           *)

\* Every step of the log manager leaves no logger with a manager that is gone.
LEMMA LogStep ==
  ASSUME Log!NoneDangles, Log!Next \/ UNCHANGED logVars
  PROVE  Log!NoneDangles'
<1>1. CASE Log!ManagerNew
  BY <1>1 DEF Log!ManagerNew, Log!Collect, Log!NoneDangles
<1>2. CASE Log!WriterAdd
  BY <1>2 DEF Log!WriterAdd, Log!NoneDangles
<1>3. CASE Log!ManagerDelete
  BY <1>3 DEF Log!ManagerDelete, Log!NoneDangles
<1>4. CASE Log!Consume
  BY <1>4 DEF Log!Consume, Log!NoneDangles
<1>5. ASSUME NEW t \in LogThreads, Log!Acquire(t) \/ Log!Release(t) PROVE Log!NoneDangles'
  BY <1>5 DEF Log!Acquire, Log!Release, Log!NoneDangles
<1>6. CASE UNCHANGED logVars
  BY <1>6 DEF logVars, Log!NoneDangles
<1> QED  BY <1>1, <1>2, <1>3, <1>4, <1>5, <1>6 DEF Log!Next

\* A logger points to the manager only while there is one: the loggers collected before two
\* turn out to have one name are taken back, and a delete frees all (src/log/log-manager.c).
THEOREM LoggersFreed == SystemSpec => []NoneDangles
<1>1. SystemInit => NoneDangles
  BY DEF SystemInit, Log!Init, NoneDangles, Log!NoneDangles
<1>2. NoneDangles /\ [SystemNext]_systemVars => NoneDangles'
  BY LogStep, StepsApart DEF NoneDangles
<1> QED  BY <1>1, <1>2, PTL DEF SystemSpec

-----------------------------------------------------------------------------
(* The modules of a program                                                  *)

\* The first k modules of the list, and how many of them are up.
Upto(k) == {modules[i] : i \in 1 .. k}
Started ==
  CASE phase = "starting" -> at - 1
    [] phase = "running" -> Len(modules)
    [] phase = "stopping" -> at
    [] OTHER -> 0

\* What is up is the beginning of the list, and each module of it needs only ones before it:
\* that is why stopping from the last to the first takes from none what it needs.
ProgramInv ==
  /\ phase \in {"starting", "running", "stopping", "done"}
  /\ at \in Nat /\ Len(modules) \in Nat
  /\ phase = "starting" => at > 0
  /\ Started <= Len(modules) /\ up = Upto(Started)
  /\ \A i, j \in 1 .. Len(modules) : modules[i] = modules[j] => i = j
  /\ \A i \in 1 .. Started : Programs!Needs(modules[i]) \subseteq Upto(i - 1)

\* What a module needs depends only on the options of the program.
LEMMA NeedsKept ==
  ASSUME UNCHANGED async
  PROVE  \A m : Programs!Needs(m)' = Programs!Needs(m)
BY DEF Programs!Needs, Programs!EdgeLoopNeeds, Programs!EdgeSignalsNeed,
       Programs!ThreadManagerNeeds, Programs!LogManagerNeeds, Programs!CPUTimerNeeds,
       Programs!CommandLineNeeds, Programs!InterfaceNeeds, Programs!TrafficClientNeeds,
       Programs!TrafficServerNeeds, Programs!SplicerNeeds, Programs!CommunicatorNeeds,
       Programs!CallTreeNeeds

\* The lists of the four programs have no module twice.
LEMMA ProgramStarts ==
  ASSUME SystemInit
  PROVE  ProgramInv
<1>1. phase = "starting" /\ at = 1 /\ up = {}
  BY DEF SystemInit, Programs!Init
<1>2. \/ modules = Programs!trafficModules \/ modules = Programs!splicerModules
      \/ modules = Programs!icmpv6Modules \/ modules = Programs!callTreeModules
  BY DEF SystemInit, Programs!Init
<1>3. Len(modules) \in Nat
  BY <1>2 DEF Programs!trafficModules, Programs!splicerModules, Programs!icmpv6Modules,
              Programs!callTreeModules
<1>4. \A i, j \in 1 .. Len(modules) : modules[i] = modules[j] => i = j
  <2>1. CASE modules = Programs!trafficModules
    BY <2>1 DEF Programs!trafficModules
  <2>2. CASE modules = Programs!splicerModules
    BY <2>2 DEF Programs!splicerModules
  <2>3. CASE modules = Programs!icmpv6Modules
    BY <2>3 DEF Programs!icmpv6Modules
  <2>4. CASE modules = Programs!callTreeModules
    BY <2>4 DEF Programs!callTreeModules
  <2> QED  BY <1>2, <2>1, <2>2, <2>3, <2>4
<1>5. Started = 0 /\ Upto(0) = {}
  BY <1>1 DEF Started, Upto
<1> QED  BY <1>1, <1>3, <1>4, <1>5 DEF ProgramInv

\* Starting, rolling back and stopping keep the beginning of the list up.
LEMMA ProgramStep ==
  ASSUME ProgramInv, Programs!Next \/ UNCHANGED progVars
  PROVE  ProgramInv'
<1>1. UNCHANGED <<modules, async>>
  BY DEF Programs!Next, Programs!Start, Programs!Run, Programs!SignalReceived, Programs!Stop,
         progVars
<1>2. \A m : Programs!Needs(m)' = Programs!Needs(m)
  BY <1>1, NeedsKept
<1>3. \A k : Upto(k)' = Upto(k)
  BY <1>1 DEF Upto
<1>4. ASSUME phase' \in {"starting", "running", "stopping", "done"}, at' \in Nat,
             phase' = "starting" => at' > 0,
             Started' <= Len(modules), up' = Upto(Started'),
             \A i \in 1 .. Started' : Programs!Needs(modules[i]) \subseteq Upto(i - 1)
      PROVE  ProgramInv'
  <2>1. \A i \in 1 .. Started' : Programs!Needs(modules[i])' = Programs!Needs(modules[i])
                                 /\ Upto(i - 1)' = Upto(i - 1)
    BY <1>1, <1>2, <1>3 DEF Programs!Needs
  <2>2. Upto(Started)' = Upto(Started')
    BY <1>1 DEF Upto
  <2> QED  BY <1>1, <1>4, <2>1, <2>2 DEF ProgramInv
<1>5. CASE Programs!Start
  <2>1. /\ phase = "starting" /\ at \in Nat /\ at > 0 /\ at <= Len(modules) /\ Len(modules) \in Nat
        /\ Started = at - 1
    BY <1>5 DEF Programs!Start, ProgramInv, Started
  <2>2. CASE Programs!Needs(modules[at]) \subseteq up /\ up' = up \cup {modules[at]}
             /\ at' = at + 1 /\ phase' = phase
    <3>1. Started' = at /\ at \in Nat /\ at' \in Nat /\ at' > 0
      BY <2>1, <2>2 DEF Started
    <3>2. up = Upto(at - 1)
      BY <2>1 DEF ProgramInv
    <3>3. 1 .. at = (1 .. (at - 1)) \cup {at}
      BY <2>1
    <3>4. Upto(at) = Upto(at - 1) \cup {modules[at]}
      BY <3>3 DEF Upto
    <3>5. ASSUME NEW i \in 1 .. at
          PROVE  Programs!Needs(modules[i]) \subseteq Upto(i - 1)
      <4>1. i \in 1 .. (at - 1) \/ i = at
        BY <3>3
      <4> QED  BY <2>1, <2>2, <3>2, <4>1 DEF ProgramInv
    <3> QED  BY <1>4, <2>1, <2>2, <3>1, <3>2, <3>4, <3>5
  <2>3. CASE at' = at - 1 /\ phase' = "stopping" /\ up' = up
    <3>1. Started' = at - 1 /\ at' \in Nat
      BY <2>1, <2>3 DEF Started
    <3> QED  BY <1>4, <2>1, <2>3, <3>1 DEF ProgramInv
  <2> QED  BY <1>5, <2>2, <2>3 DEF Programs!Start
<1>6. CASE Programs!Run
  <2>1. /\ phase' = "running" /\ Started' = Len(modules) /\ Started = Len(modules)
        /\ up' = up /\ at' = at
    <3>1. /\ phase = "starting" /\ at \in Nat /\ Len(modules) \in Nat /\ at > Len(modules)
          /\ at - 1 <= Len(modules) /\ Started = at - 1
      BY <1>6 DEF Programs!Run, ProgramInv, Started
    <3>2. at - 1 = Len(modules)
      BY <3>1
    <3> QED  BY <1>1, <1>6, <3>1, <3>2 DEF Programs!Run, Started
  <2> QED  BY <1>4, <2>1 DEF ProgramInv
<1>7. CASE Programs!SignalReceived
  <2>1. /\ phase' = "stopping" /\ Started' = Len(modules) /\ Started = Len(modules)
        /\ up' = up /\ at' = Len(modules)
    BY <1>7 DEF Programs!SignalReceived, Started
  <2> QED  BY <1>4, <2>1 DEF ProgramInv
<1>8. CASE Programs!Stop
  <2>1. phase = "stopping" /\ Started = at /\ at \in Nat /\ at <= Len(modules)
    BY <1>8 DEF Programs!Stop, ProgramInv, Started
  <2>2. CASE at > 0 /\ up' = up \ {modules[at]} /\ at' = at - 1 /\ phase' = phase
    <3>1. Started' = at - 1 /\ at' \in Nat /\ at - 1 <= Len(modules)
      BY <2>1, <2>2 DEF Started, ProgramInv
    <3>2. up = Upto(at)
      BY <2>1 DEF ProgramInv
    <3>3. 1 .. at = (1 .. (at - 1)) \cup {at}
      BY <2>1, <2>2
    <3>4. \A i \in 1 .. (at - 1) : modules[i] # modules[at]
      <4>1. \A i \in 1 .. (at - 1) : i \in 1 .. Len(modules) /\ i # at
        BY <2>1 DEF ProgramInv
      <4>2. at \in 1 .. Len(modules)
        BY <2>1, <2>2 DEF ProgramInv
      <4> QED  BY <4>1, <4>2 DEF ProgramInv
    <3>5. Upto(at - 1) = Upto(at) \ {modules[at]}
      BY <3>3, <3>4 DEF Upto
    <3>6. \A i \in 1 .. (at - 1) : Programs!Needs(modules[i]) \subseteq Upto(i - 1)
      BY <2>1, <3>3 DEF ProgramInv
    <3> QED  BY <1>4, <2>1, <2>2, <3>1, <3>2, <3>5, <3>6
  <2>3. CASE ~(at > 0) /\ phase' = "done" /\ up' = up /\ at' = at
    <3>1. Started' = 0 /\ Started = 0
      BY <2>1, <2>3 DEF Started
    <3> QED  BY <1>4, <2>3, <3>1 DEF ProgramInv
  <2> QED  BY <1>8, <2>2, <2>3 DEF Programs!Stop
<1>9. CASE UNCHANGED progVars
  <2>1. Started' = Started /\ up' = up /\ at' = at /\ phase' = phase
    BY <1>9 DEF progVars, Started
  <2> QED  BY <1>4, <2>1 DEF ProgramInv
<1> QED  BY <1>5, <1>6, <1>7, <1>8, <1>9 DEF Programs!Next

\* Each module that is up has what it needs, as that lies before it.
LEMMA ProgramNeeds ==
  ASSUME ProgramInv
  PROVE  NeedsMet
<1>1. ASSUME NEW i \in 1 .. Started
      PROVE  Programs!Needs(modules[i]) \subseteq up
  <2>1. Started \in Nat
    BY DEF ProgramInv, Started
  <2>2. \A j \in 1 .. (i - 1) : j \in 1 .. Started
    BY <2>1
  <2>3. Upto(i - 1) \subseteq Upto(Started)
    BY <2>2 DEF Upto
  <2> QED  BY <2>3 DEF ProgramInv
<1>2. \A m \in up : Programs!Needs(m) \subseteq up
  BY <1>1 DEF ProgramInv, Upto
<1>3. phase = "done" => up = {}
  BY DEF ProgramInv, Started, Upto
<1> QED  BY <1>2, <1>3 DEF NeedsMet, Programs!NeedsMet

\* Whatever module is started has what it needs until it is stopped, also when the start of a
\* later one fails and swInitStart rolls back, and a program that ends has stopped all
\* (src/init/init.c).
THEOREM ModulesServed == SystemSpec => []NeedsMet
<1>1. SystemInit => ProgramInv
  BY ProgramStarts
<1>2. ProgramInv /\ [SystemNext]_systemVars => ProgramInv'
  BY ProgramStep, StepsApart
<1>3. ProgramInv => NeedsMet
  BY ProgramNeeds
<1> QED  BY <1>1, <1>2, <1>3, PTL DEF SystemSpec

-----------------------------------------------------------------------------
(* The traffic generator                                                     *)

\* Every set of positions that is not empty has a first one.
LEMMA FirstOne ==
  ASSUME NEW S, S \subseteq Nat, S # {}
  PROVE  \E q \in S : \A r \in S : q <= r
<1>1. IsWellFoundedOn(OpToRel(<, Nat), Nat)
  BY NatLessThanWellFounded
<1>2. PICK q \in S : \A r \in S : ~(<<r, q>> \in OpToRel(<, Nat))
  BY <1>1, WFMin
<1>3. \A r \in S : r < q => <<r, q>> \in OpToRel(<, Nat)
  BY <1>2 DEF OpToRel
<1>4. \A r \in S : ~(r < q)
  BY <1>2, <1>3, Zenon
<1>5. \A r \in S : q <= r
  BY <1>4
<1> QED  BY <1>5

\* Replacing an element, which may lie outside, leaves a sequence as long as it was.
LEMMA Replaced ==
  ASSUME NEW s \in Seq(Nat), NEW k \in Nat, NEW v \in Nat
  PROVE  [s EXCEPT ![k] = v] \in Seq(Nat) /\ Len([s EXCEPT ![k] = v]) = Len(s)
<1>1. CASE k \in 1 .. Len(s)
  BY <1>1, ExceptSeq
<1>2. CASE k \notin 1 .. Len(s)
  <2>1. DOMAIN s = 1 .. Len(s) /\ s = [i \in DOMAIN s |-> s[i]]
    OBVIOUS
  <2>2. [s EXCEPT ![k] = v] = s
    BY <1>2, <2>1
  <2> QED  BY <2>2
<1> QED  BY <1>1, <1>2

\* A slot and the connection in it name each other; a connection that lost its slot to another
\* one is named by none.
SlotInv ==
  /\ slots \in Seq(Nat) /\ firstFree \in 1 .. Len(slots) + 1
  /\ slotOf \in [1 .. MaxServers -> Nat]
  /\ \A s \in 1 .. MaxServers : slotOf[s] # 0 => s \in used
  /\ \A i \in 1 .. Len(slots) : slots[i] # 0 =>
       slots[i] \in 1 .. MaxServers /\ slotOf[slots[i]] = i

\* The search for a slot that is taken ends, at the end of the slots at the latest.
LEMMA TakenInRange ==
  ASSUME NEW conn \in Seq(Nat), NEW p \in Nat, p <= Len(conn) + 1
  PROVE  Traffic!FirstTakenFrom(conn, p) \in p .. Len(conn) + 1
<1> DEFINE Taken(q) == q = Len(conn) + 1 \/ conn[q] # 0
           S == {q \in p .. Len(conn) + 1 : Taken(q)}
<1>1. Len(conn) \in Nat /\ Len(conn) + 1 \in S /\ S \subseteq Nat
  OBVIOUS
<1>2. PICK q \in S : \A r \in S : q <= r
  <2> HIDE DEF S
  <2> QED  BY <1>1, FirstOne
<1>3. ASSUME NEW r \in p .. (q - 1)
      PROVE  conn[r] = 0
  <2>1. r \in p .. Len(conn) + 1 /\ ~(q <= r)
    BY <1>1, <1>2
  <2> QED  BY <1>2, <2>1
<1>4. \E x \in p .. (Len(conn) + 1) :
         /\ x = Len(conn) + 1 \/ conn[x] # 0
         /\ \A r \in p .. (x - 1) : conn[r] = 0
  BY <1>2, <1>3
<1> QED  BY <1>4 DEF Traffic!FirstTakenFrom, Traffic!NoServer

\* Setting up and closing connections in any order, and the stop, keep slots and connections
\* to each other.
LEMMA SlotStep ==
  ASSUME SlotInv, Traffic!Next \/ UNCHANGED <<slots, firstFree, slotOf, used>>
  PROVE  SlotInv'
<1>1. Len(slots) \in Nat /\ DOMAIN slots = 1 .. Len(slots)
      /\ firstFree \in Nat /\ firstFree > 0 /\ firstFree <= Len(slots) + 1
  BY DEF SlotInv
<1>2. CASE Traffic!Stop
  <2>1. /\ slots' = <<>> /\ firstFree' = 1 /\ used' = 1 .. MaxServers
        /\ slotOf' = [s \in 1 .. MaxServers |->
                        IF \E i \in DOMAIN slots : slots[i] = s THEN 0 ELSE slotOf[s]]
    BY <1>2 DEF Traffic!Stop
  <2>2. slotOf' \in [1 .. MaxServers -> Nat]
    BY <2>1 DEF SlotInv
  <2>3. Len(slots') = 0 /\ slots' \in Seq(Nat)
    BY <2>1
  <2> QED  BY <2>1, <2>2, <2>3 DEF SlotInv
<1>3. ASSUME NEW s \in 1 .. MaxServers, Traffic!ServerClose(s)
      PROVE  SlotInv'
  <2> DEFINE k == slotOf[s]
  <2>1. /\ k # 0 /\ k \in Nat /\ used' = used
        /\ slots' = [slots EXCEPT ![k] = 0]
        /\ firstFree' = (IF firstFree > k THEN k ELSE firstFree)
        /\ slotOf' = [slotOf EXCEPT ![s] = 0]
    BY <1>3 DEF Traffic!ServerClose, Traffic!Open, Traffic!NoServer, SlotInv
  <2>2. slots' \in Seq(Nat) /\ Len(slots') = Len(slots)
    <3>1. slots \in Seq(Nat) /\ k \in Nat
      BY <2>1 DEF SlotInv
    <3> HIDE DEF k
    <3> QED  BY <2>1, <3>1, Replaced
  <2>3. firstFree' \in 1 .. Len(slots) + 1
    BY <1>1, <2>1
  <2>4. slotOf' \in [1 .. MaxServers -> Nat] /\ slotOf'[s] = 0
        /\ \A t \in 1 .. MaxServers : t # s => slotOf'[t] = slotOf[t]
    BY <2>1 DEF SlotInv
  <2>5. ASSUME NEW i \in 1 .. Len(slots), slots'[i] # 0
        PROVE  slots'[i] \in 1 .. MaxServers /\ slotOf'[slots'[i]] = i
    <3>1. slots'[i] = slots[i] /\ i # k
      BY <1>1, <2>1, <2>5
    <3>2. slots[i] \in 1 .. MaxServers /\ slotOf[slots[i]] = i
      BY <2>5, <3>1 DEF SlotInv
    <3>3. slots[i] # s
      BY <3>1, <3>2
    <3> QED  BY <2>4, <3>1, <3>2, <3>3
  <2>6. \A t \in 1 .. MaxServers : slotOf'[t] # 0 => t \in used'
    BY <2>1, <2>4 DEF SlotInv
  <2> QED  BY <2>2, <2>3, <2>4, <2>5, <2>6 DEF SlotInv
<1>4. ASSUME NEW s \in 1 .. MaxServers, Traffic!ConnectionSetup(s)
      PROVE  SlotInv'
  <2>1. PICK started \in BOOLEAN :
          LET v == IF started THEN s ELSE 0
          IN  /\ s \notin used /\ used' = used \cup {s}
              /\ IF firstFree <= Len(slots)
                 THEN /\ slots' = [slots EXCEPT ![firstFree] = v]
                      /\ firstFree' = Traffic!FirstTakenFrom(slots, firstFree + 1)
                 ELSE slots' = Append(slots, v) /\ firstFree' = firstFree + 1
              /\ slotOf' = IF started THEN [slotOf EXCEPT ![s] = firstFree] ELSE slotOf
    BY <1>4 DEF Traffic!ConnectionSetup, Traffic!NoServer
  <2> DEFINE v == IF started THEN s ELSE 0
  <2>2. v \in Nat
    OBVIOUS
  <2>3. slotOf[s] = 0
    BY <2>1 DEF SlotInv
  <2>4. /\ slotOf' \in [1 .. MaxServers -> Nat]
        /\ started => slotOf'[s] = firstFree
        /\ ~started => slotOf'[s] = 0
        /\ \A t \in 1 .. MaxServers : t # s => slotOf'[t] = slotOf[t]
    BY <1>1, <2>1, <2>3 DEF SlotInv
  <2>5. \A t \in 1 .. MaxServers : slotOf'[t] # 0 => t \in used'
    BY <2>1, <2>4 DEF SlotInv
  <2>6. /\ slots' \in Seq(Nat) /\ firstFree' \in 1 .. Len(slots') + 1
        /\ firstFree \in 1 .. Len(slots') /\ slots'[firstFree] = v
        /\ \A i \in 1 .. Len(slots') : i # firstFree => i \in 1 .. Len(slots) /\ slots'[i] = slots[i]
    <3>1. CASE firstFree <= Len(slots)
      <4>1. slots' = [slots EXCEPT ![firstFree] = v]
            /\ firstFree' = Traffic!FirstTakenFrom(slots, firstFree + 1)
        BY <2>1, <3>1
      <4>2. firstFree' \in firstFree + 1 .. Len(slots) + 1
        BY <1>1, <3>1, <4>1, TakenInRange DEF SlotInv
      <4> HIDE DEF v
      <4>3. slots' \in Seq(Nat) /\ Len(slots') = Len(slots)
        <5>1. slots \in Seq(Nat)
          BY DEF SlotInv
        <5> QED  BY <1>1, <2>2, <4>1, <5>1, Replaced
      <4>4. \A i \in 1 .. Len(slots) : slots'[i] = IF i = firstFree THEN v ELSE slots[i]
        BY <1>1, <4>1
      <4> QED  BY <1>1, <3>1, <4>2, <4>3, <4>4
    <3>2. CASE ~(firstFree <= Len(slots))
      <4>1. slots' = Append(slots, v) /\ firstFree' = firstFree + 1
        BY <2>1, <3>2
      <4>2. firstFree = Len(slots) + 1
        BY <1>1, <3>2
      <4> HIDE DEF v
      <4>3. /\ slots' \in Seq(Nat) /\ Len(slots') = Len(slots) + 1
            /\ slots'[Len(slots) + 1] = v
            /\ \A i \in 1 .. Len(slots) : slots'[i] = slots[i]
        <5>1. slots \in Seq(Nat)
          BY DEF SlotInv
        <5> QED  BY <2>2, <4>1, <5>1, AppendProperties
      <4>4. firstFree' \in 1 .. Len(slots') + 1 /\ firstFree \in 1 .. Len(slots')
        <5>1. Len(slots') = firstFree /\ firstFree' = firstFree + 1
          BY <4>1, <4>2, <4>3
        <5> QED  BY <1>1, <5>1
      <4>5. \A i \in 1 .. Len(slots') : i # firstFree => i \in 1 .. Len(slots)
        BY <1>1, <4>2, <4>3
      <4> QED  BY <4>2, <4>3, <4>4, <4>5
    <3> QED  BY <3>1, <3>2
  <2>7. ASSUME NEW i \in 1 .. Len(slots'), slots'[i] # 0
        PROVE  slots'[i] \in 1 .. MaxServers /\ slotOf'[slots'[i]] = i
    <3>1. CASE i = firstFree
      <4>1. started /\ slots'[i] = s
        BY <2>6, <2>7, <3>1
      <4> QED  BY <2>4, <3>1, <4>1
    <3>2. CASE i # firstFree
      <4>1. i \in 1 .. Len(slots) /\ slots'[i] = slots[i] /\ slots[i] # 0 /\ i # 0
        BY <2>6, <2>7, <3>2
      <4>2. slots[i] \in 1 .. MaxServers /\ slotOf[slots[i]] = i
        BY <4>1 DEF SlotInv
      <4>3. slots[i] # s
        BY <2>3, <4>1, <4>2
      <4> QED  BY <2>4, <4>1, <4>2, <4>3
    <3> QED  BY <3>1, <3>2
  <2> QED  BY <2>4, <2>5, <2>6, <2>7 DEF SlotInv
<1>5. CASE UNCHANGED <<slots, firstFree, slotOf, used>>
  BY <1>5 DEF SlotInv
<1> QED  BY <1>2, <1>3, <1>4, <1>5 DEF Traffic!Next

\* Every client that is left belongs to a port, and a start that succeeded has counted them all.
ClientInv ==
  /\ state \in {"none", "up", "done"}
  /\ \A p \in DOMAIN wanted : wanted[p] \in Nat /\ clients[p] \subseteq Sources!Of(p)
  /\ state = "none" => sending = {}
  /\ state = "up" => counted = wanted
  /\ Sources!StopStopsAll

\* Starting, be it only in part, connecting, closing and stopping keep that.
LEMMA SourceStep ==
  ASSUME ClientInv, Sources!Next \/ UNCHANGED <<wanted, clients, counted, sending, state>>
  PROVE  ClientInv'
<1>1. ASSUME NEW p \in DOMAIN wanted, NEW own, own[p] = wanted[p]
      PROVE  Sources!Destroyed(own)[p] = Sources!Of(p)
  <2>1. \A q \in Sources!Of(p) : q[2] <= wanted[p]
    BY DEF ClientInv, Sources!Of
  <2> QED  BY <1>1, <2>1 DEF Sources!Destroyed, Sources!Ports
<1>2. UNCHANGED wanted /\ \A p : Sources!Of(p)' = Sources!Of(p)
  BY DEF Sources!Next, Sources!Start, Sources!Stop, Sources!ClientConnected,
         Sources!ClientClose, Sources!Of
<1>3. CASE Sources!Start
  <2>1. state = "none" /\ sending' = {}
    BY <1>3 DEF Sources!Start, ClientInv
  <2>2. CASE clients' = [p \in Sources!Ports |-> Sources!Of(p)] /\ counted' = wanted
             /\ state' = "up"
    <3>1. \A p \in DOMAIN wanted : clients'[p] \subseteq Sources!Of(p)
      BY <2>2 DEF Sources!Ports
    <3> QED  BY <1>2, <2>1, <2>2, <3>1 DEF ClientInv, Sources!StopStopsAll, Sources!Ports
  <2>3. ASSUME NEW failed, NEW own,
               clients' = [p \in Sources!Ports |->
                             Sources!Created(failed)[p] \ Sources!Destroyed(own)[p]],
               counted' = own, state' = "done"
        PROVE  ClientInv'
    <3>1. \A p \in DOMAIN wanted : Sources!Created(failed)[p] \subseteq Sources!Of(p)
      BY DEF Sources!Created, Sources!Ports
    <3>2. \A p \in DOMAIN wanted : clients'[p] \subseteq Sources!Of(p)
      BY <2>3, <3>1 DEF Sources!Ports
    <3>3. ASSUME NEW p \in DOMAIN wanted, own[p] = wanted[p]
          PROVE  clients'[p] = {}
      <4>1. Sources!Destroyed(own)[p] = Sources!Of(p)
        BY <1>1, <3>3
      <4> QED  BY <2>3, <3>1, <4>1 DEF Sources!Ports
    <3> QED  BY <1>2, <2>1, <2>3, <3>2, <3>3 DEF ClientInv, Sources!StopStopsAll, Sources!Ports
  <2> QED  BY <1>3, <2>2, <2>3 DEF Sources!Start
<1>4. CASE Sources!Stop
  <2>1. /\ state = "up" /\ state' = "done" /\ counted = wanted /\ counted' = wanted
        /\ clients' = [p \in Sources!Ports |-> clients[p] \ Sources!Destroyed(counted)[p]]
        /\ sending' = sending \ UNION {Sources!Destroyed(counted)[p] : p \in Sources!Ports}
    BY <1>4 DEF Sources!Stop, ClientInv
  <2>2. \A p \in DOMAIN wanted : Sources!Destroyed(counted)[p] = Sources!Of(p)
    BY <1>1, <2>1
  <2>3. \A p \in DOMAIN wanted : clients'[p] = {}
    BY <2>1, <2>2 DEF ClientInv, Sources!Ports
  <2>4. sending' = {}
    <3>1. ASSUME NEW q \in sending
          PROVE  q \in UNION {Sources!Destroyed(counted)[p] : p \in Sources!Ports}
      <4>1. PICK p \in DOMAIN wanted : q \in clients[p]
        BY DEF ClientInv, Sources!StopStopsAll, Sources!Alive, Sources!Ports
      <4>2. q \in Sources!Destroyed(counted)[p]
        BY <2>2, <4>1 DEF ClientInv
      <4> QED  BY <4>1, <4>2 DEF Sources!Ports
    <3> QED  BY <2>1, <3>1
  <2> QED  BY <1>2, <2>1, <2>3, <2>4 DEF ClientInv, Sources!StopStopsAll, Sources!Ports
<1>5. CASE Sources!ClientConnected \/ Sources!ClientClose
  <2>1. /\ UNCHANGED <<wanted, clients, counted, state>> /\ sending' \subseteq Sources!Alive
        /\ state = "none" => sending' = {}
    BY <1>5 DEF Sources!ClientConnected, Sources!ClientClose, ClientInv, Sources!StopStopsAll
  <2>2. Sources!Alive' = Sources!Alive /\ Sources!Ports' = Sources!Ports
    BY <2>1 DEF Sources!Alive, Sources!Ports
  <2> QED  BY <1>2, <2>1, <2>2 DEF ClientInv, Sources!StopStopsAll, Sources!Ports
<1>6. CASE UNCHANGED <<wanted, clients, counted, sending, state>>
  BY <1>2, <1>6 DEF ClientInv, Sources!StopStopsAll, Sources!Ports, Sources!Alive
<1> QED  BY <1>3, <1>4, <1>5, <1>6 DEF Sources!Next

\* The slots of the traffic server point to open connections only, which its stop closes, and
\* the traffic client's stop, or a start that failed halfway, leaves no client of a port that
\* was complete and no timer (src/tools/traffic-generator), for any number of connections.
THEOREM ToolsStopped == SystemSpec => []ToolsStopAll
<1>1. SystemInit => SlotInv /\ ClientInv
  <2> SUFFICES ASSUME SystemInit PROVE SlotInv /\ ClientInv
    OBVIOUS
  <2>1. SlotInv
    <3>1. slots = <<>> /\ firstFree = 1 /\ slotOf = [s \in 1 .. MaxServers |-> 0]
      BY DEF SystemInit, Traffic!Init
    <3>2. Len(slots) = 0 /\ slots \in Seq(Nat)
      BY <3>1
    <3> QED  BY <3>1, <3>2 DEF SlotInv
  <2>2. ClientInv
    <3>1. PICK n \in 1 .. MaxPorts : wanted \in [1 .. n -> 1 .. MaxConnections]
      BY DEF SystemInit, Sources!Init
    <3>2. /\ clients = [p \in DOMAIN wanted |-> {}] /\ sending = {} /\ state = "none"
      BY DEF SystemInit, Sources!Init
    <3> QED  BY <3>1, <3>2 DEF ClientInv, Sources!StopStopsAll
  <2> QED  BY <2>1, <2>2
<1>2. SlotInv /\ ClientInv /\ [SystemNext]_systemVars => SlotInv' /\ ClientInv'
  BY SlotStep, SourceStep, StepsApart
<1>3. SlotInv /\ ClientInv => ToolsStopAll
  BY DEF SlotInv, ClientInv, ToolsStopAll, Traffic!SlotsLive, Traffic!Open, Traffic!NoServer
<1> QED  BY <1>1, <1>2, <1>3, PTL DEF SystemSpec

-----------------------------------------------------------------------------
(* The log files                                                             *)

\* A file that holds the lines a to b.
Spans(file, a, b) ==
  /\ file \in Seq(Nat) /\ a \in Nat \ {0} /\ b \in Nat /\ a <= b /\ Len(file) = b - a + 1
  /\ \A i \in 1 .. Len(file) : file[i] = a + i - 1

\* The first line that is in no archived file.
Upcoming == IF base # Log!NoFile THEN base[1] ELSE Len(written) + 1

\* Where the file behind an archived one starts.
Follower(k) == IF k + 1 \in DOMAIN archive THEN archive[k + 1][1] ELSE Upcoming

\* The ring holds the lines that follow those written while its thread consumes them; a file
\* of the base name is left behind only by a thread that has ended.
RingHolds ==
  /\ consumer = "runs" =>
       /\ manager = "up" /\ lines = Len(written) + Len(regions) /\ (~open => base = Log!NoFile)
       /\ \A i \in 1 .. Len(regions) : regions[i].line = Len(written) + i
  /\ consumer = "none" /\ manager # "gone" =>
       /\ "file" \notin writers /\ lines = 0 /\ regions = <<>> /\ written = <<>>
       /\ ~open /\ base = Log!NoFile
  /\ manager # "up" => writers = {}
  /\ consumer # "none" => "file" \in writers
  /\ open => base # Log!NoFile

\* The archived files continue each other, up to the one that is written, and lines are in order.
FilesInv ==
  /\ \A i \in 1 .. Len(written) : written[i] = i
  /\ \/ DOMAIN archive = Log!Oldest .. count - 1
     \/ DOMAIN archive = Log!Oldest .. count /\ manager = "gone"
  /\ \A k \in DOMAIN archive : Spans(archive[k], archive[k][1], Follower(k) - 1)
  /\ base # Log!NoFile => Spans(base, base[1], Len(written))

\* The log manager's variables have their types.
LogTypes ==
  /\ manager \in {"none", "up", "gone"} /\ consumer \in {"none", "runs", "ended"}
  /\ regions \in Seq([line : Nat, ready : BOOLEAN]) /\ lines \in Nat /\ count \in Nat
  /\ written \in Seq(Nat) /\ base \in Seq(Nat) /\ open \in BOOLEAN

LogInv == LogTypes /\ RingHolds /\ FilesInv

\* No files are there at first.
LEMMA LogStarts ==
  ASSUME Log!Init PROVE LogInv
<1>1. 0 .. 0 - 1 = {} /\ DOMAIN <<>> = {} /\ Len(<<>>) = 0
  OBVIOUS
<1>2. Log!Oldest = 0
  BY SystemAssumption DEF Log!Init, Log!Oldest
<1>3. Log!NoFile \in Seq(Nat) /\ <<>> \in Seq(Nat) /\ <<>> \in Seq([line : Nat, ready : BOOLEAN])
  BY DEF Log!NoFile, Log!NoLine
<1>4. LogTypes
  <2>1. regions = <<>> /\ written = <<>> /\ base = Log!NoFile
    BY DEF Log!Init
  <2>2. /\ manager = "none" /\ consumer = "none" /\ lines = 0 /\ count = 0 /\ open = FALSE
    BY DEF Log!Init
  <2> QED  BY <1>3, <2>1, <2>2 DEF LogTypes
<1>5. FilesInv
  BY <1>1, <1>2 DEF Log!Init, FilesInv
<1>6. RingHolds
  BY DEF Log!Init, RingHolds
<1> QED  BY <1>4, <1>5, <1>6 DEF LogInv

\* Lines put behind others.
LEMMA Joined ==
  ASSUME NEW s \in Seq(Nat), NEW t \in Seq(Nat)
  PROVE  /\ s \o t \in Seq(Nat) /\ Len(s \o t) = Len(s) + Len(t)
         /\ \A i \in 1 .. Len(s) + Len(t) :
               (s \o t)[i] = IF i <= Len(s) THEN s[i] ELSE t[i - Len(s)]
BY ConcatProperties

\* What the invariant says of the files.
LEMMA LogInvFiles ==
  ASSUME LogInv PROVE FilesKeepNewest
<1>1. ASSUME NEW file, NEW b, Spans(file, file[1], b)
      PROVE  Log!Consecutive(file) /\ Log!Last(file) = b
  <2>1. Len(file) \in Nat /\ Len(file) >= 1 /\ DOMAIN file = 1 .. Len(file)
    <3>1. PICK a \in Nat \ {0} : a = file[1]
      BY <1>1 DEF Spans
    <3>2. file \in Seq(Nat) /\ b \in Nat /\ a <= b /\ Len(file) = b - a + 1
      BY <1>1, <3>1 DEF Spans
    <3> QED  BY <3>2
  <2>2. file[Len(file)] = b
    <3>1. PICK a \in Nat \ {0} : a = file[1]
      BY <1>1 DEF Spans
    <3>2. b \in Nat /\ a <= b /\ Len(file) = b - a + 1
      BY <1>1, <3>1 DEF Spans
    <3>3. file[Len(file)] = a + Len(file) - 1
      <4>1. \A i \in 1 .. Len(file) : file[i] = a + i - 1
        BY <1>1, <3>1 DEF Spans
      <4> QED  BY <2>1, <4>1
    <3> QED  BY <3>2, <3>3
  <2>3. file # <<>>
    BY <2>1
  <2> QED  BY <1>1, <2>1, <2>2, <2>3 DEF Spans, Log!Consecutive, Log!Last
<1>2. ASSUME NEW k \in DOMAIN archive
      PROVE  /\ Log!Consecutive(archive[k])
             /\ Log!Last(archive[k]) + 1 = Follower(k)
  <2>1. Spans(archive[k], archive[k][1], Follower(k) - 1)
    BY DEF LogInv, FilesInv
  <2>2. Log!Consecutive(archive[k]) /\ Log!Last(archive[k]) = Follower(k) - 1
    BY <1>1, <2>1
  <2>3. Follower(k) \in Int
    <3>1. CASE k + 1 \in DOMAIN archive
      BY <3>1 DEF LogInv, FilesInv, Spans, Follower
    <3>2. CASE k + 1 \notin DOMAIN archive
      BY <3>2 DEF LogInv, LogTypes, FilesInv, Spans, Follower, Upcoming
    <3> QED  BY <3>1, <3>2
  <2> QED  BY <2>2, <2>3
<1>3. base # Log!NoFile => Log!Consecutive(base) /\ Log!Last(base) = Len(written)
  BY <1>1 DEF LogInv, FilesInv
<1>4. DOMAIN written = 1 .. Len(written)
  BY DEF LogInv, LogTypes
<1> QED  BY <1>2, <1>3, <1>4 DEF LogInv, FilesInv, FilesKeepNewest, Log!FilesKeepNewest,
                            Follower, Upcoming

\* Logging a line keeps the ring and the files as they are.
LEMMA LinesStep ==
  ASSUME LogInv, NEW t \in LogThreads, Log!Acquire(t) \/ Log!Release(t) PROVE LogInv'
<1>1. UNCHANGED <<manager, writers, written, open, base, archive, count, consumer>>
  BY DEF Log!Acquire, Log!Release, Log!fileVars
<1>2. FilesInv'
  BY <1>1 DEF LogInv, FilesInv, Log!Oldest, Follower, Upcoming
<1>3. CASE Log!Acquire(t)
  <2> DEFINE r == [line |-> lines + 1, ready |-> FALSE]
  <2>1. lines' = lines + 1 /\ regions' = Append(regions, r) /\ "file" \in writers
    BY <1>3 DEF Log!Acquire
  <2>2. r \in [line : Nat, ready : BOOLEAN]
    BY DEF LogInv, LogTypes
  <2> DEFINE n == Len(regions)
  <2>3. /\ regions' \in Seq([line : Nat, ready : BOOLEAN]) /\ Len(regions') = n + 1
        /\ \A i \in 1 .. n : regions'[i] = regions[i]
        /\ regions'[n + 1].line = lines + 1
    BY <2>1, <2>2 DEF LogInv, LogTypes
  <2>4. LogTypes'
    BY <1>1, <2>1, <2>3 DEF LogInv, LogTypes
  <2>5. RingHolds'
    <3>1. CASE consumer = "runs"
      <4>1. n \in Nat /\ Len(written) \in Nat
        BY DEF LogInv, LogTypes
      <4>2. \A i \in 1 .. n + 1 : regions'[i].line = Len(written) + i
        <5>1. /\ \A i \in 1 .. n : regions[i].line = Len(written) + i
              /\ lines = Len(written) + n
          BY <3>1 DEF LogInv, RingHolds
        <5>2. \A i \in 1 .. n + 1 : i \in 1 .. n \/ i = n + 1
          BY <4>1
        <5>3. regions'[n + 1].line = Len(written) + (n + 1)
          BY <2>3, <4>1, <5>1
        <5> QED  BY <2>3, <5>1, <5>2, <5>3
      <4>3. lines' = Len(written) + Len(regions')
        BY <2>1, <2>3, <3>1, <4>1 DEF LogInv, RingHolds
      <4> QED  BY <1>1, <2>3, <3>1, <4>2, <4>3 DEF LogInv, RingHolds
    <3>2. CASE consumer # "runs"
      BY <1>1, <2>1, <3>2 DEF LogInv, RingHolds
    <3> QED  BY <3>1, <3>2
  <2> QED  BY <1>2, <2>4, <2>5 DEF LogInv
<1>4. CASE Log!Release(t)
  <2>1. /\ lines' = lines /\ Len(regions') = Len(regions)
        /\ regions' \in Seq([line : Nat, ready : BOOLEAN])
        /\ \A i \in 1 .. Len(regions) : regions'[i].line = regions[i].line
    <3>1. CASE UNCHANGED regions
      BY <1>4, <3>1 DEF Log!Release, LogInv, LogTypes
    <3> DEFINE released(i) == [regions[i] EXCEPT !.ready = @ \/ regions[i].line = busy[t]]
    <3>2. CASE regions' = [i \in DOMAIN regions |-> released(i)]
      <4>1. /\ DOMAIN regions = 1 .. Len(regions) /\ Len(regions) \in Nat
            /\ \A i \in 1 .. Len(regions) : regions[i] \in [line : Nat, ready : BOOLEAN]
        <5>1. regions \in Seq([line : Nat, ready : BOOLEAN])
          BY DEF LogInv, LogTypes
        <5> QED  BY <5>1, ElementOfSeq, LenProperties
      <4>2. \A i \in 1 .. Len(regions) : /\ released(i) \in [line : Nat, ready : BOOLEAN]
                                         /\ released(i).line = regions[i].line
        BY <4>1
      <4> HIDE DEF released
      <4>3. regions' = [i \in 1 .. Len(regions) |-> released(i)]
        BY <3>2, <4>1
      <4> QED  BY <1>4, <4>1, <4>2, <4>3 DEF Log!Release
    <3> QED  BY <1>4, <3>1, <3>2 DEF Log!Release
  <2>2. LogTypes'
    BY <1>1, <2>1 DEF LogInv, LogTypes
  <2>3. regions = <<>> => regions' = <<>>
    BY <2>1
  <2>4. RingHolds'
    BY <1>1, <2>1, <2>3 DEF LogInv, RingHolds
  <2> QED  BY <1>2, <2>2, <2>4 DEF LogInv
<1> QED  BY <1>3, <1>4

\* Archiving the file that starts where the archived ones end, whatever is deleted before.
LEMMA FiledKeeps ==
  ASSUME LogInv, manager = "up", NEW file, NEW b \in Nat, NEW new \in Nat,
         Spans(file, Upcoming, b), Upcoming' = b + 1,
         NEW n \in Nat, n = count, new <= n, Log!Oldest <= new,
         archive' = [k \in new .. n |-> IF k = n THEN file ELSE archive[k]]
  PROVE  \A k \in DOMAIN archive' : Spans(archive'[k], archive'[k][1], Follower(k)' - 1)
<1>1. Log!Oldest \in Nat /\ DOMAIN archive = Log!Oldest .. n - 1
  BY SystemAssumption DEF LogInv, LogTypes, FilesInv, Log!Oldest
<1>2. /\ DOMAIN archive' = new .. n /\ archive'[n] = file
      /\ \A k \in new .. n - 1 : archive'[k] = archive[k] /\ k \in DOMAIN archive
  BY <1>1
<1>3. file[1] = Upcoming
  BY DEF Spans
<1>4. Follower(n)' = b + 1
  <2>1. n + 1 \notin DOMAIN archive'
    BY <1>1, <1>2
  <2> QED  BY <2>1 DEF Follower
<1>5. Spans(archive'[n], archive'[n][1], Follower(n)' - 1)
  BY <1>2, <1>3, <1>4
<1>6. ASSUME NEW k \in new .. n - 1
      PROVE  Spans(archive'[k], archive'[k][1], Follower(k)' - 1)
  <2>1. k + 1 \in new .. n
    BY <1>1
  <2>2. Follower(k)' = archive'[k + 1][1]
    BY <1>2, <2>1 DEF Follower
  <2>3. archive'[k + 1][1] = Follower(k)
    <3>1. CASE k + 1 = n
      BY <1>1, <1>2, <1>3, <3>1 DEF Follower
    <3>2. CASE k + 1 # n
      <4>1. k + 1 \in new .. n - 1
        BY <1>1, <2>1, <3>2
      <4> QED  BY <1>2, <4>1 DEF Follower
    <3> QED  BY <3>1, <3>2
  <2>4. Spans(archive[k], archive[k][1], Follower(k) - 1)
    BY <1>2 DEF LogInv, FilesInv
  <2> QED  BY <1>2, <2>2, <2>3, <2>4
<1>7. \A k \in new .. n : k = n \/ k \in new .. n - 1
  BY <1>1
<1>8. ASSUME NEW k \in DOMAIN archive'
      PROVE  Spans(archive'[k], archive'[k][1], Follower(k)' - 1)
  <2>1. k = n \/ k \in new .. n - 1
    BY <1>2, <1>7
  <2>2. CASE k = n
    BY <1>5, <2>2
  <2> QED  BY <1>6, <2>1, <2>2
<1> QED  BY <1>8

\* The manager comes, gets its writers, and goes.
LEMMA ManagerStep ==
  ASSUME LogInv, Log!ManagerNew \/ Log!WriterAdd \/ Log!ManagerDelete PROVE LogInv'
<1>1. CASE Log!ManagerNew
  <2>1. /\ manager = "none" /\ manager' \in {"up", "gone"}
        /\ UNCHANGED <<writers, regions, lines, consumer>>
        /\ UNCHANGED <<written, open, base, archive, count>>
    BY <1>1 DEF Log!ManagerNew, Log!fileVars
  <2>2. FilesInv'
    BY <2>1 DEF LogInv, FilesInv, Log!Oldest, Follower, Upcoming
  <2>3. LogTypes'
    BY <2>1 DEF LogInv, LogTypes
  <2>4. CASE manager' = "up"
    BY <2>1, <2>2, <2>3, <2>4 DEF LogInv, RingHolds
  <2>5. CASE manager' = "gone"
    <3>1. consumer # "runs" /\ writers = {}
      BY <1>1, <2>1 DEF LogInv, RingHolds, LogTypes
    <3> QED  BY <2>1, <2>2, <2>3, <2>5, <3>1 DEF LogInv, RingHolds
  <2> QED  BY <2>1, <2>4, <2>5
<1>2. CASE Log!WriterAdd
  <2>1. PICK w \in {"stdout", "file"} :
          /\ manager = "up" /\ w \notin writers /\ writers' = writers \cup {w}
          /\ consumer' = IF w = "file" THEN "runs" ELSE consumer
          /\ UNCHANGED <<manager, regions, lines, written, open, base, archive, count>>
    BY <1>2 DEF Log!WriterAdd, Log!fileVars
  <2>2. FilesInv'
    BY <2>1 DEF LogInv, FilesInv, Log!Oldest, Follower, Upcoming
  <2>3. LogTypes'
    BY <2>1 DEF LogInv, LogTypes
  <2>4. RingHolds'
    <3>1. CASE w = "stdout"
      BY <2>1, <3>1 DEF LogInv, RingHolds
    <3>2. CASE w = "file" /\ consumer = "none"
      <4>1. lines = 0 /\ Len(written) = 0 /\ Len(regions) = 0 /\ base = Log!NoFile /\ ~open
        BY <2>1, <3>2 DEF LogInv, RingHolds
      <4> QED  BY <2>1, <3>2, <4>1 DEF RingHolds
    <3>3. CASE w = "file" /\ consumer # "none"
      BY <2>1, <3>3 DEF LogInv, RingHolds
    <3> QED  BY <3>1, <3>2, <3>3
  <2> QED  BY <2>2, <2>3, <2>4 DEF LogInv
<1>3. CASE Log!ManagerDelete
  <2>1. /\ manager = "up" /\ manager' = "gone" /\ writers' = {} /\ open' = FALSE
        /\ consumer' = "none" /\ regions' = <<>>
        /\ UNCHANGED <<lines, written, count>>
        /\ \/ open /\ archive' = Log!Filed(base, {}) /\ base' = Log!NoFile
           \/ UNCHANGED <<archive, base>>
    BY <1>3 DEF Log!ManagerDelete
  <2>2. LogTypes'
    <3>1. Log!NoFile \in Seq(Nat) /\ <<>> \in Seq([line : Nat, ready : BOOLEAN])
      BY DEF Log!NoFile, Log!NoLine
    <3>2. base' \in Seq(Nat) /\ regions' \in Seq([line : Nat, ready : BOOLEAN])
      BY <2>1, <3>1 DEF LogInv, LogTypes
    <3>3. manager' = "gone" /\ consumer' = "none" /\ open' = FALSE
          /\ lines' \in Nat /\ written' \in Seq(Nat) /\ count' \in Nat
      BY <2>1 DEF LogInv, LogTypes
    <3> QED  BY <3>2, <3>3 DEF LogTypes
  <2>3. RingHolds'
    BY <2>1 DEF RingHolds
  <2>4. CASE UNCHANGED <<archive, base>>
    <3>1. FilesInv'
      BY <2>1, <2>4 DEF LogInv, FilesInv, Log!Oldest, Follower, Upcoming
    <3> QED  BY <2>2, <2>3, <3>1 DEF LogInv
  <2>5. CASE open /\ archive' = Log!Filed(base, {}) /\ base' = Log!NoFile
    <3>1. Spans(base, Upcoming, Len(written)) /\ Len(written) \in Nat
      BY <2>5 DEF LogInv, LogTypes, RingHolds, FilesInv, Upcoming
    <3>2. Upcoming' = Len(written) + 1
      BY <2>1, <2>5 DEF Upcoming
    <3> DEFINE n == count  new == Log!Oldest
    <3>3. n \in Nat /\ new \in Nat /\ new <= n /\ DOMAIN archive = new .. n - 1
      BY <2>1, SystemAssumption DEF LogInv, LogTypes, FilesInv, Log!Oldest
    <3>4. archive' = [k \in new .. n |-> IF k = n THEN base ELSE archive[k]]
      <4>1. (DOMAIN archive \cup {n}) \ {} = new .. n
        BY <3>3
      <4> QED  BY <2>5, <4>1 DEF Log!Filed
    <3> HIDE DEF n, new
    <3>5. \A k \in DOMAIN archive' : Spans(archive'[k], archive'[k][1], Follower(k)' - 1)
      BY <2>1, <3>1, <3>2, <3>3, <3>4, FiledKeeps DEF n, new
    <3>6. DOMAIN archive' = new .. n /\ new' = new /\ n' = n
      BY <2>1, <3>4 DEF n, new, Log!Oldest
    <3>7. FilesInv'
      BY <2>1, <2>5, <3>5, <3>6 DEF LogInv, FilesInv, n, new
    <3> QED  BY <2>2, <2>3, <3>7 DEF LogInv
  <2> QED  BY <2>1, <2>4, <2>5
<1> QED  BY <1>1, <1>2, <1>3

\* The thread takes lines, writes them to the open file or to a new one, and archives it.
LEMMA ConsumeFiles ==
  ASSUME LogInv, Log!Consume PROVE LogInv'
<1> DEFINE w == Len(written)  Region == [line : Nat, ready : BOOLEAN]
<1>1. PICK n \in 1 .. Len(regions) :
        LET batch == [i \in 1 .. n |-> regions[i].line]
            file == (IF open THEN base ELSE <<>>) \o batch
        IN  /\ regions' = SubSeq(regions, n + 1, Len(regions))
            /\ \/ ~open /\ consumer' = "ended" /\ UNCHANGED Log!fileVars
               \/ /\ written' = written \o batch /\ open' = TRUE /\ base' = file
                  /\ UNCHANGED <<archive, count, consumer>>
               \/ /\ written' = written \o batch /\ open' = FALSE
                  /\ \/ /\ archive' = Log!Filed(file, Log!Outdated(count + 1))
                        /\ base' = Log!NoFile /\ count' = count + 1 /\ UNCHANGED consumer
                     \/ base' = file /\ consumer' = "ended" /\ UNCHANGED <<archive, count>>
  BY DEF Log!Consume
<1> DEFINE batch == [i \in 1 .. n |-> regions[i].line]
           file == (IF open THEN base ELSE <<>>) \o batch
           first == Upcoming
<1>2. consumer = "runs" /\ UNCHANGED <<manager, writers, lines>>
  BY DEF Log!Consume
<1>3. /\ manager = "up" /\ lines = w + Len(regions) /\ (~open => base = Log!NoFile)
      /\ \A i \in 1 .. Len(regions) : regions[i].line = w + i
      /\ w \in Nat /\ Len(regions) \in Nat /\ regions \in Seq(Region) /\ written \in Seq(Nat)
      /\ base \in Seq(Nat) /\ n \in Nat /\ n >= 1 /\ n <= Len(regions) /\ lines \in Nat
      /\ count \in Nat /\ (open => base # Log!NoFile)
  BY <1>2 DEF LogInv, LogTypes, RingHolds
<1>4. /\ batch \in Seq(Nat) /\ Len(batch) = n /\ \A i \in 1 .. n : batch[i] = w + i
  <2>1. \A i \in 1 .. n : i \in 1 .. Len(regions) /\ regions[i].line = w + i
    BY <1>3
  <2>2. \A i \in 1 .. n : w + i \in Nat
    BY <1>3
  <2>3. batch = [i \in 1 .. n |-> w + i]
    BY <2>1
  <2> HIDE DEF batch, w
  <2> QED  BY <1>3, <2>2, <2>3
<1> HIDE DEF batch, w
<1>5. /\ written \o batch \in Seq(Nat) /\ Len(written \o batch) = w + n
      /\ \A i \in 1 .. w + n : (written \o batch)[i] = i
  <2>1. \A i \in 1 .. w : written[i] = i
    BY DEF LogInv, FilesInv, w
  <2>2. /\ written \o batch \in Seq(Nat) /\ Len(written \o batch) = w + n
        /\ \A i \in 1 .. w + n : (written \o batch)[i] = IF i <= w THEN written[i] ELSE batch[i - w]
    <3>1. written \in Seq(Nat) /\ batch \in Seq(Nat) /\ Len(written) = w /\ Len(batch) = n
      BY <1>3, <1>4 DEF w
    <3> QED  BY ONLY <3>1, Joined
  <2>3. ASSUME NEW i \in 1 .. w + n PROVE (written \o batch)[i] = i
    <3>1. CASE i <= w
      <4>1. i \in 1 .. w
        BY <1>3, <3>1
      <4> QED  BY <2>1, <2>2, <3>1, <4>1
    <3>2. CASE i > w
      <4>1. i - w \in 1 .. n
        BY <1>3, <3>2
      <4>2. batch[i - w] = w + (i - w) /\ ~(i <= w)
        BY <1>3, <1>4, <3>2, <4>1
      <4>3. (written \o batch)[i] = w + (i - w)
        BY <2>2, <4>2
      <4> QED  BY <1>3, <4>3
    <3>3. i <= w \/ i > w
      BY <1>3
    <3> QED  BY <3>1, <3>2, <3>3
  <2> QED  BY <2>2, <2>3
<1>6. Spans(file, first, w + n)
  <2>1. CASE open
    <3>1. Spans(base, first, w)
      BY <1>3, <2>1 DEF LogInv, FilesInv, Upcoming, w
    <3>2. /\ base \o batch \in Seq(Nat) /\ Len(base \o batch) = Len(base) + n
          /\ \A i \in 1 .. Len(base) + n :
                (base \o batch)[i] = IF i <= Len(base) THEN base[i] ELSE batch[i - Len(base)]
      <4>1. base \in Seq(Nat) /\ batch \in Seq(Nat) /\ Len(batch) = n
        BY <1>3, <1>4
      <4> QED  BY ONLY <4>1, Joined
    <3> HIDE DEF first
    <3> DEFINE l == Len(base)  both == base \o batch
    <3>3. /\ first \in Nat /\ first >= 1 /\ first <= w /\ l = w - first + 1 /\ l \in Nat
          /\ \A i \in 1 .. l : base[i] = first + i - 1
      BY <1>3, <3>1 DEF Spans
    <3>4. /\ both \in Seq(Nat) /\ Len(both) = l + n
          /\ \A i \in 1 .. l + n : both[i] = IF i <= l THEN base[i] ELSE batch[i - l]
      BY <3>2
    <3> HIDE DEF both, l
    <3>5. ASSUME NEW i \in 1 .. l + n PROVE both[i] = first + i - 1
      <4>1. CASE i <= l
        <5>1. i \in 1 .. l
          BY <1>3, <3>3, <4>1
        <5> QED  BY <3>3, <3>4, <4>1, <5>1
      <4>2. CASE i > l
        <5>1. i - l \in 1 .. n /\ ~(i <= l)
          BY <1>3, <3>3, <4>2
        <5>2. both[i] = w + (i - l)
          BY <1>4, <3>4, <5>1
        <5> QED  BY <1>3, <3>3, <5>2
      <4>3. i <= l \/ i > l
        BY <1>3, <3>3
      <4> QED  BY <4>1, <4>2, <4>3
    <3>6. first \in Nat \ {0} /\ w + n \in Nat /\ first <= w + n /\ l + n = (w + n) - first + 1
      BY <1>3, <3>3
    <3>7. Spans(both, first, w + n)
      BY <3>4, <3>5, <3>6 DEF Spans
    <3> QED  BY <2>1, <3>7 DEF both
  <2>2. CASE ~open
    <3>1. first = w + 1
      BY <1>3, <2>2 DEF Upcoming, w
    <3>2. <<>> \o batch = batch
      BY <1>4
    <3> HIDE DEF first
    <3>3. \A i \in 1 .. n : batch[i] = first + i - 1
      BY <1>3, <1>4, <3>1
    <3>4. first \in Nat \ {0} /\ w + n \in Nat /\ first <= w + n /\ n = (w + n) - first + 1
      BY <1>3, <3>1
    <3>5. Spans(batch, first, w + n)
      BY <1>4, <3>3, <3>4 DEF Spans
    <3> QED  BY <2>2, <3>2, <3>5
  <2> QED  BY <2>1, <2>2
<1>7. file[1] = first /\ file \in Seq(Nat) /\ file # Log!NoFile
  <2>1. file[1] = first /\ file \in Seq(Nat) /\ first # 0
    <3> HIDE DEF file, first
    <3> QED  BY <1>6 DEF Spans
  <2>2. Log!NoFile[1] = 0
    BY DEF Log!NoFile, Log!NoLine
  <2> HIDE DEF file, first
  <2> QED  BY <2>1, <2>2
<1>8. /\ regions' \in Seq(Region) /\ Len(regions') = Len(regions) - n
      /\ \A i \in 1 .. Len(regions) - n : regions'[i].line = w + n + i
  <2>1. regions' = SubSeq(regions, n + 1, Len(regions))
    BY <1>1
  <2> HIDE DEF Region
  <2>2. /\ regions' \in Seq(Region) /\ Len(regions') = Len(regions) - n
        /\ \A i \in 1 .. Len(regions) - n : regions'[i] = regions[n + i]
    BY <1>3, <2>1
  <2>3. ASSUME NEW i \in 1 .. Len(regions) - n PROVE regions'[i].line = w + n + i
    <3>1. n + i \in 1 .. Len(regions)
      BY <1>3
    <3>2. regions'[i].line = w + (n + i)
      BY <1>3, <2>2, <3>1
    <3> QED  BY <1>3, <3>2
  <2> QED  BY <2>2, <2>3
<1> HIDE DEF file, first
<1>9. CASE ~open /\ consumer' = "ended" /\ UNCHANGED Log!fileVars
  <2>1. FilesInv'
    BY <1>2, <1>9 DEF LogInv, FilesInv, Log!Oldest, Log!fileVars, Follower, Upcoming
  <2>2. LogTypes' /\ RingHolds'
    BY <1>2, <1>3, <1>8, <1>9 DEF LogInv, LogTypes, RingHolds, Log!fileVars
  <2> QED  BY <2>1, <2>2 DEF LogInv
<1>10. CASE /\ written' = written \o batch /\ base' = file /\ UNCHANGED <<archive, count>>
            /\ \/ open' = TRUE /\ UNCHANGED consumer
               \/ open' = FALSE /\ consumer' = "ended"
  <2>1. Len(written') = w + n /\ base' # Log!NoFile /\ base'[1] = first
    BY <1>5, <1>7, <1>10
  <2>2. Upcoming' = first
    BY <2>1 DEF Upcoming
  <2>3. ASSUME NEW k PROVE Follower(k)' = Follower(k)
    BY <1>10, <2>2 DEF Follower, first
  <2>4. FilesInv'
    BY <1>2, <1>5, <1>6, <1>10, <2>1, <2>3 DEF LogInv, FilesInv, Log!Oldest
  <2>5. LogTypes'
    BY <1>2, <1>3, <1>5, <1>7, <1>8, <1>10 DEF LogInv, LogTypes
  <2>6. RingHolds'
    <3>1. \A i \in 1 .. Len(regions') : regions'[i].line = Len(written') + i
      BY <1>8, <2>1
    <3>2. w + n + (Len(regions) - n) = w + Len(regions)
      BY <1>3
    <3>3. Len(written') + Len(regions') = w + Len(regions)
      BY <1>3, <1>8, <2>1, <3>2
    <3>4. "file" \in writers
      BY <1>2 DEF LogInv, RingHolds
    <3>5. /\ manager' = "up" /\ writers' = writers /\ lines' = Len(written') + Len(regions')
          /\ consumer' \in {"runs", "ended"} /\ (~open' => consumer' = "ended")
      BY <1>2, <1>3, <1>10, <3>3
    <3> QED  BY <2>1, <3>1, <3>4, <3>5 DEF RingHolds
  <2> QED  BY <2>4, <2>5, <2>6 DEF LogInv
<1>11. CASE /\ written' = written \o batch /\ open' = FALSE
            /\ archive' = Log!Filed(file, Log!Outdated(count + 1))
            /\ base' = Log!NoFile /\ count' = count + 1 /\ UNCHANGED consumer
  <2> DEFINE closed == count  new == Log!Oldest'
  <2>1. closed \in Nat /\ new \in Nat /\ new <= closed /\ Log!Oldest <= new
        /\ DOMAIN archive = Log!Oldest .. closed - 1
        /\ (DOMAIN archive \cup {closed}) \ Log!Outdated(closed + 1) = new .. closed
    <3>1. /\ MaxFileCount \in Nat /\ count' = closed + 1 /\ closed \in Nat
          /\ DOMAIN archive = Log!Oldest .. closed - 1
      BY <1>3, <1>11, SystemAssumption DEF LogInv, FilesInv
    <3>2. new = IF MaxFileCount > 0 /\ closed + 1 > MaxFileCount THEN closed + 1 - MaxFileCount ELSE 0
      BY <3>1 DEF Log!Oldest
    <3>3. Log!Oldest = IF MaxFileCount > 0 /\ closed > MaxFileCount THEN closed - MaxFileCount ELSE 0
      BY DEF Log!Oldest
    <3>4. Log!Outdated(closed + 1) = IF MaxFileCount > 0 /\ closed + 1 > MaxFileCount
                                    THEN {(closed + 1) - MaxFileCount - 1} ELSE {}
      BY <3>1 DEF Log!Outdated
    <3> HIDE DEF closed, new
    <3>5. new \in Nat /\ new <= closed /\ Log!Oldest <= new /\ Log!Oldest \in Nat
      BY <3>1, <3>2, <3>3
    <3>6. (DOMAIN archive \cup {closed}) \ Log!Outdated(closed + 1) = new .. closed
      BY <3>1, <3>2, <3>3, <3>4
    <3> QED  BY <3>1, <3>5, <3>6
  <2>2. archive' = [k \in new .. closed |-> IF k = closed THEN file ELSE archive[k]]
    BY <1>11, <2>1 DEF Log!Filed
  <2>3. Upcoming' = (w + n) + 1
    BY <1>5, <1>11 DEF Upcoming
  <2>4. count = closed /\ count' = closed + 1 /\ Log!Oldest' = new
    BY <1>11
  <2> HIDE DEF closed, new
  <2>5. \A k \in DOMAIN archive' : Spans(archive'[k], archive'[k][1], Follower(k)' - 1)
    <3>1. Spans(file, Upcoming, w + n) /\ w + n \in Nat
      BY <1>3, <1>6 DEF first
    <3>2. /\ manager = "up" /\ closed \in Nat /\ new \in Nat /\ new <= closed
          /\ Log!Oldest <= new /\ closed = count
      BY <1>3, <2>1, <2>4
    <3> QED  BY <2>2, <2>3, <3>1, <3>2, FiledKeeps
  <2>6. DOMAIN archive' = Log!Oldest' .. count' - 1
    BY <2>1, <2>2, <2>4
  <2>7. FilesInv'
    BY <1>5, <1>11, <2>5, <2>6 DEF FilesInv
  <2>8. LogTypes'
    <3>1. Log!NoFile \in Seq(Nat)
      BY DEF Log!NoFile, Log!NoLine
    <3>2. count' \in Nat
      BY <2>1, <2>4
    <3>3. written' \in Seq(Nat) /\ base' \in Seq(Nat) /\ open' \in BOOLEAN
      BY <1>5, <1>11, <3>1
    <3>4. /\ manager' \in {"none", "up", "gone"} /\ consumer' \in {"none", "runs", "ended"}
          /\ lines' \in Nat
      BY <1>2, <1>3, <1>11
    <3> QED  BY <1>8, <3>2, <3>3, <3>4 DEF LogTypes
  <2>9. RingHolds'
    <3>1. Len(written') = w + n /\ consumer' = "runs" /\ manager' = "up" /\ lines' = lines
          /\ base' = Log!NoFile /\ ~open' /\ writers' = writers /\ "file" \in writers
      BY <1>2, <1>3, <1>5, <1>11 DEF LogInv, RingHolds
    <3>2. lines' = (w + n) + Len(regions')
      BY <1>3, <1>8, <3>1
    <3>3. \A i \in 1 .. Len(regions') : regions'[i].line = (w + n) + i
      BY <1>8
    <3> QED  BY <3>1, <3>2, <3>3 DEF RingHolds
  <2> QED  BY <2>7, <2>8, <2>9 DEF LogInv
<1> QED  BY <1>1, <1>9, <1>10, <1>11 DEF batch, file

\* The log's files hold the last lines that the threads logged, in the order of their regions
\* in the ring, whichever file could not be opened or renamed and whenever the manager is
\* deleted, for any number of threads and lines, any size of a file and any number of files
\* (swLogFileSinkConsume, src/src/log/file-sink.c): the files kept are the newest, and each
\* goes on where the one before ended.
THEOREM FilesKept == SystemSpec => []FilesKeepNewest
<1>1. SystemInit => LogInv
  BY LogStarts DEF SystemInit
<1>2. LogInv /\ [SystemNext]_systemVars => LogInv'
  <2> SUFFICES ASSUME LogInv, [SystemNext]_systemVars PROVE LogInv'
    OBVIOUS
  <2>1. CASE UNCHANGED logVars
    BY <2>1 DEF logVars, LogInv, LogTypes, RingHolds, FilesInv, Log!Oldest, Follower, Upcoming
  <2>2. CASE Log!Next
    BY <2>2, ManagerStep, LinesStep, ConsumeFiles DEF Log!Next
  <2> QED  BY <2>1, <2>2, StepsApart
<1>3. LogInv => FilesKeepNewest
  BY LogInvFiles
<1> QED  BY <1>1, <1>2, <1>3, PTL DEF SystemSpec

-----------------------------------------------------------------------------
(* The tests run by several threads                                          *)

\* The pieces that n threads have finished when each has done w[t] of them.
Pieces(n, w) == {x \in (1 .. n) \X (1 .. Share) : x[2] <= w[x[1]]}

\* All pieces are finished when each thread has finished its share, and not before.
LEMMA PiecesCount ==
  ASSUME NEW n \in Nat \ {0}, NEW w \in [1 .. n -> 0 .. Share]
  PROVE  /\ IsFiniteSet(Pieces(n, w)) /\ Cardinality(Pieces(n, w)) \in Nat
         /\ Cardinality(Pieces(n, w)) <= n * Share
         /\ Cardinality(Pieces(n, w)) = n * Share <=> \A t \in 1 .. n : w[t] = Share
         /\ n * Share \in Nat /\ n * Share > 0
<1> DEFINE all == (1 .. n) \X (1 .. Share)
<1>1. Share \in Nat /\ Share > 0
  BY SystemAssumption
<1>2. /\ IsFiniteSet(1 .. n) /\ Cardinality(1 .. n) = n
      /\ IsFiniteSet(1 .. Share) /\ Cardinality(1 .. Share) = Share
  BY <1>1, FS_Interval
<1>3. IsFiniteSet(all) /\ Cardinality(all) = n * Share
  <2>1. IsFiniteSet(all) /\ Cardinality(all) = Cardinality(1 .. n) * Cardinality(1 .. Share)
    BY <1>2, FS_Product, Zenon
  <2> QED  BY <1>2, <2>1, Zenon
<1>4. Pieces(n, w) \subseteq all
  BY DEF Pieces
<1>5. /\ IsFiniteSet(Pieces(n, w)) /\ Cardinality(Pieces(n, w)) <= Cardinality(all)
      /\ Cardinality(all) = Cardinality(Pieces(n, w)) => all = Pieces(n, w)
  BY <1>3, <1>4, FS_Subset
<1>6. Cardinality(Pieces(n, w)) \in Nat
  BY <1>5, FS_CardinalityType
<1>7. ASSUME \A t \in 1 .. n : w[t] = Share
      PROVE  Pieces(n, w) = all
  BY <1>1, <1>7 DEF Pieces
<1>8. ASSUME all = Pieces(n, w), NEW t \in 1 .. n
      PROVE  w[t] = Share
  <2>1. <<t, Share>> \in all
    BY <1>1
  <2>2. <<t, Share>> \in Pieces(n, w)
    BY <1>8, <2>1
  <2>3. Share <= w[t]
    BY <2>2 DEF Pieces
  <2> QED  BY <1>1, <2>3
<1>9. n * Share \in Nat /\ n * Share > 0
  BY <1>1
<1> QED  BY <1>3, <1>5, <1>6, <1>7, <1>8, <1>9

\* Finishing more does not make the pieces fewer.
LEMMA PiecesGrow ==
  ASSUME NEW n \in Nat \ {0}, NEW w \in [1 .. n -> 0 .. Share], NEW v \in [1 .. n -> 0 .. Share],
         \A t \in 1 .. n : w[t] <= v[t]
  PROVE  Cardinality(Pieces(n, w)) <= Cardinality(Pieces(n, v))
<1>1. IsFiniteSet(Pieces(n, v))
  BY PiecesCount
<1>2. ASSUME NEW x \in Pieces(n, w) PROVE x \in Pieces(n, v)
  <2>1. x \in (1 .. n) \X (1 .. Share) /\ x[2] <= w[x[1]]
    BY DEF Pieces
  <2>2. x[1] \in 1 .. n /\ x[2] \in 1 .. Share
    BY <2>1
  <2>3. x[2] <= v[x[1]]
    BY <2>1, <2>2, SystemAssumption
  <2> QED  BY <2>1, <2>3 DEF Pieces
<1> QED  BY <1>1, <1>2, FS_Subset

\* The threads of a writer's test that have written all and sent their event.
SendersOf(n, w, th) == {t \in 1 .. n : th[t] \in {"ended", "done"} /\ w[t] = Share}

\* Events are sent for finished work only, and each once.
EventInv ==
  IF kind = "writer"
  THEN /\ received + events = Cardinality(SendersOf(numThreads, worked, threads))
       /\ expected = numThreads
  ELSE received + events = (IF consumed = Tests!Total THEN 1 ELSE 0) /\ expected = 1

\* How far the main thread is.
StageInv ==
  /\ stage = "setup" => /\ received = 0
                        /\ \E k \in 0 .. numThreads - 1 :
                              \A t \in 1 .. numThreads : threads[t] # "none" <=> t <= k
  /\ stage = "running" => received < expected /\ \A t \in 1 .. numThreads : threads[t] # "none"
  /\ stage \in {"stopping", "failed"} => \E t \in 1 .. numThreads : threads[t] = "none"
  /\ stage = "failed" => \A t \in 1 .. numThreads : threads[t] # "working"
  /\ stage \in {"teardown", "over"} => received = expected
  /\ killOpen <=> stage \in {"setup", "stopping", "running"}

\* The variables of a test have their types.
TestTypes ==
  /\ kind \in {"writer", "ring", "futexRing"} /\ numThreads \in Nat \ {0}
  /\ stage \in {"setup", "stopping", "running", "teardown", "failed", "over"}
  /\ threads \in [1 .. numThreads -> {"none", "working", "ended", "done"}]
  /\ worked \in [1 .. numThreads -> 0 .. Share]
  /\ \A t \in 1 .. numThreads : threads[t] = "none" => worked[t] = 0
  /\ consumed \in 0 .. Tests!WorkDone
  /\ events \in Nat /\ received \in Nat /\ killOpen \in BOOLEAN

TestInv == TestTypes /\ EventInv /\ StageInv

\* The instance counts with an operator of its own.
LEMMA SameCardinality ==
  ASSUME NEW S PROVE Tests!Cardinality(S) = Cardinality(S)
BY DEF Tests!Cardinality, Cardinality

\* The work done and the work there is, as numbers.
LEMMA WorkIs ==
  /\ Tests!WorkDone = Cardinality(Pieces(numThreads, worked))
  /\ Tests!Total = numThreads * Share /\ Tests!Threads = 1 .. numThreads
<1>1. Tests!Threads = 1 .. numThreads /\ Tests!Total = numThreads * Share
  BY DEF Tests!Threads, Tests!Total
<1>2. Tests!Finished = Pieces(numThreads, worked)
  BY DEF Tests!Finished, Tests!Threads, Pieces
<1> QED  BY <1>1, <1>2, SameCardinality DEF Tests!WorkDone

\* All threads send at the end only when each has done its share.
LEMMA SendersCount ==
  ASSUME NEW n \in Nat \ {0}, NEW w, NEW th
  PROVE  /\ IsFiniteSet(SendersOf(n, w, th)) /\ Cardinality(SendersOf(n, w, th)) \in Nat
         /\ Cardinality(SendersOf(n, w, th)) = n <=>
               \A t \in 1 .. n : th[t] \in {"ended", "done"} /\ w[t] = Share
         /\ Cardinality(SendersOf(n, w, th)) <= n
<1>1. IsFiniteSet(1 .. n) /\ Cardinality(1 .. n) = n
  BY FS_Interval
<1>2. SendersOf(n, w, th) \subseteq 1 .. n
  BY DEF SendersOf
<1>3. /\ IsFiniteSet(SendersOf(n, w, th)) /\ Cardinality(SendersOf(n, w, th)) <= n
      /\ Cardinality(SendersOf(n, w, th)) = n => SendersOf(n, w, th) = 1 .. n
  BY <1>1, <1>2, FS_Subset
<1>4. Cardinality(SendersOf(n, w, th)) \in Nat
  BY <1>3, FS_CardinalityType
<1>5. SendersOf(n, w, th) = 1 .. n <=>
         \A t \in 1 .. n : th[t] \in {"ended", "done"} /\ w[t] = Share
  BY DEF SendersOf
<1> QED  BY <1>1, <1>3, <1>4, <1>5

\* No event has been sent before the first thread works.
LEMMA TestStarts ==
  ASSUME Tests!Init PROVE TestInv
<1>1. numThreads \in Nat \ {0} /\ Share \in Nat \ {0}
  BY SystemAssumption DEF Tests!Init
<1>2. /\ threads = [t \in 1 .. numThreads |-> "none"]
      /\ worked = [t \in 1 .. numThreads |-> 0]
  BY DEF Tests!Init, Tests!Threads
<1>3. worked \in [1 .. numThreads -> 0 .. Share]
  BY <1>1, <1>2
<1>4. Tests!WorkDone \in Nat /\ Tests!Total > 0
  BY <1>1, <1>3, PiecesCount, WorkIs
<1>5. TestTypes
  BY <1>1, <1>2, <1>3, <1>4 DEF Tests!Init, TestTypes
<1>6. SendersOf(numThreads, worked, threads) = {}
  BY <1>2 DEF SendersOf
<1>7. EventInv
  BY <1>4, <1>6, FS_EmptySet DEF Tests!Init, EventInv
<1>8. StageInv
  <2>1. 0 \in 0 .. numThreads - 1 /\ \A t \in 1 .. numThreads : threads[t] # "none" <=> t <= 0
    BY <1>1, <1>2
  <2> QED  BY <2>1 DEF Tests!Init, StageInv
<1> QED  BY <1>5, <1>7, <1>8 DEF TestInv

\* A step that leaves the main thread alone, and none of the threads unstarted or working
\* that was not, leaves the stage as it was.
LEMMA StageKept ==
  ASSUME TestTypes, StageInv, UNCHANGED Tests!mainVars,
         \A t \in 1 .. numThreads : /\ threads'[t] = "none" <=> threads[t] = "none"
                                    /\ threads'[t] = "working" => threads[t] = "working"
  PROVE  StageInv'
BY DEF TestTypes, StageInv, Tests!mainVars

\* Work is only added to.
LEMMA WorkGrows ==
  ASSUME TestTypes, numThreads' = numThreads, worked' \in [1 .. numThreads -> 0 .. Share],
         \A t \in 1 .. numThreads : worked[t] <= worked'[t]
  PROVE  consumed \in 0 .. Tests!WorkDone' /\ Tests!Total' = Tests!Total
<1>1. (Tests!Finished = Pieces(numThreads, worked))'
  BY DEF Tests!Finished, Tests!Threads, Pieces
<1>2. (Tests!WorkDone = Cardinality(Pieces(numThreads, worked)))'
  BY <1>1, SameCardinality DEF Tests!WorkDone
<1>3. /\ numThreads \in Nat \ {0} /\ worked \in [1 .. numThreads -> 0 .. Share]
      /\ consumed \in 0 .. Tests!WorkDone
  BY DEF TestTypes
<1> DEFINE a == Cardinality(Pieces(numThreads, worked))  v == worked'
<1>4. a <= Cardinality(Pieces(numThreads, v))
  BY <1>3, PiecesGrow
<1>5. a \in Nat /\ Cardinality(Pieces(numThreads, v)) \in Nat
  BY <1>3, PiecesCount
<1>6. Tests!WorkDone = a /\ Tests!WorkDone' = Cardinality(Pieces(numThreads, v))
  BY <1>2, WorkIs
<1> HIDE DEF a, v
<1>7. consumed \in 0 .. Tests!WorkDone'
  BY <1>3, <1>4, <1>5, <1>6
<1> QED  BY <1>7 DEF Tests!Total

\* A thread works.
LEMMA WorkStep ==
  ASSUME TestInv, NEW t \in 1 .. numThreads, Tests!Work(t) PROVE TestInv'
<1> USE DEF TestInv, TestTypes
<1>1. /\ threads[t] = "working" /\ worked[t] < Share
      /\ worked' = [worked EXCEPT ![t] = worked[t] + 1]
      /\ UNCHANGED <<kind, numThreads, stage, received, expected, killOpen>>
      /\ UNCHANGED <<threads, told, consumed, events>>
  BY DEF Tests!Work, Tests!Working, Tests!mainVars
<1>2. Share \in Nat
  BY SystemAssumption
<1>3. /\ worked' \in [1 .. numThreads -> 0 .. Share]
      /\ \A u \in 1 .. numThreads : worked[u] <= worked'[u] /\ (u # t => worked'[u] = worked[u])
  BY <1>1, <1>2
<1>4. TestTypes' /\ Tests!Total' = Tests!Total
  BY <1>1, <1>3, WorkGrows
<1>5. SendersOf(numThreads, worked', threads) = SendersOf(numThreads, worked, threads)
  BY <1>1, <1>3 DEF SendersOf
<1>6. EventInv'
  BY <1>1, <1>4, <1>5 DEF EventInv
<1>7. StageInv'
  BY <1>1, StageKept DEF Tests!mainVars
<1> QED  BY <1>4, <1>6, <1>7

\* A thread ends, and sends its event when it is a writer that has written all.
LEMMA EndStep ==
  ASSUME TestInv, NEW t \in 1 .. numThreads,
         Tests!WriterEnds(t) \/ Tests!RingEnds(t) \/ Tests!FutexRingFails(t)
  PROVE  TestInv'
<1> USE DEF TestInv, TestTypes
<1>1. /\ threads[t] = "working" /\ threads' = [threads EXCEPT ![t] = "ended"]
      /\ UNCHANGED <<kind, numThreads, stage, received, expected, killOpen>>
      /\ UNCHANGED <<worked, told, consumed>>
      /\ events' = IF kind = "writer" /\ worked[t] = Share THEN events + 1 ELSE events
  BY DEF Tests!WriterEnds, Tests!RingEnds, Tests!FutexRingFails, Tests!Working, Tests!mainVars
<1>2. /\ threads' \in [1 .. numThreads -> {"none", "working", "ended", "done"}]
      /\ \A u \in 1 .. numThreads : threads'[u] = IF u = t THEN "ended" ELSE threads[u]
  BY <1>1
<1>3. \A u \in 1 .. numThreads : worked[u] <= worked'[u]
  BY <1>1, SystemAssumption
<1>4. TestTypes' /\ Tests!Total' = Tests!Total
  BY <1>1, <1>2, <1>3, WorkGrows
<1> DEFINE before == SendersOf(numThreads, worked, threads)
           later == SendersOf(numThreads, worked, threads')
<1>5. later = IF worked[t] = Share THEN before \union {t} ELSE before
  BY <1>1, <1>2 DEF SendersOf
<1>6. t \notin before /\ IsFiniteSet(before) /\ Cardinality(before) \in Nat
  <2>1. t \notin before
    BY <1>1 DEF SendersOf
  <2> QED  BY <2>1, SendersCount
<1>7. Cardinality(later) = IF worked[t] = Share THEN Cardinality(before) + 1 ELSE Cardinality(before)
  BY <1>5, <1>6, FS_AddElement
<1> HIDE DEF before
<1>8. EventInv'
  BY <1>1, <1>4, <1>6, <1>7 DEF EventInv, before
<1>9. StageInv'
  BY <1>1, <1>2, StageKept DEF Tests!mainVars
<1> QED  BY <1>4, <1>8, <1>9

\* The loop learns that a thread has ended.
LEMMA DoneStep ==
  ASSUME TestInv, NEW t \in 1 .. numThreads, Tests!ThreadDone(t) PROVE TestInv'
<1> USE DEF TestInv, TestTypes
<1>1. /\ threads[t] = "ended" /\ threads' = [threads EXCEPT ![t] = "done"]
      /\ UNCHANGED <<kind, numThreads, stage, received, expected, killOpen>>
      /\ UNCHANGED <<worked, told, consumed, events>>
  BY DEF Tests!ThreadDone, Tests!mainVars
<1>2. /\ threads' \in [1 .. numThreads -> {"none", "working", "ended", "done"}]
      /\ \A u \in 1 .. numThreads : threads'[u] = IF u = t THEN "done" ELSE threads[u]
  BY <1>1
<1>3. \A u \in 1 .. numThreads : worked[u] <= worked'[u]
  BY <1>1, SystemAssumption
<1>4. TestTypes' /\ Tests!Total' = Tests!Total
  BY <1>1, <1>2, <1>3, WorkGrows
<1>5. SendersOf(numThreads, worked, threads') = SendersOf(numThreads, worked, threads)
  BY <1>1, <1>2 DEF SendersOf
<1>6. EventInv'
  BY <1>1, <1>4, <1>5 DEF EventInv
<1>7. StageInv'
  BY <1>1, <1>2, StageKept DEF Tests!mainVars
<1> QED  BY <1>4, <1>6, <1>7

\* The ring's consumer sends its event with the last byte.
LEMMA ConsumeStep ==
  ASSUME TestInv, Tests!RingConsume PROVE TestInv'
<1> USE DEF TestInv, TestTypes
<1>1. /\ kind # "writer" /\ consumed' \in consumed + 1 .. Tests!WorkDone
      /\ events' = IF consumed' = Tests!Total THEN events + 1 ELSE events
      /\ UNCHANGED <<kind, numThreads, stage, received, expected, killOpen>>
      /\ UNCHANGED <<threads, worked, told>>
  BY DEF Tests!RingConsume, Tests!mainVars
<1>2. Tests!WorkDone \in Nat /\ Tests!Total \in Nat /\ Tests!WorkDone <= Tests!Total
  BY PiecesCount, WorkIs
<1>3. Tests!WorkDone' = Tests!WorkDone /\ Tests!Total' = Tests!Total
  BY <1>1, Zenon DEF Tests!WorkDone, Tests!Finished, Tests!Threads, Tests!Total
<1>4. PICK upTo \in consumed + 1 .. Tests!WorkDone : consumed' = upTo
  BY <1>1
<1>5. upTo \in 0 .. Tests!WorkDone /\ consumed # Tests!Total
  BY <1>2
<1>6. TestTypes'
  BY <1>1, <1>3, <1>4, <1>5
<1>7. EventInv'
  BY <1>1, <1>3, <1>4, <1>5 DEF EventInv
<1>8. StageInv'
  BY <1>1, StageKept DEF Tests!mainVars
<1> QED  BY <1>6, <1>7, <1>8

\* The threads are started one after the other, up to one that cannot be.
LEMMA StartStep ==
  ASSUME TestInv, Tests!StartThread \/ Tests!StartThreadFails PROVE TestInv'
<1> USE DEF TestInv, TestTypes
<1>1. PICK k \in 0 .. numThreads - 1 : \A t \in 1 .. numThreads : threads[t] # "none" <=> t <= k
  BY DEF StageInv, Tests!StartThread, Tests!StartThreadFails
<1>2. /\ stage = "setup" /\ received = 0 /\ killOpen
      /\ UNCHANGED <<kind, numThreads, worked, told, consumed, events, received, expected,
                     killOpen>>
  BY DEF StageInv, Tests!StartThread, Tests!StartThreadFails
<1>3. k + 1 \in 1 .. numThreads /\ threads[k + 1] = "none"
  BY <1>1
<1>4. CASE Tests!StartThreadFails
  <2>1. UNCHANGED threads /\ stage' = "stopping"
    BY <1>4 DEF Tests!StartThreadFails
  <2>2. UNCHANGED <<Tests!WorkDone, Tests!Total>>
    BY <1>2, Zenon DEF Tests!WorkDone, Tests!Finished, Tests!Threads, Tests!Total
  <2>3. TestTypes' /\ EventInv'
    BY <1>2, <2>1, <2>2 DEF EventInv
  <2>4. StageInv'
    BY <1>2, <1>3, <2>1 DEF StageInv
  <2> QED  BY <2>3, <2>4
<1>5. CASE Tests!StartThread
  <2> DEFINE started == {t \in Tests!Threads : threads[t] # "none"}
  <2>1. /\ threads' = [threads EXCEPT ![Tests!Cardinality(started) + 1] = "working"]
        /\ stage' = IF Tests!Cardinality(started) + 1 = numThreads THEN "running" ELSE "setup"
    BY <1>5 DEF Tests!StartThread
  <2>2. started = 1 .. k
    BY <1>1, WorkIs
  <2>3. Cardinality(1 .. k) = k
    BY FS_Interval
  <2> HIDE DEF started
  <2>4. /\ threads' = [threads EXCEPT ![k + 1] = "working"]
        /\ stage' = IF k + 1 = numThreads THEN "running" ELSE "setup"
    BY <2>1, <2>2, <2>3, SameCardinality
  <2>5. /\ threads' \in [1 .. numThreads -> {"none", "working", "ended", "done"}]
        /\ \A t \in 1 .. numThreads : threads'[t] = IF t = k + 1 THEN "working" ELSE threads[t]
    BY <1>3, <2>4
  <2>6. UNCHANGED <<Tests!WorkDone, Tests!Total>>
    BY <1>2, Zenon DEF Tests!WorkDone, Tests!Finished, Tests!Threads, Tests!Total
  <2>7. TestTypes'
    BY <1>2, <2>4, <2>5, <2>6
  <2>8. SendersOf(numThreads, worked, threads') = SendersOf(numThreads, worked, threads)
    BY <1>3, <2>5 DEF SendersOf
  <2>9. EventInv'
    BY <1>2, <2>6, <2>8 DEF EventInv
  <2>10. \A t \in 1 .. numThreads : threads'[t] # "none" <=> t <= k + 1
    BY <1>1, <2>5
  <2>11. StageInv'
    <3>1. CASE k + 1 = numThreads
      BY <1>2, <2>4, <2>10, <3>1 DEF StageInv, EventInv
    <3>2. CASE k + 1 # numThreads
      <4>1. k + 1 \in 0 .. numThreads - 1
        BY <3>2
      <4> QED  BY <1>2, <2>4, <2>10, <3>2, <4>1 DEF StageInv
    <3> QED  BY <3>1, <3>2
  <2> QED  BY <2>7, <2>9, <2>11
<1> QED  BY <1>4, <1>5

\* The main thread tells the threads to stop, and waits for them.
LEMMA StopStep ==
  ASSUME TestInv, Tests!StopThread \/ Tests!Teardown PROVE TestInv'
<1> USE DEF TestInv, TestTypes
<1>1. UNCHANGED <<kind, numThreads, threads, worked, consumed, events, received, expected>>
  BY DEF Tests!StopThread, Tests!Teardown
<1>2. UNCHANGED <<Tests!WorkDone, Tests!Total>>
  BY <1>1, Zenon DEF Tests!WorkDone, Tests!Finished, Tests!Threads, Tests!Total
<1>3. \/ UNCHANGED <<stage, killOpen>>
      \/ stage = "stopping" /\ Tests!Unfinished = {} /\ stage' = "failed" /\ killOpen' = FALSE
      \/ stage = "teardown" /\ stage' = "over" /\ UNCHANGED killOpen
  BY DEF Tests!StopThread, Tests!Teardown
<1>4. TestTypes' /\ EventInv'
  BY <1>1, <1>2, <1>3 DEF EventInv
<1>5. Tests!Unfinished = {} => \A t \in 1 .. numThreads : threads[t] # "working"
  BY WorkIs DEF Tests!Unfinished
<1>6. StageInv'
  <2>1. CASE UNCHANGED <<stage, killOpen>>
    BY <1>1, <2>1 DEF StageInv
  <2>2. CASE stage = "stopping" /\ Tests!Unfinished = {} /\ stage' = "failed" /\ killOpen' = FALSE
    BY <1>1, <1>5, <2>2 DEF StageInv
  <2>3. CASE stage = "teardown" /\ stage' = "over" /\ UNCHANGED killOpen
    BY <1>1, <2>3 DEF StageInv
  <2> QED  BY <1>3, <2>1, <2>2, <2>3
<1> QED  BY <1>4, <1>6

\* The loop is left with the last event that is expected.
LEMMA KillStep ==
  ASSUME TestInv, Tests!KillLoop PROVE TestInv'
<1> USE DEF TestInv, TestTypes
<1>1. /\ stage \in {"running", "stopping"}
      /\ received' = received + events /\ events' = 0
      /\ stage' = IF stage = "running" /\ received' = expected THEN "teardown" ELSE stage
      /\ killOpen' = (stage' # "teardown")
      /\ UNCHANGED <<kind, numThreads, threads, worked, told, consumed, expected>>
  BY DEF Tests!KillLoop
<1>2. UNCHANGED <<Tests!WorkDone, Tests!Total>>
  BY <1>1, Zenon DEF Tests!WorkDone, Tests!Finished, Tests!Threads, Tests!Total
<1>3. TestTypes'
  BY <1>1, <1>2
<1>4. received' + events' = received + events /\ received' = received + events
  BY <1>1
<1>5. EventInv'
  BY <1>1, <1>2, <1>4 DEF EventInv
<1>6. received + events <= expected
  BY SendersCount DEF EventInv
<1>7. StageInv'
  <2>1. killOpen' <=> stage' # "teardown"
    BY <1>1
  <2>2. CASE stage = "stopping"
    BY <1>1, <2>1, <2>2 DEF StageInv
  <2>3. CASE stage = "running" /\ received' = expected
    BY <1>1, <2>1, <2>3 DEF StageInv
  <2>4. CASE stage = "running" /\ received' # expected
    <3>1. expected \in Nat
      BY DEF EventInv
    <3>2. received' < expected'
      BY <1>1, <1>6, <2>4, <3>1
    <3> QED  BY <1>1, <2>1, <2>4, <3>2 DEF StageInv
  <2> QED  BY <1>1, <2>2, <2>3, <2>4
<1> QED  BY <1>3, <1>5, <1>7

\* What the invariant says when the loop runs and when it is left.
LEMMA TestInvLeaves ==
  ASSUME TestInv PROVE LoopLeftInTime
<1> USE DEF TestInv, TestTypes
<1> DEFINE all == Tests!WorkDone = Tests!Total /\ (kind = "writer" \/ consumed = Tests!Total)
           failed == \E t \in Tests!Threads :
                        threads[t] \in {"ended", "done"} /\ worked[t] < Share
<1>1. /\ Tests!WorkDone \in Nat /\ Tests!Total \in Nat /\ Tests!WorkDone <= Tests!Total
      /\ Tests!WorkDone = Tests!Total <=> \A t \in 1 .. numThreads : worked[t] = Share
  BY PiecesCount, WorkIs
<1>2. /\ Cardinality(SendersOf(numThreads, worked, threads)) \in Nat
      /\ Cardinality(SendersOf(numThreads, worked, threads)) <= numThreads
      /\ Cardinality(SendersOf(numThreads, worked, threads)) = numThreads <=>
            \A t \in 1 .. numThreads : threads[t] \in {"ended", "done"} /\ worked[t] = Share
  BY SendersCount
<1>3. Tests!Threads = 1 .. numThreads /\ Share \in Nat /\ Share > 0
  BY WorkIs, SystemAssumption
<1>4. ASSUME received = expected
      PROVE  all /\ (kind = "writer" => Tests!Working = {})
  <2>1. CASE kind = "writer"
    <3>1. Cardinality(SendersOf(numThreads, worked, threads)) = numThreads
      BY <1>2, <1>4, <2>1 DEF EventInv
    <3> QED  BY <1>1, <1>2, <1>3, <2>1, <3>1 DEF Tests!Working
  <2>2. CASE kind # "writer"
    <3>1. consumed = Tests!Total
      BY <1>4, <2>2 DEF EventInv
    <3> QED  BY <1>1, <2>2, <3>1
  <2> QED  BY <2>1, <2>2
<1>5. ASSUME stage = "running", ~failed, Tests!Working = {}, all
      PROVE  events > 0
  <2>1. received < expected /\ \A t \in 1 .. numThreads : threads[t] # "none"
    BY <1>5 DEF StageInv
  <2>2. CASE kind = "writer"
    <3>1. \A t \in 1 .. numThreads : threads[t] \in {"ended", "done"} /\ worked[t] = Share
      BY <1>1, <1>3, <1>5, <2>1 DEF Tests!Working
    <3>2. received + events = numThreads /\ expected = numThreads
      BY <1>2, <2>2, <3>1 DEF EventInv
    <3> QED  BY <2>1, <3>2
  <2>3. CASE kind # "writer"
    BY <1>5, <2>1, <2>3 DEF EventInv
  <2> QED  BY <2>2, <2>3
<1>6. ASSUME stage = "failed"
      PROVE  Tests!Working = {} /\ Tests!WorkDone # Tests!Total
  <2>1. PICK t \in 1 .. numThreads : worked[t] = 0
    BY <1>6 DEF StageInv
  <2> QED  BY <1>1, <1>3, <1>6, <2>1 DEF StageInv, Tests!Working
<1>7. stage \in {"teardown", "over"} => received = expected
  BY DEF StageInv
<1>8. ~killOpen => stage = "failed" \/ received = expected
  BY DEF StageInv
<1> HIDE DEF all
<1>9. /\ stage \in {"teardown", "over"} => all
      /\ stage = "running" /\ ~failed => Tests!Working # {} \/ ~all \/ events > 0
  BY <1>4, <1>5, <1>7
<1>10. ~killOpen => IF kind = "writer" THEN Tests!Working = {}
                    ELSE Tests!WorkDone = Tests!Total => consumed = Tests!Total
  BY <1>4, <1>6, <1>8 DEF all
<1> QED  BY <1>9, <1>10 DEF LoopLeftInTime, Tests!LoopLeftInTime, all

\* Every step of a test keeps its invariant.
LEMMA TestStep ==
  ASSUME TestInv, Tests!Next \/ UNCHANGED testVars PROVE TestInv'
<1>1. CASE UNCHANGED testVars
  <2>1. UNCHANGED <<Tests!WorkDone, Tests!Total>>
    BY <1>1, Zenon DEF testVars, Tests!WorkDone, Tests!Finished, Tests!Threads, Tests!Total
  <2> QED  BY <1>1, <2>1 DEF testVars, TestInv, TestTypes, EventInv, StageInv
<1>2. CASE Tests!Next
  <2>1. ASSUME NEW t \in Tests!Threads,
               \/ Tests!Work(t) \/ Tests!ThreadDone(t) \/ Tests!WriterEnds(t)
               \/ Tests!RingEnds(t) \/ Tests!FutexRingFails(t)
        PROVE  TestInv'
    <3>1. t \in 1 .. numThreads
      BY WorkIs
    <3> QED  BY <2>1, <3>1, WorkStep, DoneStep, EndStep
  <2> QED  BY <1>2, <2>1, ConsumeStep, StartStep, StopStep, KillStep DEF Tests!Next
<1> QED  BY <1>1, <1>2

\* A test that is run by several threads leaves its event loop when all of its work is done,
\* not before, and leaves it then, for any number of threads and any share of work
\* (swThreadedTestRun and killLoop, src/src/thread/threaded-test.c): every event that ends it
\* stands for a thread that finished, or for the last byte of the ring, and is sent once.
THEOREM LoopsLeft == SystemSpec => []LoopLeftInTime
<1>1. SystemInit => TestInv
  BY TestStarts DEF SystemInit
<1>2. TestInv /\ [SystemNext]_systemVars => TestInv'
  BY TestStep, StepsApart
<1>3. TestInv => LoopLeftInTime
  BY TestInvLeaves
<1> QED  BY <1>1, <1>2, <1>3, PTL DEF SystemSpec

-----------------------------------------------------------------------------
(* The command line                                                          *)

\* The instance counts with an operator of its own here too.
LEMMA LineCardinality ==
  ASSUME NEW S PROVE Line!Cardinality(S) = Cardinality(S)
BY DEF Line!Cardinality, Cardinality

\* How many members of a set are before a number.
Rank(S, i) == Cardinality({j \in S : j < i})

\* A member has a rank of its own.
LEMMA RankBounds ==
  ASSUME NEW S \in SUBSET Nat, IsFiniteSet(S)
  PROVE  /\ \A i \in S : Rank(S, i) \in 0 .. Cardinality(S) - 1
         /\ \A i, j \in S : i < j => Rank(S, i) < Rank(S, j)
<1>1. ASSUME NEW i \in Nat
      PROVE  IsFiniteSet({j \in S : j < i}) /\ Rank(S, i) \in Nat
  BY FS_Subset, FS_CardinalityType DEF Rank
<1>2. Cardinality(S) \in Nat
  BY FS_CardinalityType
<1>3. ASSUME NEW i \in S PROVE Rank(S, i) \in 0 .. Cardinality(S) - 1
  <2> DEFINE T == {j \in S : j < i}
  <2>1. T \subseteq S /\ T # S
    BY <1>3
  <2>2. Cardinality(T) <= Cardinality(S) /\ Cardinality(T) # Cardinality(S)
    BY <2>1, FS_Subset
  <2>3. Rank(S, i) = Cardinality(T)
    BY DEF Rank
  <2>4. Rank(S, i) \in Nat
    BY <1>1, <1>3
  <2> HIDE DEF T
  <2> QED  BY <1>2, <2>2, <2>3, <2>4
<1>4. ASSUME NEW i \in S, NEW j \in S, i < j PROVE Rank(S, i) < Rank(S, j)
  <2> DEFINE T == {k \in S : k < i}
             U == {k \in S : k < j}
  <2>1. IsFiniteSet(T) /\ i \notin T /\ T \cup {i} \subseteq U /\ IsFiniteSet(U)
    <3>1. i \in Nat /\ j \in Nat
      OBVIOUS
    <3>2. IsFiniteSet(T) /\ IsFiniteSet(U)
      BY <1>1, <3>1
    <3>3. i \notin T /\ T \cup {i} \subseteq U
      <4>1. \A k \in Nat : k < i => k < j
        BY <1>4, <3>1
      <4>2. ~(i < i)
        BY <3>1
      <4> QED  BY <1>4, <4>1, <4>2
    <3> QED  BY <3>2, <3>3
  <2>2. Cardinality(T \cup {i}) = Cardinality(T) + 1
    BY <2>1, FS_AddElement
  <2>3. Cardinality(T \cup {i}) <= Cardinality(U)
    BY <2>1, FS_Subset
  <2>4. Cardinality(T) \in Nat /\ Cardinality(U) \in Nat
    BY <2>1, FS_CardinalityType
  <2> QED  BY <2>2, <2>3, <2>4 DEF Rank
<1> QED  BY <1>3, <1>4

\* InOrder lists each member of a finite set of positions once, at its rank.
LEMMA Ordered ==
  ASSUME NEW S \in SUBSET Nat, IsFiniteSet(S)
  PROVE  /\ Line!InOrder(S) \in [1 .. Cardinality(S) -> S]
         /\ \A k \in 1 .. Cardinality(S) : Rank(S, Line!InOrder(S)[k]) = k - 1
         /\ \A i \in S : /\ Rank(S, i) + 1 \in 1 .. Cardinality(S)
                         /\ Line!InOrder(S)[Rank(S, i) + 1] = i
<1> DEFINE card == Cardinality(S)
           f == [i \in S |-> Rank(S, i) + 1]
<1>1. card \in Nat /\ \A i \in S : Rank(S, i) \in 0 .. card - 1
  BY FS_CardinalityType, RankBounds
<1>2. \A i, j \in S : Rank(S, i) = Rank(S, j) => i = j
  <2> SUFFICES ASSUME NEW i \in S, NEW j \in S, i # j PROVE Rank(S, i) # Rank(S, j)
    OBVIOUS
  <2>1. i < j \/ j < i
    OBVIOUS
  <2>2. Rank(S, i) < Rank(S, j) \/ Rank(S, j) < Rank(S, i)
    BY <2>1, RankBounds
  <2> QED  BY <1>1, <2>2
<1>3. f \in [S -> 1 .. card]
  BY <1>1
<1>4. \A i, j \in S : f[i] = f[j] => i = j
  BY <1>1, <1>2
<1>5. f \in Injection(S, 1 .. card)
  BY <1>3, <1>4, Fun_IsInj
<1>6. IsFiniteSet(1 .. card) /\ Cardinality(1 .. card) = card
  BY <1>1, FS_Interval
<1>7. f \in Surjection(S, 1 .. card)
  BY <1>5, <1>6, FS_Injection
<1>8. \A k \in 1 .. card : \E i \in S : Rank(S, i) = k - 1
  <2> TAKE k \in 1 .. card
  <2>1. PICK i \in S : f[i] = k
    BY <1>7 DEF Surjection
  <2> QED  BY <1>1, <2>1
<1>9. Line!InOrder(S) = [k \in 1 .. card |-> CHOOSE i \in S : Rank(S, i) = k - 1]
  BY DEF Line!InOrder, Rank, Line!Cardinality, Cardinality
<1> HIDE DEF card
<1>10. \A k \in 1 .. card : Line!InOrder(S)[k] \in S /\ Rank(S, Line!InOrder(S)[k]) = k - 1
  <2> TAKE k \in 1 .. card
  <2>1. Line!InOrder(S)[k] = CHOOSE i \in S : Rank(S, i) = k - 1
    BY <1>9, Zenon
  <2>2. \E i \in S : Rank(S, i) = k - 1
    BY <1>8
  <2> QED  BY <2>1, <2>2
<1>11. \A i \in S : Rank(S, i) + 1 \in 1 .. card /\ Line!InOrder(S)[Rank(S, i) + 1] = i
  <2> TAKE i \in S
  <2>1. Rank(S, i) \in Nat /\ Rank(S, i) + 1 \in 1 .. card /\ (Rank(S, i) + 1) - 1 = Rank(S, i)
    BY <1>1
  <2>2. /\ Line!InOrder(S)[Rank(S, i) + 1] \in S
        /\ Rank(S, Line!InOrder(S)[Rank(S, i) + 1]) = Rank(S, i)
    BY <1>10, <2>1
  <2> QED  BY <1>2, <2>1, <2>2
<1> QED  BY <1>9, <1>10, <1>11 DEF card

\* The list of a set and of one member more, behind all.
LEMMA OrderedAppend ==
  ASSUME NEW S \in SUBSET Nat, IsFiniteSet(S), NEW m \in Nat, \A i \in S : i < m
  PROVE  /\ IsFiniteSet(S \cup {m}) /\ Cardinality(S \cup {m}) = Cardinality(S) + 1
         /\ \A k \in 1 .. Cardinality(S) : Line!InOrder(S \cup {m})[k] = Line!InOrder(S)[k]
         /\ Line!InOrder(S \cup {m})[Cardinality(S) + 1] = m
<1> DEFINE card == Cardinality(S)
           T == S \cup {m}
<1>1. card \in Nat /\ m \notin S
  BY FS_CardinalityType
<1>2. IsFiniteSet(T) /\ Cardinality(T) = card + 1 /\ T \in SUBSET Nat
  BY <1>1, FS_AddElement
<1>3. \A i \in S : Rank(T, i) = Rank(S, i)
  <2> TAKE i \in S
  <2>1. {j \in T : j < i} = {j \in S : j < i}
    OBVIOUS
  <2> QED  BY <2>1 DEF Rank
<1>4. Rank(T, m) = card
  <2>1. {j \in T : j < m} = S
    <3>1. ~(m < m)
      OBVIOUS
    <3> QED  BY <3>1
  <2> QED  BY <2>1 DEF Rank
<1> HIDE DEF card, T
<1>5. ASSUME NEW k \in 1 .. card PROVE Line!InOrder(T)[k] = Line!InOrder(S)[k]
  <2> DEFINE i == Line!InOrder(S)[k]
  <2>1. i \in S /\ Rank(S, i) = k - 1
    BY Ordered DEF card
  <2>2. Rank(T, i) = k - 1 /\ i \in T
    BY <1>3, <2>1 DEF T
  <2>3. Line!InOrder(T)[Rank(T, i) + 1] = i
    BY <1>2, <2>2, Ordered
  <2>4. (k - 1) + 1 = k
    BY <1>1
  <2> QED  BY <2>2, <2>3, <2>4
<1>6. Line!InOrder(T)[card + 1] = m
  BY <1>2, <1>4, Ordered DEF T
<1> QED  BY <1>2, <1>5, <1>6 DEF card, T

\* The list of an interval.
LEMMA OrderedInterval ==
  ASSUME NEW a \in Nat, NEW b \in Nat, a <= b + 1
  PROVE  /\ IsFiniteSet(a .. b) /\ Cardinality(a .. b) = (b + 1) - a
         /\ \A k \in 1 .. (b + 1) - a : Line!InOrder(a .. b)[k] = (a + k) - 1
<1>1. IsFiniteSet(a .. b) /\ Cardinality(a .. b) = (b + 1) - a /\ a .. b \in SUBSET Nat
  BY FS_Interval
<1>2. \A i \in a .. b : Rank(a .. b, i) = i - a
  <2> TAKE i \in a .. b
  <2>1. {j \in a .. b : j < i} = a .. i - 1
    OBVIOUS
  <2>2. Cardinality(a .. i - 1) = i - a
    <3>1. a \in Int /\ i - 1 \in Int /\ ((i - 1) - a) + 1 = i - a /\ (a > i - 1 => i - a = 0)
      OBVIOUS
    <3>2. Cardinality(a .. i - 1) = IF a > i - 1 THEN 0 ELSE ((i - 1) - a) + 1
      BY <3>1, FS_Interval
    <3> QED  BY <3>1, <3>2
  <2> QED  BY <2>1, <2>2 DEF Rank
<1>3. ASSUME NEW k \in 1 .. (b + 1) - a PROVE Line!InOrder(a .. b)[k] = (a + k) - 1
  <2> DEFINE i == (a + k) - 1
  <2>1. i \in a .. b /\ i - a = k - 1 /\ (k - 1) + 1 = k
    OBVIOUS
  <2>2. Rank(a .. b, i) = k - 1
    BY <1>2, <2>1
  <2>3. Line!InOrder(a .. b)[Rank(a .. b, i) + 1] = i
    BY <1>1, <2>1, Ordered
  <2> QED  BY <2>1, <2>2, <2>3
<1> QED  BY <1>1, <1>3

\* Numbers have a least one among them.
LEMMA LeastNumber ==
  ASSUME NEW S, S \subseteq Nat, S # {}
  PROVE  \E q \in S : \A r \in S : q <= r
<1>1. IsWellFoundedOn(OpToRel(<, Nat), Nat)
  BY NatLessThanWellFounded
<1>2. PICK q \in S : \A r \in S : ~(<<r, q>> \in OpToRel(<, Nat))
  BY <1>1, WFMin
<1>3. \A r \in S : r < q => <<r, q>> \in OpToRel(<, Nat)
  BY <1>2 DEF OpToRel
<1>4. \A r \in S : ~(r < q)
  BY <1>2, <1>3, Zenon
<1>5. \A r \in S : q <= r
  BY <1>4
<1> QED  BY <1>5

\* The function that joins the first n of some sequences.
Joins(seqs, n, f) ==
  f = [i \in 1 .. n |-> IF i = 1 THEN seqs[i] ELSE f[i - 1] \o seqs[i]]

\* Sequences can be joined, however many they are.
LEMMA JoinsThere ==
  ASSUME NEW S, NEW seqs \in Seq(Seq(S)), NEW n \in 1 .. Len(seqs)
  PROVE  \E f \in [1 .. n -> Seq(S)] : Joins(seqs, n, f)
<1> DEFINE Without == {k \in 1 .. Len(seqs) :
                         ~ \E f \in [1 .. k -> Seq(S)] : Joins(seqs, k, f)}
<1>1. Without = {}
  <2> SUFFICES ASSUME Without # {} PROVE FALSE
    OBVIOUS
  <2>1. Without \subseteq Nat
    OBVIOUS
  <2>2. PICK k \in Without : \A j \in Without : k <= j
    BY <2>1, LeastNumber
  <2>3. k \in 1 .. Len(seqs) /\ k \in Nat /\ seqs[k] \in Seq(S)
    BY <2>2
  <2>4. CASE k = 1
    <3> DEFINE f == [i \in 1 .. 1 |-> seqs[1]]
    <3>1. f \in [1 .. 1 -> Seq(S)] /\ f[1] = seqs[1]
      BY <2>3, <2>4
    <3>2. Joins(seqs, 1, f)
      BY DEF Joins
    <3> QED  BY <2>2, <2>4, <3>1, <3>2
  <2>5. CASE k # 1
    <3>1. k - 1 \in 1 .. Len(seqs) /\ ~(k <= k - 1)
      BY <2>3, <2>5
    <3>2. PICK g \in [1 .. k - 1 -> Seq(S)] : Joins(seqs, k - 1, g)
      <4>1. k - 1 \notin Without
        BY <2>2, <3>1
      <4> QED  BY <3>1, <4>1
    <3> DEFINE f == [i \in 1 .. k |-> IF i = k THEN g[k - 1] \o seqs[k] ELSE g[i]]
    <3>3. g[k - 1] \in Seq(S) /\ g[k - 1] \o seqs[k] \in Seq(S)
      BY <2>3, <2>5, ConcatProperties
    <3>4. f \in [1 .. k -> Seq(S)]
      <4>1. ASSUME NEW i \in 1 .. k, i # k PROVE g[i] \in Seq(S)
        <5>1. i \in 1 .. k - 1
          BY <2>3, <4>1
        <5> QED  BY <5>1
      <4> QED  BY <3>3, <4>1
    <3>5. f[k] = g[k - 1] \o seqs[k] /\ \A i \in 1 .. k - 1 : f[i] = g[i]
      <4>1. k \in 1 .. k /\ \A i \in 1 .. k - 1 : i \in 1 .. k /\ i # k
        BY <2>3
      <4> QED  BY <4>1
    <3>6. ASSUME NEW i \in 1 .. k
          PROVE  f[i] = IF i = 1 THEN seqs[i] ELSE f[i - 1] \o seqs[i]
      <4>1. CASE i = k
        <5>1. k - 1 \in 1 .. k - 1
          BY <2>3, <2>5
        <5>2. f[k - 1] = g[k - 1]
          BY <3>5, <5>1
        <5> HIDE DEF f
        <5> QED  BY <2>5, <3>5, <4>1, <5>2
      <4>2. CASE i # k
        <5>1. i \in 1 .. k - 1 /\ (i # 1 => i - 1 \in 1 .. k - 1)
          BY <2>3, <4>2
        <5>2. g[i] = IF i = 1 THEN seqs[i] ELSE g[i - 1] \o seqs[i]
          BY <3>2, <5>1 DEF Joins
        <5>3. f[i] = g[i] /\ (i # 1 => f[i - 1] = g[i - 1])
          BY <3>5, <5>1
        <5> HIDE DEF f
        <5> QED  BY <5>2, <5>3
      <4> QED  BY <4>1, <4>2
    <3>7. DOMAIN f = 1 .. k
      BY <3>4
    <3>8. f = [i \in 1 .. k |-> f[i]]
      BY <3>7
    <3>9. Joins(seqs, k, f)
      <4> HIDE DEF f
      <4> QED  BY <3>6, <3>8 DEF Joins
    <3> QED  BY <2>2, <3>4, <3>9
  <2> QED  BY <2>4, <2>5
<1> QED  BY <1>1

\* Sequences that are joined make one of the same elements.
LEMMA Flattened ==
  ASSUME NEW S, NEW seqs \in Seq(Seq(S))
  PROVE  Line!FlattenSeq(seqs) \in Seq(S)
<1>1. CASE Len(seqs) = 0
  <2>1. seqs = << >>
    BY <1>1, EmptySeq
  <2> QED  BY <1>1, <2>1 DEF Line!FlattenSeq
<1>2. CASE Len(seqs) # 0
  <2> DEFINE n == Len(seqs)
             F == CHOOSE f : Joins(seqs, n, f)
  <2>1. n \in 1 .. n /\ n \in Nat
    BY <1>2
  <2>2. \E f : Joins(seqs, n, f)
    BY <2>1, JoinsThere
  <2>3. Joins(seqs, n, F)
    BY <2>2
  <2>4. Line!FlattenSeq(seqs) = F[n]
    BY <1>2 DEF Line!FlattenSeq, Joins
  <2> HIDE DEF F
  <2>5. \A i \in 1 .. n : F[i] = IF i = 1 THEN seqs[i] ELSE F[i - 1] \o seqs[i]
    BY <2>3 DEF Joins
  <2> DEFINE Wrong == {i \in 1 .. n : F[i] \notin Seq(S)}
  <2>6. Wrong = {}
    <3> SUFFICES ASSUME Wrong # {} PROVE FALSE
      OBVIOUS
    <3>1. Wrong \subseteq Nat
      OBVIOUS
    <3>2. PICK k \in Wrong : \A j \in Wrong : k <= j
      BY <3>1, LeastNumber
    <3>3. k \in 1 .. n /\ F[k] \notin Seq(S) /\ seqs[k] \in Seq(S)
      BY <3>2
    <3>4. k # 1
      BY <2>5, <3>3
    <3>5. k - 1 \in 1 .. n /\ k - 1 \notin Wrong
      BY <3>2, <3>3, <3>4
    <3>6. F[k - 1] \in Seq(S) /\ F[k] = F[k - 1] \o seqs[k]
      BY <2>5, <3>3, <3>4, <3>5
    <3> QED  BY <3>3, <3>6, ConcatProperties
  <2> QED  BY <2>1, <2>4, <2>6
<1> QED  BY <1>1, <1>2

\* A category's valid options are the first ones of it.
LEMMA ValidCounted ==
  ASSUME NEW cat \in Line!Category
  PROVE  Line!ValidCount(cat) \in 0 .. Len(cat.options)
<1> DEFINE os == cat.options
           P(n) == /\ \A i \in 1 .. n : Line!ValidateOption(os[i], cat.main)
                   /\ n < Len(os) => ~Line!ValidateOption(os[n + 1], cat.main)
           Bad == {n \in 0 .. Len(os) - 1 : ~Line!ValidateOption(os[n + 1], cat.main)}
<1>1. os \in Seq(Line!Option) /\ Len(os) \in Nat
  BY DEF Line!Category
<1> HIDE DEF os
<1>2. \E n \in 0 .. Len(os) : P(n)
  <2>1. CASE Bad = {}
    <3>1. ASSUME NEW i \in 1 .. Len(os) PROVE Line!ValidateOption(os[i], cat.main)
      <4>1. i - 1 \in 0 .. Len(os) - 1 /\ (i - 1) + 1 = i
        BY <1>1
      <4> QED  BY <2>1, <4>1
    <3>2. P(Len(os)) /\ Len(os) \in 0 .. Len(os)
      BY <1>1, <3>1
    <3> QED  BY <3>2
  <2>2. CASE Bad # {}
    <3>1. Bad \subseteq Nat
      BY <1>1
    <3>2. PICK q \in Bad : \A r \in Bad : q <= r
      BY <2>2, <3>1, LeastNumber
    <3>3. q \in 0 .. Len(os) - 1 /\ q \in Nat /\ ~Line!ValidateOption(os[q + 1], cat.main)
      BY <1>1, <3>2
    <3>4. ASSUME NEW i \in 1 .. q PROVE Line!ValidateOption(os[i], cat.main)
      <4>1. i - 1 \in 0 .. Len(os) - 1 /\ (i - 1) + 1 = i /\ ~(q <= i - 1)
        BY <1>1, <3>3
      <4> QED  BY <3>2, <4>1
    <3>5. q \in 0 .. Len(os)
      BY <1>1, <3>3
    <3> QED  BY <3>3, <3>4, <3>5
  <2> QED  BY <2>1, <2>2
<1>3. Line!ValidCount(cat) = CHOOSE n \in 0 .. Len(os) : P(n)
  BY DEF Line!ValidCount, os
<1> HIDE DEF P
<1> QED  BY <1>2, <1>3 DEF os

\* What is collected of a category is a sequence of its options.
LEMMA CollectedAre ==
  ASSUME NEW cat \in Line!Category
  PROVE  Line!Collected(cat) \in Seq(Line!Option)
<1> DEFINE os == cat.options
           n == Line!ValidCount(cat)
<1>1. os \in Seq(Line!Option) /\ Len(os) \in Nat
  BY DEF Line!Category
<1>2. n \in 0 .. Len(os)
  BY ValidCounted
<1>3. \/ Line!Collected(cat) = SubSeq(os, 1, n)
      \/ n < Len(os) /\ Line!Collected(cat) = SubSeq(os, 1, n + 1)
  BY DEF Line!Collected
<1> HIDE DEF os, n
<1>4. ASSUME NEW k \in 0 .. Len(os) PROVE SubSeq(os, 1, k) \in Seq(Line!Option)
  BY <1>1, <1>4, SubSeqProperties
<1> QED  BY <1>1, <1>2, <1>3, <1>4

\* Where an argument may go.
Places == {"value", "sink", "positional", "dashes", "after"}

\* Where a list of places names one, and the texts of the arguments there.
At(p, w) == {i \in DOMAIN p : p[i] = w}
Texts(p, w, a) ==
  [k \in 1 .. Cardinality(At(p, w)) |-> a[Line!InOrder(At(p, w))[k]]]

\* The arguments at a place are finitely many.
LEMMA AtFinite ==
  ASSUME NEW p \in Seq(Places), NEW w
  PROVE  /\ At(p, w) \in SUBSET (1 .. Len(p)) /\ At(p, w) \in SUBSET Nat
         /\ IsFiniteSet(At(p, w)) /\ Cardinality(At(p, w)) \in Nat
<1>1. At(p, w) \in SUBSET (1 .. Len(p)) /\ Len(p) \in Nat
  BY DEF At
<1>2. IsFiniteSet(1 .. Len(p))
  BY <1>1, FS_Interval
<1>3. IsFiniteSet(At(p, w)) /\ Cardinality(At(p, w)) \in Nat
  BY <1>1, <1>2, FS_Subset, FS_CardinalityType
<1> QED  BY <1>1, <1>3

\* The operators of the model, in these terms.
LEMMA TextsAre ==
  ASSUME place \in Seq(Places)
  PROVE  /\ \A w : Line!TextsOf(w) = Texts(place, w, args)
         /\ Line!Used = Cardinality(At(place, "positional"))
<1>1. ASSUME NEW w PROVE Line!TextsOf(w) = Texts(place, w, args)
  <2>1. Line!Placed(w) = Line!InOrder(At(place, w))
    BY DEF Line!Placed, At
  <2>2. Line!InOrder(At(place, w)) \in [1 .. Cardinality(At(place, w)) -> At(place, w)]
    BY AtFinite, Ordered
  <2> QED  BY <2>1, <2>2 DEF Line!TextsOf, Texts
<1>2. Line!Used = Cardinality(At(place, "positional"))
  BY LineCardinality DEF Line!Used, At
<1> QED  BY <1>1, <1>2

\* The texts at a place are a sequence, with one for each of its arguments.
LEMMA TextsSeq ==
  ASSUME NEW p \in Seq(Places), NEW w, NEW S, NEW a \in Seq(S), Len(p) <= Len(a)
  PROVE  /\ Texts(p, w, a) \in Seq(S) /\ Len(Texts(p, w, a)) = Cardinality(At(p, w))
<1>1. /\ At(p, w) \in SUBSET (1 .. Len(p)) /\ At(p, w) \in SUBSET Nat
      /\ IsFiniteSet(At(p, w)) /\ Cardinality(At(p, w)) \in Nat
  BY AtFinite
<1>2. Line!InOrder(At(p, w)) \in [1 .. Cardinality(At(p, w)) -> At(p, w)]
  BY <1>1, Ordered
<1>3. \A k \in 1 .. Cardinality(At(p, w)) : a[Line!InOrder(At(p, w))[k]] \in S
  <2> TAKE k \in 1 .. Cardinality(At(p, w))
  <2>1. Line!InOrder(At(p, w))[k] \in At(p, w)
    BY <1>2
  <2>2. Line!InOrder(At(p, w))[k] \in 1 .. Len(a)
    BY <1>1, <2>1
  <2> QED  BY <2>2
<1> QED  BY <1>1, <1>3 DEF Texts

\* The texts of nothing.
LEMMA TextsNone ==
  ASSUME NEW p, NEW w, NEW a, At(p, w) = {}
  PROVE  Texts(p, w, a) = << >>
<1>1. Cardinality(At(p, w)) = 0
  BY FS_EmptySet
<1> QED  BY <1>1 DEF Texts

\* One argument more goes to the end of its list.
LEMMA TextsAppend ==
  ASSUME NEW S, NEW a \in Seq(S), NEW p \in Seq(Places), NEW q \in Seq(Places), NEW w,
         Len(p) < Len(a), Len(q) <= Len(a), At(q, w) = At(p, w) \cup {Len(p) + 1}
  PROVE  Texts(q, w, a) = Append(Texts(p, w, a), a[Len(p) + 1])
<1> DEFINE card == Cardinality(At(p, w))
           m == Len(p) + 1
<1>1. /\ At(p, w) \in SUBSET (1 .. Len(p)) /\ At(p, w) \in SUBSET Nat
      /\ IsFiniteSet(At(p, w)) /\ card \in Nat /\ m \in Nat /\ a[m] \in S
  BY AtFinite
<1>2. \A i \in At(p, w) : i < m
  BY <1>1
<1>3. /\ Cardinality(At(q, w)) = card + 1
      /\ \A k \in 1 .. card : Line!InOrder(At(q, w))[k] = Line!InOrder(At(p, w))[k]
      /\ Line!InOrder(At(q, w))[card + 1] = m
  <2> DEFINE U == At(p, w)
  <2>1. U \in SUBSET Nat /\ IsFiniteSet(U) /\ m \in Nat /\ \A i \in U : i < m
    BY <1>1, <1>2
  <2>2. At(q, w) = U \cup {m} /\ card = Cardinality(U)
    OBVIOUS
  <2> HIDE DEF U, m, card
  <2>3. /\ Cardinality(U \cup {m}) = Cardinality(U) + 1
        /\ \A k \in 1 .. Cardinality(U) : Line!InOrder(U \cup {m})[k] = Line!InOrder(U)[k]
        /\ Line!InOrder(U \cup {m})[Cardinality(U) + 1] = m
    BY <2>1, OrderedAppend
  <2> QED  BY <2>2, <2>3 DEF U
<1>4. /\ Texts(p, w, a) \in Seq(S) /\ Len(Texts(p, w, a)) = card
      /\ Texts(q, w, a) \in Seq(S) /\ Len(Texts(q, w, a)) = card + 1
  <2>1. Len(p) <= Len(a)
    OBVIOUS
  <2>2. Texts(p, w, a) \in Seq(S) /\ Len(Texts(p, w, a)) = Cardinality(At(p, w))
    BY <2>1, TextsSeq
  <2>3. Texts(q, w, a) \in Seq(S) /\ Len(Texts(q, w, a)) = Cardinality(At(q, w))
    BY TextsSeq
  <2> QED  BY <1>3, <2>2, <2>3
<1>5. /\ Append(Texts(p, w, a), a[m]) \in Seq(S)
      /\ Len(Append(Texts(p, w, a), a[m])) = card + 1
  BY <1>1, <1>4
<1> HIDE DEF card, m
<1>6. ASSUME NEW k \in 1 .. card + 1
      PROVE  Texts(q, w, a)[k] = Append(Texts(p, w, a), a[m])[k]
  <2>1. Texts(q, w, a)[k] = a[Line!InOrder(At(q, w))[k]]
    BY <1>3 DEF Texts
  <2>2. CASE k = card + 1
    BY <1>1, <1>3, <1>4, <2>1, <2>2
  <2>3. CASE k # card + 1
    <3>1. k \in 1 .. card
      BY <1>1, <2>3
    <3>2. Append(Texts(p, w, a), a[m])[k] = Texts(p, w, a)[k]
      BY <1>1, <1>4, <3>1
    <3>3. Texts(p, w, a)[k] = a[Line!InOrder(At(p, w))[k]]
      BY <3>1 DEF Texts, card
    <3> QED  BY <1>3, <2>1, <3>1, <3>2, <3>3
  <2> QED  BY <2>2, <2>3
<1>7. Texts(q, w, a) = Append(Texts(p, w, a), a[m])
  BY <1>4, <1>5, <1>6, SeqEqual
<1> QED  BY <1>7 DEF m

\* All from a position on.
LEMMA TextsRest ==
  ASSUME NEW S, NEW a \in Seq(S), NEW q \in Seq(Places), NEW w, NEW m \in Nat \ {0},
         m <= Len(a) + 1, Len(q) <= Len(a), At(q, w) = m .. Len(a)
  PROVE  Texts(q, w, a) = SubSeq(a, m, Len(a))
<1> DEFINE n == Len(a)
           card == (n + 1) - m
<1>1. n \in Nat /\ card \in Nat
  OBVIOUS
<1>2. /\ Cardinality(At(q, w)) = card
      /\ \A k \in 1 .. card : Line!InOrder(At(q, w))[k] = (m + k) - 1
  <2>1. m \in Nat /\ n \in Nat /\ m <= n + 1 /\ At(q, w) = m .. n
    BY <1>1
  <2> HIDE DEF n
  <2>2. /\ Cardinality(m .. n) = (n + 1) - m
        /\ \A k \in 1 .. (n + 1) - m : Line!InOrder(m .. n)[k] = (m + k) - 1
    BY <2>1, OrderedInterval
  <2> QED  BY <2>1, <2>2
<1>3. Texts(q, w, a) \in Seq(S) /\ Len(Texts(q, w, a)) = card
  BY <1>2, TextsSeq
<1>4. \A i \in m .. n : a[i] \in S
  BY <1>1
<1>5. /\ SubSeq(a, m, n) \in Seq(S)
      /\ Len(SubSeq(a, m, n)) = IF m <= n THEN (n - m) + 1 ELSE 0
      /\ \A i \in 1 .. (n - m) + 1 : SubSeq(a, m, n)[i] = a[(m + i) - 1]
  BY <1>1, <1>4, SubSeqProperties
<1>6. Len(SubSeq(a, m, n)) = card /\ (n - m) + 1 = card
  BY <1>1, <1>5
<1>7. ASSUME NEW k \in 1 .. card PROVE Texts(q, w, a)[k] = SubSeq(a, m, n)[k]
  <2>1. Texts(q, w, a)[k] = a[Line!InOrder(At(q, w))[k]]
    BY <1>2 DEF Texts
  <2> QED  BY <1>2, <1>5, <1>6, <2>1
<1> QED  BY <1>3, <1>5, <1>6, <1>7, SeqEqual

\* The variables of the command line have their types.
LineTypes ==
  /\ declared \in Seq(Line!Category) /\ args \in Seq(Line!Argument)
  /\ options \in Seq(Line!Option)
  /\ result \in {"none", "scanning", "ok", "help", "failed"}

\* An argument that is an option without its value, and the option one that needs one.
WantsValue(i) ==
  /\ ~Line!Plain(args[i]) /\ args[i].value = << >>
  /\ Line!PairOf(args[i].name) # {}
  /\ \A o \in Line!PairOf(args[i].name) : options[o].type \in {"int", "string"}

\* What is known of the arguments scanned so far: dashes and what comes after the options
\* end the scan.
Placing ==
  /\ place \in Seq(Places) /\ Len(place) <= Len(args)
  /\ sink = Texts(place, "sink", args) /\ after = Texts(place, "after", args)
  /\ Cardinality(At(place, "positional")) <= Len(Line!Positional)
  /\ after # << >> => Cardinality(At(place, "positional")) = Len(Line!Positional)
  /\ \A i \in 1 .. Len(place) :
       /\ place[i] \in {"dashes", "after"} => Len(place) = Len(args)
       /\ place[i] = "sink" => Line!Positional = << >> \/ ~Line!Plain(args[i])
       /\ place[i] = "value" /\ WantsValue(i) /\ i < Len(args) /\ Line!Plain(args[i + 1])
          => i < Len(place) /\ place[i + 1] = "value"
       /\ \A j \in 1 .. Len(place) :
            i < j => /\ place[i] = "after" => place[j] = "after"
                     /\ place[i] = "dashes" => place[j] \in {"positional", "after"}

\* What depends only on the options.
LEMMA OptionsKept ==
  ASSUME UNCHANGED <<options, args>>
  PROVE  /\ Line!Positional' = Line!Positional
         /\ \A i : WantsValue(i)' = WantsValue(i)
<1>1. Line!Positional' = Line!Positional
  BY DEF Line!Positional
<1>2. \A x : Line!PairOf(x)' = Line!PairOf(x)
  BY DEF Line!PairOf
<1>3. \A i : WantsValue(i)' = WantsValue(i)
  BY <1>2 DEF WantsValue
<1> QED  BY <1>1, <1>3

\* A token has the dashes of its argument, and is the argument if its name is known.
LEMMA TokenIs ==
  ASSUME NEW a \in Line!Argument
  PROVE  /\ Line!Plain(Line!Token(a)) <=> Line!Plain(a)
         /\ Line!PairOf(a.name) # {} => Line!Token(a) = a
<1>1. \/ Line!Token(a) = a
      \/ /\ Line!PairOf(a.name) = {}
         /\ \E n, v : Line!Token(a) = [a EXCEPT !.name = n, !.value = v]
  BY DEF Line!Token
<1>2. \A n, v : [a EXCEPT !.name = n, !.value = v].dashes = a.dashes
  BY DEF Line!Argument
<1> QED  BY <1>1, <1>2 DEF Line!Plain

\* The plain arguments behind a position.
LEMMA FollowersAre ==
  ASSUME args \in Seq(Line!Argument), NEW i \in 1 .. Len(args)
  PROVE  /\ Line!Followers(i) \in 0 .. Len(args) - i
         /\ \A j \in (i + 1) .. (i + Line!Followers(i)) : Line!Plain(args[j])
         /\ i + Line!Followers(i) < Len(args) => ~Line!Plain(args[(i + Line!Followers(i)) + 1])
<1> DEFINE n == Len(args)
           P(m) == /\ \A j \in (i + 1) .. (i + m) : Line!Plain(args[j])
                   /\ i + m < n => ~Line!Plain(args[i + m + 1])
           Ends == {m \in 0 .. n - i : i + m < n /\ ~Line!Plain(args[i + m + 1])}
<1>1. n \in Nat /\ i \in Nat /\ i <= n /\ n - i \in Nat /\ i + (n - i) = n
  OBVIOUS
<1> HIDE DEF n
<1>2. \E m \in 0 .. n - i : P(m)
  <2>1. CASE Ends = {}
    <3>1. ASSUME NEW j \in (i + 1) .. n PROVE Line!Plain(args[j])
      <4>1. j - (i + 1) \in 0 .. n - i /\ i + (j - (i + 1)) < n /\ i + (j - (i + 1)) + 1 = j
        BY <1>1
      <4> QED  BY <2>1, <4>1
    <3>2. P(n - i) /\ n - i \in 0 .. n - i
      BY <1>1, <3>1
    <3> QED  BY <3>2
  <2>2. CASE Ends # {}
    <3>1. Ends \subseteq Nat
      BY <1>1
    <3>2. PICK m \in Ends : \A k \in Ends : m <= k
      BY <2>2, <3>1, LeastNumber
    <3>3. m \in 0 .. n - i /\ m \in Nat /\ i + m < n /\ ~Line!Plain(args[i + m + 1])
      BY <1>1, <3>2
    <3>4. ASSUME NEW j \in (i + 1) .. (i + m) PROVE Line!Plain(args[j])
      <4>1. /\ j - (i + 1) \in 0 .. n - i /\ i + (j - (i + 1)) < n
            /\ i + (j - (i + 1)) + 1 = j /\ ~(m <= j - (i + 1))
        BY <1>1, <3>3
      <4> QED  BY <3>2, <4>1
    <3> QED  BY <3>3, <3>4
  <2> QED  BY <2>1, <2>2
<1>3. Line!Followers(i) = CHOOSE m \in 0 .. n - i : P(m)
  BY DEF Line!Followers, n
<1>4. Line!Followers(i) \in 0 .. n - i /\ P(Line!Followers(i))
  <2> HIDE DEF P
  <2> QED  BY <1>2, <1>3
<1> QED  BY <1>1, <1>4 DEF n

\* Taking arguments for values, or one for the sink, keeps what is known of the places.
LEMMA TakeKeeps ==
  ASSUME LineTypes, Placing, UNCHANGED <<args, options, after>>,
         NEW n \in Nat \ {0}, Len(place) + n <= Len(args), NEW where \in {"value", "sink"},
         place' = place \o [i \in 1 .. n |-> where],
         where = "sink" =>
           /\ n = 1 /\ sink' = Append(sink, args[Len(place) + 1])
           /\ Line!Positional = << >> \/ ~Line!Plain(args[Len(place) + 1]),
         where = "value" =>
           /\ sink' = sink
           /\ \A i \in 2 .. n : Line!Plain(args[Len(place) + i])
           /\ WantsValue(Len(place) + 1) /\ Len(place) + 1 < Len(args)
                /\ Line!Plain(args[Len(place) + 2]) => n > 1
  PROVE  Placing'
<1> DEFINE p == place
           q == place'
           P == Len(place)
           A == Len(args)
<1>1. /\ p \in Seq(Places) /\ args \in Seq(Line!Argument) /\ P \in Nat /\ A \in Nat
      /\ P < A /\ P + n <= A
  BY DEF LineTypes, Placing
<1>2. [i \in 1 .. n |-> where] \in Seq(Places) /\ Len([i \in 1 .. n |-> where]) = n
  BY DEF Places
<1>3. /\ q \in Seq(Places) /\ Len(q) = P + n
      /\ \A i \in 1 .. P : q[i] = p[i]
      /\ \A i \in P + 1 .. P + n : q[i] = where
  BY <1>1, <1>2, ConcatProperties
<1>4. /\ Line!Positional' = Line!Positional
      /\ \A i : WantsValue(i)' = WantsValue(i)
  BY OptionsKept
<1> HIDE DEF p, q, P, A
<1>5. /\ \A w : w # where => At(q, w) = At(p, w)
      /\ where = "sink" => At(q, "sink") = At(p, "sink") \cup {P + 1}
  <2>1. DOMAIN p = 1 .. P /\ DOMAIN q = 1 .. P + n
    BY <1>1, <1>3 DEF p, P
  <2>2. \A i \in 1 .. P + n : i \in 1 .. P \/ i \in P + 1 .. P + n
    BY <1>1
  <2>3. \A i \in 1 .. P : i \in 1 .. P + n
    BY <1>1
  <2>4. ASSUME where = "sink" PROVE P + 1 .. P + n = {P + 1}
    BY <1>1, <2>4
  <2>5. \A i \in P + 1 .. P + n : i \in 1 .. P + n
    BY <1>1
  <2>6. ASSUME NEW w, w # where PROVE At(q, w) = At(p, w)
    BY <1>3, <2>1, <2>2, <2>3, <2>6 DEF At
  <2>7. ASSUME where = "sink" PROVE At(q, "sink") = At(p, "sink") \cup {P + 1}
    BY <1>3, <2>1, <2>2, <2>3, <2>4, <2>5, <2>7 DEF At
  <2> QED  BY <2>6, <2>7
<1>6. \A w : At(q, w) = At(p, w) => Texts(q, w, args) = Texts(p, w, args)
  BY DEF Texts
<1>7. sink' = Texts(q, "sink", args) /\ after' = Texts(q, "after", args)
  <2>1. sink = Texts(p, "sink", args) /\ after = Texts(p, "after", args)
    BY DEF Placing, p
  <2>2. after' = Texts(q, "after", args)
    BY <1>5, <1>6, <2>1
  <2>3. CASE where = "value"
    BY <1>5, <1>6, <2>1, <2>2, <2>3
  <2>4. CASE where = "sink"
    <3>1. Len(p) < Len(args) /\ Len(q) <= Len(args) /\ At(q, "sink") = At(p, "sink") \cup {Len(p) + 1}
      BY <1>1, <1>3, <1>5, <2>4 DEF p, P, A
    <3>2. Texts(q, "sink", args) = Append(Texts(p, "sink", args), args[Len(p) + 1])
      BY <1>1, <1>3, <3>1, TextsAppend
    <3> QED  BY <2>1, <2>2, <2>4, <3>2 DEF p
  <2> QED  BY <2>3, <2>4
<1>8. At(q, "positional") = At(p, "positional")
  BY <1>5
<1>9. /\ Cardinality(At(q, "positional")) <= Len(Line!Positional)
      /\ after' # << >> => Cardinality(At(q, "positional")) = Len(Line!Positional)
  BY <1>8 DEF Placing, p
<1>10. \A i \in 1 .. P :
         /\ p[i] \notin {"dashes", "after"}
         /\ p[i] = "sink" => Line!Positional = << >> \/ ~Line!Plain(args[i])
         /\ p[i] = "value" /\ WantsValue(i) /\ i < A /\ Line!Plain(args[i + 1])
            => i < P /\ p[i + 1] = "value"
  BY <1>1 DEF Placing, p, P, A
<1>11. ASSUME NEW i \in 1 .. P + n
       PROVE  /\ q[i] \notin {"dashes", "after"}
              /\ q[i] = "sink" => Line!Positional = << >> \/ ~Line!Plain(args[i])
              /\ q[i] = "value" /\ WantsValue(i) /\ i < A /\ Line!Plain(args[i + 1])
                 => i < P + n /\ q[i + 1] = "value"
  <2>1. CASE i \in 1 .. P
    <3>1. q[i] = p[i] /\ (i < P => i + 1 \in 1 .. P /\ q[i + 1] = p[i + 1])
      BY <1>1, <1>3, <2>1
    <3>2. i < P => i < P + n
      BY <1>1, <2>1
    <3>3. /\ p[i] \notin {"dashes", "after"}
          /\ p[i] = "sink" => Line!Positional = << >> \/ ~Line!Plain(args[i])
          /\ p[i] = "value" /\ WantsValue(i) /\ i < A /\ Line!Plain(args[i + 1])
             => i < P /\ p[i + 1] = "value"
      BY <1>10, <2>1, Zenon
    <3> QED  BY <3>1, <3>2, <3>3, Zenon
  <2>2. CASE i = P + 1
    <3>1. q[i] = where
      BY <1>1, <1>3, <2>2
    <3>2. where = "sink" => Line!Positional = << >> \/ ~Line!Plain(args[i])
      BY <2>2 DEF P
    <3>3. P + 2 = (P + 1) + 1 /\ (n > 1 => P + 1 < P + n /\ P + 2 \in P + 1 .. P + n)
      BY <1>1
    <3>4. where = "value" /\ WantsValue(i) /\ i < A /\ Line!Plain(args[i + 1]) => n > 1
      BY <2>2, <3>3 DEF P, A
    <3>5. n > 1 => i < P + n /\ q[i + 1] = where
      BY <1>3, <2>2, <3>3
    <3> QED  BY <3>1, <3>2, <3>4, <3>5
  <2>3. CASE i \in P + 2 .. P + n
    <3>1. i \in P + 1 .. P + n /\ i - P \in 2 .. n /\ P + (i - P) = i /\ n # 1
      BY <1>1, <2>3
    <3>2. q[i] = where /\ where = "value"
      BY <1>3, <3>1
    <3>3. Line!Plain(args[i])
      BY <3>1, <3>2 DEF P
    <3> QED  BY <3>2, <3>3 DEF WantsValue
  <2>4. i \in 1 .. P \/ i = P + 1 \/ i \in P + 2 .. P + n
    BY <1>1
  <2> QED  BY <2>1, <2>2, <2>3, <2>4
<1>12. Len(q) <= Len(args)
  BY <1>1, <1>3 DEF A
<1>13. /\ place' \in Seq(Places) /\ Len(place') <= Len(args') /\ Len(place') = P + n
       /\ sink' = Texts(place', "sink", args') /\ after' = Texts(place', "after", args')
       /\ Cardinality(At(place', "positional")) <= Len(Line!Positional')
       /\ after' # << >> => Cardinality(At(place', "positional")) = Len(Line!Positional')
  BY <1>3, <1>4, <1>7, <1>9, <1>12 DEF q
<1>14. ASSUME NEW i \in 1 .. P + n
       PROVE  /\ place'[i] \notin {"dashes", "after"}
              /\ place'[i] = "sink" => Line!Positional' = << >> \/ ~Line!Plain(args'[i])
              /\ place'[i] = "value" /\ WantsValue(i)' /\ i < Len(args')
                   /\ Line!Plain(args'[i + 1])
                 => i < P + n /\ place'[i + 1] = "value"
  <2>1. /\ q[i] \notin {"dashes", "after"}
        /\ q[i] = "sink" => Line!Positional = << >> \/ ~Line!Plain(args[i])
        /\ q[i] = "value" /\ WantsValue(i) /\ i < A /\ Line!Plain(args[i + 1])
           => i < P + n /\ q[i + 1] = "value"
    BY <1>11
  <2> QED  BY <1>4, <2>1 DEF q, A
<1> QED  BY <1>13, <1>14 DEF Placing

\* A run of places of one kind.
Run(t, w, n) == t \in Seq(Places) /\ Len(t) = n /\ \A i \in 1 .. n : t[i] = w

\* Such a run behind a list of m places.
Behind(s, m, w, n, q) ==
  /\ q \in Seq(Places) /\ Len(q) = m + n
  /\ \A i \in 1 .. m : q[i] = s[i]
  /\ \A i \in m + 1 .. m + n : q[i] = w

LEMMA PlacesBehind ==
  ASSUME NEW s \in Seq(Places), NEW m, Len(s) = m, NEW t, NEW w, NEW n \in Nat, Run(t, w, n)
  PROVE  Behind(s, m, w, n, s \o t)
<1> DEFINE q == s \o t
<1>1. t \in Seq(Places) /\ Len(t) = n /\ m \in Nat /\ \A i \in 1 .. n : t[i] = w
  BY DEF Run
<1>2. /\ q \in Seq(Places) /\ Len(q) = m + n
      /\ \A i \in 1 .. m + n : q[i] = IF i <= m THEN s[i] ELSE t[i - m]
  BY <1>1, ConcatProperties
<1> HIDE DEF q
<1>3. \A i \in 1 .. m : i \in 1 .. m + n /\ i <= m
  BY <1>1
<1>4. ASSUME NEW i \in m + 1 .. m + n PROVE q[i] = w
  <2>1. i \in 1 .. m + n /\ ~(i <= m) /\ i - m \in 1 .. n
    BY <1>1
  <2> QED  BY <1>1, <1>2, <2>1
<1>5. \A i \in 1 .. m : q[i] = s[i]
  BY <1>2, <1>3
<1> QED  BY <1>2, <1>4, <1>5 DEF q, Behind

\* A run of dashes, positional arguments and what comes after them, behind a list.
AllJoined(p, P, d, n, r, q) ==
  /\ q \in Seq(Places) /\ Len(q) = ((P + d) + n) + r
  /\ \A i \in 1 .. P : q[i] = p[i]
  /\ \A i \in P + 1 .. P + d : q[i] = "dashes"
  /\ \A i \in (P + d) + 1 .. (P + d) + n : q[i] = "positional"
  /\ \A i \in ((P + d) + n) + 1 .. ((P + d) + n) + r : q[i] = "after"

\* Three runs of places behind a list.
LEMMA PlacesJoined ==
  ASSUME NEW p \in Seq(Places), NEW P \in Nat, Len(p) = P,
         NEW d \in Nat, NEW n \in Nat, NEW r \in Nat, NEW D, NEW N, NEW R, NEW q,
         Run(D, "dashes", d), Run(N, "positional", n), Run(R, "after", r),
         q = p \o D \o N \o R
  PROVE  AllJoined(p, P, d, n, r, q)
<1> DEFINE pd == p \o D
           pn == pd \o N
           u == P + d
           v == u + n
<1>1. q = pn \o R
  OBVIOUS
<1>2. Behind(p, P, "dashes", d, pd)
  BY PlacesBehind
<1>3. pd \in Seq(Places) /\ Len(pd) = u
  BY <1>2 DEF Behind
<1> HIDE DEF pd, u
<1>4. Behind(pd, u, "positional", n, pn)
  BY <1>3, PlacesBehind
<1>5. pn \in Seq(Places) /\ Len(pn) = v
  BY <1>4 DEF Behind
<1> HIDE DEF pn, v
<1>6. Behind(pn, v, "after", r, q)
  BY <1>1, <1>5, PlacesBehind
<1>7. /\ u = P + d /\ v = u + n /\ u \in Nat /\ v \in Nat
      /\ \A i \in 1 .. P : i \in 1 .. u /\ i \in 1 .. v
      /\ \A i \in P + 1 .. u : i \in 1 .. u /\ i \in 1 .. v
      /\ \A i \in u + 1 .. v : i \in 1 .. v
  <2>1. u = P + d /\ v = u + n /\ u \in Nat /\ v \in Nat
    BY DEF u, v
  <2>2. \A i \in 1 .. P : i \in 1 .. u /\ i \in 1 .. v
    BY <2>1
  <2>3. \A i \in P + 1 .. u : i \in 1 .. u /\ i \in 1 .. v
    BY <2>1
  <2>4. \A i \in u + 1 .. v : i \in 1 .. v
    BY <2>1
  <2> QED  BY <2>1, <2>2, <2>3, <2>4
<1>8. \A i \in 1 .. P : q[i] = p[i]
  <2>1. \A i \in 1 .. P : pd[i] = p[i]
    BY <1>2 DEF Behind
  <2>2. \A i \in 1 .. u : pn[i] = pd[i]
    BY <1>4 DEF Behind
  <2>3. \A i \in 1 .. v : q[i] = pn[i]
    BY <1>6 DEF Behind
  <2> QED  BY <1>7, <2>1, <2>2, <2>3
<1>9. ASSUME NEW i \in P + 1 .. u PROVE q[i] = "dashes"
  <2>1. i \in 1 .. u /\ i \in 1 .. v /\ i \in P + 1 .. P + d
    BY <1>7
  <2>2. pd[i] = "dashes" /\ pn[i] = pd[i] /\ q[i] = pn[i]
    BY <1>2, <1>4, <1>6, <2>1 DEF Behind
  <2> QED  BY <2>2
<1>10. ASSUME NEW i \in u + 1 .. v PROVE q[i] = "positional"
  <2>1. i \in 1 .. v /\ i \in u + 1 .. u + n
    BY <1>7
  <2>2. pn[i] = "positional" /\ q[i] = pn[i]
    BY <1>4, <1>6, <2>1 DEF Behind
  <2> QED  BY <2>2
<1>11. /\ q \in Seq(Places) /\ Len(q) = v + r
       /\ \A i \in v + 1 .. v + r : q[i] = "after"
  BY <1>6 DEF Behind
<1> QED  BY <1>8, <1>9, <1>10, <1>11 DEF u, v, AllJoined

\* Scanning positional arguments, and consuming what comes after them, keeps what is known
\* of the places.
LEMMA PositionalKeeps ==
  ASSUME LineTypes, Placing, UNCHANGED <<args, options, sink>>, Len(place) < Len(args),
         NEW d \in {0, 1}, NEW n \in Nat, NEW rest, NEW consumes \in BOOLEAN,
         (Len(place) + d) + n <= Len(args),
         ~consumes /\ d > 0 => (Len(place) + d) + n = Len(args),
         Cardinality(At(place, "positional")) + n <= Len(Line!Positional),
         consumes => Cardinality(At(place, "positional")) + n = Len(Line!Positional),
         rest = IF consumes THEN SubSeq(args, ((Len(place) + d) + n) + 1, Len(args)) ELSE << >>,
         place' = place \o [i \in 1 .. d |-> "dashes"] \o [i \in 1 .. n |-> "positional"]
                        \o [i \in DOMAIN rest |-> "after"],
         after' = after \o rest
  PROVE  Placing'
<1> DEFINE p == place
           q == place'
           P == Len(place)
           A == Len(args)
           m == ((P + d) + n) + 1
           r == IF consumes THEN (A + 1) - m ELSE 0
<1>1. /\ p \in Seq(Places) /\ args \in Seq(Line!Argument) /\ P \in Nat /\ A \in Nat /\ P < A
      /\ m \in Nat \ {0} /\ m <= A + 1 /\ r \in Nat
  <2>1. p \in Seq(Places) /\ args \in Seq(Line!Argument) /\ P \in Nat /\ A \in Nat
    BY DEF LineTypes, Placing
  <2>2. P < A /\ (P + d) + n <= A
    OBVIOUS
  <2> HIDE DEF p, P, A
  <2>3. m \in Nat \ {0} /\ m <= A + 1
    BY <2>1, <2>2
  <2> HIDE DEF m
  <2>4. r \in Nat
    BY <2>1, <2>3
  <2> QED  BY <2>1, <2>2, <2>3, <2>4
<1>2. /\ rest \in Seq(Line!Argument) /\ Len(rest) = r /\ DOMAIN rest = 1 .. r
  <2>1. CASE consumes
    <3>1. \A i \in m .. A : args[i] \in Line!Argument
      <4>1. \A i \in m .. A : i \in 1 .. A
        <5>1. m \in Nat \ {0} /\ A \in Nat
          BY <1>1
        <5> HIDE DEF m, A
        <5> QED  BY <5>1
      <4>2. \A i \in 1 .. A : args[i] \in Line!Argument
        BY <1>1
      <4> HIDE DEF m, A
      <4> QED  BY <4>1, <4>2
    <3>2. /\ SubSeq(args, m, A) \in Seq(Line!Argument)
          /\ Len(SubSeq(args, m, A)) = IF m <= A THEN A - m + 1 ELSE 0
      BY <1>1, <3>1, SubSeqProperties
    <3>3. (IF m <= A THEN A - m + 1 ELSE 0) = (A + 1) - m
      <4>1. m \in Nat /\ A \in Nat /\ m <= A + 1
        BY <1>1
      <4> HIDE DEF m, A
      <4> QED  BY <4>1
    <3> QED  BY <2>1, <3>2, <3>3
  <2>2. CASE ~consumes
    BY <2>2
  <2> QED  BY <2>1, <2>2
<1> HIDE DEF r
<1>3. /\ q \in Seq(Places) /\ Len(q) = ((P + d) + n) + r
      /\ \A i \in 1 .. P : q[i] = p[i]
      /\ \A i \in P + 1 .. P + d : q[i] = "dashes"
      /\ \A i \in (P + d) + 1 .. (P + d) + n : q[i] = "positional"
      /\ \A i \in ((P + d) + n) + 1 .. ((P + d) + n) + r : q[i] = "after"
  <2> DEFINE D == [i \in 1 .. d |-> "dashes"]
             N == [i \in 1 .. n |-> "positional"]
             R == [i \in 1 .. r |-> "after"]
  <2>1. Run(D, "dashes", d) /\ Run(N, "positional", n) /\ Run(R, "after", r)
    <3>1. d \in Nat /\ n \in Nat /\ r \in Nat
      BY <1>1
    <3> QED  BY <3>1 DEF Run, Places
  <2>2. q = p \o D \o N \o R
    BY <1>2, Zenon
  <2>3. p \in Seq(Places) /\ d \in Nat /\ r \in Nat /\ P \in Nat /\ Len(p) = P
    BY <1>1
  <2> HIDE DEF p, q, P, D, N, R
  <2>4. AllJoined(p, P, d, n, r, q)
    BY <2>1, <2>2, <2>3, PlacesJoined
  <2> QED  BY <2>4 DEF AllJoined
<1>4. /\ Line!Positional' = Line!Positional
      /\ \A i : WantsValue(i)' = WantsValue(i)
  BY OptionsKept
<1> HIDE DEF p, q, P, A, m
<1>5. /\ Len(q) <= A /\ (r > 0 => consumes /\ Len(q) = A)
      /\ (consumes => ((P + d) + n) + r = A) /\ (d > 0 => Len(q) = A)
  <2>1. /\ (P + d) + n <= A
        /\ ~consumes /\ d > 0 => (P + d) + n = A
    BY DEF P, A
  <2>2. /\ consumes => r = (A + 1) - m
        /\ ~consumes => r = 0
    BY DEF r
  <2>3. m = ((P + d) + n) + 1
    BY DEF m
  <2>4. Len(q) = ((P + d) + n) + r
    BY <1>3
  <2>5. CASE consumes
    <3>1. ((P + d) + n) + r = A
      BY <1>1, <2>2, <2>3, <2>5
    <3> QED  BY <1>1, <2>4, <2>5, <3>1
  <2>6. CASE ~consumes
    <3>1. r = 0 /\ ((P + d) + n) + r = (P + d) + n
      BY <1>1, <2>2, <2>6
    <3> QED  BY <1>1, <2>1, <2>4, <2>6, <3>1
  <2> QED  BY <2>5, <2>6
<1>6. \A i \in 1 .. P :
        /\ p[i] \notin {"dashes", "after"}
        /\ p[i] = "sink" => Line!Positional = << >> \/ ~Line!Plain(args[i])
        /\ p[i] = "value" /\ WantsValue(i) /\ i < A /\ Line!Plain(args[i + 1])
           => i < P /\ p[i + 1] = "value"
  BY <1>1 DEF Placing, p, P, A
<1>7. \A i \in 1 .. ((P + d) + n) + r :
        \/ i \in 1 .. P \/ i \in P + 1 .. P + d \/ i \in (P + d) + 1 .. (P + d) + n
        \/ i \in ((P + d) + n) + 1 .. ((P + d) + n) + r
  BY <1>1, SMTT(20)
<1>8. DOMAIN p = 1 .. P /\ DOMAIN q = 1 .. ((P + d) + n) + r
  BY <1>1, <1>3 DEF p, P
<1>9. /\ At(q, "sink") = At(p, "sink")
      /\ At(p, "after") = {}
      /\ At(q, "after") = ((P + d) + n) + 1 .. ((P + d) + n) + r
      /\ At(q, "positional") = At(p, "positional") \cup ((P + d) + 1 .. (P + d) + n)
  <2>1. /\ \A i \in 1 .. P : i \in 1 .. ((P + d) + n) + r
        /\ \A i \in (P + d) + 1 .. (P + d) + n : i \in 1 .. ((P + d) + n) + r
        /\ \A i \in ((P + d) + n) + 1 .. ((P + d) + n) + r : i \in 1 .. ((P + d) + n) + r
    BY <1>1
  <2>2. At(p, "after") = {}
    BY <1>6, <1>8 DEF At
  <2>3. ASSUME NEW i \in 1 .. ((P + d) + n) + r
        PROVE  /\ q[i] = "sink" <=> i \in 1 .. P /\ p[i] = "sink"
               /\ q[i] = "after" <=> i \in ((P + d) + n) + 1 .. ((P + d) + n) + r
               /\ q[i] = "positional" <=> \/ i \in 1 .. P /\ p[i] = "positional"
                                          \/ i \in (P + d) + 1 .. (P + d) + n
    <3>1. CASE i \in 1 .. P
      <4>1. /\ i \notin (P + d) + 1 .. (P + d) + n
            /\ i \notin ((P + d) + n) + 1 .. ((P + d) + n) + r
        BY <1>1, <3>1
      <4>2. q[i] = p[i] /\ p[i] # "after"
        BY <1>3, <1>6, <3>1
      <4> QED  BY <3>1, <4>1, <4>2
    <3>2. CASE i \in P + 1 .. P + d
      <4>1. /\ i \notin 1 .. P /\ i \notin (P + d) + 1 .. (P + d) + n
            /\ i \notin ((P + d) + n) + 1 .. ((P + d) + n) + r
        BY <1>1, <3>2
      <4>2. q[i] = "dashes"
        BY <1>3, <3>2
      <4> QED  BY <4>1, <4>2
    <3>3. CASE i \in (P + d) + 1 .. (P + d) + n
      <4>1. i \notin 1 .. P /\ i \notin ((P + d) + n) + 1 .. ((P + d) + n) + r
        BY <1>1, <3>3
      <4>2. q[i] = "positional"
        BY <1>3, <3>3
      <4> QED  BY <3>3, <4>1, <4>2
    <3>4. CASE i \in ((P + d) + n) + 1 .. ((P + d) + n) + r
      <4>1. i \notin 1 .. P /\ i \notin (P + d) + 1 .. (P + d) + n
        BY <1>1, <3>4
      <4>2. q[i] = "after"
        BY <1>3, <3>4
      <4> QED  BY <3>4, <4>1, <4>2
    <3> QED  BY <1>7, <3>1, <3>2, <3>3, <3>4
  <2>4. At(q, "sink") = At(p, "sink")
    BY <1>8, <2>1, <2>3 DEF At
  <2>5. At(q, "after") = ((P + d) + n) + 1 .. ((P + d) + n) + r
    BY <1>8, <2>1, <2>3 DEF At
  <2>6. At(q, "positional") = At(p, "positional") \cup ((P + d) + 1 .. (P + d) + n)
    BY <1>8, <2>1, <2>3 DEF At
  <2> QED  BY <2>2, <2>4, <2>5, <2>6
<1>10. sink' = Texts(q, "sink", args)
  BY <1>9 DEF Texts, Placing, p
<1>11. after' = Texts(q, "after", args)
  <2>1. after = << >>
    BY <1>9, TextsNone DEF Placing, p
  <2>2. after' = rest
    BY <1>2, <2>1, ConcatEmptySeq
  <2>3. CASE consumes
    <3>1. At(q, "after") = m .. Len(args) /\ m <= Len(args) + 1 /\ Len(q) <= Len(args)
      BY <1>1, <1>5, <1>9, <2>3 DEF m, A
    <3>2. Texts(q, "after", args) = SubSeq(args, m, Len(args))
      BY <1>1, <1>3, <3>1, TextsRest
    <3> QED  BY <2>2, <2>3, <3>2 DEF m, P
  <2>4. CASE ~consumes
    <3>1. r = 0 /\ rest = << >>
      BY <2>4 DEF r
    <3>2. At(q, "after") = {}
      BY <1>1, <1>9, <3>1
    <3> QED  BY <2>2, <3>1, <3>2, TextsNone
  <2> QED  BY <2>3, <2>4
<1>12. Cardinality(At(q, "positional")) = Cardinality(At(p, "positional")) + n
  <2> DEFINE U == At(p, "positional")
             V == (P + d) + 1 .. (P + d) + n
  <2>1. U \in SUBSET (1 .. P) /\ IsFiniteSet(U) /\ Cardinality(U) \in Nat
    BY <1>1, AtFinite DEF p, P
  <2>2. IsFiniteSet(V) /\ Cardinality(V) = n
    <3>1. /\ (P + d) + 1 \in Int /\ (P + d) + n \in Int
          /\ (IF (P + d) + 1 > (P + d) + n THEN 0 ELSE ((P + d) + n) - ((P + d) + 1) + 1) = n
      BY <1>1
    <3> QED  BY <3>1, FS_Interval
  <2>3. U \cap V = {}
    BY <1>1, <2>1
  <2> HIDE DEF U, V
  <2>4. Cardinality(U \cup V) = Cardinality(U) + Cardinality(V)
    <3>1. Cardinality(U \cup V) = Cardinality(U) + Cardinality(V) - Cardinality(U \cap V)
      BY <2>1, <2>2, FS_Union
    <3>2. Cardinality(U \cap V) = 0
      BY <2>3, FS_EmptySet
    <3> QED  BY <2>1, <2>2, <3>1, <3>2
  <2> QED  BY <1>9, <2>2, <2>4 DEF U, V
<1>13. /\ Cardinality(At(q, "positional")) <= Len(Line!Positional)
       /\ after' # << >> => Cardinality(At(q, "positional")) = Len(Line!Positional)
  <2>1. ~consumes => At(q, "after") = {}
    BY <1>1, <1>9 DEF r
  <2>2. ~consumes => after' = << >>
    BY <1>11, <2>1, TextsNone
  <2> QED  BY <1>12, <2>2 DEF p
<1>14. ASSUME NEW i \in 1 .. Len(q)
       PROVE  /\ q[i] \in {"dashes", "after"} => Len(q) = A
              /\ q[i] = "sink" => Line!Positional = << >> \/ ~Line!Plain(args[i])
              /\ q[i] = "value" /\ WantsValue(i) /\ i < A /\ Line!Plain(args[i + 1])
                 => i < Len(q) /\ q[i + 1] = "value"
              /\ \A j \in 1 .. Len(q) :
                   i < j => /\ q[i] = "after" => q[j] = "after"
                            /\ q[i] = "dashes" => q[j] \in {"positional", "after"}
  <2>1. CASE i \in 1 .. P
    <3>1. q[i] = p[i] /\ (i < P => i + 1 \in 1 .. P /\ q[i + 1] = p[i + 1] /\ i < Len(q))
      <4>1. i < P => i + 1 \in 1 .. P /\ i < ((P + d) + n) + r
        BY <1>1, <2>1
      <4> QED  BY <1>3, <2>1, <4>1
    <3>2. /\ p[i] \notin {"dashes", "after"}
          /\ p[i] = "sink" => Line!Positional = << >> \/ ~Line!Plain(args[i])
          /\ p[i] = "value" /\ WantsValue(i) /\ i < A /\ Line!Plain(args[i + 1])
             => i < P /\ p[i + 1] = "value"
      BY <1>6, <2>1
    <3> QED  BY <3>1, <3>2
  <2>2. CASE i \in P + 1 .. P + d
    <3>1. q[i] = "dashes" /\ d > 0
      BY <1>1, <1>3, <2>2
    <3>2. ASSUME NEW j \in 1 .. Len(q), i < j PROVE q[j] \in {"positional", "after"}
      <4>1. i = P + 1 /\ d = 1
        BY <1>1, <2>2
      <4>2. j \notin 1 .. P /\ j \notin P + 1 .. P + d /\ j \in 1 .. ((P + d) + n) + r
        BY <1>1, <1>3, <3>2, <4>1
      <4> QED  BY <1>3, <1>7, <4>2
    <3> QED  BY <1>5, <3>1, <3>2
  <2>3. CASE i \in (P + d) + 1 .. (P + d) + n
    <3>1. q[i] = "positional"
      BY <1>3, <2>3
    <3> QED  BY <3>1
  <2>4. CASE i \in ((P + d) + n) + 1 .. ((P + d) + n) + r
    <3>1. q[i] = "after" /\ r > 0
      <4>1. q[i] = "after"
        BY <1>3, <2>4
      <4>2. r # 0
        BY <1>1, <2>4
      <4> QED  BY <1>1, <4>1, <4>2
    <3>2. ASSUME NEW j \in 1 .. Len(q), i < j PROVE q[j] = "after"
      <4>1. j \in ((P + d) + n) + 1 .. ((P + d) + n) + r
        BY <1>1, <1>3, <2>4, <3>2
      <4> QED  BY <1>3, <4>1
    <3> QED  BY <1>5, <3>1, <3>2
  <2> QED  BY <1>3, <1>7, <2>1, <2>2, <2>3, <2>4
<1>15. Len(q) \in Nat /\ q \in Seq(Places) /\ Len(q) <= Len(args) /\ Len(args)' = Len(args)
  BY <1>1, <1>3, <1>5 DEF A
<1>16. /\ Cardinality(At(place', "positional")) <= Len(Line!Positional')
       /\ after' # << >> => Cardinality(At(place', "positional")) = Len(Line!Positional')
       /\ sink' = Texts(place', "sink", args') /\ after' = Texts(place', "after", args')
       /\ place' \in Seq(Places) /\ Len(place') <= Len(args')
  BY <1>4, <1>10, <1>11, <1>13, <1>15 DEF q
<1>17. ASSUME NEW i \in 1 .. Len(place')
       PROVE  /\ place'[i] \in {"dashes", "after"} => Len(place') = Len(args')
              /\ place'[i] = "sink" => Line!Positional' = << >> \/ ~Line!Plain(args'[i])
              /\ place'[i] = "value" /\ WantsValue(i)' /\ i < Len(args')
                   /\ Line!Plain(args'[i + 1])
                 => i < Len(place') /\ place'[i + 1] = "value"
              /\ \A j \in 1 .. Len(place') :
                   i < j => /\ place'[i] = "after" => place'[j] = "after"
                            /\ place'[i] = "dashes" => place'[j] \in {"positional", "after"}
  <2>1. i \in 1 .. Len(q)
    BY DEF q
  <2>2. /\ q[i] \in {"dashes", "after"} => Len(q) = A
        /\ q[i] = "sink" => Line!Positional = << >> \/ ~Line!Plain(args[i])
        /\ q[i] = "value" /\ WantsValue(i) /\ i < A /\ Line!Plain(args[i + 1])
           => i < Len(q) /\ q[i + 1] = "value"
    BY <1>14, <2>1
  <2>3. \A j \in 1 .. Len(q) :
          i < j => /\ q[i] = "after" => q[j] = "after"
                   /\ q[i] = "dashes" => q[j] \in {"positional", "after"}
    BY <1>14, <2>1
  <2>4. A = Len(args')
    BY DEF A
  <2> QED  BY <1>4, <2>2, <2>3, <2>4 DEF q
<1> QED  BY <1>16, <1>17 DEF Placing

\* The options that have a position, in their order.
LEMMA PositionalIs ==
  ASSUME LineTypes
  PROVE  LET S == {i \in DOMAIN options : options[i].positional}
         IN  /\ S \in SUBSET Nat /\ IsFiniteSet(S) /\ Cardinality(S) \in Nat
             /\ Line!Positional \in [1 .. Cardinality(S) -> S]
             /\ Len(Line!Positional) = Cardinality(S)
             /\ Line!Positional = << >> => S = {}
<1> DEFINE S == {i \in DOMAIN options : options[i].positional}
<1>1. DOMAIN options = 1 .. Len(options) /\ Len(options) \in Nat
  BY DEF LineTypes
<1>2. S \in SUBSET Nat /\ IsFiniteSet(S) /\ Cardinality(S) \in Nat
  <2>1. IsFiniteSet(1 .. Len(options)) /\ S \subseteq 1 .. Len(options)
    BY <1>1, FS_Interval
  <2> QED  BY <2>1, FS_Subset, FS_CardinalityType
<1>3. Line!Positional = Line!InOrder(S)
  BY DEF Line!Positional
<1> HIDE DEF S
<1>4. Line!Positional \in [1 .. Cardinality(S) -> S]
  BY <1>2, <1>3, Ordered
<1>5. Len(Line!Positional) = Cardinality(S)
  BY <1>2, <1>4
<1>6. Line!Positional = << >> => S = {}
  BY <1>2, <1>5, FS_EmptySet
<1> QED  BY <1>2, <1>4, <1>5, <1>6 DEF S

\* Scanning positional arguments fails, or keeps what is known of the places.
LEMMA ScanAllKeeps ==
  ASSUME LineTypes, Placing, UNCHANGED <<args, options>>, result = "scanning",
         NEW d \in {0, 1}, NEW n \in Nat, NEW consumes \in BOOLEAN,
         NEW from, from = (Len(place) + 1) + d,
         Len(place) < Len(args), (Len(place) + d) + n <= Len(args),
         ~consumes /\ d > 0 => (Len(place) + d) + n = Len(args),
         Line!Used + n <= Len(Line!Positional),
         consumes => Line!Used + n = Len(Line!Positional),
         Line!ScanAllPositional(from, n, consumes)
  PROVE  result' = "failed" \/ (result' = "scanning" /\ Placing')
<1> DEFINE P == Len(place)
           rest == IF consumes THEN SubSeq(args, from + n, Len(args)) ELSE << >>
<1>1. CASE Line!Fail
  BY <1>1 DEF Line!Fail
<1>2. CASE ~Line!Fail
  <2>1. /\ place' = place \o [i \in 1 .. (from - Line!at) |-> "dashes"]
                          \o [k \in 1 .. n |-> "positional"] \o [i \in DOMAIN rest |-> "after"]
        /\ after' = after \o rest
        /\ UNCHANGED <<sink, result>>
    BY <1>2 DEF Line!ScanAllPositional
  <2>2. P \in Nat /\ Line!at = P + 1
    BY DEF Placing, Line!at
  <2>3. from - Line!at = d /\ from + n = ((P + d) + n) + 1
    BY <2>2
  <2>4. rest = IF consumes THEN SubSeq(args, ((P + d) + n) + 1, Len(args)) ELSE << >>
    BY <2>3
  <2>5. Line!Used = Cardinality(At(place, "positional"))
    BY TextsAre DEF Placing
  <2>6. place' = place \o [i \in 1 .. d |-> "dashes"] \o [i \in 1 .. n |-> "positional"]
                       \o [i \in DOMAIN rest |-> "after"]
    BY <2>1, <2>3
  <2> HIDE DEF rest
  <2>7. Placing'
    BY <2>1, <2>4, <2>5, <2>6, PositionalKeeps
  <2> QED  BY <2>1, <2>7
<1> QED  BY <1>1, <1>2

\* The arguments an option with a name stands for.
LEMMA NamedKeeps ==
  ASSUME LineTypes, Placing, UNCHANGED <<args, options>>, result = "scanning",
         Len(place) < Len(args), NEW t, t = Line!Token(args[Len(place) + 1]),
         Line!PairOf(t.name) # {}, Line!NamedOption(t)
  PROVE  result' = "failed" \/ (result' = "scanning" /\ Placing')
<1> DEFINE P == Len(place)
           a == args[P + 1]
           F == Line!Followers(P + 1)
<1>1. P \in Nat /\ Len(args) \in Nat /\ P + 1 \in 1 .. Len(args) /\ a \in Line!Argument
      /\ Line!at = P + 1 /\ args \in Seq(Line!Argument)
  BY DEF Placing, LineTypes, Line!at
<1>2. PICK i \in Line!PairOf(t.name) :
        \/ Line!Fail
        \/ /\ Line!Take("value", Line!Consumed(options[i], t),
                        [values EXCEPT ![i] = Line!With(options[i], values[i],
                                                        Line!NamedValues(options[i], t))])
           /\ Line!Kept
  BY DEF Line!NamedOption
<1>3. CASE Line!Fail
  BY <1>3 DEF Line!Fail
<1>4. CASE ~Line!Fail
  <2> DEFINE n == Line!Consumed(options[i], t)
  <2>1. /\ place' = place \o [j \in 1 .. n |-> "value"]
        /\ UNCHANGED <<sink, after, result>>
    BY <1>2, <1>4 DEF Line!Take, Line!Kept
  <2>2. /\ F \in 0 .. Len(args) - (P + 1)
        /\ \A j \in ((P + 1) + 1) .. ((P + 1) + F) : Line!Plain(args[j])
        /\ (P + 1) + F < Len(args) => ~Line!Plain(args[((P + 1) + F) + 1])
    BY <1>1, FollowersAre
  <2>3. \/ n = 1 /\ (t.value # << >> \/ t.name \in Line!EnumNames(options[i]) \/ F = 0)
        \/ n = 1 + F /\ F # 0
        \/ n = 2 /\ F # 0
    BY <1>1 DEF Line!Consumed
  <2> HIDE DEF n, F
  <2>4. n \in Nat \ {0} /\ P + n <= Len(args)
    BY <1>1, <2>2, <2>3
  <2>5. ASSUME NEW j \in 2 .. n PROVE Line!Plain(args[P + j])
    <3>1. P + j \in ((P + 1) + 1) .. ((P + 1) + F)
      BY <1>1, <2>2, <2>3
    <3> QED  BY <2>2, <3>1
  <2>6. ASSUME WantsValue(P + 1), P + 1 < Len(args), Line!Plain(args[P + 2]) PROVE n > 1
    <3>1. t = a
      BY <1>1, <2>6, TokenIs DEF WantsValue
    <3>2. options[i].type \in {"int", "string"} /\ t.value = << >>
      BY <1>2, <2>6, <3>1 DEF WantsValue
    <3>3. t.name \notin Line!EnumNames(options[i])
      BY <3>2 DEF Line!EnumNames
    <3>4. F # 0
      <4>1. ((P + 1) + 0) + 1 = P + 2 /\ (P + 1) + 0 = P + 1
        BY <1>1
      <4> QED  BY <2>2, <2>6, <4>1
    <3> QED  BY <2>2, <2>3, <3>2, <3>3, <3>4
  <2>7. Placing'
    BY <2>1, <2>4, <2>5, <2>6, TakeKeeps
  <2> QED  BY <2>1, <2>7
<1> QED  BY <1>3, <1>4

\* An argument with a name that no option has.
LEMMA UnnamedKeeps ==
  ASSUME LineTypes, Placing, UNCHANGED <<args, options>>, result = "scanning",
         Len(place) < Len(args), NEW t, t = Line!Token(args[Len(place) + 1]),
         ~Line!Plain(t), Line!PairOf(t.name) = {}, Line!Unnamed(t)
  PROVE  result' = "scanning" /\ Placing'
<1> DEFINE P == Len(place)
           a == args[P + 1]
<1>1. P \in Nat /\ Len(args) \in Nat /\ P + 1 \in 1 .. Len(args) /\ a \in Line!Argument
      /\ Line!at = P + 1 /\ P + 1 <= Len(args)
  BY DEF Placing, LineTypes, Line!at
<1>2. ~Line!Plain(a) /\ ~WantsValue(P + 1)
  BY <1>1, TokenIs DEF WantsValue
<1>3. \/ place' = place \o [j \in 1 .. 1 |-> "value"] /\ UNCHANGED <<sink, after, result>>
      \/ /\ place' = place \o [j \in 1 .. 1 |-> "sink"] /\ sink' = Append(sink, args[P + 1])
         /\ UNCHANGED <<after, result>>
  BY <1>1 DEF Line!Unnamed, Line!Take, Line!Kept
<1>4. 1 \in Nat \ {0} /\ \A j \in 2 .. 1 : FALSE
  OBVIOUS
<1>5. Placing'
  <2>1. CASE place' = place \o [j \in 1 .. 1 |-> "value"] /\ UNCHANGED <<sink, after, result>>
    BY <1>1, <1>2, <1>4, <2>1, TakeKeeps
  <2>2. CASE /\ place' = place \o [j \in 1 .. 1 |-> "sink"] /\ sink' = Append(sink, args[P + 1])
             /\ UNCHANGED <<after, result>>
    BY <1>1, <1>2, <1>4, <2>2, TakeKeeps
  <2> QED  BY <1>3, <2>1, <2>2
<1> QED  BY <1>3, <1>5

\* A plain argument.
LEMMA PlainKeeps ==
  ASSUME LineTypes, Placing, UNCHANGED <<args, options>>, result = "scanning",
         Len(place) < Len(args), Line!PlainArgument
  PROVE  result' = "failed" \/ (result' = "scanning" /\ Placing')
<1> DEFINE P == Len(place)
<1>1. P \in Nat /\ Len(args) \in Nat /\ P + 1 <= Len(args) /\ Line!at = P + 1
  BY DEF Placing, LineTypes, Line!at
<1>2. Line!Used \in Nat /\ Len(Line!Positional) \in Nat /\ Line!Used <= Len(Line!Positional)
  BY TextsAre, AtFinite, PositionalIs DEF Placing
<1>3. CASE Line!Left > 0 /\ Line!ScanAllPositional(Line!at, 1, FALSE)
  <2>1. Line!Used + 1 <= Len(Line!Positional)
    BY <1>2, <1>3 DEF Line!Left
  <2>2. Line!at = (P + 1) + 0 /\ (P + 0) + 1 <= Len(args) /\ ~(0 > 0)
    BY <1>1
  <2> QED  BY <1>1, <1>3, <2>1, <2>2, ScanAllKeeps
<1>4. CASE Line!Left = 0 /\ Line!ScanAllPositional(Line!at, 0, TRUE)
  <2>1. Line!Used + 0 = Len(Line!Positional) /\ Line!Used + 0 <= Len(Line!Positional)
    BY <1>2, <1>4 DEF Line!Left
  <2>2. Line!at = (P + 1) + 0 /\ (P + 0) + 0 <= Len(args) /\ ~(0 > 0)
    BY <1>1
  <2> QED  BY <1>1, <1>4, <2>1, <2>2, ScanAllKeeps
<1>5. CASE /\ Line!Positional = << >>
           /\ Line!Take("sink", 1, values) /\ sink' = Append(sink, args[Line!at])
           /\ UNCHANGED <<after, result>>
  <2>1. /\ place' = place \o [j \in 1 .. 1 |-> "sink"] /\ sink' = Append(sink, args[P + 1])
        /\ UNCHANGED <<after, result>>
    BY <1>1, <1>5 DEF Line!Take
  <2>2. 1 \in Nat \ {0} /\ "sink" # "value"
    OBVIOUS
  <2>3. Placing'
    BY <1>1, <1>5, <2>1, <2>2, TakeKeeps
  <2> QED  BY <2>1, <2>3
<1> QED  BY <1>3, <1>4, <1>5 DEF Line!PlainArgument

\* Every turn of the scan fails, or keeps what is known of the places.
LEMMA ScanPlaces ==
  ASSUME LineTypes, Placing, Line!ScanArguments
  PROVE  result' = "failed" \/ (result' = "scanning" /\ Placing')
<1> DEFINE P == Len(place)
           A == Len(args)
           t == Line!Token(args[Line!at])
           n == A - (P + 1)
<1>1. P \in Nat /\ A \in Nat /\ Line!at = P + 1 /\ result = "scanning"
      /\ UNCHANGED <<args, options>>
  BY DEF Placing, LineTypes, Line!at, Line!ScanArguments
<1>2. P < A /\ P + 1 <= A /\ n \in Nat
  BY <1>1 DEF Line!ScanArguments, Line!Scanned
<1>3. Line!Used \in Nat /\ Len(Line!Positional) \in Nat /\ Line!Used <= Len(Line!Positional)
  BY TextsAre, AtFinite, PositionalIs DEF Placing
<1>4. CASE Line!ScanAllPositional(Line!at + 1, IF n < Line!Left THEN n ELSE Line!Left,
                                  n > Line!Left)
  <2> DEFINE L == Line!Left
             k == IF n < L THEN n ELSE L
  <2>1. L \in Nat /\ Line!Used + L = Len(Line!Positional)
    BY <1>3 DEF Line!Left
  <2>2. Line!ScanAllPositional(Line!at + 1, k, n > L)
    BY <1>4
  <2> HIDE DEF L
  <2>3. k \in Nat /\ k <= L /\ k <= n /\ (n > L => k = L) /\ (~(n > L) => k = n)
    BY <1>2, <2>1
  <2> HIDE DEF k
  <2>4. /\ Line!Used + k <= Len(Line!Positional)
        /\ n > L => Line!Used + k = Len(Line!Positional)
    BY <1>3, <2>1, <2>3
  <2>5. (P + 1) + k <= A /\ (~(n > L) => (P + 1) + k = A)
    BY <1>1, <1>2, <2>3
  <2>6. Line!at + 1 = (P + 1) + 1 /\ (n > L) \in BOOLEAN
    BY <1>1
  <2> HIDE DEF n
  <2> QED  BY <1>1, <1>2, <2>2, <2>3, <2>4, <2>5, <2>6, ScanAllKeeps
<1>5. CASE Line!PlainArgument
  BY <1>1, <1>2, <1>5, PlainKeeps
<1>6. CASE ~Line!Plain(t) /\ Line!PairOf(t.name) # {} /\ Line!NamedOption(t)
  BY <1>1, <1>2, <1>6, NamedKeeps
<1>7. CASE ~Line!Plain(t) /\ Line!PairOf(t.name) = {} /\ Line!Unnamed(t)
  BY <1>1, <1>2, <1>7, UnnamedKeeps
<1> QED  BY <1>1, <1>4, <1>5, <1>6, <1>7 DEF Line!ScanArguments

\* Every turn keeps a list of values for each option.
LEMMA ScanValues ==
  ASSUME Line!ScanArguments
  PROVE  /\ DOMAIN values' = DOMAIN values /\ UNCHANGED <<declared, args, options, external>>
         /\ result = "scanning" /\ result' \in {"scanning", "failed"}
<1> DEFINE Keeps == DOMAIN values' = DOMAIN values /\ (result' = result \/ result' = "failed")
<1>1. ASSUME NEW n, NEW m, NEW b, Line!ScanAllPositional(n, m, b) PROVE Keeps
  BY <1>1 DEF Line!ScanAllPositional, Line!Fail
<1>2. ASSUME NEW t, Line!NamedOption(t) PROVE Keeps
  BY <1>2 DEF Line!NamedOption, Line!Take, Line!Kept, Line!Fail
<1>3. ASSUME NEW t, Line!Unnamed(t) PROVE Keeps
  BY <1>3 DEF Line!Unnamed, Line!Take, Line!Kept
<1>4. ASSUME Line!PlainArgument PROVE Keeps
  BY <1>1, <1>4 DEF Line!PlainArgument, Line!Take
<1> HIDE DEF Keeps
<1>5. Keeps
  BY <1>1, <1>2, <1>3, <1>4 DEF Line!ScanArguments
<1> QED  BY <1>5 DEF Keeps, Line!ScanArguments

\* The options are found by names that differ, and have values each; the program's variables
\* are empty until all has been checked, and then hold the values that were checked.
LineSet ==
  /\ result \in {"none", "scanning", "failed"} => \A i \in DOMAIN external : external[i] = << >>
  /\ result \in {"scanning", "ok"} =>
       /\ DOMAIN values = DOMAIN options
       /\ \A i, j \in DOMAIN options :
            i # j => Line!Named(options[i]) \cap Line!Named(options[j]) = {}
  /\ result = "ok" =>
       Line!CheckArrays(values) /\ Line!CheckRequired(values) /\ external = Line!SetExternal(values)

\* Nothing has a place before the scan; all have when it is over.
LinePlaces ==
  /\ result = "none" => place = << >> /\ sink = << >> /\ after = << >>
  /\ result \in {"scanning", "ok"} => Placing
  /\ result = "ok" => Len(place) = Len(args)

LineInv == LineTypes /\ LineSet /\ LinePlaces

\* Nothing is known of no places but that there are none.
LEMMA PlacingNone ==
  ASSUME LineTypes', place' = << >>, sink' = << >>, after' = << >>
  PROVE  Placing'
<1>1. \A w : At(place', w) = {}
  BY DEF At
<1>2. \A w : Texts(place', w, args') = << >>
  BY <1>1, TextsNone
<1>3. Cardinality(At(place', "positional")) = 0 /\ Len(place') = 0
  BY <1>1, FS_EmptySet
<1>4. Len(args') \in Nat /\ place' \in Seq(Places)
  BY DEF LineTypes
<1>5. Len(Line!Positional') \in Nat
  <2> DEFINE S == {i \in DOMAIN options' : options'[i].positional}
  <2>1. S \in SUBSET Nat /\ IsFiniteSet(S) /\ Cardinality(S) \in Nat
    <3>1. DOMAIN options' = 1 .. Len(options') /\ Len(options') \in Nat
      BY DEF LineTypes
    <3>2. IsFiniteSet(1 .. Len(options')) /\ S \subseteq 1 .. Len(options')
      BY <3>1, FS_Interval
    <3> QED  BY <3>2, FS_Subset, FS_CardinalityType
  <2>2. Line!Positional' = Line!InOrder(S)
    BY DEF Line!Positional
  <2> HIDE DEF S
  <2> QED  BY <2>1, <2>2, Ordered
<1> QED  BY <1>2, <1>3, <1>4, <1>5 DEF Placing

\* What the modules declare.
LEMMA SetOptionsStep ==
  ASSUME LineInv, Line!SetOptions
  PROVE  LineInv'
<1> DEFINE taken == Line!FlattenSeq([i \in DOMAIN declared |-> Line!Collected(declared[i])])
<1>1. /\ result = "none" /\ options' = taken /\ result' \in {"failed", "scanning"}
      /\ values' = [i \in DOMAIN taken |-> << >>] /\ external' = [i \in DOMAIN taken |-> << >>]
      /\ UNCHANGED <<declared, args, place, sink, after>>
  BY DEF Line!SetOptions
<1>2. taken \in Seq(Line!Option)
  <2>1. declared \in Seq(Line!Category) /\ DOMAIN declared = 1 .. Len(declared)
        /\ Len(declared) \in Nat
    BY DEF LineInv, LineTypes
  <2>2. \A i \in DOMAIN declared : Line!Collected(declared[i]) \in Seq(Line!Option)
    BY <2>1, CollectedAre
  <2>3. [i \in DOMAIN declared |-> Line!Collected(declared[i])] \in Seq(Seq(Line!Option))
    BY <2>1, <2>2
  <2> QED  BY <2>3, Flattened
<1>3. result' = "scanning" =>
        \A i, j \in DOMAIN taken : i # j => Line!Named(taken[i]) \cap Line!Named(taken[j]) = {}
  BY DEF Line!SetOptions
<1> HIDE DEF taken
<1>4. LineTypes'
  BY <1>1, <1>2 DEF LineInv, LineTypes
<1>5. LineSet'
  BY <1>1, <1>3 DEF LineSet
<1>6. Placing'
  BY <1>1, <1>4, PlacingNone DEF LineInv, LinePlaces
<1> QED  BY <1>1, <1>4, <1>5, <1>6 DEF LineInv, LinePlaces

\* The check of the values.
LEMMA CheckValuesStep ==
  ASSUME LineInv, Line!CheckValues
  PROVE  LineInv'
<1>1. /\ result = "scanning" /\ values' = Line!Defaults
      /\ UNCHANGED <<declared, args, options, place, sink, after>>
      /\ result' \in {"failed", "help", "ok"}
      /\ result' = "failed" => UNCHANGED external
      /\ result' = "ok" => /\ Line!CheckArrays(Line!Defaults) /\ Line!CheckRequired(Line!Defaults)
                           /\ external' = Line!SetExternal(Line!Defaults)
  BY DEF Line!CheckValues
<1>2. LineTypes'
  BY <1>1 DEF LineInv, LineTypes
<1>3. LineSet'
  <2>1. DOMAIN values' = DOMAIN options
    BY <1>1 DEF Line!Defaults
  <2>2. ASSUME result' = "ok"
        PROVE  /\ Line!CheckArrays(values)' /\ Line!CheckRequired(values)'
               /\ external' = Line!SetExternal(values)'
    BY <1>1, <2>2 DEF Line!CheckArrays, Line!CheckRequired, Line!SetExternal
  <2> QED  BY <1>1, <2>1, <2>2 DEF LineInv, LineSet
<1>4. Placing'
  <2>1. Placing
    BY <1>1 DEF LineInv, LinePlaces
  <2>2. /\ Line!Positional' = Line!Positional
        /\ \A i : WantsValue(i)' = WantsValue(i)
    BY <1>1, OptionsKept
  <2> QED  BY <1>1, <2>1, <2>2 DEF Placing
<1>5. Len(place') = Len(args')
  BY <1>1 DEF LineInv, LinePlaces, LineTypes, Placing, Line!CheckValues, Line!Scanned, Line!at
<1> QED  BY <1>1, <1>2, <1>3, <1>4, <1>5 DEF LineInv, LinePlaces

\* Every step of the command line keeps the invariant.
LEMMA LineStep ==
  ASSUME LineInv, Line!Next \/ UNCHANGED lineVars
  PROVE  LineInv'
<1>1. CASE Line!SetOptions
  BY <1>1, SetOptionsStep
<1>2. CASE Line!ScanArguments
  <2>1. LineTypes'
    BY <1>2, ScanValues DEF LineInv, LineTypes
  <2>2. LineSet'
    BY <1>2, ScanValues DEF LineInv, LineSet
  <2>3. LinePlaces'
    <3>1. result = "scanning" /\ Placing
      BY <1>2, ScanValues DEF LineInv, LinePlaces
    <3> QED  BY <1>2, <3>1, ScanPlaces DEF LineInv, LinePlaces
  <2> QED  BY <2>1, <2>2, <2>3 DEF LineInv
<1>3. CASE Line!CheckValues
  BY <1>3, CheckValuesStep
<1>4. CASE Line!Shutdown
  BY <1>4 DEF Line!Shutdown, LineInv, LineTypes, LineSet, LinePlaces
<1>5. CASE UNCHANGED lineVars
  <2>1. /\ Line!Positional' = Line!Positional
        /\ \A i : WantsValue(i)' = WantsValue(i)
    BY <1>5, OptionsKept DEF lineVars
  <2>2. Placing => Placing'
    BY <1>5, <2>1 DEF Placing, lineVars
  <2>3. LineSet'
    BY <1>5 DEF LineInv, LineSet, lineVars, Line!CheckArrays, Line!CheckRequired, Line!SetExternal
  <2> QED  BY <1>5, <2>2, <2>3 DEF LineInv, LineTypes, LinePlaces, lineVars
<1> QED  BY <1>1, <1>2, <1>3, <1>4, <1>5 DEF Line!Next, Line!CommandLineInit

\* The command line as it starts.
LEMMA LineStart ==
  ASSUME SystemInit
  PROVE  LineInv
<1>1. /\ declared \in Seq(Line!Category)
      /\ \E n \in 0 .. MaxArguments : args \in [1 .. n -> Arguments]
      /\ options = << >> /\ values = << >> /\ place = << >> /\ sink = << >> /\ after = << >>
      /\ external = << >> /\ result = "none"
  BY LineAssumption DEF SystemInit, Line!Init
<1>2. args \in Seq(Line!Argument)
  BY <1>1, LineAssumption
<1> QED  BY <1>1, <1>2 DEF LineInv, LineTypes, LineSet, LinePlaces

\* What the invariant says of the program's variables.
LEMMA LineSetTogether ==
  ASSUME LineInv
  PROVE  SetTogether
<1>1. result = "failed" => \A i \in DOMAIN external : external[i] = << >>
  BY DEF LineInv, LineSet
<1>2. ASSUME result = "ok", NEW i \in DOMAIN options
      PROVE  LET type == options[i].type
                 single == {external[i][j] : j \in DOMAIN external[i]}
                 n == CHOOSE k \in DOMAIN Line!Positional : Line!Positional[k] = i
             IN  /\ options[i].required => external[i] # << >>
                 /\ options[i].array # "none" /\ external[i] # << >> /\ options[i].count > 0
                    => Len(external[i]) = options[i].count
                 /\ IF options[i].positional
                    THEN IF options[i].array = "none"
                         THEN Line!PositionalValueGet(n, type) = single
                         ELSE Line!PositionalValueGetArray(n, type) = {external[i]}
                    ELSE \A name \in Line!Named(options[i]) :
                           IF options[i].array = "none" THEN Line!ValueGet(name, type) = single
                           ELSE Line!ValueGetArray(name, type) = {external[i]}
  <2> DEFINE type == options[i].type
             single == {external[i][j] : j \in DOMAIN external[i]}
             n == CHOOSE k \in DOMAIN Line!Positional : Line!Positional[k] = i
  <2>1. /\ Line!CheckArrays(values) /\ Line!CheckRequired(values)
        /\ external[i] = IF options[i].array = "none" /\ values[i] # << >>
                         THEN <<values[i][1]>> ELSE values[i]
        /\ \A j \in DOMAIN options :
             i # j => Line!Named(options[i]) \cap Line!Named(options[j]) = {}
    BY <1>2 DEF LineInv, LineSet, Line!SetExternal
  <2>2. options[i].required => external[i] # << >>
    BY <2>1 DEF Line!CheckRequired
  <2>3. options[i].array # "none" /\ external[i] # << >> /\ options[i].count > 0
        => Len(external[i]) = options[i].count
    BY <2>1 DEF Line!CheckArrays
  <2>4. options[i].array = "none" => Line!Single({i}, type) = single
    <3>1. CASE values[i] = << >>
      BY <2>1, <3>1 DEF Line!Single
    <3>2. CASE values[i] # << >>
      BY <2>1, <3>2 DEF Line!Single
    <3> QED  BY <3>1, <3>2
  <2>5. options[i].array # "none" => Line!Several({i}, type) = {external[i]}
    BY <2>1 DEF Line!Several
  <2>6. ASSUME options[i].positional PROVE Line!Positional[n] = i
    <3> DEFINE S == {j \in DOMAIN options : options[j].positional}
    <3>1. i \in S /\ Line!Positional = Line!InOrder(S)
      BY <2>6 DEF Line!Positional
    <3>2. /\ S \in SUBSET Nat /\ IsFiniteSet(S)
          /\ Line!Positional \in [1 .. Cardinality(S) -> S]
      BY PositionalIs DEF LineInv
    <3> HIDE DEF S
    <3>3. \E k \in DOMAIN Line!Positional : Line!Positional[k] = i
      BY <3>1, <3>2, Ordered
    <3> QED  BY <3>3
  <2>7. ASSUME NEW name \in Line!Named(options[i]) PROVE Line!PairOf(name) = {i}
    BY <2>1, <2>7 DEF Line!PairOf
  <2> HIDE DEF type, single, n
  <2>8. CASE options[i].positional
    BY <2>2, <2>3, <2>4, <2>5, <2>6, <2>8
       DEF Line!PositionalValueGet, Line!PositionalValueGetArray, type, single, n
  <2>9. CASE ~options[i].positional
    BY <2>2, <2>3, <2>4, <2>5, <2>7, <2>9
       DEF Line!ValueGet, Line!ValueGetArray, type, single, n
  <2> QED  BY <2>8, <2>9
<1> QED  BY <1>1, <1>2 DEF SetTogether, Line!SetTogether

\* What it says of the arguments.
LEMMA LineArgumentsPlaced ==
  ASSUME LineInv
  PROVE  ArgumentsPlaced
<1> SUFFICES ASSUME result = "ok" PROVE Line!ArgumentsPlaced
  BY DEF ArgumentsPlaced, Line!ArgumentsPlaced
<1>1. /\ Placing /\ Len(place) = Len(args) /\ args \in Seq(Line!Argument)
      /\ place \in Seq(Places) /\ DOMAIN place = 1 .. Len(place) /\ Len(place) \in Nat
  BY DEF LineInv, LinePlaces, LineTypes, Placing
<1>2. sink = Line!TextsOf("sink") /\ after = Line!TextsOf("after")
  BY <1>1, TextsAre DEF Placing
<1>3. after # << >> => Line!Left = 0
  <2>1. Line!Used = Cardinality(At(place, "positional")) /\ Len(Line!Positional) \in Nat
    BY <1>1, TextsAre, PositionalIs DEF LineInv
  <2> QED  BY <1>1, <2>1 DEF Placing, Line!Left
<1>4. /\ \A i, j \in DOMAIN place : i < j /\ place[i] = "after" => place[j] = "after"
      /\ \A i, j \in DOMAIN place :
           i < j /\ place[i] = "dashes" => place[j] \in {"positional", "after"}
      /\ \A i \in DOMAIN place :
           place[i] = "sink" => Line!Positional = << >> \/ ~Line!Plain(args[i])
  BY <1>1 DEF Placing
<1>5. ASSUME NEW i \in DOMAIN place,
             i > 1, Line!Plain(args[i]), place[i - 1] = "value", ~Line!Plain(args[i - 1]),
             Line!Token(args[i - 1]).value = << >>, Line!PairOf(args[i - 1].name) # {},
             \A o \in Line!PairOf(args[i - 1].name) : options[o].type \in {"int", "string"}
      PROVE  place[i] = "value"
  <2> DEFINE k == i - 1
  <2>1. k \in 1 .. Len(place) /\ k + 1 = i /\ k < Len(args) /\ args[k] \in Line!Argument
    BY <1>1, <1>5
  <2>2. Line!Token(args[k]) = args[k]
    BY <1>5, <2>1, TokenIs
  <2>3. WantsValue(k)
    BY <1>5, <2>2 DEF WantsValue
  <2> HIDE DEF k
  <2>4. place[k] = "value" /\ Line!Plain(args[k + 1])
    BY <1>5, <2>1 DEF k
  <2> QED  BY <1>1, <2>1, <2>3, <2>4 DEF Placing
<1> QED  BY <1>1, <1>2, <1>3, <1>4, <1>5 DEF Line!ArgumentsPlaced

\* The program's variables are set all together, to what the accessors give, or not at all:
\* the defaults, the arrays and the required options are looked at before the first of them is
\* written (swCommandLineDataSetValues in src/command-line/command-line-data.c).
THEOREM VariablesTogether == SystemSpec => []SetTogether
<1>1. SystemInit => LineInv
  BY LineStart
<1>2. LineInv /\ [SystemNext]_systemVars => LineInv'
  BY LineStep, StepsApart
<1>3. LineInv => SetTogether
  BY LineSetTogether
<1> QED  BY <1>1, <1>2, <1>3, PTL DEF SystemSpec

\* However the arguments are mixed, each goes to one place, the sink and what comes after the
\* options get theirs in order, and a value behind its option is never taken for anything else
\* (swCommandLineStateScanArguments in src/command-line/command-line-state.c).
THEOREM ArgumentsFound == SystemSpec => []ArgumentsPlaced
<1>1. SystemInit => LineInv
  BY LineStart
<1>2. LineInv /\ [SystemNext]_systemVars => LineInv'
  BY LineStep, StepsApart
<1>3. LineInv => ArgumentsPlaced
  BY LineArgumentsPlaced
<1> QED  BY <1>1, <1>2, <1>3, PTL DEF SystemSpec
===============================================================================
