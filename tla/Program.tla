------------------------------ MODULE Program -------------------------------
(***************************************************************************)
(* A program is a list of modules, each with a start and a stop function,  *)
(* and a loop that runs between: src/init and the main functions under      *)
(* src/tools.  The modules hold pointers to each other's state, so what one *)
(* uses must be there from before its start until after its stop.           *)
(***************************************************************************)
EXTENDS Naturals, Sequences

VARIABLES modules, \* the list main gives to swInitStart
          async,   \* was an asynchronous log writer asked for?
          up,      \* the modules started and not stopped
          at,      \* position in the list
          phase    \* "starting", "running", "stopping" or "done"

progVars == <<modules, async, up, at, phase>>

trafficModules == <<"commandLine", "loop", "signals", "threads", "log",
                    "trafficClient", "trafficServer", "cpuTimer">>
splicerModules == <<"commandLine", "loop", "signals", "threads", "log",
                    "cpuTimer", "splicer">>
icmpv6Modules == <<"commandLine", "loop", "signals", "threads", "log",
                   "ethernet", "interfaces", "ip", "icmpv6">>
callTreeModules == <<"commandLine", "log", "callTree">>

Init ==
  /\ modules \in {trafficModules, splicerModules, icmpv6Modules, callTreeModules}
  /\ async \in BOOLEAN
  /\ up = {} /\ at = 1 /\ phase = "starting"

\* What the start functions look for, and fail without.  The command line leaves the options
\* where other modules read them: an asynchronous log writer, the splicer, the communicator
\* and the call tree refuse to start without theirs, a traffic generator has nothing to do.
\* The communicator asks the interface module for the addresses of its interface.
EdgeLoopNeeds == {}
EdgeSignalsNeed == {"loop"}
ThreadManagerNeeds == {"loop"}
LogManagerNeeds == IF async THEN {"commandLine", "threads"} ELSE {}
CPUTimerNeeds == {"loop"}
CommandLineNeeds == {}
InterfaceNeeds == {}
TrafficClientNeeds == {"loop"}
TrafficServerNeeds == {"loop"}
SplicerNeeds == {"commandLine", "loop"}
CommunicatorNeeds == {"commandLine", "loop", "interfaces"}
CallTreeNeeds == {"commandLine"}

Needs(m) ==
  CASE m = "loop" -> EdgeLoopNeeds
    [] m = "signals" -> EdgeSignalsNeed
    [] m = "threads" -> ThreadManagerNeeds
    [] m = "log" -> LogManagerNeeds
    [] m = "cpuTimer" -> CPUTimerNeeds
    [] m = "commandLine" -> CommandLineNeeds
    [] m \in {"ethernet", "interfaces", "ip"} -> InterfaceNeeds
    [] m = "trafficClient" -> TrafficClientNeeds
    [] m = "trafficServer" -> TrafficServerNeeds
    [] m = "splicer" -> SplicerNeeds
    [] m = "icmpv6" -> CommunicatorNeeds
    [] m = "callTree" -> CallTreeNeeds

\* One turn of the loop of swInitStart: the module starts, or fails, for what it
\* needs or for a reason of its own, and the ones before it are torn down.
Start ==
  /\ phase = "starting" /\ at <= Len(modules)
  /\ \/ /\ Needs(modules[at]) \subseteq up
        /\ up' = up \cup {modules[at]} /\ at' = at + 1 /\ UNCHANGED phase
     \/ at' = at - 1 /\ phase' = "stopping" /\ UNCHANGED up
  /\ UNCHANGED <<modules, async>>

\* All are up, and the loop of the program runs until a signal breaks it.
Run ==
  /\ phase = "starting" /\ at > Len(modules)
  /\ phase' = "running"
  /\ UNCHANGED <<modules, async, up, at>>

SignalReceived ==
  /\ phase = "running" /\ phase' = "stopping" /\ at' = Len(modules)
  /\ UNCHANGED <<modules, async, up>>

\* Mutant: the modules are stopped in the order they were started in.
StopForward ==
  /\ phase = "stopping"
  /\ IF at > 0
     THEN up' = up \ {modules[Len(modules) + 1 - at]} /\ at' = at - 1 /\ UNCHANGED phase
     ELSE phase' = "done" /\ UNCHANGED <<up, at>>
  /\ UNCHANGED <<modules, async>>

\* One turn of the loop that tears down, from the last module started to the first.
Stop ==
  /\ phase = "stopping"
  /\ IF at > 0
     THEN up' = up \ {modules[at]} /\ at' = at - 1 /\ UNCHANGED phase
     ELSE phase' = "done" /\ UNCHANGED <<up, at>>
  /\ UNCHANGED <<modules, async>>

Next == Start \/ Run \/ SignalReceived \/ Stop

\* Whatever is up has what it needs, and a program that ends, also one that could
\* not start, has stopped all it started.
NeedsMet ==
  /\ \A m \in up : Needs(m) \subseteq up
  /\ phase = "done" => up = {}
=============================================================================
