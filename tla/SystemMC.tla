------------------------------- MODULE SystemMC -------------------------------
(***************************************************************************)
(* The parts around the event loop, each on its own: subject is the one     *)
(* that runs, the others stay as they start.  The clients and servers of    *)
(* NetClient are taken as they are, the others under names of their own.    *)
(***************************************************************************)
EXTENDS NetClient

CONSTANTS
    Subjects,                                                   \* the parts that may run
    LogThreads, MaxLines, Capacity, MaxFileSize, MaxFileCount,  \* Logging
    MaxServers,                                                 \* TrafficServer
    MaxPorts, MaxConnections,                                   \* TrafficClient, Splicer
    BufferSize, PipeSize, MaxBytes,                             \* Splicer
    Declarations, Arguments, MaxArguments,                      \* CommandLine
    Counts, Share                                               \* ThreadedTest

ASSUME SystemAssumption ==
    /\ BufferSize \in Nat /\ PipeSize \in Nat
    /\ MaxFileCount \in Nat
    /\ Counts \subseteq Nat \ {0} /\ Share \in Nat \ {0}

VARIABLES
    subject,
    section, manager, attached, writers, regions, busy, lines,  \* Logging
    written, open, base, archive, count, consumer,
    modules, async, up, at, phase,                              \* Program
    slots, firstFree, slotOf, used,                             \* TrafficServer
    wanted, clients, counted, sending, state,                   \* TrafficClient
    client, server, made, accepted, served, upward, downward,   \* Splicer
    pipeToServer, pipeToClient, clientBufferWritten, serverBufferWritten,
    clientSent, clientReceived, serverSent, serverReceived, ofBuffers, running,
    declared, args, options, values, place, sink, after,        \* CommandLine
    external, result,
    kind, numThreads, stage, threads, worked, told, consumed,   \* ThreadedTest
    events, received, expected, killOpen

Log == INSTANCE Logging WITH Threads <- LogThreads

Programs == INSTANCE Program

Traffic == INSTANCE TrafficServer WITH Servers <- 1 .. MaxServers

Sources == INSTANCE TrafficClient

Splice == INSTANCE Splicer WITH
             open <- served, up <- upward, down <- downward

\* Options of every type and kind, modules that clash, and one with two main categories.
Opt(names, type) ==
  [names |-> names, type |-> type, array |-> "none", count |-> 0, positional |-> FALSE,
   required |-> FALSE, prefix |-> FALSE, default |-> <<>>, enums |-> {}]
PositionalOpt(type) == [Opt({}, type) EXCEPT !.positional = TRUE]
LineDeclarations ==
  LET Help == Opt({<<"h">>, <<"help">>}, "bool")
      A == Opt({<<"a">>}, "bool")
      B == Opt({<<"b">>}, "bool")
      P == [Opt({<<"p">>}, "int") EXCEPT !.prefix = TRUE, !.default = << << <<"2">> >> >>]
      M == [Opt({<<"m">>}, "int") EXCEPT !.array = "multi", !.count = 2]
      I == [Opt({<<"m">>}, "int") EXCEPT !.array = "simple", !.required = TRUE]
      S == [Opt({<<"p">>}, "string") EXCEPT !.array = "comma"]
      E == [Opt({<<"a">>}, "enum") EXCEPT
              !.enums = {[name |-> <<"b">>, value |-> << <<"x">> >>, is |-> << <<"7">> >>]}]
      Main(os) == [main |-> TRUE, options |-> os]
      Module(os) == [main |-> FALSE, options |-> os]
  IN  { <<Module(<<Help>>), Main(<<A, B, P, [PositionalOpt("int") EXCEPT !.required = TRUE],
                             PositionalOpt("string")>>), Module(<<M>>)>>,
        <<Module(<<Help>>), Module(<<E, S, I>>)>>,
        <<Main(<<[PositionalOpt("string") EXCEPT !.array = "comma"]>>), Module(<<A, B, P>>)>>,
        <<Module(<<A, PositionalOpt("int"), B>>)>>,
        <<Module(<<A, P>>), Module(<<S>>)>>,
        <<Main(<<A>>), Main(<<B>>)>>,
        <<Main(<<[M EXCEPT !.default = << << <<"1">> >> >>], B>>)>> }
Arg(dashes, name, value) == [dashes |-> dashes, name |-> name, value |-> value]

\* Named, negated, grouped, prefixed and unknown options, and plain values.
LineArguments ==
  { Arg(2, <<"help">>, <<>>), Arg(1, <<"a">>, <<>>), Arg(1, <<"a", "b">>, <<>>),
    Arg(2, <<"a">>, << <<"false">> >>), Arg(2, <<"no", "a">>, <<>>), Arg(1, <<"p", "1">>, <<>>),
    Arg(1, <<"p">>, <<>>), Arg(2, <<"m">>, <<>>), Arg(1, <<"p">>, << <<"1">>, <<"x">> >>),
    Arg(2, <<"u">>, <<>>), Arg(2, <<>>, <<>>), Arg(1, <<>>, <<>>),
    Arg(0, <<>>, << <<"1">> >>), Arg(0, <<>>, << <<"x">> >>), Arg(0, <<>>, << <<"true">> >>) }

Line == INSTANCE CommandLine

ASSUME LineAssumption ==
    /\ Declarations \subseteq Seq(Line!Category)
    /\ Arguments \subseteq Line!Argument

Tests == INSTANCE ThreadedTest

-------------------------------------------------------------------------------
logVars == <<section, manager, attached, writers, regions, busy, lines, written, open, base,
             archive, count, consumer>>
progVars == <<modules, async, up, at, phase>>
trafficVars == <<slots, firstFree, slotOf, used, wanted, clients, counted, sending, state>>
spliceVars == <<client, server, made, accepted, served, upward, downward, pipeToServer,
                pipeToClient, clientBufferWritten, serverBufferWritten, clientSent,
                clientReceived, serverSent, serverReceived, ofBuffers, running>>
lineVars == <<declared, args, options, values, place, sink, after, external, result>>
testVars == <<kind, numThreads, stage, threads, worked, told, consumed, events, received,
              expected, killOpen>>
systemVars == <<subject, netVars, logVars, progVars, trafficVars, spliceVars, lineVars, testVars>>

\* What is not run starts in one state only.
SystemInit ==
    /\ subject \in Subjects
    /\ Init /\ (subject # "net" => c.kind = "tcp")
    /\ Log!Init /\ (subject # "log" => section[1] = "a")
    /\ Programs!Init
    /\ subject # "program" => async /\ modules = Programs!splicerModules
    /\ Traffic!Init /\ Splice!Init
    /\ Sources!Init /\ (subject # "client" => wanted = <<1>>)
    /\ Line!Init /\ (subject # "line" => args = <<>> /\ Len(declared) = 1)
    /\ Tests!Init /\ (subject # "test" => kind = "ring" /\ numThreads = 1)

SystemNext ==
    /\ UNCHANGED subject
    /\ \/ /\ subject = "net" /\ Next
          /\ UNCHANGED <<logVars, progVars, trafficVars, spliceVars, lineVars, testVars>>
       \/ /\ subject = "log" /\ Log!Next
          /\ UNCHANGED <<netVars, progVars, trafficVars, spliceVars, lineVars, testVars>>
       \/ /\ subject = "program" /\ Programs!Next
          /\ UNCHANGED <<netVars, logVars, trafficVars, spliceVars, lineVars, testVars>>
       \/ /\ subject = "server" /\ Traffic!Next
          /\ UNCHANGED <<wanted, clients, counted, sending, state>>
          /\ UNCHANGED <<netVars, logVars, progVars, spliceVars, lineVars, testVars>>
       \/ /\ subject = "client" /\ Sources!Next
          /\ UNCHANGED <<slots, firstFree, slotOf, used>>
          /\ UNCHANGED <<netVars, logVars, progVars, spliceVars, lineVars, testVars>>
       \/ /\ subject = "splicer" /\ Splice!Next
          /\ UNCHANGED <<netVars, logVars, progVars, trafficVars, lineVars, testVars>>
       \/ /\ subject = "line" /\ Line!Next
          /\ UNCHANGED <<netVars, logVars, progVars, trafficVars, spliceVars, testVars>>
       \/ /\ subject = "test" /\ Tests!Next
          /\ UNCHANGED <<netVars, logVars, progVars, trafficVars, spliceVars, lineVars>>

SystemSpec == SystemInit /\ [][SystemNext]_systemVars /\ Fairness

-------------------------------------------------------------------------------
\* The log files kept hold the last lines written, in order, and are not too many.
FilesKeepNewest == Log!FilesKeepNewest

\* A logger points to a manager only while there is one.
NoneDangles == Log!NoneDangles

\* A module that is started has what it needs, from its start to its stop.
NeedsMet == Programs!NeedsMet

\* What the traffic server stops when it stops is open, and the traffic client's stop
\* leaves no client and no timer.
ToolsStopAll == Traffic!SlotsLive /\ Sources!StopStopsAll

\* Two connections of the traffic server do not share a slot.  The code breaks this: the
\* search for the next free slot stops at the first one that is taken.
SlotsExclusive == Traffic!SlotsExclusive

\* The splicer loses no byte between its two sides, and knows its server.
PipesConserve == Splice!PipesConserve

\* The program's variables are set all together or not at all.
SetTogether == Line!SetTogether

\* Each argument goes to one place, in order.
ArgumentsPlaced == Line!ArgumentsPlaced

\* The loop of a test with threads is left when all is done, and then.
LoopLeftInTime == Tests!LoopLeftInTime
===============================================================================
