--------------------------- MODULE NetClientProofs ---------------------------
(***************************************************************************)
(* Proofs about the clients and the servers' connections of NetClient.  A   *)
(* step of the model is a few operators applied to the record of the        *)
(* socket, so the lemmas are about those: each takes a socket of which the  *)
(* invariant (Held, Trying) holds to one of which it holds again.           *)
(***************************************************************************)
EXTENDS NetClient, SequenceTheorems, TLAPS

-----------------------------------------------------------------------------
(* The frames of the call stack                                              *)

\* A stack without the frame on top of it.
LEMMA TailFacts ==
  ASSUME NEW s \in Seq(Frames), s # <<>>
  PROVE  /\ Tail(s) \in Seq(Frames)
         /\ Len(s) \in Nat \ {0} /\ Len(Tail(s)) = Len(s) - 1
         /\ \A i \in 1 .. Len(s) - 1 : Tail(s)[i] = s[i + 1]
         /\ Head(s) = s[1] /\ Head(s) \in Frames
         /\ DOMAIN s = 1 .. Len(s) /\ DOMAIN Tail(s) = 1 .. Len(s) - 1
  OBVIOUS

\* A stack with one frame put on top of it.
LEMMA PushFacts ==
  ASSUME NEW s \in Seq(Frames), NEW f \in Frames
  PROVE  /\ <<f>> \o s \in Seq(Frames)
         /\ Len(s) \in Nat /\ Len(<<f>> \o s) = Len(s) + 1
         /\ (<<f>> \o s)[1] = f /\ Head(<<f>> \o s) = f
         /\ \A i \in 1 .. Len(s) : (<<f>> \o s)[i + 1] = s[i]
         /\ DOMAIN s = 1 .. Len(s) /\ DOMAIN (<<f>> \o s) = 1 .. Len(s) + 1
         /\ <<f>> \o s # <<>>
  OBVIOUS

\* The frames of an event, put together one after the other.
LEMMA Tuples ==
  ASSUME NEW f \in Frames, NEW g \in Frames
  PROVE  /\ <<f>> \o <<g>> = <<f, g>>
         /\ \A h \in Frames : <<f, g>> \o <<h>> = <<f, g, h>>
<1>1. <<f>> \o <<g>> = <<f, g>>
  <2> DEFINE x == <<f>> \o <<g>>
             y == <<f, g>>
  <2>1. <<f>> \in Seq(Frames) /\ <<g>> \in Seq(Frames)
    OBVIOUS
  <2>2. x \in Seq(Frames) /\ Len(x) = 2 /\ \A i \in 1 .. 2 : x[i] = y[i]
    BY <2>1
  <2>3. y \in Seq(Frames) /\ Len(y) = 2
    OBVIOUS
  <2> HIDE DEF x, y
  <2>4. Len(x) = Len(y) /\ \A i \in 1 .. Len(x) : x[i] = y[i]
    BY <2>2, <2>3
  <2>5. x = y
    BY <2>2, <2>3, <2>4, SeqEqual
  <2> QED  BY <2>5 DEF x, y
<1>2. ASSUME NEW h \in Frames PROVE <<f, g>> \o <<h>> = <<f, g, h>>
  <2> DEFINE x == <<f, g>> \o <<h>>
             y == <<f, g, h>>
  <2>1. <<f, g>> \in Seq(Frames) /\ <<h>> \in Seq(Frames)
    OBVIOUS
  <2>2. x \in Seq(Frames) /\ Len(x) = 3 /\ \A i \in 1 .. 3 : x[i] = y[i]
    BY <2>1
  <2>3. y \in Seq(Frames) /\ Len(y) = 3
    OBVIOUS
  <2> HIDE DEF x, y
  <2>4. Len(x) = Len(y) /\ \A i \in 1 .. Len(x) : x[i] = y[i]
    BY <2>2, <2>3
  <2>5. x = y
    BY <2>2, <2>3, <2>4, SeqEqual
  <2> QED  BY <2>5 DEF x, y
<1> QED  BY <1>1, <1>2

\* Two frames put on a stack are put on it one after the other.
LEMMA TwoPushes ==
  ASSUME NEW s \in Seq(Frames), NEW f \in Frames, NEW g \in Frames
  PROVE  <<f, g>> \o s = <<f>> \o (<<g>> \o s)
<1>1. <<f>> \in Seq(Frames) /\ <<g>> \in Seq(Frames)
  OBVIOUS
<1>2. (<<f>> \o <<g>>) \o s = <<f>> \o (<<g>> \o s)
  BY <1>1, ConcatAssociative
<1> QED  BY <1>2, Tuples

\* What fits below a frame depends on the frames only through those below it, so a frame
\* fits in a stack as its image does in another one with the same frames from there on.
LEMMA FrameKept ==
  ASSUME NEW d \in Sockets, NEW e \in Sockets, NEW i \in Nat, NEW j \in Nat,
         e.kind = d.kind, d.inside => e.inside, d.deleting => e.deleting,
         e.stack[j] = d.stack[i], i = Len(d.stack) <=> j = Len(e.stack),
         i # Len(d.stack) => e.stack[j + 1] = d.stack[i + 1],
         FrameFits(d, i)
  PROVE  FrameFits(e, j)
  BY DEF FrameFits, IsClient, Serving

\* Every frame fits when the one on top returns.
LEMMA Popped ==
  ASSUME NEW d \in Sockets, NEW e \in Sockets, StackFits(d), d.stack # <<>>,
         e.stack = Tail(d.stack), e.kind = d.kind, d.inside => e.inside, d.deleting => e.deleting
  PROVE  StackFits(e)
<1>1. d.stack \in Seq(Frames)
  BY DEF Sockets
<1>2. Len(d.stack) \in Nat \ {0} /\ Len(e.stack) = Len(d.stack) - 1 
      /\ DOMAIN e.stack = 1 .. Len(d.stack) - 1 /\ DOMAIN d.stack = 1 .. Len(d.stack)
  BY <1>1, TailFacts
<1>3. ASSUME NEW j \in DOMAIN e.stack PROVE e.stack[j] = d.stack[j + 1]
  BY <1>1, <1>2, <1>3, TailFacts
<1>4. ASSUME NEW j \in DOMAIN e.stack PROVE FrameFits(e, j)
  <2>1. j \in Nat /\ j + 1 \in Nat /\ j + 1 \in DOMAIN d.stack
        /\ (j + 1 = Len(d.stack) <=> j = Len(e.stack))
        /\ (j + 1 # Len(d.stack) => j + 1 \in DOMAIN e.stack)
    BY <1>2
  <2>2. e.stack[j] = d.stack[j + 1] /\ (j + 1 # Len(d.stack) => e.stack[j + 1] = d.stack[(j + 1) + 1])
    BY <1>3, <2>1
  <2>3. FrameFits(d, j + 1)
    BY <2>1 DEF StackFits
  <2> QED  BY <2>1, <2>2, <2>3, FrameKept
<1> QED  BY <1>4 DEF StackFits

\* Every frame fits when a call adds one that does.
LEMMA Pushed ==
  ASSUME NEW d \in Sockets, NEW e \in Sockets, NEW f \in Frames, StackFits(d),
         e.stack = <<f>> \o d.stack, e.kind = d.kind, d.inside => e.inside,
         d.deleting => e.deleting,
         f \in {"eventEnd", "readTimeout", "writeTimeout", "free"} => d.stack = <<>>,
         f \in {"read", "write", "toWrite", "eventEnd"} => e.inside,
         f = "free" => e.deleting, f = "connected" => IsClient(e),
         Serving(e) /\ f \in {"shut", "closed", "close"} => d.stack = <<>> \/ Head(d.stack) = "free"
  PROVE  StackFits(e)
<1>1. d.stack \in Seq(Frames)
  BY DEF Sockets
<1>2. /\ Len(d.stack) \in Nat /\ Len(e.stack) = Len(d.stack) + 1
      /\ DOMAIN e.stack = 1 .. Len(d.stack) + 1 /\ DOMAIN d.stack = 1 .. Len(d.stack)
      /\ e.stack[1] = f
  BY <1>1, PushFacts
<1>3. ASSUME NEW i \in DOMAIN d.stack PROVE e.stack[i + 1] = d.stack[i]
  BY <1>1, <1>2, <1>3, PushFacts
<1>4. d.stack # <<>> => Len(d.stack) # 0 /\ e.stack[2] = Head(d.stack)
  <2>1. d.stack # <<>> => Len(d.stack) # 0 /\ Head(d.stack) = d.stack[1] /\ 1 \in DOMAIN d.stack
    BY <1>1, <1>2, TailFacts
  <2>2. 1 \in DOMAIN d.stack => e.stack[1 + 1] = d.stack[1]
    BY <1>3
  <2>3. 1 + 1 = 2
    OBVIOUS
  <2> QED  BY <2>1, <2>2, <2>3, Zenon
<1>5. FrameFits(e, 1)
  <2>1. d.stack = <<>> => Len(e.stack) = 1
    BY <1>2
  <2> QED  BY <1>2, <1>4, <2>1 DEF FrameFits
<1>6. ASSUME NEW j \in DOMAIN e.stack, j # 1 PROVE FrameFits(e, j)
  <2> DEFINE i == j - 1
  <2>1. i \in DOMAIN d.stack /\ j = i + 1 /\ i \in Nat
    BY <1>2, <1>6
  <2> HIDE DEF i
  <2>2. (i = Len(d.stack) <=> (i + 1) = Len(e.stack)) /\ (i # Len(d.stack) => i + 1 \in DOMAIN d.stack)
        /\ i + 1 \in Nat
    BY <1>2, <2>1
  <2>3. e.stack[i + 1] = d.stack[i] /\ (i # Len(d.stack) => e.stack[(i + 1) + 1] = d.stack[i + 1])
    BY <1>3, <2>1, <2>2
  <2>4. FrameFits(d, i)
    BY <2>1 DEF StackFits
  <2>5. FrameFits(e, i + 1)
    BY <2>1, <2>2, <2>3, <2>4, FrameKept
  <2> QED  BY <2>1, <2>5
<1> QED  BY <1>5, <1>6 DEF StackFits

\* A frame that returns, unless it is one of those that close, leaves the close as it is.
LEMMA PoppedEnds ==
  ASSUME NEW d \in Sockets, NEW e \in Sockets, ClosingEnds(d), d.stack # <<>>,
         e.stack = Tail(d.stack),
         IF Head(d.stack) = "rearm" THEN ~e.closing ELSE e.closing = d.closing
  PROVE  /\ ClosingEnds(e)
         /\ ~Awaits(e, "closed") /\ ~Runs(e, "closed")
         /\ ~e.closing => ~Awaits(e, "rearm") /\ ~Runs(e, "rearm")
<1>1. /\ Len(d.stack) \in Nat \ {0} /\ Len(e.stack) = Len(d.stack) - 1
      /\ DOMAIN e.stack = 1 .. Len(d.stack) - 1 /\ DOMAIN d.stack = 1 .. Len(d.stack)
      /\ Head(d.stack) = d.stack[1]
      /\ e.stack # <<>> => Head(e.stack) = e.stack[1] /\ 1 \in DOMAIN e.stack
  BY TailFacts DEF Sockets
<1>2. ASSUME NEW j \in DOMAIN e.stack PROVE e.stack[j] = d.stack[j + 1]
  BY <1>1, <1>2, TailFacts DEF Sockets
<1>3. ASSUME NEW j \in DOMAIN e.stack
      PROVE  /\ e.stack[j] # "closed"
             /\ e.stack[j] = "rearm" => j = 1 /\ e.closing
  <2>1. j + 1 \in DOMAIN d.stack /\ j + 1 # 1 /\ j \in Nat
    BY <1>1
  <2>2. e.stack[j] # "closed"
    BY <1>2, <2>1 DEF ClosingEnds
  <2>3. e.stack[j] = "rearm" => d.closing /\ j + 1 = 2 /\ d.stack[1] = "close"
    BY <1>2, <2>1 DEF ClosingEnds
  <2>4. d.stack[1] = "close" => Head(d.stack) # "rearm"
    BY <1>1
  <2> QED  BY <2>1, <2>2, <2>3, <2>4
<1>4. e.closing => Runs(e, "rearm")
  <2>1. e.closing => d.closing /\ Head(d.stack) # "rearm"
    OBVIOUS
  <2>2. e.closing => Len(d.stack) > 1 /\ d.stack[2] = "rearm"
    BY <2>1 DEF ClosingEnds, Runs
  <2>3. Len(d.stack) > 1 => 1 \in DOMAIN e.stack /\ e.stack[1] = d.stack[2]
    <3>1. Len(d.stack) > 1 => 1 \in DOMAIN e.stack /\ 1 + 1 = 2
      BY <1>1
    <3> QED  BY <1>2, <3>1
  <2>4. 1 \in DOMAIN e.stack => e.stack # <<>>
    <3>1. DOMAIN <<>> = {}
      OBVIOUS
    <3> QED  BY <3>1
  <2>5. e.stack # <<>> => Head(e.stack) = e.stack[1]
    BY <1>1
  <2> QED  BY <2>2, <2>3, <2>4, <2>5 DEF Runs
<1>5. e.stack # <<>> => Head(e.stack) = e.stack[1] /\ 1 \in DOMAIN e.stack
  BY <1>1
<1> QED  BY <1>3, <1>4, <1>5 DEF ClosingEnds, Awaits, Runs

\* A call leaves the close as it is when none goes on.
LEMMA PushedEnds ==
  ASSUME NEW d \in Sockets, NEW e \in Sockets, NEW f \in Frames \ {"rearm"}, ClosingEnds(d),
         ~d.closing, ~Awaits(d, "closed"), e.stack = <<f>> \o d.stack, ~e.closing
  PROVE  ClosingEnds(e) /\ ~Awaits(e, "rearm") /\ ~Runs(e, "rearm")
<1>1. /\ Len(d.stack) \in Nat
      /\ DOMAIN e.stack = 1 .. Len(d.stack) + 1 /\ DOMAIN d.stack = 1 .. Len(d.stack)
      /\ e.stack[1] = f /\ Head(e.stack) = f
  BY PushFacts DEF Sockets
<1>2. ASSUME NEW i \in DOMAIN d.stack PROVE e.stack[i + 1] = d.stack[i]
  BY <1>1, <1>2, PushFacts DEF Sockets
<1>3. ASSUME NEW j \in DOMAIN e.stack, j # 1
      PROVE  e.stack[j] # "closed" /\ e.stack[j] # "rearm"
  <2> DEFINE i == j - 1
  <2>1. i \in DOMAIN d.stack /\ j = i + 1
    BY <1>1, <1>3
  <2> HIDE DEF i
  <2>2. d.stack[i] # "closed" /\ d.stack[i] # "rearm"
    BY <2>1 DEF Awaits, ClosingEnds
  <2> QED  BY <1>2, <2>1, <2>2
<1> QED  BY <1>1, <1>3 DEF ClosingEnds, Awaits, Runs

\* What a stack waits to run after a call: the frame called, and what it waited for.
LEMMA AwaitsPushed ==
  ASSUME NEW d \in Sockets, NEW e \in Sockets, NEW f \in Frames, e.stack = <<f>> \o d.stack
  PROVE  /\ \A g \in Frames : Awaits(e, g) <=> g = f \/ Awaits(d, g)
         /\ \A g \in Frames : Runs(e, g) <=> g = f
         /\ e.stack # <<>>
<1>1. /\ Len(d.stack) \in Nat
      /\ DOMAIN e.stack = 1 .. Len(d.stack) + 1 /\ DOMAIN d.stack = 1 .. Len(d.stack)
      /\ e.stack[1] = f /\ Head(e.stack) = f /\ e.stack # <<>>
  BY PushFacts DEF Sockets
<1>2. ASSUME NEW i \in DOMAIN d.stack PROVE e.stack[i + 1] = d.stack[i]
  BY <1>1, <1>2, PushFacts DEF Sockets
<1>3. ASSUME NEW g \in Frames, Awaits(d, g) PROVE Awaits(e, g)
  <2>1. PICK i \in DOMAIN d.stack : d.stack[i] = g
    BY <1>3 DEF Awaits
  <2>2. i + 1 \in DOMAIN e.stack
    BY <1>1
  <2> QED  BY <1>2, <2>1, <2>2 DEF Awaits
<1>4. ASSUME NEW g \in Frames, Awaits(e, g), g # f PROVE Awaits(d, g)
  <2>1. PICK j \in DOMAIN e.stack : e.stack[j] = g
    BY <1>4 DEF Awaits
  <2> DEFINE i == j - 1
  <2>2. j # 1
    BY <1>1, <1>4, <2>1
  <2>3. i \in DOMAIN d.stack /\ j = i + 1
    BY <1>1, <2>2
  <2> HIDE DEF i
  <2> QED  BY <1>2, <2>1, <2>3 DEF Awaits
<1>5. 1 \in DOMAIN e.stack
  BY <1>1
<1> QED  BY <1>1, <1>3, <1>4, <1>5 DEF Awaits, Runs

\* What it waits to run after a return: all but the frame that returned.
LEMMA AwaitsPopped ==
  ASSUME NEW d \in Sockets, NEW e \in Sockets, d.stack # <<>>, e.stack = Tail(d.stack)
  PROVE  \A g \in Frames : Awaits(d, g) /\ Head(d.stack) # g => Awaits(e, g)
<1>1. /\ Len(d.stack) \in Nat \ {0} /\ Head(d.stack) = d.stack[1]
      /\ DOMAIN e.stack = 1 .. Len(d.stack) - 1 /\ DOMAIN d.stack = 1 .. Len(d.stack)
  BY TailFacts DEF Sockets
<1>2. ASSUME NEW j \in DOMAIN e.stack PROVE e.stack[j] = d.stack[j + 1]
  BY <1>1, <1>2, TailFacts DEF Sockets
<1>3. SUFFICES ASSUME NEW g \in Frames, Awaits(d, g), Head(d.stack) # g PROVE Awaits(e, g)
  OBVIOUS
<1>4. PICK i \in DOMAIN d.stack : d.stack[i] = g
  BY <1>3 DEF Awaits
<1> DEFINE j == i - 1
<1>5. j \in DOMAIN e.stack /\ i = j + 1
  <2>1. i # 1
    BY <1>1, <1>3, <1>4
  <2> QED  BY <1>1, <2>1
<1> HIDE DEF j
<1> QED  BY <1>2, <1>4, <1>5 DEF Awaits

\* The end of an event stays at the bottom of the stack until it runs.
LEMMA PoppedInside ==
  ASSUME NEW d \in Sockets, NEW e \in Sockets, InsideEnds(d), d.stack # <<>>,
         e.stack = Tail(d.stack), e.inside => d.inside, Head(d.stack) # "eventEnd"
  PROVE  InsideEnds(e)
<1>1. /\ Len(d.stack) \in Nat \ {0} /\ Head(d.stack) = d.stack[1]
      /\ DOMAIN e.stack = 1 .. Len(d.stack) - 1 /\ Len(e.stack) = Len(d.stack) - 1
  BY TailFacts DEF Sockets
<1>2. ASSUME NEW j \in DOMAIN e.stack PROVE e.stack[j] = d.stack[j + 1]
  BY <1>1, <1>2, TailFacts DEF Sockets
<1>3. ASSUME e.inside PROVE e.stack # <<>> /\ e.stack[Len(e.stack)] = "eventEnd"
  <2>1. d.stack[Len(d.stack)] = "eventEnd"
    BY <1>3 DEF InsideEnds
  <2>2. Len(d.stack) # 1
    BY <1>1, <2>1
  <2>3. Len(e.stack) \in DOMAIN e.stack /\ Len(e.stack) + 1 = Len(d.stack) /\ Len(e.stack) # 0
    <3>1. \A n \in Nat \ {0} : n # 1 => n - 1 \in 1 .. n - 1 /\ (n - 1) + 1 = n /\ n - 1 # 0
      OBVIOUS
    <3> QED  BY <1>1, <2>2, <3>1
  <2>4. e.stack # <<>>
    <3>1. Len(<<>>) = 0
      OBVIOUS
    <3> QED  BY <2>3, <3>1
  <2> QED  BY <1>2, <2>1, <2>3, <2>4
<1> QED  BY <1>3 DEF InsideEnds

\* And no call is below it.
LEMMA PushedInside ==
  ASSUME NEW d \in Sockets, NEW e \in Sockets, NEW f \in Frames, InsideEnds(d),
         e.stack = <<f>> \o d.stack, e.inside => d.inside
  PROVE  InsideEnds(e)
<1>1. /\ Len(d.stack) \in Nat /\ Len(e.stack) = Len(d.stack) + 1 /\ e.stack # <<>>
      /\ d.stack # <<>> => Len(d.stack) # 0 /\ Len(d.stack) \in DOMAIN d.stack
  BY PushFacts, TailFacts DEF Sockets
<1>2. ASSUME NEW i \in DOMAIN d.stack PROVE e.stack[i + 1] = d.stack[i]
  BY <1>1, <1>2, PushFacts DEF Sockets
<1> QED  BY <1>1, <1>2 DEF InsideEnds

-----------------------------------------------------------------------------
(* Operations that change only part of a socket                              *)

\* The parts of a socket that operations leave alone, by what the invariant says of them.
SameWatches(d, e) ==
  /\ e.kind = d.kind /\ e.fd = d.fd /\ e.active = d.active /\ e.ssl = d.ssl
  /\ e.connecting = d.connecting /\ e.closing = d.closing
  /\ e.pending = d.pending /\ e.want = d.want /\ e.misretried = d.misretried
SameMode(d, e) == e.inside = d.inside /\ e.deleting = d.deleting /\ e.freed = d.freed
SameAims(d, e) == e.loop = d.loop /\ e.reconnect = d.reconnect
SameErrors(d, e) == e.lost = d.lost /\ e.dropped = d.dropped /\ e.lastError = d.lastError
OnlyStack(d, e) == SameWatches(d, e) /\ SameMode(d, e) /\ SameAims(d, e) /\ SameErrors(d, e)

\* A return changes the stack only.
LEMMA ReturnedFields ==
  ASSUME NEW d \in Sockets, d.stack # <<>>
  PROVE  /\ Returned(d) \in Sockets /\ OnlyStack(d, Returned(d))
         /\ Returned(d).stack = Tail(d.stack)
<1>1. Tail(d.stack) \in Seq(Frames)
  BY TailFacts DEF Sockets
<1> QED  BY <1>1 DEF Returned, OnlyStack, SameWatches, SameMode, SameAims, SameErrors, Sockets

\* And so does a call.
LEMMA CallFields ==
  ASSUME NEW d \in Sockets, NEW s \in Seq(Frames)
  PROVE  /\ Call(d, s) \in Sockets /\ OnlyStack(d, Call(d, s))
         /\ Call(d, s).stack = s \o d.stack
<1>1. s \o d.stack \in Seq(Frames)
  BY ConcatProperties DEF Sockets
<1> QED  BY <1>1 DEF Call, OnlyStack, SameWatches, SameMode, SameAims, SameErrors, Sockets

\* What does not depend on the stack holds of a socket of which only that changes.
LEMMA OnlyStackHolds ==
  ASSUME NEW d \in Sockets, NEW e \in Sockets, OnlyStack(d, e), WatchesHold(d), BuffersKept(d),
         ~Runs(d, "closed"), ~Runs(e, "closed"), Runs(e, "rearm") => d.closing
  PROVE  WatchesHold(e) /\ BuffersKept(e)
<1>1. WatchesHold(e)
  BY DEF OnlyStack, SameWatches, SameMode, SameAims, SameErrors, WatchesHold, IsClient, Secure
<1>2. BuffersKept(e)
  BY DEF OnlyStack, SameWatches, SameMode, SameAims, SameErrors, BuffersKept
<1> QED  BY <1>1, <1>2

\* A client goes on trying when only its stack changes, and no close is taken from it.
LEMMA OnlyStackTries ==
  ASSUME NEW d \in Sockets, NEW e \in Sockets, OnlyStack(d, e), ~Runs(d, "closed"),
         Awaits(d, "shut") => Awaits(e, "shut")
  PROVE  /\ ErrorHeld(d) => ErrorHeld(e)
         /\ Trying(d) => Trying(e)
<1>1. ErrorHeld(d) => ErrorHeld(e)
  BY DEF OnlyStack, SameWatches, SameMode, SameAims, SameErrors, ErrorHeld
<1>2. Trying(d) => Trying(e)
  BY DEF OnlyStack, SameWatches, SameMode, SameAims, SameErrors, Trying, IsClient
<1> QED  BY <1>1, <1>2

\* The invariant holds when a frame returns that neither closes nor ends an event.
LEMMA PopHolds ==
  ASSUME NEW d \in Sockets, NEW e \in Sockets, Held(d), d.stack # <<>>,
         Head(d.stack) \notin {"shut", "closed", "eventEnd", "rearm"},
         OnlyStack(d, e), e.stack = Tail(d.stack)
  PROVE  /\ Held(e) /\ ~Awaits(e, "closed")
         /\ Trying(d) => Trying(e)
<1>1. StackFits(e)
  BY Popped DEF Held, OnlyStack, SameWatches, SameMode, SameAims, SameErrors
<1>2. InsideEnds(e)
  BY PoppedInside DEF Held, OnlyStack, SameWatches, SameMode, SameAims, SameErrors
<1>3. /\ ClosingEnds(e) /\ ~Awaits(e, "closed") /\ ~Runs(e, "closed")
      /\ ~e.closing => ~Runs(e, "rearm")
  BY PoppedEnds DEF Held, OnlyStack, SameWatches, SameMode, SameAims, SameErrors
<1>4. FreedLast(e)
  BY DEF Held, OnlyStack, SameWatches, SameMode, SameAims, SameErrors, FreedLast
<1>5. Awaits(d, "shut") => Awaits(e, "shut")
  BY AwaitsPopped DEF Frames, UserFrames
<1>6. ~Runs(d, "closed")
  BY DEF Runs
<1>7. WatchesHold(e) /\ BuffersKept(e)
  BY <1>3, <1>6, OnlyStackHolds DEF Held, OnlyStack, SameWatches, SameMode, SameAims, SameErrors
<1>8. /\ ErrorHeld(d) => ErrorHeld(e)
      /\ Trying(d) => Trying(e)
  BY <1>5, <1>6, OnlyStackTries
<1> QED  BY <1>1, <1>2, <1>3, <1>4, <1>7, <1>8 DEF Held

\* All of the invariant but that an error noted is acted on.
Fits(d) ==
  /\ d \in Sockets
  /\ StackFits(d) /\ InsideEnds(d) /\ FreedLast(d) /\ ClosingEnds(d)
  /\ WatchesHold(d) /\ BuffersKept(d)
Noted(d) == d.lost /\ ~d.dropped => d.lastError

\* It holds after a call of a frame that fits.
LEMMA PushFits ==
  ASSUME NEW d \in Sockets, NEW e \in Sockets, NEW f \in Frames, Fits(d),
         OnlyStack(d, e), e.stack = <<f>> \o d.stack,
         ~d.closing, ~d.freed, ~Awaits(d, "closed"), f \notin {"closed", "rearm"},
         f \in {"eventEnd", "readTimeout", "writeTimeout", "free"} => d.stack = <<>>,
         f \in {"read", "write", "toWrite", "eventEnd"} => d.inside,
         f = "free" => d.deleting, f = "connected" => IsClient(d),
         Serving(d) /\ f \in {"shut", "close"} => d.stack = <<>> \/ Head(d.stack) = "free"
  PROVE  /\ Fits(e) /\ ~Awaits(e, "closed") /\ Awaits(e, f)
         /\ Awaits(d, "shut") => Awaits(e, "shut")
         /\ ErrorHeld(d) => ErrorHeld(e)
         /\ Trying(d) => Trying(e)
<1>1. StackFits(e)
  BY Pushed DEF Fits, OnlyStack, SameWatches, SameMode, IsClient, Serving
<1>2. InsideEnds(e)
  BY PushedInside DEF Fits, OnlyStack, SameMode
<1>3. ClosingEnds(e) /\ ~Runs(e, "rearm")
  BY PushedEnds DEF Fits, OnlyStack, SameWatches
<1>4. FreedLast(e)
  BY DEF OnlyStack, SameMode, FreedLast
<1>5. /\ {"closed", "shut"} \subseteq Frames
      /\ \A g \in Frames : Awaits(e, g) <=> g = f \/ Awaits(d, g)
      /\ \A g \in Frames : Runs(e, g) <=> g = f
  BY AwaitsPushed DEF Frames
<1>6. ~Runs(e, "closed") /\ ~Awaits(e, "closed") /\ Awaits(e, f)
      /\ (Awaits(d, "shut") => Awaits(e, "shut"))
  BY <1>5
<1>7. ~Runs(d, "closed")
  BY TailFacts DEF Runs, Awaits, Sockets
<1>8. WatchesHold(e) /\ BuffersKept(e)
  BY <1>3, <1>6, <1>7, OnlyStackHolds DEF Fits
<1>9. /\ ErrorHeld(d) => ErrorHeld(e)
      /\ Trying(d) => Trying(e)
  BY <1>6, <1>7, OnlyStackTries
<1> QED  BY <1>1, <1>2, <1>3, <1>4, <1>6, <1>8, <1>9 DEF Fits

\* The invariant holds after a call of a frame that fits, when no close goes on.
LEMMA PushHolds ==
  ASSUME NEW d \in Sockets, NEW e \in Sockets, NEW f \in Frames, Held(d),
         OnlyStack(d, e), e.stack = <<f>> \o d.stack,
         ~d.closing, ~d.freed, ~Awaits(d, "closed"), f \notin {"closed", "rearm"},
         f \in {"eventEnd", "readTimeout", "writeTimeout", "free"} => d.stack = <<>>,
         f \in {"read", "write", "toWrite", "eventEnd"} => d.inside,
         f = "free" => d.deleting, f = "connected" => IsClient(d),
         Serving(d) /\ f \in {"shut", "close"} => d.stack = <<>> \/ Head(d.stack) = "free"
  PROVE  /\ Held(e) /\ ~Awaits(e, "closed")
         /\ Trying(d) => Trying(e)
<1>1. Fits(d) /\ ErrorHeld(d)
  BY DEF Held, Fits
<1>2. Fits(e) /\ ErrorHeld(e) /\ ~Awaits(e, "closed") /\ (Trying(d) => Trying(e))
  BY <1>1, PushFits
<1> QED  BY <1>2 DEF Held, Fits

\* Inside an event a close changes only what is noted of it.
LEMMA CloseInside ==
  ASSUME NEW d \in Sockets, NEW error \in BOOLEAN, d.inside
  PROVE  LET e == Close(d, error)
         IN  /\ e \in Sockets
             /\ SameWatches(d, e) /\ SameMode(d, e) /\ SameAims(d, e)
             /\ e.stack = d.stack /\ e.lastError = error
             /\ e.dropped <=> d.dropped \/ ~error
             /\ e.lost <=> d.lost \/ error
<1> DEFINE drop == d.dropped \/ ~error
           lose == d.lost \/ error
           e == [d EXCEPT !.lastError = error, !.dropped = drop, !.lost = lose]
<1>1. Close(d, error) = e
  BY DEF Close
<1>2. drop \in BOOLEAN /\ lose \in BOOLEAN
  OBVIOUS
<1> HIDE DEF drop, lose
<1>3. e \in Sockets
  BY <1>2 DEF Sockets
<1>4. e.stack = d.stack /\ e.lastError = error /\ e.dropped = drop /\ e.lost = lose
  BY DEF Sockets
<1>5. SameWatches(d, e)
  BY DEF SameWatches, Sockets
<1>6. SameMode(d, e) /\ SameAims(d, e)
  BY DEF SameMode, SameAims, Sockets
<1> HIDE DEF e
<1>7. (e.dropped <=> d.dropped \/ ~error) /\ (e.lost <=> d.lost \/ error)
  BY <1>4 DEF drop, lose
<1> QED  BY <1>1, <1>3, <1>4, <1>5, <1>6, <1>7

\* The shape of the stack does not depend on what is noted.
LEMMA ShapeKept ==
  ASSUME NEW d \in Sockets, NEW e \in Sockets, e.stack = d.stack, e.kind = d.kind,
         e.inside = d.inside, d.deleting => e.deleting, e.freed = d.freed, e.closing = d.closing,
         StackFits(d), InsideEnds(d), FreedLast(d), ClosingEnds(d)
  PROVE  StackFits(e) /\ InsideEnds(e) /\ FreedLast(e) /\ ClosingEnds(e)
<1>1. StackFits(e)
  BY DEF StackFits, FrameFits, IsClient, Serving
<1>2. InsideEnds(e) /\ FreedLast(e) /\ ClosingEnds(e)
  BY DEF InsideEnds, FreedLast, ClosingEnds, Runs
<1> QED  BY <1>1, <1>2

\* Nor does what is watched.
LEMMA WatchesKept ==
  ASSUME NEW d \in Sockets, NEW e \in Sockets, e.stack = d.stack, SameWatches(d, e),
         WatchesHold(d), BuffersKept(d)
  PROVE  WatchesHold(e) /\ BuffersKept(e)
<1>1. WatchesHold(e)
  BY DEF SameWatches, WatchesHold, IsClient, Secure, Runs
<1>2. BuffersKept(e)
  BY DEF SameWatches, BuffersKept
<1> QED  BY <1>1, <1>2

\* A close noted inside an event keeps the invariant, and the client goes on trying.
LEMMA CloseInsideHolds ==
  ASSUME NEW d \in Sockets, NEW error \in BOOLEAN, d.inside, Held(d)
  PROVE  /\ Held(Close(d, error))
         /\ Trying(d) => Trying(Close(d, error))
<1> DEFINE e == Close(d, error)
<1>1. /\ e \in Sockets /\ e.stack = d.stack
      /\ SameWatches(d, e) /\ SameMode(d, e) /\ SameAims(d, e)
      /\ e.lastError = error
      /\ e.dropped <=> d.dropped \/ ~error
      /\ e.lost <=> d.lost \/ error
  BY CloseInside
<1> HIDE DEF e
<1>2. StackFits(e) /\ InsideEnds(e) /\ FreedLast(e) /\ ClosingEnds(e)
  BY <1>1, ShapeKept DEF Held, SameWatches, SameMode
<1>3. WatchesHold(e) /\ BuffersKept(e)
  BY <1>1, WatchesKept DEF Held
<1>4. ErrorHeld(e)
  BY <1>1 DEF SameMode, ErrorHeld
<1>5. Trying(d) => Trying(e)
  BY <1>1 DEF Trying, SameWatches, SameMode, SameAims, IsClient, Awaits, Runs
<1> QED  BY <1>1, <1>2, <1>3, <1>4, <1>5 DEF Held, e

\* A close asked for outside one does too: it is on the stack.
LEMMA CloseOutside ==
  ASSUME NEW d \in Sockets, NEW error \in BOOLEAN, ~d.inside, Fits(d), Noted(d),
         ~d.closing, ~d.freed, ~Awaits(d, "closed"),
         Serving(d) => d.stack = <<>> \/ Head(d.stack) = "free"
  PROVE  LET e == Close(d, error)
         IN  Held(e) /\ Trying(e) /\ OnlyStack(d, e) /\ Awaits(e, "shut")
<1> DEFINE e == Close(d, error)
           m == Call(d, <<"shut">>)
<1>1. d.stack \in Seq(Frames) /\ {"shut", "error", "free"} \subseteq Frames
      /\ <<"error">> \in Seq(Frames) /\ <<"shut">> \in Seq(Frames)
  BY DEF Sockets, Frames, UserFrames
<1>2. m \in Sockets /\ OnlyStack(d, m) /\ m.stack = <<"shut">> \o d.stack
  BY <1>1, CallFields
<1>3. Fits(m) /\ ~Awaits(m, "closed") /\ Awaits(m, "shut")
  <2> HIDE DEF m
  <2> QED  BY <1>1, <1>2, PushFits
<1>4. ASSUME NEW x \in Sockets, Fits(x), OnlyStack(d, x), Awaits(x, "shut")
      PROVE  Held(x)
  <2>1. ErrorHeld(x)
    BY <1>4 DEF ErrorHeld, Noted, OnlyStack, SameErrors
  <2> QED  BY <1>4, <2>1 DEF Held, Fits
<1>5. CASE ~error
  <2>1. e = m
    <3>1. <<>> \o <<"shut">> = <<"shut">>
      BY <1>1, ConcatEmptySeq
    <3> QED  BY <1>5, <3>1 DEF Close
  <2>2. Trying(m)
    BY <1>3 DEF Trying
  <2>3. Held(m)
    BY <1>2, <1>3, <1>4
  <2> QED  BY <2>1, <2>2, <2>3, <1>2, <1>3
<1>6. CASE error
  <2>1. e = Call(d, <<"error">> \o <<"shut">>)
    BY <1>6 DEF Close
  <2>2. <<"error">> \o <<"shut">> \in Seq(Frames)
    BY <1>1, ConcatProperties
  <2>3. e \in Sockets /\ OnlyStack(d, e) /\ e.stack = (<<"error">> \o <<"shut">>) \o d.stack
    BY <2>1, <2>2, CallFields
  <2>4. e.stack = <<"error">> \o m.stack
    BY <1>1, <1>2, <2>3, ConcatAssociative
  <2>5. OnlyStack(m, e)
    BY <1>2, <2>3 DEF OnlyStack, SameWatches, SameMode, SameAims, SameErrors
  <2> HIDE DEF e, m
  <2>6. ~m.closing /\ ~m.freed
    BY <1>2 DEF OnlyStack, SameWatches, SameMode
  <2>7. Fits(e) /\ Awaits(e, "shut")
    BY <1>1, <1>2, <1>3, <2>3, <2>4, <2>5, <2>6, PushFits
  <2>8. Held(e)
    BY <1>4, <2>3, <2>7
  <2>9. Trying(e)
    BY <2>7 DEF Trying
  <2> QED  BY <2>3, <2>7, <2>9, <2>8 DEF e
<1> QED  BY <1>5, <1>6

\* The invariant without what it says of errors.
LEMMA HeldFits ==
  ASSUME NEW d, Held(d)
  PROVE  Fits(d) /\ Noted(d)
  BY DEF Held, Fits, Noted, ErrorHeld

\* A change that leaves the frames and the mode alone.
LEMMA Changed ==
  ASSUME NEW d \in Sockets, NEW e \in Sockets, Held(d), e.stack = d.stack, e.kind = d.kind,
         e.closing = d.closing, SameMode(d, e),
         WatchesHold(e), BuffersKept(e), ErrorHeld(e)
  PROVE  Held(e)
<1>1. StackFits(e) /\ InsideEnds(e) /\ FreedLast(e) /\ ClosingEnds(e)
  BY ShapeKept DEF Held, SameMode
<1> QED  BY <1>1 DEF Held

\* The invariant holds without the watchers that are taken away.
LEMMA OffHolds ==
  ASSUME NEW d \in Sockets, Held(d), NEW X \in SUBSET Watchers
  PROVE  LET e == Off(d, X)
         IN  /\ e \in Sockets /\ Held(e) /\ SameMode(d, e) /\ SameAims(d, e) /\ SameErrors(d, e)
             /\ e.stack = d.stack /\ e.active = d.active \ X
             /\ e.kind = d.kind /\ e.fd = d.fd /\ e.ssl = d.ssl /\ e.closing = d.closing
             /\ e.connecting = d.connecting
             /\ e.pending = d.pending /\ e.want = d.want /\ e.misretried = d.misretried
<1> DEFINE e == Off(d, X)
<1>1. d.active \ X \in SUBSET Watchers
  BY DEF Sockets
<1>2. e \in Sockets
  BY <1>1 DEF Off, Sockets
<1>3. /\ SameMode(d, e) /\ SameAims(d, e) /\ SameErrors(d, e)
      /\ e.stack = d.stack /\ e.active = d.active \ X
      /\ e.kind = d.kind /\ e.fd = d.fd /\ e.ssl = d.ssl /\ e.closing = d.closing
      /\ e.connecting = d.connecting
      /\ e.pending = d.pending /\ e.want = d.want /\ e.misretried = d.misretried
  BY DEF Off, Sockets, SameMode, SameAims, SameErrors
<1> HIDE DEF e
<1>4. WatchesHold(e)
  BY <1>3 DEF WatchesHold, Held, Runs, IsClient, Secure
<1>5. BuffersKept(e)
  BY <1>3 DEF BuffersKept, Held
<1>6. ErrorHeld(e)
  BY <1>3 DEF ErrorHeld, Held, SameMode, SameErrors, Awaits
<1> QED  BY <1>2, <1>3, <1>4, <1>5, <1>6, Changed DEF e

\* It holds of a client that is not to try again.
LEMMA NoMoreTries ==
  ASSUME NEW d \in Sockets, Held(d)
  PROVE  LET e == [d EXCEPT !.reconnect = FALSE]
         IN  /\ e \in Sockets /\ Held(e) /\ Trying(e)
             /\ SameWatches(d, e) /\ SameMode(d, e) /\ SameErrors(d, e)
             /\ e.loop = d.loop /\ e.reconnect = FALSE /\ e.stack = d.stack
<1> DEFINE e == [d EXCEPT !.reconnect = FALSE]
<1>1. e \in Sockets
  BY DEF Sockets
<1>2. /\ SameWatches(d, e) /\ SameMode(d, e) /\ SameErrors(d, e)
      /\ e.loop = d.loop /\ e.reconnect = FALSE /\ e.stack = d.stack
  BY DEF SameWatches, SameMode, SameErrors, Sockets
<1> HIDE DEF e
<1>3. WatchesHold(e) /\ BuffersKept(e)
  BY <1>1, <1>2, WatchesKept DEF Held
<1>4. ErrorHeld(e)
  BY <1>2 DEF ErrorHeld, Held, SameMode, SameErrors, SameWatches, Awaits
<1>5. Held(e)
  BY <1>1, <1>2, <1>3, <1>4, Changed DEF SameWatches
<1>6. Trying(e)
  BY <1>2 DEF Trying
<1> QED  BY <1>1, <1>2, <1>5, <1>6 DEF e

-----------------------------------------------------------------------------
(* Connecting                                                                *)

\* A socket on which nothing runs and nothing is watched: where a connect begins.
Quiet(d) ==
  /\ d.stack = <<>> /\ ~d.inside /\ ~d.freed /\ ~d.closing
  /\ d.active \subseteq {"readTimer", "writeTimer"}

\* There a close keeps the invariant.
LEMMA QuietCloses ==
  ASSUME NEW d \in Sockets, Held(d), d.stack = <<>>, ~d.inside, ~d.closing, ~d.freed,
         NEW error \in BOOLEAN
  PROVE  /\ Held(Close(d, error)) /\ Trying(Close(d, error))
         /\ Held(GiveUp(d)) /\ Trying(GiveUp(d))
<1>1. ~Awaits(d, "closed")
  BY DEF Awaits
<1>2. Held(Close(d, error)) /\ Trying(Close(d, error))
  BY <1>1, CloseOutside, HeldFits
<1> DEFINE e == [d EXCEPT !.reconnect = FALSE]
<1>3. e \in Sockets /\ Held(e) /\ SameWatches(d, e) /\ SameMode(d, e) /\ e.stack = d.stack
  BY NoMoreTries
<1>4. GiveUp(d) = Close(e, TRUE)
  BY DEF GiveUp
<1> HIDE DEF e
<1>5. e.stack = <<>> /\ ~e.inside /\ ~e.closing /\ ~e.freed /\ ~Awaits(e, "closed")
  BY <1>3 DEF SameWatches, SameMode, Awaits
<1>6. Held(Close(e, TRUE)) /\ Trying(Close(e, TRUE))
  BY <1>3, <1>5, CloseOutside, HeldFits
<1> QED  BY <1>2, <1>4, <1>6

\* A session is set up, or not: the invariant holds either way.
LEMMA SessionHolds ==
  ASSUME NEW d \in Sockets, Held(d), Quiet(d), d.fd, ~d.ssl, NEW session \in BOOLEAN
  PROVE  LET e == [d EXCEPT !.ssl = Secure(d) /\ session]
         IN  /\ e \in Sockets /\ Held(e) /\ Quiet(e) /\ e.fd /\ e.kind = d.kind
             /\ e.ssl <=> Secure(d) /\ session
             /\ SameAims(d, e)
<1> DEFINE e == [d EXCEPT !.ssl = Secure(d) /\ session]
<1>1. e \in Sockets
  BY DEF Sockets, Secure
<1>2. /\ e.fd /\ e.kind = d.kind /\ SameAims(d, e) /\ SameMode(d, e) /\ SameErrors(d, e)
      /\ e.stack = d.stack /\ e.active = d.active /\ e.closing = d.closing
      /\ e.pending = d.pending /\ e.want = d.want /\ e.misretried = d.misretried
  BY DEF SameAims, SameMode, SameErrors, Sockets
<1>3. e.ssl <=> Secure(d) /\ session
  BY DEF Sockets, Secure
<1> HIDE DEF e
<1>4. Quiet(e)
  BY <1>2 DEF Quiet, SameMode
<1>5. WatchesHold(e)
  BY <1>2, <1>4 DEF WatchesHold, Quiet, Runs, ConnectWatchers
<1>6. BuffersKept(e)
  BY <1>2 DEF BuffersKept, Held
<1>7. ErrorHeld(e)
  BY <1>2, <1>4 DEF ErrorHeld, Held, Quiet, SameErrors
<1>8. Held(e)
  BY <1>1, <1>2, <1>5, <1>6, <1>7, Changed
<1> QED  BY <1>1, <1>2, <1>3, <1>4, <1>8 DEF e

\* A connection that is there is watched.
LEMMA StartHolds ==
  ASSUME NEW d \in Sockets, Held(d), d.fd, Secure(d) => d.ssl, ~d.freed, ~d.closing,
         d.active \subseteq {"readTimer", "writeTimer"}
  PROVE  LET e == Start(d)
         IN  /\ e \in Sockets /\ Held(e) /\ Trying(e) /\ SameMode(d, e)
             /\ e.stack = d.stack /\ e.kind = d.kind /\ ~e.closing /\ e.fd
<1> DEFINE e == Start(d)
<1>1. d.active \cup {"io"} \in SUBSET Watchers
  BY DEF Sockets, Watchers
<1>2. e \in Sockets
  BY <1>1 DEF Start, On, Sockets
<1>3. /\ e.fd /\ e.kind = d.kind /\ SameMode(d, e) /\ e.ssl = d.ssl
      /\ e.stack = d.stack /\ e.active = d.active \cup {"io"} /\ e.closing = d.closing
      /\ e.pending = d.pending /\ e.want = d.want /\ e.misretried = d.misretried
      /\ e.lastError = FALSE /\ e.lost = FALSE
  BY DEF Start, On, SameMode, Sockets
<1> HIDE DEF e
<1>4. WatchesHold(e)
  BY <1>3 DEF WatchesHold, Held, Runs, ConnectWatchers, Secure
<1>5. BuffersKept(e)
  BY <1>3 DEF BuffersKept, Held
<1>6. ErrorHeld(e)
  BY <1>3 DEF ErrorHeld
<1>7. Held(e)
  BY <1>2, <1>3, <1>4, <1>5, <1>6, Changed
<1>8. Trying(e)
  BY <1>3 DEF Trying
<1> QED  BY <1>2, <1>3, <1>7, <1>8 DEF e

\* The connection is watched and its user told of it.
LEMMA ConnectedHolds ==
  ASSUME NEW d \in Sockets, Held(d), Quiet(d), d.fd, Secure(d) => d.ssl, IsClient(d)
  PROVE  Held(Call(Start(d), <<"connected">>)) /\ Trying(Call(Start(d), <<"connected">>))
<1> DEFINE m == Start(d)
           e == Call(m, <<"connected">>)
<1>1. /\ m \in Sockets /\ Held(m) /\ Trying(m) /\ SameMode(d, m)
      /\ m.stack = d.stack /\ m.kind = d.kind /\ ~m.closing
  BY StartHolds DEF Quiet
<1> HIDE DEF m
<1>2. "connected" \in Frames /\ <<"connected">> \in Seq(Frames)
  BY DEF Frames, UserFrames
<1>3. e \in Sockets /\ OnlyStack(m, e) /\ e.stack = <<"connected">> \o m.stack
  BY <1>1, <1>2, CallFields
<1> HIDE DEF e
<1>4. ~m.freed /\ IsClient(m) /\ ~Awaits(m, "closed")
  BY <1>1 DEF SameMode, Quiet, IsClient, Awaits
<1>5. Held(e) /\ (Trying(m) => Trying(e))
  BY <1>1, <1>2, <1>3, <1>4, PushHolds
<1> QED  BY <1>1, <1>5 DEF e, m

\* A connect in progress is under its timer or given up.
LEMMA InProgressHolds ==
  ASSUME NEW d \in Sockets, Held(d), Quiet(d), d.fd, ~d.ssl, IsClient(d), NEW begun \in Begun
  PROVE  Held(InProgress(d, begun)) /\ Trying(InProgress(d, begun))
<1> DEFINE e == On([d EXCEPT !.connecting = TRUE], begun)
<1>1. begun \subseteq ConnectWatchers /\ d.active \cup begun \in SUBSET Watchers
  BY DEF Begun, Sockets, Watchers, ConnectWatchers
<1>2. e \in Sockets
  BY <1>1 DEF On, Sockets
<1>3. /\ e.fd /\ e.kind = d.kind /\ SameMode(d, e) /\ SameErrors(d, e) /\ e.ssl = d.ssl
      /\ e.stack = d.stack /\ e.active = d.active \cup begun /\ e.closing = d.closing
      /\ e.pending = d.pending /\ e.want = d.want /\ e.misretried = d.misretried
      /\ e.connecting = TRUE
  BY DEF On, SameMode, SameErrors, Sockets
<1>4. InProgress(d, begun) = IF begun = ConnectWatchers THEN e ELSE GiveUp(e)
  BY DEF InProgress
<1> HIDE DEF e
<1>5. "io" \notin e.active /\ "reconnectTimer" \notin e.active
  BY <1>1, <1>3 DEF Quiet, ConnectWatchers
<1>6. WatchesHold(e)
  BY <1>3, <1>5 DEF WatchesHold, Quiet, Runs, IsClient
<1>7. BuffersKept(e)
  BY <1>3 DEF BuffersKept, Held
<1>8. ErrorHeld(e)
  BY <1>3, <1>5 DEF ErrorHeld, Held, SameErrors
<1>9. Held(e)
  BY <1>2, <1>3, <1>6, <1>7, <1>8, Changed
<1>10. begun = ConnectWatchers => Trying(e)
  BY <1>3 DEF Trying
<1>11. Held(GiveUp(e)) /\ Trying(GiveUp(e))
  <2>1. e.stack = <<>> /\ ~e.inside /\ ~e.closing /\ ~e.freed
    BY <1>3 DEF Quiet, SameMode
  <2> QED  BY <1>2, <1>9, <2>1, QuietCloses
<1> QED  BY <1>4, <1>9, <1>10, <1>11

\* Whatever a connect comes to, the invariant holds.
LEMMA ConnectHolds ==
  ASSUME NEW d \in Sockets, Held(d), Quiet(d), ~d.ssl, IsClient(d),
         NEW ret \in Returns, ret # "None" => d.fd,
         NEW session \in BOOLEAN, NEW begun \in Begun
  PROVE  LET e == ConnectProcess(d, ret, session, begun) IN Held(e) /\ Trying(e)
<1>1. /\ Held(Close(d, TRUE)) /\ Trying(Close(d, TRUE))
      /\ Held(GiveUp(d)) /\ Trying(GiveUp(d))
  BY QuietCloses DEF Quiet
<1>2. ASSUME NEW s \in BOOLEAN, d.fd
      PROVE  LET e == Established(d, s, begun # {}, GiveUp) IN Held(e) /\ Trying(e)
  <2> DEFINE m == [d EXCEPT !.ssl = Secure(d) /\ s]
  <2>1. /\ m \in Sockets /\ Held(m) /\ Quiet(m) /\ m.fd /\ m.kind = d.kind
        /\ m.ssl <=> Secure(d) /\ s
    BY <1>2, SessionHolds
  <2>2. Established(d, s, begun # {}, GiveUp) =
          IF (Secure(d) => s) /\ begun # {} THEN Call(Start(m), <<"connected">>) ELSE GiveUp(m)
    BY DEF Established
  <2> HIDE DEF m
  <2>3. (Secure(d) => s) =>
          Held(Call(Start(m), <<"connected">>)) /\ Trying(Call(Start(m), <<"connected">>))
    BY <2>1, ConnectedHolds DEF Secure, IsClient
  <2>4. Held(GiveUp(m)) /\ Trying(GiveUp(m))
    BY <2>1, QuietCloses DEF Quiet
  <2> QED  BY <2>2, <2>3, <2>4
<1>3. d.fd => Held(InProgress(d, begun)) /\ Trying(InProgress(d, begun))
  BY InProgressHolds
<1>4. CASE d.kind = "tcp"
  <2>1. ConnectProcess(d, ret, session, begun) = TCPConnectProcess(d, ret, begun)
    BY <1>4 DEF ConnectProcess
  <2> QED  BY <1>1, <1>2, <1>3, <2>1 DEF TCPConnectProcess, Returns
<1>5. CASE d.kind = "udp"
  <2>1. ConnectProcess(d, ret, session, begun) = UDPConnectProcess(d, ret, begun)
    BY <1>5 DEF ConnectProcess
  <2> QED  BY <1>1, <1>2, <1>3, <2>1 DEF UDPConnectProcess, Returns
<1>6. CASE d.kind = "ssl"
  <2>1. ConnectProcess(d, ret, session, begun) = SSLConnectProcess(d, ret, session, begun)
    BY <1>6 DEF ConnectProcess
  <2> QED  BY <1>1, <1>2, <1>3, <2>1 DEF SSLConnectProcess, Returns
<1> QED  BY <1>4, <1>5, <1>6 DEF IsClient

\* The start of a client: swTCPClientStart, swUDPClientStart, swSSLClientStart.
LEMMA StartsHolds ==
  ASSUME SocketInv, NEW kind \in {"tcp", "udp", "ssl"}, Starts(kind)
  PROVE  SocketInv'
<1>1. c \in Sockets /\ Held(c)
  BY DEF SocketInv, Held
<1>2. /\ c.stack = <<>> /\ ~c.freed /\ c.kind = kind /\ ~c.fd /\ IsClient(c)
      /\ "reconnectTimer" \notin c.active
  BY DEF Starts, Idle, IsClient
<1>3. c.active = {} /\ ~c.ssl /\ ~c.inside /\ ~c.closing
  BY <1>1, <1>2 DEF Held, WatchesHold, Runs, InsideEnds, ClosingEnds
<1> DEFINE d == [c EXCEPT !.fd = TRUE]
<1>4. /\ d \in Sockets /\ d.fd /\ d.stack = c.stack /\ SameMode(c, d) /\ SameErrors(c, d)
      /\ d.kind = c.kind /\ d.active = c.active /\ d.ssl = c.ssl /\ d.closing = c.closing
      /\ d.pending = c.pending /\ d.want = c.want /\ d.misretried = c.misretried
  BY <1>1 DEF Sockets, SameMode, SameErrors
<1> DEFINE g == [d EXCEPT !.loop = TRUE]
<1>5. /\ g \in Sockets /\ g.fd /\ g.stack = c.stack /\ SameMode(c, g) /\ SameErrors(c, g)
      /\ g.kind = c.kind /\ g.active = c.active /\ g.ssl = c.ssl /\ g.closing = c.closing
      /\ g.pending = c.pending /\ g.want = c.want /\ g.misretried = c.misretried
  <2> HIDE DEF d
  <2> QED  BY <1>4 DEF Sockets, SameMode, SameErrors
<1>6. \/ c' = GiveUp(d)
      \/ \E ret \in Returns, session \in BOOLEAN, begun \in Begun :
           c' = ConnectProcess(g, ret, session, begun)
  BY DEF Starts, ByUser
<1> HIDE DEF d, g
<1>7. ASSUME NEW e \in Sockets, e.fd, e.stack = c.stack, SameMode(c, e), SameErrors(c, e),
             e.kind = c.kind, e.active = c.active, e.ssl = c.ssl, e.closing = c.closing,
             e.pending = c.pending, e.want = c.want, e.misretried = c.misretried
      PROVE  Held(e) /\ Quiet(e) /\ ~e.ssl /\ IsClient(e)
  <2>1. Quiet(e) /\ ~e.ssl /\ IsClient(e)
    BY <1>2, <1>3, <1>7 DEF Quiet, SameMode, IsClient
  <2>2. WatchesHold(e)
    BY <1>2, <1>3, <1>7 DEF WatchesHold, Runs
  <2>3. BuffersKept(e)
    BY <1>1, <1>7 DEF BuffersKept, Held
  <2>4. ErrorHeld(e)
    BY <1>1, <1>3, <1>7 DEF ErrorHeld, Held, SameErrors
  <2> QED  BY <1>1, <1>7, <2>1, <2>2, <2>3, <2>4, Changed
<1>8. Held(d) /\ Quiet(d)
  BY <1>4, <1>7
<1>9. Held(g) /\ Quiet(g) /\ ~g.ssl /\ IsClient(g)
  BY <1>5, <1>7
<1>10. Held(GiveUp(d)) /\ Trying(GiveUp(d))
  BY <1>4, <1>8, QuietCloses DEF Quiet
<1>11. Held(c') /\ Trying(c')
  BY <1>5, <1>6, <1>9, <1>10, ConnectHolds
<1> QED  BY <1>11 DEF SocketInv

\* The callback of the reconnect timer.
LEMMA ReconnectsHolds ==
  ASSUME SocketInv, NEW kind \in {"tcp", "udp", "ssl"}, Reconnects(kind)
  PROVE  SocketInv'
<1>1. c \in Sockets /\ Held(c)
  BY DEF SocketInv, Held
<1>2. /\ c.stack = <<>> /\ ~c.freed /\ c.kind = kind /\ IsClient(c)
      /\ "reconnectTimer" \in c.active
  BY DEF Reconnects, Idle, IsClient
<1>3. ~c.fd /\ c.active = {"reconnectTimer"} /\ ~c.ssl /\ ~c.inside /\ ~c.closing
  BY <1>1, <1>2 DEF Held, WatchesHold, Runs, InsideEnds, ClosingEnds
<1> DEFINE d == Off(c, {"reconnectTimer"})
<1>4. /\ d \in Sockets /\ Held(d) /\ d.stack = c.stack /\ SameMode(c, d) /\ d.kind = c.kind
      /\ d.active = {} /\ d.ssl = c.ssl /\ d.closing = c.closing /\ d.fd = c.fd
  <2>1. {"reconnectTimer"} \in SUBSET Watchers
    BY DEF Watchers
  <2> QED  BY <1>1, <1>3, <2>1, OffHolds
<1>5. \E ret \in Returns, session \in BOOLEAN, begun \in Begun :
        c' = ConnectProcess(ReconnectSocket(d, ret), ret, session, begun)
  BY <1>3, <1>4 DEF Reconnects, Becomes
<1> HIDE DEF d
<1>6. PICK ret \in Returns, session \in BOOLEAN, begun \in Begun :
        c' = ConnectProcess(ReconnectSocket(d, ret), ret, session, begun)
  BY <1>5
<1> DEFINE e == ReconnectSocket(d, ret)
<1>7. /\ e \in Sockets /\ (e.fd <=> ret # "None") /\ e.stack = d.stack
      /\ SameMode(d, e) /\ SameErrors(d, e)
      /\ e.kind = d.kind /\ e.active = d.active /\ e.ssl = d.ssl /\ e.closing = d.closing
      /\ e.pending = d.pending /\ e.want = d.want /\ e.misretried = d.misretried
  BY <1>4 DEF ReconnectSocket, Sockets, SameMode, SameErrors
<1> HIDE DEF e
<1>8. Quiet(e) /\ ~e.ssl /\ IsClient(e)
  BY <1>2, <1>3, <1>4, <1>7 DEF Quiet, SameMode, IsClient
<1>9. Held(e)
  <2>1. WatchesHold(e)
    BY <1>2, <1>3, <1>4, <1>7 DEF WatchesHold, Runs
  <2>2. BuffersKept(e)
    BY <1>4, <1>7 DEF BuffersKept, Held
  <2>3. ErrorHeld(e)
    BY <1>4, <1>7 DEF ErrorHeld, Held, SameErrors
  <2> QED  BY <1>4, <1>7, <2>1, <2>2, <2>3, Changed
<1>10. Held(c') /\ Trying(c')
  BY <1>6, <1>7, <1>8, <1>9, ConnectHolds DEF e
<1> QED  BY <1>10 DEF SocketInv

\* A connect that ends, in one way or another, is no longer watched.
LEMMA ConnectOver ==
  ASSUME NEW d \in Sockets, Held(d), d.stack = <<>>, ~d.freed, 
         d.active \cap ConnectWatchers # {}
  PROVE  LET e == Off([d EXCEPT !.connecting = FALSE], ConnectWatchers)
         IN  /\ e \in Sockets /\ Held(e) /\ Quiet(e) /\ e.fd /\ ~e.ssl /\ IsClient(e)
<1>1. /\ ~d.inside /\ ~d.closing /\ d.fd /\ ~d.ssl /\ IsClient(d) /\ "io" \notin d.active
      /\ "reconnectTimer" \notin d.active
  BY DEF Held, WatchesHold, Runs, InsideEnds, ClosingEnds, ConnectWatchers
<1> DEFINE e == Off([d EXCEPT !.connecting = FALSE], ConnectWatchers)
<1>2. e \in Sockets
  BY DEF Sockets, Off
<1>3. /\ SameMode(d, e) /\ SameErrors(d, e)
      /\ e.stack = d.stack /\ e.active = d.active \ ConnectWatchers
      /\ e.kind = d.kind /\ e.fd = d.fd /\ e.ssl = d.ssl /\ e.closing = d.closing
      /\ e.pending = d.pending /\ e.want = d.want /\ e.misretried = d.misretried
  BY DEF Off, Sockets, SameMode, SameErrors
<1> HIDE DEF e
<1>4. Quiet(e) /\ e.fd /\ ~e.ssl /\ IsClient(e)
  <2>1. d.active \subseteq Watchers
    BY DEF Sockets
  <2> QED  BY <1>1, <1>3, <2>1 DEF Quiet, SameMode, IsClient, Watchers
<1>5. WatchesHold(e)
  BY <1>1, <1>3, <1>4 DEF WatchesHold, Quiet, Runs
<1>6. BuffersKept(e)
  BY <1>3 DEF BuffersKept, Held
<1>7. ErrorHeld(e)
  BY <1>1, <1>3 DEF ErrorHeld, Held, SameErrors
<1> QED  BY <1>2, <1>3, <1>4, <1>5, <1>6, <1>7, Changed DEF e

\* The callback of the connect timer.
LEMMA ConnectTimerHolds ==
  ASSUME SocketInv, ConnectTimer
  PROVE  SocketInv'
<1>1. c \in Sockets /\ Held(c)
  BY DEF SocketInv, Held
<1>2. c.stack = <<>> /\ ~c.freed /\ c.active \cap ConnectWatchers # {} /\ c.fd
  BY <1>1 DEF ConnectTimer, Idle, ConnectWatchers, Held, WatchesHold, Runs
<1> DEFINE e == Off([c EXCEPT !.connecting = FALSE], ConnectWatchers)
<1>3. e \in Sockets /\ Held(e) /\ Quiet(e)
  BY <1>1, <1>2, ConnectOver
<1>4. c' = Close(e, TRUE)
  <2> DEFINE d == Off(c, {"connectTimer"})
             f == Off([d EXCEPT !.connecting = FALSE], {"connectEvent"})
  <2>1. d.fd = c.fd
    BY <1>1 DEF Off, Sockets
  <2>2. c' = Close(f, TRUE)
    BY <1>2, <2>1 DEF ConnectTimer, Becomes
  <2>3. f = e
    BY <1>1 DEF Off, Sockets, ConnectWatchers
  <2> QED  BY <2>2, <2>3
<1> HIDE DEF e
<1>5. Held(c') /\ Trying(c')
  BY <1>3, <1>4, QuietCloses DEF Quiet
<1> QED  BY <1>5 DEF SocketInv

\* The callback of the connect event.
LEMMA ConnectEndsHolds ==
  ASSUME SocketInv, NEW kind \in {"tcp", "ssl"}, ConnectEnds(kind)
  PROVE  SocketInv'
<1>1. c \in Sockets /\ Held(c)
  BY DEF SocketInv, Held
<1>2. c.stack = <<>> /\ ~c.freed /\ c.active \cap ConnectWatchers # {}
  BY DEF ConnectEnds, Idle, ConnectWatchers
<1> DEFINE d == Off([c EXCEPT !.connecting = FALSE], ConnectWatchers)
           Lost(e) == Close(e, TRUE)
<1>3. d \in Sockets /\ Held(d) /\ Quiet(d) /\ d.fd /\ ~d.ssl /\ IsClient(d)
  BY <1>1, <1>2, ConnectOver
<1>4. \/ c' = Close(d, TRUE)
      \/ \E session, started \in BOOLEAN : c' = Established(d, session, started, Lost)
  BY DEF ConnectEnds, Becomes
<1> HIDE DEF d
<1>5. CASE c' = Close(d, TRUE)
  <2>1. Held(c') /\ Trying(c')
    BY <1>3, <1>5, QuietCloses DEF Quiet
  <2> QED  BY <2>1 DEF SocketInv
<1>6. ASSUME NEW session \in BOOLEAN, NEW started \in BOOLEAN,
             c' = Established(d, session, started, Lost)
      PROVE  SocketInv'
  <2> DEFINE m == [d EXCEPT !.ssl = Secure(d) /\ session]
  <2>1. /\ m \in Sockets /\ Held(m) /\ Quiet(m) /\ m.fd /\ m.kind = d.kind
        /\ m.ssl <=> Secure(d) /\ session
    BY <1>3, SessionHolds
  <2>2. c' = IF (Secure(d) => session) /\ started THEN Call(Start(m), <<"connected">>)
             ELSE Close(m, TRUE)
    BY <1>6 DEF Established
  <2> HIDE DEF m
  <2>3. (Secure(d) => session) =>
          Held(Call(Start(m), <<"connected">>)) /\ Trying(Call(Start(m), <<"connected">>))
    BY <1>3, <2>1, ConnectedHolds DEF Secure, IsClient
  <2>4. Held(Close(m, TRUE)) /\ Trying(Close(m, TRUE))
    BY <2>1, QuietCloses DEF Quiet
  <2>5. Held(c') /\ Trying(c')
    BY <2>2, <2>3, <2>4
  <2> QED  BY <2>5 DEF SocketInv
<1> QED  BY <1>4, <1>5, <1>6

-----------------------------------------------------------------------------
(* The steps of the library                                                  *)

\* What is known of the socket when the frame on top of it returns.
LEMMA TopReturns ==
  ASSUME SocketInv, c.stack # <<>>
  PROVE  LET d == Returned(c)
         IN  /\ d \in Sockets /\ OnlyStack(c, d) /\ d.stack = Tail(c.stack)
             /\ StackFits(d) /\ ~c.freed /\ Runs(c, Top) /\ Top \in Frames
             /\ Top # "eventEnd" => InsideEnds(d)
             /\ Top # "rearm" => ClosingEnds(d) /\ ~Awaits(d, "closed")
             /\ Top \notin {"rearm", "close"} => ~c.closing
             /\ Top \in {"rearm", "closed"} => ~c.fd
             /\ Top = "rearm" => c.closing
             /\ \A g \in Frames : Awaits(c, g) /\ Top # g => Awaits(d, g)
             /\ Top \in {"eventEnd", "readTimeout", "writeTimeout", "free"} => d.stack = <<>>
             /\ Top \in {"read", "write", "toWrite", "eventEnd"} => c.inside
             /\ Top = "free" => c.deleting
             /\ Top = "connected" => IsClient(c)
             /\ Serving(c) /\ Top \in {"shut", "closed", "close"} =>
                  d.stack = <<>> \/ Head(d.stack) = "free"
<1> DEFINE d == Returned(c)
<1>1. c \in Sockets /\ c.stack \in Seq(Frames)
  BY DEF SocketInv, Held, Sockets
<1>2. d \in Sockets /\ OnlyStack(c, d) /\ d.stack = Tail(c.stack)
  BY <1>1, ReturnedFields
<1> HIDE DEF d
<1>3. StackFits(d) /\ ~c.freed /\ Runs(c, Top) /\ Top \in Frames
  <2>1. StackFits(d)
    BY <1>1, <1>2, Popped DEF SocketInv, Held, OnlyStack, SameWatches, SameMode
  <2>2. Top \in Frames
    BY <1>1, TailFacts DEF Top
  <2> QED  BY <2>1, <2>2 DEF SocketInv, Held, FreedLast, Runs, Top
<1>4. Top # "eventEnd" => InsideEnds(d)
  BY <1>1, <1>2, PoppedInside DEF SocketInv, Held, OnlyStack, SameMode, Top
<1>5. Top # "rearm" => ClosingEnds(d) /\ ~Awaits(d, "closed")
  BY <1>1, <1>2, PoppedEnds DEF SocketInv, Held, OnlyStack, SameWatches, Top
<1>6. /\ Top \notin {"rearm", "close"} => ~c.closing
      /\ Top \in {"rearm", "closed"} => ~c.fd
  BY <1>3 DEF SocketInv, Held, ClosingEnds, WatchesHold, Runs
<1>7. \A g \in Frames : Awaits(c, g) /\ Top # g => Awaits(d, g)
  BY <1>1, <1>2, AwaitsPopped DEF Top
<1>8. /\ Len(c.stack) \in Nat \ {0} /\ Len(d.stack) = Len(c.stack) - 1
      /\ c.stack[1] = Top /\ 1 \in DOMAIN c.stack
  BY <1>1, <1>2, TailFacts DEF Top
<1>9. FrameFits(c, 1) /\ (Top = "rearm" => c.closing)
  BY <1>8 DEF SocketInv, Held, StackFits, ClosingEnds
<1>10. Len(c.stack) = 1 => d.stack = <<>>
  <2>1. Len(c.stack) = 1 => Len(d.stack) = 0
    BY <1>8
  <2>2. d.stack # <<>> => Len(d.stack) # 0
    BY <1>2, TailFacts DEF Sockets
  <2> QED  BY <2>1, <2>2
<1>11. /\ Top \in {"eventEnd", "readTimeout", "writeTimeout", "free"} => d.stack = <<>>
       /\ Top \in {"read", "write", "toWrite", "eventEnd"} => c.inside
       /\ Top = "free" => c.deleting
       /\ Top = "connected" => IsClient(c)
  BY <1>8, <1>9, <1>10 DEF FrameFits
<1>12. Serving(c) /\ Top \in {"shut", "closed", "close"} =>
         d.stack = <<>> \/ Head(d.stack) = "free"
  <2>1. Serving(c) /\ Top \in {"shut", "closed", "close"} =>
          Len(c.stack) = 1 \/ c.stack[1 + 1] = "free"
    BY <1>8, <1>9 DEF FrameFits
  <2>2. d.stack # <<>> => Head(d.stack) = c.stack[1 + 1]
    <3>1. ASSUME d.stack # <<>> PROVE Head(d.stack) = d.stack[1] /\ Len(d.stack) # 0
      BY <1>2, <3>1, TailFacts DEF Sockets
    <3>2. d.stack # <<>> => 1 \in 1 .. Len(c.stack) - 1
      BY <3>1, <1>8
    <3> QED  BY <1>1, <1>2, <3>1, <3>2, TailFacts
  <2> QED  BY <1>10, <2>1, <2>2
<1> QED  BY <1>2, <1>3, <1>4, <1>5, <1>6, <1>7, <1>9, <1>11, <1>12 DEF d

\* The descriptor is closed and its session ended: the rest of swSocketIOClose.
LEMMA ShutHolds ==
  ASSUME SocketInv, c.stack # <<>>, Top = "shut", c' = Shut(Returned(c))
  PROVE  SocketInv'
<1> DEFINE d == Returned(c)
<1>1. c \in Sockets /\ Held(c)
  BY DEF SocketInv, Held
<1>2. /\ d \in Sockets /\ OnlyStack(c, d) /\ StackFits(d) /\ ~c.freed /\ InsideEnds(d)
      /\ ClosingEnds(d) /\ ~Awaits(d, "closed") /\ ~c.closing
      /\ Serving(c) => d.stack = <<>> \/ Head(d.stack) = "free"
  BY TopReturns
<1>3. c' = Shut(d)
  OBVIOUS
<1> HIDE DEF d
<1> DEFINE q == CloseSocket(Off(d, {"io", "readTimer", "writeTimer"}))
           x == [q EXCEPT !.lost = FALSE, !.dropped = FALSE]
           e == Call(x, <<"closed">>)
           w == {"io", "readTimer", "writeTimer"}
           none == [r \in {"read", "write"} |-> NoBuffer]
<1>4. /\ q \in Sockets /\ q.kind = d.kind /\ q.fd = FALSE /\ q.active = d.active \ w /\ q.ssl = FALSE
      /\ q.connecting = d.connecting /\ q.closing = d.closing /\ SameMode(d, q) /\ SameAims(d, q)
      /\ q.stack = d.stack /\ q.pending = none /\ q.want = none /\ q.misretried = d.misretried
  <2> DEFINE p == Off(d, w)
  <2>1. d.active \ w \in SUBSET Watchers
    BY <1>2 DEF Sockets
  <2>2. /\ p \in Sockets /\ p.kind = d.kind /\ p.active = d.active \ w
        /\ p.connecting = d.connecting /\ p.closing = d.closing /\ SameMode(d, p) /\ SameAims(d, p)
        /\ p.stack = d.stack /\ p.misretried = d.misretried
    BY <1>2, <2>1 DEF Off, Sockets, SameMode, SameAims
  <2>3. q = CloseSocket(p)
    OBVIOUS
  <2> HIDE DEF p, w
  <2>4. none \in Waits
    BY DEF Waits
  <2>5. p.pending \in Waits /\ p.want \in Waits
    BY <2>2 DEF Sockets
  <2>6. DOMAIN p.pending = {"read", "write"} /\ DOMAIN p.want = {"read", "write"}
    BY <2>5 DEF Waits
  <2>7. q = [p EXCEPT !.fd = FALSE, !.ssl = FALSE, !.pending = none, !.want = none]
    BY <2>2, <2>3, <2>6 DEF CloseSocket
  <2> HIDE DEF none, q
  <2> QED  BY <2>2, <2>4, <2>7 DEF Sockets, SameMode, SameAims
<1> HIDE DEF q, w
<1>5. /\ x \in Sockets /\ x.kind = d.kind /\ x.fd = FALSE /\ x.active = d.active \ w /\ x.ssl = FALSE
      /\ x.connecting = d.connecting /\ x.closing = d.closing /\ SameMode(d, x) /\ SameAims(d, x)
      /\ x.stack = d.stack /\ x.pending = none /\ x.want = none /\ x.misretried = d.misretried
      /\ x.lost = FALSE
  <2> HIDE DEF none
  <2> QED  BY <1>4 DEF Sockets, SameMode, SameAims
<1>6. c' = e
  BY <1>3 DEF Shut, q, w
<1>7. "closed" \in Frames /\ <<"closed">> \in Seq(Frames)
  BY DEF Frames
<1>8. e \in Sockets /\ OnlyStack(x, e) /\ e.stack = <<"closed">> \o d.stack
  <2> HIDE DEF x
  <2> QED  BY <1>5, <1>7, CallFields
<1> HIDE DEF e, x, none
<1>9. /\ e.kind = c.kind /\ e.fd = FALSE /\ e.active = c.active \ w /\ e.ssl = FALSE
      /\ e.connecting = c.connecting /\ e.closing = c.closing /\ SameMode(c, e)
      /\ e.pending = none /\ e.want = none /\ e.misretried = c.misretried /\ e.lost = FALSE
      /\ SameMode(d, e) /\ d.kind = c.kind /\ d.closing = c.closing
  BY <1>2, <1>5, <1>8 DEF OnlyStack, SameWatches, SameMode, SameAims, SameErrors
<1>10. StackFits(e)
  BY <1>2, <1>7, <1>8, <1>9, Pushed DEF SameMode, Serving
<1>11. InsideEnds(e) /\ FreedLast(e)
  BY <1>2, <1>7, <1>8, <1>9, PushedInside DEF SameMode, FreedLast
<1>12. ClosingEnds(e) /\ Runs(e, "closed")
  BY <1>2, <1>7, <1>8, <1>9, PushedEnds, AwaitsPushed
<1>13. WatchesHold(e)
  <2>1. c.active \subseteq Watchers
    BY <1>1 DEF Sockets
  <2>2. e.active \subseteq {"reconnectTimer"} \cup ConnectWatchers /\ "io" \notin e.active
    BY <2>1, <1>9 DEF w, Watchers
  <2>3. e.active \cap ConnectWatchers # {} => e.connecting /\ IsClient(e)
    BY <1>1, <1>9 DEF Held, WatchesHold, IsClient
  <2>4. "reconnectTimer" \in e.active \/ e.closing => IsClient(e)
    BY <1>1, <1>9 DEF Held, WatchesHold, IsClient
  <2> QED  BY <1>9, <1>12, <2>2, <2>3, <2>4 DEF WatchesHold
<1>14. BuffersKept(e)
  BY <1>1, <1>9 DEF BuffersKept, Held, none
<1>15. ErrorHeld(e)
  BY <1>9 DEF ErrorHeld, w
<1>16. Trying(e)
  BY <1>12 DEF Trying
<1> QED  BY <1>6, <1>8, <1>10, <1>11, <1>12, <1>13, <1>14, <1>15, <1>16 DEF SocketInv, Held

\* The close callback of the library, which calls the user's and arms the timer after it.
LEMMA ClosedHolds ==
  ASSUME SocketInv, c.stack # <<>>, Top = "closed", c' = Closed(Returned(c))
  PROVE  SocketInv'
<1> DEFINE d == Returned(c)
<1>1. c \in Sockets /\ Held(c)
  BY DEF SocketInv, Held
<1>2. /\ d \in Sockets /\ OnlyStack(c, d) /\ StackFits(d) /\ ~c.freed /\ InsideEnds(d)
      /\ ClosingEnds(d) /\ ~Awaits(d, "closed") /\ ~c.closing /\ ~c.fd
      /\ Serving(c) => d.stack = <<>> \/ Head(d.stack) = "free"
      /\ Awaits(c, "shut") => Awaits(d, "shut")
  BY TopReturns DEF Frames
<1>3. c' = Closed(d)
  OBVIOUS
<1>4. c.active \subseteq {"reconnectTimer"} \cup ConnectWatchers
  BY <1>1, <1>2 DEF Held, WatchesHold
<1>5. /\ <<"close">> \in Seq(Frames) /\ <<"rearm">> \in Seq(Frames)
      /\ <<"close", "rearm">> \in Seq(Frames)
      /\ {"close", "rearm", "shut", "closed"} \subseteq Frames
  BY DEF Frames, UserFrames
<1> HIDE DEF d
<1>6. CASE ~IsClient(c)
  <2> DEFINE e == Call(d, <<"close">>)
  <2>1. e \in Sockets /\ OnlyStack(d, e) /\ e.stack = <<"close">> \o d.stack
    BY <1>2, <1>5, CallFields
  <2>2. c' = e
    BY <1>2, <1>3, <1>6 DEF Closed, IsClient, OnlyStack, SameWatches
  <2> HIDE DEF e
  <2>3. OnlyStack(c, e) /\ e.kind = d.kind /\ e.closing = d.closing /\ SameMode(d, e)
        /\ e.kind = c.kind /\ ~e.closing
    BY <1>2, <2>1 DEF OnlyStack, SameWatches, SameMode, SameAims, SameErrors
  <2>4. StackFits(e)
    <3>1. Serving(e) => d.stack = <<>> \/ Head(d.stack) = "free"
      BY <1>2, <2>3 DEF Serving
    <3>2. e.inside = d.inside /\ e.deleting = d.deleting
      BY <2>3 DEF SameMode
    <3>3. "close" \in Frames /\ e.kind = d.kind
      BY <1>5, <2>3
    <3> QED  BY <1>2, <2>1, <3>1, <3>2, <3>3, Pushed
  <2>5. InsideEnds(e)
    BY <1>2, <1>5, <2>1, <2>3, PushedInside DEF SameMode
  <2>6. ClosingEnds(e) /\ ~Runs(e, "rearm") /\ ~Runs(e, "closed")
        /\ (Awaits(d, "shut") => Awaits(e, "shut"))
    <3>1. ClosingEnds(e) /\ ~Runs(e, "rearm")
      BY <1>2, <1>5, <2>1, <2>3, PushedEnds
    <3>2. /\ \A g \in Frames : Awaits(e, g) <=> g = "close" \/ Awaits(d, g)
          /\ \A g \in Frames : Runs(e, g) <=> g = "close"
      BY <1>2, <1>5, <2>1, AwaitsPushed
    <3> QED  BY <1>5, <3>1, <3>2
  <2>7. FreedLast(e)
    BY <1>2, <2>3 DEF FreedLast, OnlyStack, SameMode
  <2>8. WatchesHold(e)
    <3>1. c.active \cap ConnectWatchers = {} /\ ~c.ssl /\ "reconnectTimer" \notin c.active
      BY <1>1, <1>2, <1>6 DEF Held, WatchesHold
    <3>2. e.active = c.active /\ e.ssl = c.ssl /\ e.fd = c.fd
      BY <2>3 DEF OnlyStack, SameWatches
    <3>3. "io" \notin c.active
      BY <1>4 DEF ConnectWatchers
    <3> QED  BY <1>2, <1>4, <2>3, <2>6, <3>1, <3>2, <3>3 DEF WatchesHold
  <2>9. BuffersKept(e)
    BY <1>1, <2>3 DEF BuffersKept, Held, OnlyStack, SameWatches
  <2>10. ErrorHeld(e)
    BY <1>1, <1>2, <2>3, <2>6 DEF ErrorHeld, Held, OnlyStack, SameErrors, SameMode, SameWatches
  <2>11. Trying(e)
    BY <1>6, <2>3 DEF Trying, IsClient
  <2> QED  BY <2>1, <2>2, <2>4, <2>5, <2>6, <2>7, <2>8, <2>9, <2>10, <2>11 DEF SocketInv, Held
<1>7. CASE IsClient(c)
  <2> DEFINE f == IF d.connecting THEN Off(d, ConnectWatchers) ELSE d
             x == [f EXCEPT !.closing = TRUE, !.connecting = FALSE]
             e == Call(x, <<"close", "rearm">>)
  <2>1. c' = e
    BY <1>2, <1>3, <1>7 DEF Closed, IsClient, OnlyStack, SameWatches
  <2>2. /\ f \in Sockets /\ SameMode(d, f) /\ SameAims(d, f) /\ SameErrors(d, f)
        /\ f.stack = d.stack /\ f.kind = d.kind /\ f.fd = d.fd /\ f.ssl = d.ssl
        /\ f.active = (IF d.connecting THEN d.active \ ConnectWatchers ELSE d.active)
        /\ f.pending = d.pending /\ f.want = d.want /\ f.misretried = d.misretried
    <3>1. d.active \ ConnectWatchers \in SUBSET Watchers
      BY <1>2 DEF Sockets
    <3> QED  BY <1>2, <3>1 DEF Off, Sockets, SameMode, SameAims, SameErrors
  <2> HIDE DEF f
  <2>3. /\ x \in Sockets /\ SameMode(d, x) /\ SameAims(d, x) /\ SameErrors(d, x)
        /\ x.stack = d.stack /\ x.kind = d.kind /\ x.fd = d.fd /\ x.ssl = d.ssl
        /\ x.active = f.active /\ x.closing = TRUE
        /\ x.pending = d.pending /\ x.want = d.want /\ x.misretried = d.misretried
    <3>1. /\ x \in Sockets
          /\ x.stack = f.stack /\ x.kind = f.kind /\ x.fd = f.fd /\ x.ssl = f.ssl
          /\ x.active = f.active /\ x.closing = TRUE
          /\ x.pending = f.pending /\ x.want = f.want /\ x.misretried = f.misretried
      BY <2>2 DEF Sockets
    <3>2. SameMode(f, x) /\ SameAims(f, x) /\ SameErrors(f, x)
      BY <2>2 DEF Sockets, SameMode, SameAims, SameErrors
    <3> HIDE DEF x
    <3>3. SameMode(d, x) /\ SameAims(d, x) /\ SameErrors(d, x)
      BY <2>2, <3>2 DEF SameMode, SameAims, SameErrors
    <3> QED  BY <2>2, <3>1, <3>3
  <2> HIDE DEF x
  <2>4. e \in Sockets /\ OnlyStack(x, e) /\ e.stack = <<"close", "rearm">> \o d.stack
    <3>1. e \in Sockets /\ OnlyStack(x, e) /\ e.stack = <<"close", "rearm">> \o x.stack
      BY <1>5, <2>3, CallFields
    <3> HIDE DEF e
    <3> QED  BY <2>3, <3>1
  <2> HIDE DEF e
  <2>5. /\ SameMode(c, e) /\ SameMode(d, e) /\ e.kind = c.kind /\ e.kind = d.kind
        /\ e.fd = c.fd /\ e.ssl = c.ssl /\ e.active = f.active /\ e.closing = TRUE
        /\ e.pending = c.pending /\ e.want = c.want /\ e.misretried = c.misretried
        /\ SameErrors(c, e)
    BY <1>2, <2>3, <2>4 DEF OnlyStack, SameWatches, SameMode, SameErrors
  <2>6. f.active \subseteq {"reconnectTimer"} /\ f.active \subseteq c.active
    <3>1. d.active = c.active /\ d.connecting = c.connecting
      BY <1>2 DEF OnlyStack, SameWatches
    <3>2. ~c.connecting => c.active \cap ConnectWatchers = {}
      BY <1>1 DEF Held, WatchesHold
    <3> QED  BY <1>4, <2>2, <3>1, <3>2
  <2> DEFINE m == Call(d, <<"rearm">>)
  <2>7. m \in Sockets /\ OnlyStack(d, m) /\ m.stack = <<"rearm">> \o d.stack
    BY <1>2, <1>5, CallFields
  <2> HIDE DEF m
  <2>8. e.stack = <<"close">> \o m.stack
    <3>1. d.stack \in Seq(Frames)
      BY <1>2 DEF Sockets
    <3>2. <<"close", "rearm">> \o d.stack = <<"close">> \o (<<"rearm">> \o d.stack)
      BY <1>5, <3>1, TwoPushes
    <3> QED  BY <2>4, <2>7, <3>2
  <2>9. ~Serving(e)
    BY <1>7, <2>5 DEF Serving, IsClient
  <2>10. StackFits(m) /\ InsideEnds(m)
    <3>1. StackFits(m)
      <4>1. m.kind = d.kind /\ m.inside = d.inside /\ m.deleting = d.deleting
        BY <2>7 DEF OnlyStack, SameMode, SameWatches
      <4> QED  BY <1>2, <1>5, <2>7, <4>1, Pushed
    <3>2. InsideEnds(m)
      BY <1>2, <1>5, <2>7, PushedInside DEF OnlyStack, SameMode
    <3> QED  BY <3>1, <3>2
  <2>11. SameMode(m, e) /\ e.kind = m.kind
    BY <2>5, <2>7 DEF OnlyStack, SameMode, SameWatches
  <2>12. StackFits(e)
    <3>1. e.inside = m.inside /\ e.deleting = m.deleting
      BY <2>11 DEF SameMode
    <3> QED  BY <1>5, <2>4, <2>7, <2>8, <2>9, <2>10, <2>11, <3>1, Pushed
  <2>13. InsideEnds(e)
    BY <1>5, <2>4, <2>7, <2>8, <2>10, <2>11, PushedInside DEF SameMode
  <2>14. FreedLast(e)
    BY <1>2, <2>5 DEF FreedLast, SameMode
  <2>15. /\ ClosingEnds(e) /\ Runs(e, "close")
         /\ Awaits(d, "shut") => Awaits(e, "shut")
    <3>1. /\ \A g \in Frames : Awaits(m, g) <=> g = "rearm" \/ Awaits(d, g)
          /\ \A g \in Frames : Awaits(e, g) <=> g = "close" \/ Awaits(m, g)
          /\ \A g \in Frames : Runs(e, g) <=> g = "close"
      <4>1. \A g \in Frames : Awaits(m, g) <=> g = "rearm" \/ Awaits(d, g)
        BY <1>2, <1>5, <2>7, AwaitsPushed
      <4>2. /\ \A g \in Frames : Awaits(e, g) <=> g = "close" \/ Awaits(m, g)
            /\ \A g \in Frames : Runs(e, g) <=> g = "close"
        BY <1>5, <2>4, <2>7, <2>8, AwaitsPushed
      <4> QED  BY <4>1, <4>2
    <3>2. /\ Len(d.stack) \in Nat /\ d.stack \in Seq(Frames)
          /\ DOMAIN d.stack = 1 .. Len(d.stack)
          /\ m.stack \in Seq(Frames) /\ m.stack[1] = "rearm" /\ Len(m.stack) = Len(d.stack) + 1
          /\ \A i \in 1 .. Len(d.stack) : m.stack[i + 1] = d.stack[i]
      BY <1>2, <1>5, <2>7, PushFacts DEF Sockets
    <3>3. /\ Len(e.stack) = Len(m.stack) + 1 /\ DOMAIN e.stack = 1 .. Len(m.stack) + 1
          /\ e.stack[1] = "close"
          /\ \A i \in 1 .. Len(m.stack) : e.stack[i + 1] = m.stack[i]
      BY <1>5, <2>8, <3>2, PushFacts
    <3>4. e.stack[2] = "rearm" /\ Len(e.stack) > 1
      <4>1. 1 \in 1 .. Len(m.stack) /\ 1 + 1 = 2
        BY <3>2
      <4> QED  BY <3>2, <3>3, <4>1
    <3>5. ASSUME NEW j \in DOMAIN e.stack, j \notin {1, 2}
          PROVE  e.stack[j] # "closed" /\ e.stack[j] # "rearm"
      <4> DEFINE i == j - 2
      <4>1. i \in DOMAIN d.stack /\ j = (i + 1) + 1 /\ i + 1 \in 1 .. Len(m.stack)
        BY <3>2, <3>3, <3>5
      <4> HIDE DEF i
      <4>2. e.stack[j] = d.stack[i]
        BY <3>2, <3>3, <4>1
      <4>3. d.closing = c.closing
        BY <1>2 DEF OnlyStack, SameWatches
      <4>4. d.stack[i] # "closed" /\ d.stack[i] # "rearm"
        BY <1>2, <4>1, <4>3 DEF Awaits, ClosingEnds
      <4> QED  BY <4>2, <4>4
    <3>6. ClosingEnds(e)
      BY <1>5, <2>5, <3>1, <3>3, <3>4, <3>5 DEF ClosingEnds
    <3> QED  BY <1>5, <3>1, <3>6
  <2>16. WatchesHold(e)
    <3>1. "io" \notin e.active /\ e.active \cap ConnectWatchers = {} /\ ~c.ssl
      BY <1>1, <1>2, <2>5, <2>6 DEF ConnectWatchers, Held, WatchesHold
    <3>2. IsClient(e)
      BY <1>7, <2>5 DEF IsClient
    <3> QED  BY <1>2, <2>5, <2>6, <3>1, <3>2 DEF WatchesHold
  <2>17. BuffersKept(e)
    BY <1>1, <2>5 DEF BuffersKept, Held
  <2>18. ErrorHeld(e)
    BY <1>1, <1>2, <2>5, <2>6, <2>15 DEF ErrorHeld, Held, SameErrors, SameMode
  <2>19. Trying(e)
    BY <2>5 DEF Trying
  <2> QED  BY <2>1, <2>4, <2>12, <2>13, <2>14, <2>15, <2>16, <2>17, <2>18, <2>19 DEF SocketInv, Held
<1> QED  BY <1>6, <1>7

\* What follows the user's close callback.
LEMMA RearmHolds ==
  ASSUME SocketInv, c.stack # <<>>, Top = "rearm", c' = Rearm(Returned(c))
  PROVE  SocketInv'
<1> DEFINE d == Returned(c)
<1>1. c \in Sockets /\ Held(c)
  BY DEF SocketInv, Held
<1>2. /\ d \in Sockets /\ OnlyStack(c, d) /\ d.stack = Tail(c.stack) /\ StackFits(d)
      /\ ~c.freed /\ InsideEnds(d) /\ ~c.fd /\ Runs(c, "rearm")
      /\ Awaits(c, "shut") => Awaits(d, "shut")
  BY TopReturns DEF Frames
<1>3. c' = Rearm(d)
  OBVIOUS
<1> HIDE DEF d
<1> DEFINE f == IF d.reconnect THEN On(d, {"reconnectTimer"}) ELSE d
           e == [f EXCEPT !.closing = FALSE]
<1>4. c' = e
  BY <1>3 DEF Rearm
<1>5. /\ f \in Sockets /\ SameMode(d, f) /\ SameAims(d, f) /\ SameErrors(d, f)
      /\ f.stack = d.stack /\ f.kind = d.kind /\ f.fd = d.fd /\ f.ssl = d.ssl
      /\ f.active = (IF d.reconnect THEN d.active \cup {"reconnectTimer"} ELSE d.active)
      /\ f.pending = d.pending /\ f.want = d.want /\ f.misretried = d.misretried
  <2>1. d.active \cup {"reconnectTimer"} \in SUBSET Watchers
    BY <1>2 DEF Sockets, Watchers
  <2> QED  BY <1>2, <2>1 DEF On, Sockets, SameMode, SameAims, SameErrors
<1> HIDE DEF f
<1>6. /\ e \in Sockets /\ SameMode(d, e) /\ SameAims(d, e) /\ SameErrors(d, e)
      /\ e.stack = d.stack /\ e.kind = d.kind /\ e.fd = d.fd /\ e.ssl = d.ssl
      /\ e.active = f.active /\ e.closing = FALSE
      /\ e.pending = d.pending /\ e.want = d.want /\ e.misretried = d.misretried
  BY <1>5 DEF Sockets, SameMode, SameAims, SameErrors
<1> HIDE DEF e
<1>7. /\ SameMode(c, e) /\ SameErrors(c, e) /\ SameAims(c, e) /\ e.kind = c.kind /\ e.fd = c.fd
      /\ e.ssl = c.ssl /\ e.stack = Tail(c.stack)
      /\ e.active = (IF c.reconnect THEN c.active \cup {"reconnectTimer"} ELSE c.active)
      /\ e.pending = c.pending /\ e.want = c.want /\ e.misretried = c.misretried
  BY <1>2, <1>5, <1>6 DEF OnlyStack, SameMode, SameErrors, SameWatches, SameAims
<1>8. StackFits(e) /\ InsideEnds(e)
  <2>1. StackFits(e)
    BY <1>2, <1>6 DEF StackFits, FrameFits, SameMode, IsClient, Serving
  <2>2. InsideEnds(e)
    BY <1>2, <1>6 DEF InsideEnds, SameMode
  <2> QED  BY <2>1, <2>2
<1>9. ClosingEnds(e) /\ ~Runs(e, "closed") /\ ~Runs(e, "rearm")
  <2>1. Head(c.stack) = "rearm"
    BY DEF Top
  <2> QED  BY <1>1, <1>6, <1>7, <2>1, PoppedEnds DEF Held
<1>10. FreedLast(e)
  BY <1>2, <1>7 DEF FreedLast, SameMode
<1>11. c.active \subseteq {"reconnectTimer"} /\ ~c.ssl
  BY <1>1, <1>2 DEF Held, WatchesHold, Runs
<1>12. WatchesHold(e)
  <2>1. e.active \subseteq {"reconnectTimer"} /\ "io" \notin e.active
        /\ e.active \cap ConnectWatchers = {}
    BY <1>7, <1>11 DEF ConnectWatchers
  <2>2. IsClient(e)
    <3>1. c.closing
      BY TopReturns
    <3> QED  BY <1>1, <1>7, <3>1 DEF Held, WatchesHold, IsClient
  <2> QED  BY <1>2, <1>6, <1>7, <1>9, <1>11, <2>1, <2>2 DEF WatchesHold
<1>13. BuffersKept(e)
  BY <1>1, <1>7 DEF BuffersKept, Held
<1>14. ErrorHeld(e)
  <2>1. "io" \notin e.active
    BY <1>7, <1>11
  <2> QED  BY <1>1, <1>7, <2>1 DEF ErrorHeld, Held, SameErrors
<1>15. Trying(e)
  BY <1>7 DEF Trying, SameAims
<1> QED  BY <1>4, <1>6, <1>8, <1>9, <1>10, <1>12, <1>13, <1>14, <1>15 DEF SocketInv, Held

\* A client goes on trying without the timers of its transfers.
LEMMA TimersOff ==
  ASSUME NEW d \in Sockets, Trying(d), NEW X \in SUBSET {"readTimer", "writeTimer"}, Held(d)
  PROVE  Trying(Off(d, X))
<1> DEFINE e == Off(d, X)
<1>1. /\ SameMode(d, e) /\ SameAims(d, e) /\ e.stack = d.stack /\ e.active = d.active \ X
      /\ e.kind = d.kind /\ e.fd = d.fd /\ e.closing = d.closing /\ e.connecting = d.connecting
  <2>1. X \in SUBSET Watchers
    BY DEF Watchers
  <2> QED  BY <2>1, OffHolds
<1> HIDE DEF e
<1>2. /\ "io" \in d.active => "io" \in e.active
      /\ "reconnectTimer" \in d.active => "reconnectTimer" \in e.active
      /\ ConnectWatchers \subseteq d.active => ConnectWatchers \subseteq e.active
  BY <1>1 DEF ConnectWatchers
<1>3. Trying(e)
  BY <1>1, <1>2 DEF Trying, SameMode, SameAims, IsClient, Awaits, Runs
<1> QED  BY <1>3 DEF e

\* What holds once a frame has returned that neither closes nor ends an event.
LEMMA PlainReturn ==
  ASSUME SocketInv, c.stack # <<>>, Top \notin {"shut", "closed", "eventEnd", "rearm"}
  PROVE  /\ Returned(c) \in Sockets /\ Held(Returned(c)) /\ Trying(Returned(c))
         /\ ~Awaits(Returned(c), "closed")
<1>1. c \in Sockets /\ Held(c) /\ Trying(c)
  BY DEF SocketInv, Held
<1> DEFINE d == Returned(c)
<1>2. d \in Sockets /\ OnlyStack(c, d) /\ d.stack = Tail(c.stack)
  BY <1>1, ReturnedFields
<1> HIDE DEF d
<1>3. Held(d) /\ Trying(d) /\ ~Awaits(d, "closed")
  BY <1>1, <1>2, PopHolds DEF Top
<1> QED  BY <1>2, <1>3 DEF d

\* The second half of an event: the write, unless an error was noted before it.
LEMMA ToWriteHolds ==
  ASSUME SocketInv, c.stack # <<>>, Top = "toWrite", c' = ToWrite(Returned(c))
  PROVE  SocketInv'
<1> DEFINE d == Returned(c)
           m == Off(d, {"writeTimer"})
           e == Call(m, <<"write">>)
<1>1. d \in Sockets /\ Held(d) /\ Trying(d) /\ ~Awaits(d, "closed")
  BY PlainReturn
<1>2. c' = IF d.lastError THEN d ELSE e
  BY DEF ToWrite
<1>3. d.inside /\ ~d.closing /\ ~d.freed
  BY TopReturns DEF OnlyStack, SameWatches, SameMode
<1> HIDE DEF d
<1>4. m \in Sockets /\ Held(m) /\ Trying(m) /\ SameMode(d, m) /\ m.stack = d.stack
      /\ m.closing = d.closing
  <2>1. {"writeTimer"} \in SUBSET Watchers
    BY DEF Watchers
  <2> QED  BY <1>1, <2>1, OffHolds, TimersOff
<1> HIDE DEF m
<1>5. "write" \in Frames /\ <<"write">> \in Seq(Frames)
  BY DEF Frames, UserFrames
<1>6. e \in Sockets /\ OnlyStack(m, e) /\ e.stack = <<"write">> \o m.stack
  BY <1>4, <1>5, CallFields
<1> HIDE DEF e
<1>7. m.inside /\ ~m.closing /\ ~m.freed /\ ~Awaits(m, "closed")
  BY <1>1, <1>3, <1>4 DEF SameMode, Awaits
<1>8. Held(e) /\ Trying(e)
  BY <1>4, <1>5, <1>6, <1>7, PushHolds
<1> QED  BY <1>1, <1>2, <1>8 DEF SocketInv

\* The end of an event, where an error noted is acted on.
LEMMA EventEndHolds ==
  ASSUME SocketInv, c.stack # <<>>, Top = "eventEnd", c' = EventEnd(Returned(c))
  PROVE  SocketInv'
<1> DEFINE d == Returned(c)
           e == [d EXCEPT !.inside = FALSE]
<1>1. c \in Sockets /\ Held(c)
  BY DEF SocketInv, Held
<1>2. /\ d \in Sockets /\ OnlyStack(c, d) /\ d.stack = <<>> /\ ~c.freed
      /\ ClosingEnds(d) /\ ~Awaits(d, "closed") /\ ~c.closing /\ Runs(c, "eventEnd")
      /\ Awaits(c, "shut") => Awaits(d, "shut")
  BY TopReturns DEF Frames
<1>3. c' = IF d.lastError THEN Close(e, TRUE) ELSE e
  BY DEF EventEnd
<1> HIDE DEF d
<1>4. /\ e \in Sockets /\ SameWatches(d, e) /\ SameAims(d, e) /\ SameErrors(d, e)
      /\ e.stack = d.stack /\ e.inside = FALSE /\ e.deleting = d.deleting /\ e.freed = d.freed
  BY <1>2 DEF Sockets, SameWatches, SameAims, SameErrors
<1> HIDE DEF e
<1>5. /\ SameWatches(c, e) /\ SameAims(c, e) /\ SameErrors(c, e) /\ e.stack = <<>>
      /\ ~e.freed /\ ~e.closing
  BY <1>2, <1>4 DEF OnlyStack, SameWatches, SameMode, SameAims, SameErrors
<1>6. StackFits(e) /\ InsideEnds(e) /\ FreedLast(e) /\ ClosingEnds(e) /\ ~Awaits(e, "closed")
  BY <1>4, <1>5 DEF StackFits, InsideEnds, FreedLast, ClosingEnds, Awaits
<1>7. WatchesHold(e)
  <2>1. ~Runs(e, "closed") /\ ~Runs(e, "rearm") /\ ~Runs(c, "closed")
    BY <1>2, <1>5 DEF Runs
  <2> QED  BY <1>1, <1>5, <2>1 DEF SameWatches, WatchesHold, Held, IsClient, Secure
<1>8. BuffersKept(e)
  BY <1>1, <1>5 DEF SameWatches, BuffersKept, Held
<1>9. Fits(e) /\ Noted(e)
  BY <1>1, <1>4, <1>5, <1>6, <1>7, <1>8 DEF Fits, Noted, Held, ErrorHeld, SameErrors
<1>10. Held(Close(e, TRUE)) /\ Trying(Close(e, TRUE))
  BY <1>4, <1>5, <1>6, <1>9, CloseOutside
<1>11. ASSUME ~d.lastError PROVE Held(e) /\ Trying(e)
  <2>1. ErrorHeld(e)
    BY <1>4, <1>9, <1>11 DEF ErrorHeld, Noted, SameErrors
  <2>2. Held(e)
    BY <1>9, <2>1 DEF Held, Fits
  <2>3. ~Awaits(d, "shut") /\ ~Awaits(c, "shut")
    BY <1>2 DEF Awaits
  <2>4. Trying(e)
    BY <1>2, <1>5, <2>3 DEF SocketInv, Trying, SameWatches, SameAims, IsClient, Runs
  <2> QED  BY <2>2, <2>4
<1> QED  BY <1>3, <1>10, <1>11 DEF SocketInv

\* The end of a stop.
LEMMA StoppedHolds ==
  ASSUME SocketInv, c.stack # <<>>, Top = "stopped", c' = Stopped(Returned(c))
  PROVE  SocketInv'
<1> DEFINE d == Returned(c)
           m == [d EXCEPT !.loop = FALSE]
           e == Call(m, <<"stop">>)
<1>1. d \in Sockets /\ Held(d) /\ ~Awaits(d, "closed")
  BY PlainReturn
<1>2. c' = e
  BY DEF Stopped
<1>3. ~d.closing /\ ~d.freed
  BY TopReturns DEF OnlyStack, SameWatches, SameMode
<1> HIDE DEF d
<1>4. /\ m \in Sockets /\ SameWatches(d, m) /\ SameMode(d, m) /\ SameErrors(d, m)
      /\ m.stack = d.stack /\ m.loop = FALSE
  BY <1>1 DEF Sockets, SameWatches, SameMode, SameErrors
<1> HIDE DEF m
<1>5. Held(m)
  <2>1. WatchesHold(m) /\ BuffersKept(m)
    BY <1>1, <1>4, WatchesKept DEF Held
  <2>2. ErrorHeld(m)
    BY <1>1, <1>4 DEF ErrorHeld, Held, SameErrors, SameMode, SameWatches, Awaits
  <2> QED  BY <1>1, <1>4, <2>1, <2>2, Changed DEF SameWatches
<1>6. "stop" \in Frames /\ <<"stop">> \in Seq(Frames)
  BY DEF Frames, UserFrames
<1>7. e \in Sockets /\ OnlyStack(m, e) /\ e.stack = <<"stop">> \o m.stack
  BY <1>4, <1>6, CallFields
<1> HIDE DEF e
<1>8. ~m.closing /\ ~m.freed /\ ~Awaits(m, "closed")
  BY <1>1, <1>3, <1>4 DEF SameMode, SameWatches, Awaits
<1>9. Held(e)
  BY <1>4, <1>5, <1>6, <1>7, <1>8, PushHolds
<1>10. Trying(e)
  BY <1>4, <1>7 DEF Trying, OnlyStack, SameAims
<1> QED  BY <1>2, <1>9, <1>10 DEF SocketInv

\* The end of a delete.
LEMMA FreedHolds ==
  ASSUME SocketInv, c.stack # <<>>, Top = "free", c' = Freed(Returned(c))
  PROVE  SocketInv'
<1> DEFINE d == Returned(c)
           w == {"io", "readTimer", "writeTimer"}
           m == Off(d, w)
           e == [m EXCEPT !.freed = TRUE]
<1>1. d \in Sockets /\ Held(d)
  BY PlainReturn
<1>2. c' = e
  BY DEF Freed
<1>3. d.stack = <<>>
  BY TopReturns
<1> HIDE DEF d
<1>4. m \in Sockets /\ Held(m) /\ m.stack = d.stack
  <2>1. w \in SUBSET Watchers
    BY DEF Watchers
  <2> QED  BY <1>1, <2>1, OffHolds
<1> HIDE DEF m
<1>5. /\ e \in Sockets /\ SameWatches(m, e) /\ SameErrors(m, e) /\ e.stack = m.stack
      /\ e.inside = m.inside /\ e.freed = TRUE
  BY <1>4 DEF Sockets, SameWatches, SameErrors
<1> HIDE DEF e
<1>6. StackFits(e) /\ InsideEnds(e) /\ FreedLast(e) /\ ClosingEnds(e)
  <2>1. e.stack = <<>> /\ ~m.inside /\ ~m.closing
    BY <1>3, <1>4, <1>5 DEF Held, InsideEnds, ClosingEnds, Runs
  <2>2. ~e.inside /\ ~e.closing
    BY <1>5, <2>1 DEF SameWatches
  <2> QED  BY <2>1, <2>2 DEF StackFits, InsideEnds, FreedLast, ClosingEnds
<1>7. WatchesHold(e) /\ BuffersKept(e)
  BY <1>4, <1>5, WatchesKept DEF Held
<1>8. ErrorHeld(e)
  BY <1>4, <1>5 DEF ErrorHeld, Held, SameErrors, SameWatches, Awaits
<1>9. Trying(e)
  BY <1>5 DEF Trying
<1> QED  BY <1>2, <1>5, <1>6, <1>7, <1>8, <1>9 DEF SocketInv, Held

\* Every step of the library's code keeps the invariant.
LEMMA StepHolds ==
  ASSUME SocketInv, Step
  PROVE  SocketInv'
  BY ShutHolds, ClosedHolds, RearmHolds, ToWriteHolds, EventEndHolds, StoppedHolds, FreedHolds
     DEF Step, Becomes

-----------------------------------------------------------------------------
(* Events                                                                    *)

\* Between events nothing runs.
LEMMA IdleQuiet ==
  ASSUME SocketInv, Idle
  PROVE  /\ c \in Sockets /\ Held(c) /\ Trying(c)
         /\ c.stack = <<>> /\ ~c.inside /\ ~c.closing /\ ~c.freed /\ ~Awaits(c, "closed")
  BY DEF SocketInv, Held, Idle, InsideEnds, ClosingEnds, Runs, Awaits

\* A frame put on a socket on which nothing runs.
LEMMA FirstCall ==
  ASSUME NEW d \in Sockets, Held(d), Trying(d), d.stack = <<>>, ~d.inside, ~d.closing, ~d.freed,
         NEW f \in {"readTimeout", "writeTimeout", "error"}
  PROVE  Held(Call(d, <<f>>)) /\ Trying(Call(d, <<f>>))
<1> DEFINE e == Call(d, <<f>>)
<1>1. f \in Frames /\ <<f>> \in Seq(Frames)
  BY DEF Frames, UserFrames
<1>2. e \in Sockets /\ OnlyStack(d, e) /\ e.stack = <<f>> \o d.stack
  BY <1>1, CallFields
<1> HIDE DEF e
<1>3. ~Awaits(d, "closed")
  BY DEF Awaits
<1>4. Held(e) /\ Trying(e)
  BY <1>1, <1>2, <1>3, PushHolds
<1> QED  BY <1>4 DEF e

\* The callbacks of the transfers' timers.
LEMMA TimeOutHolds ==
  ASSUME SocketInv, TimeOut
  PROVE  SocketInv'
<1>1. /\ c \in Sockets /\ Held(c) /\ Trying(c)
      /\ c.stack = <<>> /\ ~c.inside /\ ~c.closing /\ ~c.freed
  BY IdleQuiet DEF TimeOut
<1>2. c' = Call(c, <<"readTimeout">>) \/ c' = Call(c, <<"writeTimeout">>)
  BY DEF TimeOut, ReadTimer, WriteTimer, Becomes
<1>3. Held(c') /\ Trying(c')
  BY <1>1, <1>2, FirstCall
<1> QED  BY <1>3 DEF SocketInv

\* The event's callbacks, for the descriptor that is ready.
LEMMA EventHolds ==
  ASSUME NEW d \in Sockets, Held(d), Trying(d), d.stack = <<>>, ~d.inside, ~d.closing, ~d.freed,
         NEW s \in {<<"read", "toWrite", "eventEnd">>, <<"read", "eventEnd">>,
                    <<"toWrite", "eventEnd">>},
         NEW X \in SUBSET {"readTimer"}
  PROVE  LET e == Call(Off([d EXCEPT !.inside = TRUE], X), s) IN Held(e) /\ Trying(e)
<1> DEFINE m == [d EXCEPT !.inside = TRUE]
           n == Off(m, X)
           e == Call(n, s)
<1>1. /\ m \in Sockets /\ SameWatches(d, m) /\ SameAims(d, m) /\ SameErrors(d, m)
      /\ m.stack = d.stack /\ m.inside = TRUE /\ m.deleting = d.deleting /\ m.freed = d.freed
  BY DEF Sockets, SameWatches, SameAims, SameErrors
<1> HIDE DEF m
<1>2. /\ n \in Sockets /\ n.kind = m.kind /\ n.fd = m.fd /\ n.active = m.active \ X
      /\ n.ssl = m.ssl /\ n.connecting = m.connecting /\ n.closing = m.closing
      /\ n.pending = m.pending /\ n.want = m.want /\ n.misretried = m.misretried
      /\ SameMode(m, n) /\ SameAims(m, n) /\ SameErrors(m, n) /\ n.stack = m.stack
  <2>1. m.active \ X \in SUBSET Watchers
    BY <1>1 DEF Sockets
  <2> QED  BY <1>1, <2>1 DEF Off, Sockets, SameMode, SameAims, SameErrors
<1> HIDE DEF n
<1>3. s \in Seq(Frames)
  <2>1. {"read", "toWrite", "eventEnd"} \subseteq Frames
    BY DEF Frames, UserFrames
  <2>2. /\ <<"read", "toWrite", "eventEnd">> \in Seq(Frames)
        /\ <<"read", "eventEnd">> \in Seq(Frames) /\ <<"toWrite", "eventEnd">> \in Seq(Frames)
    BY <2>1
  <2> QED  BY <2>2
<1>4. e \in Sockets /\ OnlyStack(n, e) /\ e.stack = s
  <2>1. n \in Sockets /\ n.stack = <<>>
    BY <1>1, <1>2
  <2>2. e \in Sockets /\ OnlyStack(n, e) /\ e.stack = s \o n.stack
    BY <1>3, <2>1, CallFields
  <2> QED  BY <1>3, <2>1, <2>2, ConcatEmptySeq
<1> HIDE DEF e
<1>5. /\ e.kind = d.kind /\ e.fd = d.fd /\ e.active = d.active \ X
      /\ e.ssl = d.ssl /\ e.connecting = d.connecting /\ e.closing = d.closing
      /\ e.pending = d.pending /\ e.want = d.want /\ e.misretried = d.misretried
      /\ SameAims(d, e) /\ SameErrors(d, e) /\ e.inside /\ ~e.freed
  BY <1>1, <1>2, <1>4 DEF OnlyStack, SameWatches, SameMode, SameAims, SameErrors
<1>6. StackFits(e)
  <2>1. ASSUME NEW i \in DOMAIN e.stack
        PROVE  /\ e.stack[i] \in {"read", "toWrite", "eventEnd"}
               /\ e.stack[i] = "eventEnd" => i = Len(e.stack)
    <3>1. CASE e.stack = <<"read", "toWrite", "eventEnd">>
      BY <3>1
    <3>2. CASE e.stack = <<"read", "eventEnd">>
      BY <3>2
    <3>3. CASE e.stack = <<"toWrite", "eventEnd">>
      BY <3>3
    <3> QED  BY <1>4, <3>1, <3>2, <3>3
  <2> QED  BY <1>5, <2>1 DEF StackFits, FrameFits
<1>7. InsideEnds(e)
  BY <1>4 DEF InsideEnds
<1>8. ClosingEnds(e) /\ ~Runs(e, "closed") /\ ~Runs(e, "rearm")
  BY <1>4, <1>5 DEF ClosingEnds, Runs
<1>9. FreedLast(e)
  BY <1>5 DEF FreedLast
<1>10. WatchesHold(e)
  <2>1. ~Runs(d, "closed")
    BY DEF Runs
  <2> QED  BY <1>5, <1>8, <2>1 DEF WatchesHold, Held, IsClient, Secure
<1>11. BuffersKept(e)
  BY <1>5 DEF BuffersKept, Held
<1>12. ErrorHeld(e)
  BY <1>5 DEF ErrorHeld, Held, SameErrors
<1>13. Trying(e)
  <2>1. ~Awaits(d, "shut") /\ ~Runs(d, "closed")
    BY DEF Awaits, Runs
  <2>2. /\ "io" \in d.active => "io" \in e.active
        /\ "reconnectTimer" \in d.active => "reconnectTimer" \in e.active
        /\ ConnectWatchers \subseteq d.active => ConnectWatchers \subseteq e.active
    BY <1>5 DEF ConnectWatchers
  <2> QED  BY <1>5, <2>1, <2>2 DEF Trying, SameAims, IsClient
<1> QED  BY <1>4, <1>6, <1>7, <1>8, <1>9, <1>10, <1>11, <1>12, <1>13 DEF Held, e, n, m

\* The callback of the descriptor's watcher, with an error or without.
LEMMA IOReadyHolds ==
  ASSUME SocketInv, IOReady
  PROVE  SocketInv'
<1>1. /\ c \in Sockets /\ Held(c) /\ Trying(c)
      /\ c.stack = <<>> /\ ~c.inside /\ ~c.closing /\ ~c.freed
  BY IdleQuiet DEF IOReady
<1> DEFINE in == [c EXCEPT !.inside = TRUE]
<1>2. PICK events \in ((SUBSET {"read", "write"}) \ {{}}) \cup {{"error"}} :
        c' = IOEvent(c, events)
  BY DEF IOReady, Becomes
<1>3. CASE "error" \in events
  <2>1. c' = Close(c, TRUE)
    BY <1>2, <1>3 DEF IOEvent
  <2>2. Held(c') /\ Trying(c')
    BY <1>1, <2>1, QuietCloses
  <2> QED  BY <2>2 DEF SocketInv
<1>4. CASE "error" \notin events
  <2>1. events = {"read"} \/ events = {"write"} \/ events = {"read", "write"}
    <3>1. events \subseteq {"read", "write"} /\ events # {}
      <4>1. events # {"error"}
        BY <1>4
      <4>2. events \in SUBSET {"read", "write"} /\ events \notin {{}}
        BY <1>2, <4>1
      <4> QED  BY <4>2
    <3>2. /\ "read" \in events /\ "write" \notin events => events = {"read"}
          /\ "read" \notin events /\ "write" \in events => events = {"write"}
          /\ "read" \in events /\ "write" \in events => events = {"read", "write"}
      BY <3>1
    <3> QED  BY <3>1, <3>2
  <2>2. in = Off(in, {})
    <3>1. in.active \ {} = in.active /\ in \in Sockets
      BY <1>1 DEF Sockets
    <3> HIDE DEF in
    <3> QED  BY <3>1 DEF Off, Sockets
  <2>3. \/ c' = Call(Off(in, {"readTimer"}), <<"read", "eventEnd">>)
        \/ c' = Call(Off(in, {"readTimer"}), <<"read", "toWrite", "eventEnd">>)
        \/ c' = Call(Off(in, {}), <<"toWrite", "eventEnd">>)
    <3>1. /\ <<"read">> \o <<"toWrite">> \o <<"eventEnd">> = <<"read", "toWrite", "eventEnd">>
          /\ <<"read">> \o <<>> \o <<"eventEnd">> = <<"read", "eventEnd">>
          /\ <<"toWrite">> \o <<"eventEnd">> = <<"toWrite", "eventEnd">>
      <4>1. {"read", "toWrite", "eventEnd"} \subseteq Frames /\ <<"read">> \in Seq(Frames)
        BY DEF Frames, UserFrames
      <4>2. <<"read">> \o <<>> = <<"read">>
        BY <4>1, ConcatEmptySeq
      <4>3. <<"read">> \o <<"toWrite">> = <<"read", "toWrite">>
        BY <4>1, Tuples
      <4>4. <<"read", "toWrite">> \o <<"eventEnd">> = <<"read", "toWrite", "eventEnd">>
        BY <4>1, Tuples
      <4>5. <<"read">> \o <<"eventEnd">> = <<"read", "eventEnd">>
        BY <4>1, Tuples
      <4>6. <<"toWrite">> \o <<"eventEnd">> = <<"toWrite", "eventEnd">>
        BY <4>1, Tuples
      <4> QED  BY <4>2, <4>3, <4>4, <4>5, <4>6, Zenon
    <3> HIDE DEF in
    <3> QED  BY <1>2, <2>1, <2>2, <3>1 DEF IOEvent, in
  <2>4. Held(c') /\ Trying(c')
    BY <1>1, <2>3, EventHolds
  <2> QED  BY <2>4 DEF SocketInv
<1> QED  BY <1>3, <1>4

-----------------------------------------------------------------------------
(* Calls of the user                                                         *)

\* Where a close may be asked for.
Closable(d) ==
  /\ ~d.closing /\ ~d.freed /\ ~Awaits(d, "closed")
  /\ Serving(d) /\ ~d.inside => d.stack = <<>> \/ Head(d.stack) = "free"

\* There a close keeps the invariant.
LEMMA CloseHolds ==
  ASSUME NEW d \in Sockets, Held(d), Closable(d), d.inside => Trying(d), NEW error \in BOOLEAN
  PROVE  Held(Close(d, error)) /\ Trying(Close(d, error))
<1>1. CASE d.inside
  BY <1>1, CloseInsideHolds
<1>2. CASE ~d.inside
  BY <1>2, HeldFits, CloseOutside DEF Closable
<1> QED  BY <1>1, <1>2

\* Where the user may call the library a close may be asked for.
LEMMA UserClosable ==
  ASSUME SocketInv, MayCall
  PROVE  c \in Sockets /\ Held(c) /\ Trying(c) /\ Closable(c)
<1>1. c \in Sockets /\ Held(c) /\ Trying(c)
  BY DEF SocketInv, Held
<1>2. CASE Idle
  BY <1>2, IdleQuiet DEF Closable
<1>3. CASE c.stack # <<>> /\ Top \in {"read", "write", "connected"}
  <2>1. /\ ~c.closing /\ ~c.freed
        /\ Top \in {"read", "write"} => c.inside
        /\ Top = "connected" => IsClient(c)
    BY <1>3, TopReturns
  <2>2. ~Awaits(c, "closed")
    <3>1. \A i \in DOMAIN c.stack : c.stack[i] = "closed" => i = 1
      BY <1>1 DEF Held, ClosingEnds
    <3>2. c.stack[1] # "closed"
      BY <1>1, <1>3, TailFacts DEF Top, Sockets
    <3> QED  BY <3>1, <3>2 DEF Awaits
  <2> QED  BY <1>1, <1>3, <2>1, <2>2 DEF Closable, Serving, IsClient
<1> QED  BY <1>2, <1>3 DEF MayCall

\* A delete keeps the invariant where nothing runs.
LEMMA DeleteHolds ==
  ASSUME NEW d \in Sockets, Held(d), Trying(d), d.stack = <<>>, ~d.freed
  PROVE  Held(Delete(d)) /\ Trying(Delete(d))
<1> DEFINE w == ConnectWatchers \cup {"reconnectTimer"}
           g == [d EXCEPT !.deleting = TRUE, !.reconnect = FALSE, !.connecting = FALSE,
                          !.loop = FALSE]
           h == Off(g, w)
           e == Call(h, <<"free">>)
<1>1. Delete(d) = IF d.deleting THEN d ELSE IF d.fd THEN Close(e, FALSE) ELSE e
  BY DEF Delete
<1>2. ~d.inside /\ ~d.closing
  BY DEF Held, InsideEnds, ClosingEnds, Runs
<1>3. /\ g \in Sockets /\ g.kind = d.kind /\ g.fd = d.fd /\ g.active = d.active /\ g.ssl = d.ssl
      /\ g.closing = d.closing /\ g.pending = d.pending /\ g.want = d.want
      /\ g.misretried = d.misretried /\ g.inside = d.inside /\ g.deleting = TRUE
      /\ g.freed = d.freed /\ SameErrors(d, g) /\ g.stack = d.stack /\ g.loop = FALSE
  BY DEF Sockets, SameErrors
<1> HIDE DEF g
<1>4. /\ h \in Sockets /\ h.kind = d.kind /\ h.fd = d.fd /\ h.active = d.active \ w
      /\ h.ssl = d.ssl /\ h.closing = d.closing /\ h.pending = d.pending /\ h.want = d.want
      /\ h.misretried = d.misretried /\ h.inside = d.inside /\ h.deleting = TRUE
      /\ h.freed = d.freed /\ SameErrors(d, h) /\ h.stack = d.stack /\ h.loop = FALSE
  <2>1. d.active \ w \in SUBSET Watchers
    BY DEF Sockets
  <2> QED  BY <1>3, <2>1 DEF Off, Sockets, SameErrors
<1> HIDE DEF h
<1>5. StackFits(h) /\ InsideEnds(h) /\ FreedLast(h) /\ ClosingEnds(h) /\ ~Awaits(h, "closed")
  BY <1>2, <1>4 DEF StackFits, InsideEnds, FreedLast, ClosingEnds, Awaits
<1>6. WatchesHold(h)
  <2>1. h.active \cap ConnectWatchers = {} /\ "reconnectTimer" \notin h.active
        /\ h.active \subseteq d.active
    BY <1>4
  <2>2. ~Runs(h, "closed") /\ ~Runs(h, "rearm") /\ ~Runs(d, "closed")
    BY <1>4 DEF Runs
  <2> QED  BY <1>2, <1>4, <2>1, <2>2 DEF WatchesHold, Held, Secure
<1>7. BuffersKept(h)
  BY <1>4 DEF BuffersKept, Held
<1>8. ErrorHeld(h)
  BY <1>4 DEF ErrorHeld, Held, SameErrors, Awaits
<1>9. Held(h)
  BY <1>4, <1>5, <1>6, <1>7, <1>8 DEF Held
<1>10. "free" \in Frames /\ <<"free">> \in Seq(Frames)
  BY DEF Frames
<1>11. e \in Sockets /\ OnlyStack(h, e) /\ e.stack = <<"free">> \o h.stack
  BY <1>4, <1>10, CallFields
<1> HIDE DEF e
<1>12. Held(e) /\ ~Awaits(e, "closed")
  <2>1. h.stack = <<>> /\ ~h.closing /\ ~h.freed /\ h.deleting
    BY <1>2, <1>4
  <2> QED  BY <1>4, <1>5, <1>9, <1>10, <1>11, <2>1, PushHolds
<1>13. Trying(e)
  BY <1>4, <1>11 DEF Trying, OnlyStack, SameAims
<1>14. Closable(e)
  <2>1. Head(e.stack) = "free"
    BY <1>4, <1>10, <1>11, PushFacts DEF Sockets
  <2> QED  BY <1>2, <1>4, <1>11, <1>12, <2>1 DEF Closable, OnlyStack, SameWatches, SameMode
<1>15. Held(Close(e, FALSE)) /\ Trying(Close(e, FALSE))
  BY <1>11, <1>12, <1>13, <1>14, CloseHolds
<1> QED  BY <1>1, <1>12, <1>13, <1>15

\* A callback of the user returns; a server's connection is then deleted if it was closed.
LEMMA ReturnHolds ==
  ASSUME SocketInv, Return
  PROVE  SocketInv'
<1> DEFINE d == Returned(c)
<1>1. c.stack # <<>> /\ Top \in UserFrames
  BY DEF Return
<1>2. d \in Sockets /\ Held(d) /\ Trying(d)
  <2>1. Top \notin {"shut", "closed", "eventEnd", "rearm"}
    BY <1>1 DEF UserFrames
  <2> QED  BY <1>1, <2>1, PlainReturn
<1>3. /\ OnlyStack(c, d) /\ ~c.freed
      /\ Top \in {"readTimeout", "writeTimeout"} => d.stack = <<>>
      /\ Serving(c) /\ Top = "close" => d.stack = <<>> \/ Head(d.stack) = "free"
  BY <1>1, TopReturns
<1>4. \/ c' = d
      \/ Top = "close" /\ Serving(d) /\ c' = Delete(d)
      \/ Top \in {"readTimeout", "writeTimeout"} /\ c' = Close(d, TRUE)
  BY DEF Return, Becomes
<1> HIDE DEF d
<1>5. ~d.freed /\ (Serving(d) => Serving(c))
  BY <1>3 DEF OnlyStack, SameMode, SameWatches, Serving
<1>6. CASE c' = d
  BY <1>2, <1>6 DEF SocketInv
<1>7. CASE Top = "close" /\ Serving(d) /\ c' = Delete(d)
  <2>1. CASE d.stack = <<>>
    BY <1>2, <1>5, <1>7, <2>1, DeleteHolds DEF SocketInv
  <2>2. CASE d.stack # <<>>
    <3>1. Head(d.stack) = "free"
      BY <1>3, <1>5, <1>7, <2>2
    <3>2. d.stack[1] = "free" /\ 1 \in DOMAIN d.stack
      BY <1>2, <2>2, <3>1, TailFacts DEF Sockets
    <3>3. d.deleting
      BY <1>2, <3>2 DEF Held, StackFits, FrameFits
    <3>4. Delete(d) = d
      BY <3>3 DEF Delete
    <3> QED  BY <1>2, <1>7, <3>4 DEF SocketInv
  <2> QED  BY <2>1, <2>2
<1>8. CASE Top \in {"readTimeout", "writeTimeout"} /\ c' = Close(d, TRUE)
  <2>1. d.stack = <<>> /\ ~d.inside /\ ~d.closing
    BY <1>2, <1>3, <1>8 DEF Held, InsideEnds, ClosingEnds, Runs
  <2> QED  BY <1>2, <1>5, <1>8, <2>1, QuietCloses DEF SocketInv
<1> QED  BY <1>4, <1>6, <1>7, <1>8

\* The user deletes the socket.
LEMMA DeletesHold ==
  ASSUME SocketInv, NEW kind, Deletes(kind)
  PROVE  SocketInv'
<1>1. c \in Sockets /\ Held(c) /\ Trying(c) /\ c.stack = <<>> /\ ~c.freed
  BY IdleQuiet DEF Deletes
<1>2. c' = Delete(c)
  BY DEF Deletes, ByUser
<1>3. Held(c') /\ Trying(c')
  BY <1>1, <1>2, DeleteHolds
<1> QED  BY <1>3 DEF SocketInv

\* The user stops a client.
LEMMA StopsHold ==
  ASSUME SocketInv, NEW kind \in {"tcp", "udp", "ssl"}, Stops(kind)
  PROVE  SocketInv'
<1>1. c \in Sockets /\ Held(c) /\ Closable(c) /\ c.kind = kind
  BY UserClosable DEF Stops
<1> DEFINE w == ConnectWatchers \cup {"reconnectTimer"}
           g == [c EXCEPT !.reconnect = FALSE, !.connecting = FALSE]
           h == Off(g, w)
           e == Call(h, <<"stopped">>)
<1>2. c' = Close(e, FALSE)
  BY DEF Stops, ByUser, Stop
<1>3. /\ g \in Sockets /\ g.kind = c.kind /\ g.fd = c.fd /\ g.active = c.active /\ g.ssl = c.ssl
      /\ g.closing = c.closing /\ g.pending = c.pending /\ g.want = c.want
      /\ g.misretried = c.misretried /\ SameMode(c, g)
      /\ SameErrors(c, g) /\ g.stack = c.stack /\ g.reconnect = FALSE
  BY <1>1 DEF Sockets, SameErrors, SameMode
<1> HIDE DEF g
<1>4. /\ h \in Sockets /\ h.kind = c.kind /\ h.fd = c.fd /\ h.active = c.active \ w
      /\ h.ssl = c.ssl /\ h.closing = c.closing /\ h.pending = c.pending /\ h.want = c.want
      /\ h.misretried = c.misretried /\ SameMode(c, h)
      /\ SameErrors(c, h) /\ h.stack = c.stack /\ h.reconnect = FALSE
  <2>1. c.active \ w \in SUBSET Watchers
    BY <1>1 DEF Sockets
  <2> QED  BY <1>3, <2>1 DEF Off, Sockets, SameErrors, SameMode
<1> HIDE DEF h
<1>5. WatchesHold(h)
  <2>1. h.active \cap ConnectWatchers = {} /\ "reconnectTimer" \notin h.active
        /\ h.active \subseteq c.active
    BY <1>4
  <2>2. /\ Runs(h, "closed") <=> Runs(c, "closed")
        /\ Runs(h, "rearm") <=> Runs(c, "rearm")
    BY <1>4 DEF Runs
  <2> QED  BY <1>1, <1>4, <2>1, <2>2 DEF WatchesHold, Held, Secure, IsClient
<1>6. BuffersKept(h)
  BY <1>1, <1>4 DEF BuffersKept, Held
<1>7. ErrorHeld(h)
  BY <1>1, <1>4 DEF ErrorHeld, Held, SameErrors, SameMode, Awaits
<1>8. Held(h)
  BY <1>1, <1>4, <1>5, <1>6, <1>7, Changed
<1>9. ~h.closing /\ ~h.freed /\ ~Awaits(h, "closed")
  BY <1>1, <1>4 DEF Closable, SameMode, Awaits
<1>10. "stopped" \in Frames /\ <<"stopped">> \in Seq(Frames)
  BY DEF Frames
<1>11. e \in Sockets /\ OnlyStack(h, e) /\ e.stack = <<"stopped">> \o h.stack
  BY <1>4, <1>10, CallFields
<1> HIDE DEF e
<1>12. Held(e) /\ ~Awaits(e, "closed")
  BY <1>4, <1>8, <1>9, <1>10, <1>11, PushHolds
<1>13. Trying(e)
  BY <1>4, <1>11 DEF Trying, OnlyStack, SameAims
<1>14. Closable(e)
  BY <1>1, <1>4, <1>9, <1>11, <1>12 DEF Closable, OnlyStack, SameWatches, SameMode, Serving
<1>15. Held(c') /\ Trying(c')
  BY <1>2, <1>11, <1>12, <1>13, <1>14, CloseHolds
<1> QED  BY <1>15 DEF SocketInv

\* The user closes the connection.
LEMMA UserCloseHolds ==
  ASSUME SocketInv, UserClose
  PROVE  SocketInv'
<1>1. c \in Sockets /\ Held(c) /\ Trying(c) /\ Closable(c)
  BY UserClosable DEF UserClose
<1>2. c' = CloseClient(c)
  BY DEF UserClose, ByUser
<1>3. Held(Close(c, FALSE)) /\ Trying(Close(c, FALSE))
  BY <1>1, CloseHolds
<1>4. Held(c') /\ Trying(c')
  BY <1>1, <1>2, <1>3 DEF CloseClient
<1> QED  BY <1>4 DEF SocketInv

\* A transfer that waits, be it under a timer or, when that cannot be, for the close.
LEMMA WaitingHolds ==
  ASSUME NEW d \in Sockets, Held(d), Trying(d), Closable(d), d.fd,
         NEW timer \in {"readTimer", "writeTimer"}, NEW started \in BOOLEAN
  PROVE  Held(Waiting(d, timer, started)) /\ Trying(Waiting(d, timer, started))
<1> DEFINE e == On(d, {timer})
<1>1. Held(Close(d, TRUE)) /\ Trying(Close(d, TRUE))
  BY CloseHolds
<1>2. /\ e \in Sockets /\ e.kind = d.kind /\ e.fd = d.fd /\ e.active = d.active \cup {timer}
      /\ e.ssl = d.ssl /\ e.closing = d.closing /\ e.connecting = d.connecting
      /\ e.pending = d.pending /\ e.want = d.want /\ e.misretried = d.misretried
      /\ SameMode(d, e) /\ SameErrors(d, e) /\ SameAims(d, e) /\ e.stack = d.stack
  <2>1. d.active \cup {timer} \in SUBSET Watchers
    BY DEF Sockets, Watchers
  <2> QED  BY <2>1 DEF On, Sockets, SameMode, SameErrors, SameAims
<1> HIDE DEF e
<1>3. /\ "io" \in e.active <=> "io" \in d.active
      /\ "reconnectTimer" \in e.active <=> "reconnectTimer" \in d.active
      /\ e.active \cap ConnectWatchers = d.active \cap ConnectWatchers
      /\ ConnectWatchers \subseteq d.active => ConnectWatchers \subseteq e.active
  BY <1>2 DEF ConnectWatchers
<1>4. WatchesHold(e)
  BY <1>2, <1>3 DEF WatchesHold, Held, IsClient, Secure, Runs
<1>5. BuffersKept(e)
  BY <1>2 DEF BuffersKept, Held
<1>6. ErrorHeld(e)
  BY <1>2, <1>3 DEF ErrorHeld, Held, SameErrors, SameMode, Awaits
<1>7. Held(e)
  BY <1>2, <1>4, <1>5, <1>6, Changed
<1>8. Trying(e)
  BY <1>2, <1>3 DEF Trying, SameMode, SameAims, IsClient, Awaits, Runs
<1> QED  BY <1>1, <1>7, <1>8 DEF Waiting, e

\* The user reads or writes.
LEMMA TransferHolds ==
  ASSUME SocketInv, Transfer
  PROVE  SocketInv'
<1>1. c \in Sockets /\ Held(c) /\ Trying(c) /\ Closable(c)
  BY UserClosable DEF Transfer
<1>2. c.fd
  BY <1>1 DEF Transfer, Held, WatchesHold, ConnectWatchers
<1>3. ASSUME NEW return, NEW timer \in {"readTimer", "writeTimer"}, NEW started \in BOOLEAN
      PROVE  Held(Settled(c, return, timer, started)) /\ Trying(Settled(c, return, timer, started))
  <2>1. Held(Close(c, TRUE)) /\ Trying(Close(c, TRUE))
    BY <1>1, CloseHolds
  <2>2. Held(Waiting(c, timer, started)) /\ Trying(Waiting(c, timer, started))
    BY <1>1, <1>2, WaitingHolds
  <2> QED  BY <1>1, <2>1, <2>2 DEF Settled
<1>4. PICK outcome \in DOMAIN Took, started \in BOOLEAN :
        c' \in {Read(c, outcome, started), ReadFrom(c, outcome, started),
               ReadSplice(c, outcome, started), Write(c, outcome, started),
               WriteTo(c, outcome, started), WriteSplice(c, outcome, started)}
  BY DEF Transfer, ByUser
<1>5. /\ Held(Read(c, outcome, started)) /\ Trying(Read(c, outcome, started))
      /\ Held(ReadFrom(c, outcome, started)) /\ Trying(ReadFrom(c, outcome, started))
      /\ Held(ReadSplice(c, outcome, started)) /\ Trying(ReadSplice(c, outcome, started))
  BY <1>3 DEF Read, ReadFrom, ReadSplice
<1>6. /\ Held(Write(c, outcome, started)) /\ Trying(Write(c, outcome, started))
      /\ Held(WriteTo(c, outcome, started)) /\ Trying(WriteTo(c, outcome, started))
      /\ Held(WriteSplice(c, outcome, started)) /\ Trying(WriteSplice(c, outcome, started))
  BY <1>3 DEF Write, WriteTo, WriteSplice
<1>7. Held(c') /\ Trying(c')
  BY <1>4, <1>5, <1>6
<1> QED  BY <1>7 DEF SocketInv

\* One call of OpenSSL with the buffer that waits, or when none does: it is put off
\* and its buffer kept, or neither.
LEMMA SessionCallHolds ==
  ASSUME NEW d \in Sockets, NEW e \in Sockets, Held(d), Trying(d), Closable(d), d.ssl,
         NEW w \in {"read", "write"}, NEW buffer \in Buffers,
         d.pending[w] \in {NoBuffer, buffer},
         e.misretried <=> d.misretried \/ d.want[w] \notin {NoBuffer, buffer},
         e.want[w] \in {NoBuffer, e.pending[w]},
         \A r \in {"read", "write"} : r # w => e.want[r] = d.want[r] /\ e.pending[r] = d.pending[r],
         SameMode(d, e), SameAims(d, e), SameErrors(d, e), e.stack = d.stack,
         e.active = d.active, e.kind = d.kind, e.fd = d.fd, e.ssl = d.ssl,
         e.connecting = d.connecting, e.closing = d.closing
  PROVE  Held(e) /\ Trying(e) /\ Closable(e)
<1>1. /\ ~d.misretried
      /\ \A r \in {"read", "write"} : d.want[r] \in {NoBuffer, d.pending[r]}
  BY DEF Held, BuffersKept
<1>2. WatchesHold(e)
  BY DEF WatchesHold, Held, IsClient, Secure, Runs
<1>3. BuffersKept(e)
  BY <1>1 DEF BuffersKept
<1>4. ErrorHeld(e)
  BY DEF ErrorHeld, Held, SameErrors, SameMode, Awaits
<1>5. Held(e)
  BY <1>2, <1>3, <1>4, Changed
<1>6. Trying(e)
  BY DEF Trying, SameMode, SameAims, IsClient, Awaits, Runs
<1>7. Closable(e)
  BY DEF Closable, SameMode, Serving, Awaits
<1> QED  BY <1>5, <1>6, <1>7

\* The outcome of that call, whatever it is, keeps the invariant.
LEMMA SSLTransferHolds ==
  ASSUME NEW d \in Sockets, Held(d), Trying(d), Closable(d), d.ssl,
         NEW w \in {"read", "write"}, NEW buffer \in Buffers, NEW started \in BOOLEAN,
         NEW outcome \in {"some", "wantRead", "wantWrite", "end", "fail"}
  PROVE  /\ Held(SSLTransfer(d, w, buffer, outcome, started))
         /\ Trying(SSLTransfer(d, w, buffer, outcome, started))
<1> DEFINE called == SessionCalled(d, w, buffer, outcome)
           kept == [called EXCEPT !.pending[w] = buffer]
           done == [called EXCEPT !.pending[w] = NoBuffer]
           put == IF outcome \in {"wantRead", "wantWrite"} THEN buffer ELSE NoBuffer
           bad == d.misretried \/ d.want[w] \notin {NoBuffer, buffer}
           want == [d.want EXCEPT ![w] = put]
<1>1. /\ SSLTransfer(d, w, buffer, outcome, started) =
            IF d.pending[w] \notin {NoBuffer, buffer} THEN d
            ELSE CASE outcome = "some" -> done
                   [] outcome = "wantRead" -> Waiting(kept, "readTimer", started)
                   [] outcome = "wantWrite" -> Waiting(kept, "writeTimer", started)
                   [] OTHER -> IF SSLError[outcome] = "NotReady" THEN called
                               ELSE Close(called, TRUE)
  BY DEF SSLTransfer
<1>2. /\ d.pending \in Waits /\ d.want \in Waits /\ d.fd
      /\ put \in Buffers \cup {NoBuffer} /\ bad \in BOOLEAN
      /\ \A r \in {"read", "write"} : d.want[r] \in {NoBuffer, d.pending[r]}
  BY DEF Held, Sockets, WatchesHold, BuffersKept
<1>3. /\ want \in Waits /\ want[w] = put
      /\ \A r \in {"read", "write"} : r # w => want[r] = d.want[r]
  <2> HIDE DEF put
  <2> QED  BY <1>2 DEF Waits
<1>4. called = [d EXCEPT !.misretried = bad, !.want = want]
  BY DEF SessionCalled
<1> HIDE DEF called, put, bad, want
<1>5. /\ called \in Sockets /\ SameMode(d, called) /\ SameAims(d, called) /\ SameErrors(d, called)
      /\ called.stack = d.stack /\ called.active = d.active /\ called.kind = d.kind
      /\ called.fd = d.fd /\ called.ssl = d.ssl /\ called.connecting = d.connecting
      /\ called.closing = d.closing /\ called.misretried = bad /\ called.want = want
      /\ called.pending = d.pending
  BY <1>2, <1>3, <1>4 DEF Sockets, SameMode, SameAims, SameErrors
<1>6. ASSUME NEW b \in {NoBuffer, buffer}, put \in {NoBuffer, b}, d.pending[w] \in {NoBuffer, buffer}
      PROVE  LET e == [called EXCEPT !.pending[w] = b]
             IN  e \in Sockets /\ Held(e) /\ Trying(e) /\ Closable(e) /\ e.fd
  <2> DEFINE pending == [d.pending EXCEPT ![w] = b]
             e == [called EXCEPT !.pending = pending]
  <2>1. /\ pending \in Waits /\ pending[w] = b
        /\ \A r \in {"read", "write"} : r # w => pending[r] = d.pending[r]
    BY <1>2 DEF Waits
  <2>2. [called EXCEPT !.pending[w] = b] = e
    BY <1>5
  <2> HIDE DEF pending
  <2>3. /\ e \in Sockets /\ SameMode(d, e) /\ SameAims(d, e) /\ SameErrors(d, e)
        /\ e.stack = d.stack /\ e.active = d.active /\ e.kind = d.kind
        /\ e.fd = d.fd /\ e.ssl = d.ssl /\ e.connecting = d.connecting
        /\ e.closing = d.closing /\ e.misretried = bad /\ e.want = want
        /\ e.pending = pending
    BY <1>5, <2>1 DEF Sockets, SameMode, SameAims, SameErrors
  <2> HIDE DEF e
  <2>4. Held(e) /\ Trying(e) /\ Closable(e)
    BY <1>3, <1>6, <2>1, <2>3, SessionCallHolds DEF bad
  <2> QED  BY <1>2, <2>2, <2>3, <2>4
<1>7. ASSUME put = NoBuffer, d.pending[w] \in {NoBuffer, buffer}
      PROVE  Held(called) /\ Trying(called) /\ Closable(called)
  BY <1>3, <1>5, <1>7, SessionCallHolds DEF bad
<1>8. CASE d.pending[w] \notin {NoBuffer, buffer}
  BY <1>1, <1>8
<1>9. CASE d.pending[w] \in {NoBuffer, buffer}
  <2>1. CASE outcome = "some"
    <3>1. put = NoBuffer
      BY <2>1 DEF put
    <3>2. Held(done) /\ Trying(done)
      BY <1>6, <1>9, <3>1
    <3> QED  BY <1>1, <1>9, <2>1, <3>2
  <2>2. CASE outcome \in {"wantRead", "wantWrite"}
    <3>1. put = buffer
      BY <2>2 DEF put
    <3>2. kept \in Sockets /\ Held(kept) /\ Trying(kept) /\ Closable(kept) /\ kept.fd
      BY <1>6, <1>9, <3>1
    <3> HIDE DEF kept
    <3>3. \A timer \in {"readTimer", "writeTimer"} :
            Held(Waiting(kept, timer, started)) /\ Trying(Waiting(kept, timer, started))
      BY <3>2, WaitingHolds
    <3> QED  BY <1>1, <1>9, <2>2, <3>3
  <2>3. CASE outcome \in {"end", "fail"}
    <3>1. put = NoBuffer
      BY <2>3 DEF put
    <3>2. Held(called) /\ Trying(called) /\ Closable(called)
      BY <1>7, <1>9, <3>1
    <3>3. Held(Close(called, TRUE)) /\ Trying(Close(called, TRUE))
      BY <1>5, <3>2, CloseHolds
    <3> QED  BY <1>1, <1>9, <2>3, <3>2, <3>3
  <2> QED  BY <2>1, <2>2, <2>3
<1> QED  BY <1>8, <1>9

\* The user reads or writes over SSL.
LEMMA SecureTransferHolds ==
  ASSUME SocketInv, SecureTransfer
  PROVE  SocketInv'
<1>1. c \in Sockets /\ Held(c) /\ Trying(c) /\ Closable(c)
  BY UserClosable DEF SecureTransfer
<1>2. c.ssl
  BY <1>1 DEF SecureTransfer, Held, WatchesHold
<1>3. PICK buffer \in Buffers, outcome \in {"some", "wantRead", "wantWrite", "end", "fail"},
           started \in BOOLEAN, w \in {"read", "write"} :
        c' = SSLTransfer(c, w, buffer, outcome, started)
  BY DEF SecureTransfer, ByUser, SSLRead, SSLWrite
<1>4. Held(c') /\ Trying(c')
  BY <1>1, <1>2, <1>3, SSLTransferHolds
<1> QED  BY <1>4 DEF SocketInv

\* A server's connection that is made keeps the invariant, and so it does once it is watched.
LEMMA ServesHold ==
  ASSUME SocketInv, Idle, c.active = {}, ~c.fd, NEW d \in Sockets, NEW s \in BOOLEAN,
         ~IsClient(c), d = [c EXCEPT !.fd = TRUE, !.ssl = s]
  PROVE  /\ Held(d) /\ Trying(d) /\ d.stack = <<>> /\ ~d.freed
         /\ (Secure(c) => s) => Held(Start(d)) /\ Trying(Start(d))
<1>1. /\ c \in Sockets /\ Held(c)
      /\ c.stack = <<>> /\ ~c.inside /\ ~c.closing /\ ~c.freed
  BY IdleQuiet
<1>2. /\ SameMode(c, d) /\ SameAims(c, d) /\ SameErrors(c, d) /\ d.stack = c.stack
      /\ d.kind = c.kind /\ d.fd /\ d.ssl = s /\ d.active = {} /\ d.closing = c.closing
      /\ d.pending = c.pending /\ d.want = c.want /\ d.misretried = c.misretried
  BY <1>1 DEF Sockets, SameMode, SameAims, SameErrors
<1>3. ~c.ssl
  BY <1>1 DEF Held, WatchesHold
<1>4. WatchesHold(d)
  BY <1>1, <1>2 DEF WatchesHold, Runs
<1>5. BuffersKept(d)
  BY <1>1, <1>2, <1>3 DEF BuffersKept, Held
<1>6. ErrorHeld(d)
  BY <1>1, <1>2 DEF ErrorHeld, Held, SameErrors
<1>7. Held(d)
  BY <1>1, <1>2, <1>4, <1>5, <1>6, Changed
<1>8. Trying(d)
  BY <1>2 DEF Trying, IsClient
<1>9. (Secure(c) => s) => Held(Start(d)) /\ Trying(Start(d))
  <2>1. ~d.freed /\ ~d.closing
    BY <1>1, <1>2 DEF SameMode
  <2>2. Secure(d) <=> Secure(c)
    BY <1>2 DEF Secure
  <2> QED  BY <1>2, <1>7, <2>1, <2>2, StartHolds
<1> QED  BY <1>1, <1>2, <1>7, <1>8, <1>9 DEF SameMode

-----------------------------------------------------------------------------
(* Servers                                                                   *)

\* A server's connection that is not open is not watched.
LEMMA ServerRests ==
  ASSUME SocketInv, Idle, ~IsClient(c), ~c.fd
  PROVE  c.active = {} /\ ~c.ssl
<1>1. c \in Sockets /\ WatchesHold(c) /\ c.stack = <<>>
  BY IdleQuiet DEF Held
<1>2. c.active \subseteq {"reconnectTimer"}
  BY <1>1 DEF WatchesHold, Runs
<1>3. "reconnectTimer" \notin c.active
  BY <1>1 DEF WatchesHold
<1>4. ~c.ssl
  BY <1>1 DEF WatchesHold
<1> QED  BY <1>2, <1>3, <1>4

\* The callback of the acceptor's descriptor.
LEMMA AcceptsHold ==
  ASSUME SocketInv, NEW kind \in {"tcpServer", "sslServer"}, Accepts(kind)
  PROVE  SocketInv'
<1> DEFINE d == [c EXCEPT !.fd = TRUE, !.ssl = Secure(c)]
<1>1. Idle /\ c = NewSocket(kind)
  BY DEF Accepts
<1>2. c.kind = kind /\ ~c.fd
  BY <1>1 DEF NewSocket, Fresh
<1>3. ~IsClient(c)
  BY <1>2 DEF IsClient
<1>4. c.active = {}
  BY <1>1, <1>2, <1>3, ServerRests
<1>5. c \in Sockets
  BY DEF SocketInv, Held
<1>6. Secure(c) \in BOOLEAN
  BY DEF Secure
<1>7. d \in Sockets
  BY <1>5, <1>6 DEF Sockets
<1>8. c' = Start(d) \/ c' = Delete(d)
  BY DEF Accepts, Becomes
<1>9. /\ Held(d) /\ Trying(d) /\ d.stack = <<>> /\ ~d.freed
      /\ Held(Start(d)) /\ Trying(Start(d))
  BY <1>1, <1>2, <1>3, <1>4, <1>6, <1>7, ServesHold
<1> HIDE DEF d
<1>10. Held(Delete(d)) /\ Trying(Delete(d))
  BY <1>7, <1>9, DeleteHolds
<1>11. Held(c') /\ Trying(c')
  BY <1>8, <1>9, <1>10
<1> QED  BY <1>11 DEF SocketInv

\* The start of a datagram server.
LEMMA UDPServerStartHolds ==
  ASSUME SocketInv, UDPServerStart
  PROVE  SocketInv'
<1> DEFINE d == [c EXCEPT !.fd = TRUE]
           e == [c EXCEPT !.fd = TRUE, !.ssl = FALSE]
<1>1. /\ Idle /\ c.kind = "udpServer" /\ ~c.fd
      /\ c' = Start(d) \/ c' = Call(c, <<"error">>)
  BY DEF UDPServerStart, ByUser
<1>2. /\ c \in Sockets /\ Held(c) /\ Trying(c)
      /\ c.stack = <<>> /\ ~c.inside /\ ~c.closing /\ ~c.freed
  BY <1>1, IdleQuiet
<1>3. ~IsClient(c) /\ ~Secure(c)
  BY <1>1 DEF IsClient, Secure
<1>4. c.active = {} /\ c.ssl = FALSE
  BY <1>1, <1>2, <1>3, ServerRests DEF Sockets
<1>5. d = e /\ e \in Sockets
  BY <1>2, <1>4 DEF Sockets
<1>6. Held(Start(e)) /\ Trying(Start(e))
  BY <1>1, <1>3, <1>4, <1>5, ServesHold
<1>7. Held(Call(c, <<"error">>)) /\ Trying(Call(c, <<"error">>))
  BY <1>2, FirstCall
<1> HIDE DEF d, e
<1>8. Held(c') /\ Trying(c')
  BY <1>1, <1>5, <1>6, <1>7
<1> QED  BY <1>8 DEF SocketInv

-----------------------------------------------------------------------------
(* The invariant                                                             *)

\* A socket no one started.
LEMMA InitHolds ==
  ASSUME Init
  PROVE  SocketInv
<1>1. PICK kind \in Kinds : c = NewSocket(kind)
  BY DEF Init
<1>2. kind \in {"tcp", "udp", "ssl", "udpServer", "tcpServer", "sslServer"}
  BY <1>1, NetClientAssumption
<1> DEFINE never == [w \in {"read", "write"} |-> NoBuffer]
           f == [kind |-> kind, fd |-> FALSE, active |-> {}, loop |-> FALSE,
                 reconnect |-> TRUE, connecting |-> FALSE, closing |-> FALSE,
                 inside |-> FALSE, deleting |-> FALSE, freed |-> FALSE,
                 lastError |-> FALSE, ssl |-> FALSE, pending |-> never, want |-> never,
                 stack |-> <<>>, lost |-> FALSE, dropped |-> FALSE, misretried |-> FALSE]
<1>3. f \in Sockets /\ Fresh(kind) = f
  <2>1. never \in Waits
    BY DEF Waits
  <2>2. Fresh(kind) = f
    BY Zenon DEF Fresh
  <2> HIDE DEF never
  <2> QED  BY <2>1, <2>2 DEF Sockets
<1>4. c = f
  <2>1. f.reconnect = TRUE
    OBVIOUS
  <2> HIDE DEF f
  <2>2. [f EXCEPT !.reconnect = TRUE] = f
    BY <1>3, <2>1 DEF Sockets
  <2> QED
    BY <1>1, <1>2, <1>3, <2>2 DEF NewSocket, TCPClientInit, UDPClientInit, SSLClientInit
<1>5. /\ ~c.fd /\ c.active = {} /\ ~c.loop /\ ~c.closing /\ ~c.inside /\ ~c.freed /\ ~c.ssl
      /\ ~c.lost /\ ~c.lastError /\ ~c.misretried /\ c.stack = <<>>
      /\ \A w \in {"read", "write"} : c.pending[w] = NoBuffer /\ c.want[w] = NoBuffer
  BY <1>4
<1>6. StackFits(c) /\ InsideEnds(c) /\ FreedLast(c) /\ ClosingEnds(c)
  BY <1>5 DEF StackFits, InsideEnds, FreedLast, ClosingEnds
<1>7. WatchesHold(c)
  BY <1>5 DEF WatchesHold, Runs
<1>8. BuffersKept(c) /\ ErrorHeld(c) /\ Trying(c)
  BY <1>5 DEF BuffersKept, ErrorHeld, Trying
<1> QED  BY <1>3, <1>4, <1>6, <1>7, <1>8 DEF SocketInv, Held

\* Every step keeps the invariant.
LEMMA NextHolds ==
  ASSUME SocketInv, [Next]_netVars
  PROVE  SocketInv'
<1>1. CASE TCPClientStart
  BY <1>1, StartsHolds DEF TCPClientStart
<1>2. CASE UDPClientStart
  BY <1>2, StartsHolds DEF UDPClientStart
<1>3. CASE SSLClientStart
  BY <1>3, StartsHolds DEF SSLClientStart
<1>4. CASE TCPReconnectTimer
  BY <1>4, ReconnectsHolds DEF TCPReconnectTimer
<1>5. CASE UDPReconnectTimer
  BY <1>5, ReconnectsHolds DEF UDPReconnectTimer
<1>6. CASE SSLReconnectTimer
  BY <1>6, ReconnectsHolds DEF SSLReconnectTimer
<1>7. CASE ConnectTimer
  BY <1>7, ConnectTimerHolds
<1>8. CASE TCPConnectEvent
  BY <1>8, ConnectEndsHolds DEF TCPConnectEvent
<1>9. CASE SSLConnectEvent
  BY <1>9, ConnectEndsHolds DEF SSLConnectEvent
<1>10. CASE TCPServerAcceptorStart \/ SSLServerAcceptorStart \/ AcceptorStop
  BY <1>10 DEF TCPServerAcceptorStart, SSLServerAcceptorStart, Listens, AcceptorStop, SocketInv
<1>11. CASE TCPAcceptEvent
  BY <1>11, AcceptsHold DEF TCPAcceptEvent
<1>12. CASE SSLAcceptEvent
  BY <1>12, AcceptsHold DEF SSLAcceptEvent
<1>13. CASE UDPServerStart
  BY <1>13, UDPServerStartHolds
<1>14. CASE IOReady
  BY <1>14, IOReadyHolds
<1>15. CASE TimeOut
  BY <1>15, TimeOutHolds
<1>16. CASE Step
  BY <1>16, StepHolds
<1>17. CASE Return
  BY <1>17, ReturnHolds
<1>18. CASE Transfer
  BY <1>18, TransferHolds
<1>19. CASE SecureTransfer
  BY <1>19, SecureTransferHolds
<1>20. CASE UserClose
  BY <1>20, UserCloseHolds
<1>21. CASE TCPClientStop \/ UDPClientStop \/ SSLClientStop
  BY <1>21, StopsHold DEF TCPClientStop, UDPClientStop, SSLClientStop
<1>22. CASE TCPClientDelete \/ UDPClientDelete \/ SSLClientDelete \/ SocketIODelete
  BY <1>22, DeletesHold
     DEF TCPClientDelete, UDPClientDelete, SSLClientDelete, SocketIODelete
<1>23. CASE UNCHANGED netVars
  BY <1>23 DEF netVars, SocketInv
<1> QED
  BY <1>1, <1>2, <1>3, <1>4, <1>5, <1>6, <1>7, <1>8, <1>9, <1>10, <1>11, <1>12, <1>13,
     <1>14, <1>15, <1>16, <1>17, <1>18, <1>19, <1>20, <1>21, <1>22, <1>23 DEF Next

\* The invariant of a socket and of the calls that run on it, for every kind of client and
\* server and however many calls the user makes: the frames on the stack are in an order in
\* which they can return, only what is there is watched, buffers wait only for the session that
\* put them off, an error is noted until it is acted on, and a client that is to reconnect is
\* connected, connecting, waiting for its timer or closing.
THEOREM SocketInvariance == Spec => []SocketInv
<1>1. Init => SocketInv
  BY InitHolds
<1>2. SocketInv /\ [Next]_netVars => SocketInv'
  BY NextHolds
<1> QED  BY <1>1, <1>2, PTL DEF Spec

-----------------------------------------------------------------------------
(* What follows from it                                                      *)

\* Between events a client that is to reconnect (swTCPClientStart to swTCPClientStop, and the
\* same for UDP and SSL) is connected and watched, connecting under a timer, or waits for the
\* timer of its next try, and what has no descriptor is not watched.
THEOREM TriesGoOn == Spec => []KeepsTrying
<1>1. SocketInv => KeepsTrying
  <2> SUFFICES ASSUME SocketInv PROVE KeepsTrying
    OBVIOUS
  <2>1. ASSUME Idle
        PROVE  /\ IsClient(c) /\ c.loop /\ c.reconnect =>
                    \/ c.fd /\ "io" \in c.active
                    \/ c.fd /\ c.connecting /\ ConnectWatchers \subseteq c.active
                    \/ "reconnectTimer" \in c.active
               /\ ~c.fd => c.active \subseteq {"reconnectTimer"}
    <3>1. Held(c) /\ Trying(c) /\ c.stack = <<>> /\ ~c.closing /\ ~c.freed
      BY <2>1, IdleQuiet
    <3>2. ~Awaits(c, "shut") /\ ~Runs(c, "closed")
      BY <3>1 DEF Awaits, Runs
    <3> QED  BY <3>1, <3>2 DEF Held, Trying, WatchesHold
  <2>2. c.freed => c.stack = <<>>
    BY DEF SocketInv, Held, FreedLast
  <2>3. c.freed => \A i \in DOMAIN c.stack : c.stack[i] \in UserFrames
    BY <2>2
  <2> QED  BY <2>1, <2>3 DEF KeepsTrying
<1> QED  BY <1>1, SocketInvariance, PTL

\* An error noted inside a callback (lastError, src/io/socket-io.c) has closed the connection
\* before the next event, unless the user then closed without one, and no connection starts
\* with the error of the one before.
THEOREM LossesActedOn == Spec => []LossActedOn
<1>1. SocketInv => LossActedOn
  <2> SUFFICES ASSUME SocketInv, Idle, "io" \in c.active
               PROVE  ~c.lastError /\ (c.lost => c.dropped)
    BY DEF LossActedOn
  <2>1. ErrorHeld(c) /\ c.stack = <<>> /\ ~c.inside
    BY IdleQuiet DEF Held
  <2>2. ~Awaits(c, "shut")
    BY <2>1 DEF Awaits
  <2> QED  BY <2>1, <2>2 DEF ErrorHeld
<1> QED  BY <1>1, SocketInvariance, PTL

\* OpenSSL is called again with the buffer it put off, and with no buffer of an earlier session.
THEOREM BuffersRetried == Spec => []SameBuffer
<1>1. SocketInv => SameBuffer
  <2> SUFFICES ASSUME SocketInv PROVE SameBuffer
    OBVIOUS
  <2>1. c \in Sockets /\ BuffersKept(c)
    BY DEF SocketInv, Held
  <2>2. DOMAIN c.pending = {"read", "write"}
    BY <2>1 DEF Sockets, Waits
  <2> QED  BY <2>1, <2>2 DEF SameBuffer, BuffersKept
<1> QED  BY <1>1, SocketInvariance, PTL
=============================================================================
