-------------------------- MODULE HostedSweepProofs --------------------------
(***************************************************************************)
(* What holds of a sweep from end to end, for every set of sweeps, number  *)
(* of frequencies and size of the pipes.                                   *)
(***************************************************************************)
EXTENDS HostedSweep, TLAPS

USE HostedAssumption

-----------------------------------------------------------------------------
(* Sequences of frames and orders.                                         *)
LEMMA Took ==
  ASSUME NEW T, NEW q \in Seq(T), q # <<>>
  PROVE  /\ Len(q) \in Nat \ {0} /\ DOMAIN q = 1 .. Len(q)
         /\ Head(q) = q[1] /\ Head(q) \in T
         /\ Tail(q) \in Seq(T) /\ Len(Tail(q)) = Len(q) - 1
         /\ DOMAIN Tail(q) = 1 .. Len(q) - 1
         /\ \A i \in 1 .. Len(q) - 1 : Tail(q)[i] = q[i + 1]
  OBVIOUS

LEMMA OnlyOne ==
  ASSUME NEW T, NEW q \in Seq(T), Len(q) = 1
  PROVE  Tail(q) = <<>>
  <1>1. q # <<>>
    OBVIOUS
  <1>2. Tail(q) \in Seq(T) /\ Len(Tail(q)) = 0
    BY <1>1, Took
  <1> DEFINE r == Tail(q)
  <1>3. r \in Seq(T) /\ Len(r) = 0
    BY <1>2
  <1> HIDE DEF r
  <1>4. r = <<>>
    BY <1>3
  <1> QED BY <1>4 DEF r

LEMMA Added ==
  ASSUME NEW T, NEW q \in Seq(T), NEW e \in T
  PROVE  /\ Append(q, e) \in Seq(T) /\ Len(q) \in Nat
         /\ DOMAIN q = 1 .. Len(q) /\ DOMAIN Append(q, e) = 1 .. Len(q) + 1
         /\ \A i \in 1 .. Len(q) : Append(q, e)[i] = q[i]
         /\ Append(q, e)[Len(q) + 1] = e
  OBVIOUS

LEMMA FrameTyped ==
  ASSUME NEW s \in Sweeps, NEW n \in 0 .. Total,
         NEW kind \in Terminal \cup {"initialized", "result", "retired", "shutdown_ok"}
  PROVE  Frame(s, kind, n) \in Frames
  BY DEF Frame, Frames

LEMMA ZeroTyped == 0 \in 0 .. Total
  OBVIOUS

-----------------------------------------------------------------------------
(* Types, and what a sweep, the stop and a thread of the host have by the  *)
(* place where they are.                                                   *)
Early == {"idle", "queued", "connecting"}
Ending == {"retiring", "hearing", "leaving"}
Busy == {"queued", "forwarding"}

ClientOK ==
  /\ at \in [Sweeps -> Reading \cup Over \cup Early \cup Ending]
  /\ outcome \in [Sweeps -> Over \cup {None}]
  /\ line \in [Sweeps -> Sweeps \cup {None}]
  /\ \A s \in Sweeps : /\ at[s] \in Early \cup Reading => outcome[s] = None
                       /\ at[s] \in Ending => outcome[s] \in Over
                       /\ at[s] \in Reading \cup {"retiring", "hearing"} => line[s] # None

WorkerOK ==
  /\ holder \in Sweeps \cup {None} /\ closed \in BOOLEAN
  /\ connection \in Sweeps \cup {None} /\ shut \subseteq Sweeps
  /\ cancelFiles \subseteq Sweeps
  /\ stop \in {"up", "refusing", "hearing", "stopped"}
  /\ asked \in Sweeps \cup {None}
  /\ stop = "hearing" => asked # None

FramesOK == got \in [Sweeps -> Seq(Frames)] /\ down \in [Sweeps -> Seq(Frames)]

OrdersOK == up \in [Sweeps -> Seq(Orders)]

HostOK ==
  /\ alive \in BOOLEAN
  /\ serving \in [Sweeps -> {"reading", "queued", "forwarding", "gone"}]
  /\ serves \in [Sweeps -> Sweeps \cup {None}]
  /\ \A c \in Sweeps : serving[c] \in Busy => serves[c] # None

EngineOK ==
  /\ inbox \in Seq(Sweeps) /\ pipe \in Seq(Frames)
  /\ job \in Sweeps \cup {None} /\ done \in 0 .. Total

Typed == ClientOK /\ WorkerOK /\ FramesOK /\ OrdersOK /\ HostOK /\ EngineOK

LEMMA InitTyped == Init => Typed
  <1> SUFFICES ASSUME Init PROVE Typed
    OBVIOUS
  <1> USE DEF Init, Reading, Early, Ending, Busy
  <1>1. ClientOK
    BY DEF ClientOK
  <1>2. WorkerOK /\ HostOK
    BY DEF WorkerOK, HostOK
  <1>3. FramesOK /\ OrdersOK /\ EngineOK
    BY DEF FramesOK, OrdersOK, EngineOK
  <1> QED BY <1>1, <1>2, <1>3 DEF Typed

(* The reading thread: what it has read, and what that makes of it.        *)
LEMMA ReadEffect ==
  ASSUME Typed, NEW s \in Sweeps, Read(s)
  PROVE  /\ line[s] \in Sweeps /\ line[s] # None
         /\ down[line[s]] \in Seq(Frames) /\ down[line[s]] # <<>>
         /\ Head(down[line[s]]) \in Frames
         /\ \/ UNCHANGED <<at, outcome>>
            \/ at[s] = "awaiting" /\ Goto(s, "solving") /\ UNCHANGED outcome
            \/ \E how \in Over, finished, failed \in BOOLEAN : Close(s, how, finished, failed)
         /\ \/ UNCHANGED got
            \/ got' = [got EXCEPT ![s] = Append(@, Head(down[line[s]]))]
         /\ cancelFiles' \in {cancelFiles, cancelFiles \cup {s}}
  <1> DEFINE frame == Head(down[line[s]])
  <1>1. /\ line[s] \in Sweeps /\ line[s] # None
        /\ down[line[s]] \in Seq(Frames) /\ down[line[s]] # <<>>
    BY DEF Read, Reading, Typed, ClientOK, FramesOK
  <1>2. frame \in Frames
    BY <1>1, Took
  <1> HIDE DEF frame
  <1>3. CASE ReadStart(s, frame)
    <2>1. frame.kind = "initialized" => Goto(s, "solving") /\ UNCHANGED <<outcome, cancelFiles>>
      BY <1>3 DEF ReadStart, Terminal
    <2>2. frame.kind \in Terminal => Close(s, "raised", TRUE, frame.kind = "failed")
      BY <1>3 DEF ReadStart, Terminal
    <2>3. frame.kind # "initialized" /\ frame.kind \notin Terminal
          => UNCHANGED <<at, outcome, cancelFiles>>
      BY <1>3 DEF ReadStart, Terminal
    <2>4. at[s] = "awaiting" /\ UNCHANGED got
      BY <1>3 DEF ReadStart
    <2> QED BY <1>1, <1>2, <2>1, <2>2, <2>3, <2>4 DEF frame, Close, Over
  <1>4. CASE ReadSolve(s, frame)
    <2>1. CASE frame.kind = "result"
      <3>1. Keep(s, frame)
        BY <1>4, <2>1 DEF ReadSolve, Terminal
      <3> QED BY <1>1, <1>2, <3>1 DEF frame, Keep, Report, Close, Over
    <2>2. CASE frame.kind \in Terminal
      <3>1. Finish(s, frame.kind)
        BY <1>4, <2>2 DEF ReadSolve, Terminal
      <3> QED BY <1>1, <1>2, <3>1 DEF frame, Finish, Close, Over
    <2>3. CASE frame.kind # "result" /\ frame.kind \notin Terminal
      BY <1>1, <1>2, <1>4, <2>3 DEF frame, ReadSolve
    <2> QED BY <2>1, <2>2, <2>3
  <1> QED BY <1>3, <1>4 DEF Read, frame

(* One more order on a connection.                                         *)
LEMMA SentTyped ==
  ASSUME Typed, NEW c \in Sweeps, NEW op \in {"submit", "retire", "shutdown"},
         NEW s \in Sweeps, Send(c, op, s)
  PROVE  OrdersOK'
  <1> DEFINE order == [op |-> op, of |-> s]
  <1>1. order \in Orders
    BY DEF Orders
  <1>2. up[c] \in Seq(Orders) /\ up' = [up EXCEPT ![c] = Append(@, order)]
    BY DEF Send, Typed, OrdersOK
  <1> HIDE DEF order
  <1>3. Append(up[c], order) \in Seq(Orders)
    BY <1>1, <1>2
  <1> QED BY <1>2, <1>3 DEF Typed, OrdersOK

(* One lemma for each of the actors: what its steps do to the types.       *)
LEMMA ClientTyped ==
  ASSUME Typed, NEW s \in Sweeps, Call(s) \/ SweepStep(s)
  PROVE  Typed'
  <1> USE DEF Goto, stopVars, hostVars, engineVars
  <1>1. CASE Call(s) \/ Acquire(s) \/ Refused(s)
    <2> USE <1>1 DEF Typed, Call, Acquire, Refused
    <2>1. ClientOK'
      BY DEF ClientOK, Early, Ending, Reading, Over
    <2>2. WorkerOK'
      BY DEF WorkerOK
    <2>3. FramesOK' /\ OrdersOK' /\ HostOK' /\ EngineOK'
      BY DEF FramesOK, OrdersOK, HostOK, EngineOK
    <2> QED BY <2>1, <2>2, <2>3
  <1>2. CASE Connect(s)
    <2> USE <1>2 DEF Typed, Connect
    <2>1. line' \in [Sweeps -> Sweeps \cup {None}] /\ connection' \in Sweeps \cup {None}
          /\ (\A t \in Sweeps : line[t] # None => line'[t] # None)
      BY DEF ClientOK, WorkerOK
    <2>2. ClientOK'
      BY <2>1 DEF ClientOK
    <2>3. WorkerOK'
      BY <2>1 DEF WorkerOK
    <2>4. HostOK'
      BY DEF HostOK, Busy
    <2>5. FramesOK' /\ OrdersOK' /\ EngineOK'
      BY DEF FramesOK, OrdersOK, EngineOK
    <2> QED BY <2>2, <2>3, <2>4, <2>5
  <1>3. CASE Submit(s)
    <2> USE <1>3 DEF Typed, Submit
    <2>1. line[s] \in Sweeps
      BY DEF ClientOK
    <2>3. OrdersOK'
      BY <2>1, SentTyped DEF OrdersOK
    <2>4. ClientOK'
      BY DEF ClientOK, Early, Ending, Reading, Over
    <2>5. WorkerOK' /\ FramesOK' /\ HostOK' /\ EngineOK'
      BY DEF WorkerOK, FramesOK, HostOK, EngineOK
    <2> QED BY <2>3, <2>4, <2>5
  <1>4. CASE Read(s)
    <2>0. /\ line[s] \in Sweeps /\ line[s] # None
          /\ Tail(down[line[s]]) \in Seq(Frames) /\ Head(down[line[s]]) \in Frames
      BY <1>4, ReadEffect, Took
    <2>1. FramesOK'
      <3>1. down' \in [Sweeps -> Seq(Frames)]
        BY <1>4, <2>0 DEF Read, Drop, Typed, FramesOK
      <3>2. Append(got[s], Head(down[line[s]])) \in Seq(Frames)
        BY <2>0 DEF Typed, FramesOK
      <3>3. got' = got \/ got' = [got EXCEPT ![s] = Append(@, Head(down[line[s]]))]
        BY <1>4, ReadEffect
      <3>4. got' \in [Sweeps -> Seq(Frames)]
        BY <3>2, <3>3 DEF Typed, FramesOK
      <3> QED BY <3>1, <3>4 DEF FramesOK
    <2>2. WorkerOK'
      <3>1. cancelFiles' \in {cancelFiles, cancelFiles \cup {s}}
        BY <1>4, ReadEffect
      <3> QED BY <1>4, <3>1 DEF Read, Typed, WorkerOK
    <2>3. ClientOK'
      <3>1. CASE UNCHANGED <<at, outcome>>
        BY <1>4, <3>1 DEF Read, Typed, ClientOK
      <3>2. CASE at[s] = "awaiting" /\ Goto(s, "solving") /\ UNCHANGED outcome
        BY <1>4, <3>2 DEF Read, Typed, ClientOK, Reading, Ending, Early
      <3>3. ASSUME NEW how \in Over, NEW finished \in BOOLEAN, NEW failed \in BOOLEAN,
                   Close(s, how, finished, failed)
            PROVE  ClientOK'
        <4>1. /\ at' = [at EXCEPT ![s] = IF failed \/ ~finished THEN "retiring" ELSE "leaving"]
              /\ outcome' = [outcome EXCEPT ![s] = how] /\ line' = line
          BY <1>4, <3>3 DEF Close, Read
        <4> QED BY <2>0, <4>1 DEF Typed, ClientOK, Reading, Ending, Early
      <3> QED BY <1>4, <3>1, <3>2, <3>3, ReadEffect
    <2> QED BY <1>4, <2>1, <2>2, <2>3 DEF Read, Typed, OrdersOK, HostOK, EngineOK
  <1>5. CASE HearNothing(s) \/ ReadRaises(s)
    <2>1. /\ at' = [at EXCEPT ![s] = "retiring"] /\ outcome' = [outcome EXCEPT ![s] = "raised"]
          /\ cancelFiles' = cancelFiles \cup {s} /\ at[s] \in Reading
          /\ holder' \in {holder, None}
          /\ UNCHANGED <<got, closed, line, stopVars, up, down, hostVars, engineVars>>
      BY <1>5 DEF HearNothing, ReadRaises, StreamRaises, Close
    <2>2. connection' \in {connection, None} /\ shut' \subseteq Sweeps
      BY <1>5 DEF HearNothing, ReadRaises, HangUp, Typed, WorkerOK
    <2>3. ClientOK'
      BY <2>1 DEF Typed, ClientOK, Reading, Ending, Early, Over
    <2>4. WorkerOK'
      BY <2>1, <2>2 DEF Typed, WorkerOK
    <2> QED BY <2>1, <2>3, <2>4 DEF Typed, FramesOK, OrdersOK, HostOK, EngineOK
  <1>6. CASE Retire(s)
    <2>1. CASE holder = s /\ connection # None /\ Reachable(connection)
      <3> USE <1>6, <2>1 DEF Retire, Typed
      <3>1. connection \in Sweeps
        BY DEF WorkerOK
      <3>3. OrdersOK'
        BY <3>1, SentTyped DEF OrdersOK
      <3>4. ClientOK'
        BY <3>1 DEF ClientOK, Reading, Ending, Early, Over
      <3> QED BY <3>3, <3>4 DEF WorkerOK, FramesOK, HostOK, EngineOK
    <2>2. CASE ~(holder = s /\ connection # None /\ Reachable(connection))
      <3>1. /\ connection' \in {connection, None} /\ shut' \subseteq Sweeps
            /\ at[s] = "retiring" /\ at' = [at EXCEPT ![s] = "leaving"] /\ line' = line
        BY <1>6, <2>2 DEF Retire, HangUp, Typed, WorkerOK
      <3>2. ClientOK'
        BY <1>6, <3>1 DEF Retire, Typed, ClientOK, Reading, Ending, Early, Over
      <3>3. WorkerOK'
        BY <1>6, <3>1 DEF Retire, Typed, WorkerOK
      <3>4. OrdersOK'
        BY <1>6, <2>2 DEF Retire, Typed, OrdersOK
      <3> QED BY <1>6, <3>2, <3>3, <3>4 DEF Retire, Typed, FramesOK, HostOK, EngineOK
    <2> QED BY <2>1, <2>2
  <1>7. CASE Hear(s)
    <2>1. connection' \in {connection, None} /\ shut' \subseteq Sweeps
      BY <1>7 DEF Hear, HangUp, Typed, WorkerOK
    <2>2. FramesOK'
      <3>1. line[s] \in Sweeps
        BY <1>7 DEF Hear, Typed, ClientOK
      <3>2. down[line[s]] \in Seq(Frames)
        BY <3>1 DEF Typed, FramesOK
      <3>3. down[line[s]] # <<>> => Tail(down[line[s]]) \in Seq(Frames)
        BY <3>2, Took
      <3>4. UNCHANGED <<got, down>> \/ (UNCHANGED got /\ down[line[s]] # <<>> /\ Drop(line[s]))
        BY <1>7 DEF Hear
      <3> QED BY <3>1, <3>3, <3>4 DEF Drop, Typed, FramesOK
    <2>3. ClientOK'
      <3>1. at' \in {at, [at EXCEPT ![s] = "leaving"]}
        BY <1>7 DEF Hear
      <3> QED BY <1>7, <3>1 DEF Hear, Typed, ClientOK, Reading, Ending, Early, Over
    <2>4. WorkerOK'
      BY <1>7, <2>1 DEF Hear, Typed, WorkerOK
    <2> QED BY <1>7, <2>2, <2>3, <2>4 DEF Hear, Typed, OrdersOK, HostOK, EngineOK
  <1>8. CASE Leave(s)
    <2>1. ClientOK'
      <3>1. outcome[s] \in Over
        BY <1>8 DEF Leave, Typed, ClientOK, Ending
      <3> QED BY <1>8, <3>1 DEF Leave, Typed, ClientOK, Reading, Ending, Early, Over
    <2>2. WorkerOK'
      BY <1>8 DEF Leave, Typed, WorkerOK
    <2> QED BY <1>8, <2>1, <2>2 DEF Leave, Typed, FramesOK, OrdersOK, HostOK, EngineOK
  <1> QED BY <1>1, <1>2, <1>3, <1>4, <1>5, <1>6, <1>7, <1>8 DEF SweepStep

LEMMA StopTyped ==
  ASSUME Typed, Stop
  PROVE  Typed'
  <1>1. WorkerOK'
    BY DEF Stop, Refuse, SayShutdown, Detach, HearShutdown, StopStep, HangUp, Typed, WorkerOK,
           clientVars
  <1>2. ClientOK' /\ HostOK' /\ EngineOK'
    BY DEF Stop, Refuse, SayShutdown, Detach, HearShutdown, Typed, ClientOK, HostOK, EngineOK,
           clientVars, hostVars, engineVars
  <1>3. OrdersOK'
    <2>1. CASE SayShutdown
      <3>1. connection \in Sweeps
        BY <2>1 DEF SayShutdown, Typed, WorkerOK
      <3> QED BY <2>1, <3>1, SentTyped DEF SayShutdown
    <2> QED BY <2>1 DEF Stop, Refuse, Detach, HearShutdown, Typed, OrdersOK
  <1>4. FramesOK'
    <2>1. CASE HearShutdown
      <3>1. asked \in Sweeps
        BY <2>1 DEF HearShutdown, Typed, WorkerOK
      <3>2. down[asked] # <<>> => Tail(down[asked]) \in Seq(Frames)
        BY <3>1, Took DEF Typed, FramesOK
      <3> QED BY <2>1, <3>2 DEF HearShutdown, Drop, Typed, FramesOK
    <2> QED BY <2>1 DEF Stop, Refuse, SayShutdown, Detach, Typed, FramesOK, clientVars
  <1> QED BY <1>1, <1>2, <1>3, <1>4 DEF Typed

LEMMA DeliverTyped ==
  ASSUME Typed, NEW c \in Sweeps, NEW frame \in Frames, Deliver(c, frame), UNCHANGED got
  PROVE  FramesOK'
  <1>1. Append(down[c], frame) \in Seq(Frames)
    BY DEF Typed, FramesOK
  <1> QED BY <1>1 DEF Deliver, Typed, FramesOK

(* A thread of the host takes what the client has ordered.                 *)
LEMMA OrderedEffect ==
  ASSUME Typed, NEW c \in Sweeps, NEW op, Ordered(c, op)
  PROVE  /\ alive /\ serving[c] = "reading"
         /\ up[c] \in Seq(Orders) /\ up[c] # <<>> /\ Head(up[c]) \in Orders
         /\ up[c][1].op = op /\ up[c][1] = Head(up[c]) /\ Head(up[c]).of \in Sweeps
         /\ up' = [up EXCEPT ![c] = Tail(@)] /\ OrdersOK'
  <1>1. up[c] \in Seq(Orders) /\ up[c] # <<>>
    BY DEF Ordered, Typed, OrdersOK
  <1>2. Head(up[c]) = up[c][1] /\ Head(up[c]) \in Orders /\ Tail(up[c]) \in Seq(Orders)
    BY <1>1, Took
  <1>3. OrdersOK'
    BY <1>2 DEF Ordered, Typed, OrdersOK
  <1> QED BY <1>1, <1>2, <1>3 DEF Ordered, Orders

LEMMA ReplacedTyped == ReplaceEngine => EngineOK'
  BY DEF ReplaceEngine, EngineOK

LEMMA HostTyped ==
  ASSUME Typed, NEW c \in Sweeps, HostStep(c) \/ EngineDies(c)
  PROVE  Typed'
  <1>1. ClientOK' /\ WorkerOK' /\ got' = got
    <2> USE DEF Typed, ClientOK, WorkerOK, clientVars, stopVars
    <2>1. CASE TakeSubmit(c) \/ TakeRetire(c) \/ TakeShutdown(c) \/ HearHangUp(c)
      BY <2>1 DEF TakeSubmit, TakeRetire, TakeShutdown, HearHangUp
    <2>2. CASE LockJob(c) \/ Forward(c) \/ Abandon(c) \/ EngineDies(c)
      BY <2>2 DEF LockJob, Forward, Abandon, EngineDies
    <2> QED BY <2>1, <2>2 DEF HostStep
  <1>2. CASE TakeSubmit(c)
    <2>1. OrdersOK' /\ Head(up[c]).of \in Sweeps
      BY <1>2, OrderedEffect DEF TakeSubmit
    <2>2. Frame(Head(up[c]).of, "failed", 0) \in Frames
      BY <2>1, FrameTyped, ZeroTyped DEF Terminal
    <2>3. FramesOK'
      BY <1>1, <1>2, <2>2, DeliverTyped DEF TakeSubmit, Typed, FramesOK
    <2>4. HostOK'
      BY <1>2, <2>1 DEF TakeSubmit, Serve, Typed, HostOK
    <2> QED BY <1>1, <1>2, <2>1, <2>3, <2>4 DEF TakeSubmit, Typed, EngineOK, engineVars
  <1>3. CASE TakeRetire(c)
    <2>1. OrdersOK' /\ Head(up[c]).of \in Sweeps
      BY <1>3, OrderedEffect DEF TakeRetire
    <2>2. Frame(Head(up[c]).of, "retired", 0) \in Frames
      BY <2>1, FrameTyped, ZeroTyped
    <2>3. FramesOK'
      BY <1>1, <1>3, <2>2, DeliverTyped DEF TakeRetire
    <2>4. EngineOK'
      BY <1>3, ReplacedTyped DEF TakeRetire, engineVars, Typed, EngineOK
    <2> QED BY <1>1, <1>3, <2>1, <2>3, <2>4 DEF TakeRetire, Typed, HostOK, hostVars
  <1>4. CASE TakeShutdown(c)
    <2>1. OrdersOK' /\ Head(up[c]).of \in Sweeps
      BY <1>4, OrderedEffect DEF TakeShutdown
    <2>2. Frame(Head(up[c]).of, "shutdown_ok", 0) \in Frames
      BY <2>1, FrameTyped, ZeroTyped
    <2>3. FramesOK'
      BY <1>1, <1>4, <2>2, DeliverTyped DEF TakeShutdown
    <2>4. HostOK' /\ EngineOK'
      BY <1>4, ReplacedTyped DEF TakeShutdown, EndHost, HostOK, Busy
    <2> QED BY <1>1, <2>1, <2>3, <2>4 DEF Typed
  <1>5. CASE HearHangUp(c) \/ LockJob(c) \/ Abandon(c)
    <2>1. HostOK'
      BY <1>5 DEF HearHangUp, LockJob, Abandon, Serve, Typed, HostOK, Busy
    <2>2. EngineOK'
      <3>1. CASE LockJob(c)
        <4>1. serves[c] \in Sweeps
          BY <3>1 DEF LockJob, Typed, HostOK, Busy
        <4> QED BY <3>1, <4>1 DEF LockJob, Typed, EngineOK
      <3> QED BY <1>5, <3>1, ReplacedTyped DEF HearHangUp, Abandon, engineVars, Typed, EngineOK
    <2> QED BY <1>1, <1>5, <2>1, <2>2
            DEF HearHangUp, LockJob, Abandon, Typed, FramesOK, OrdersOK
  <1>6. CASE Forward(c)
    <2>1. Head(pipe) \in Frames /\ Tail(pipe) \in Seq(Frames)
      BY <1>6, Took DEF Forward, Typed, EngineOK
    <2>2. FramesOK'
      BY <1>1, <1>6, <2>1, DeliverTyped DEF Forward
    <2>3. HostOK'
      BY <1>6 DEF Forward, Serve, Typed, HostOK, Busy
    <2>4. EngineOK'
      BY <1>6, <2>1 DEF Forward, Typed, EngineOK
    <2> QED BY <1>1, <1>6, <2>2, <2>3, <2>4 DEF Forward, Typed, OrdersOK
  <1>7. CASE EngineDies(c)
    <2>1. serves[c] \in Sweeps
      BY <1>7 DEF EngineDies, Typed, HostOK, Busy
    <2>2. Frame(serves[c], "failed", 0) \in Frames
      BY <2>1, FrameTyped, ZeroTyped DEF Terminal
    <2>3. FramesOK'
      BY <1>1, <1>7, <2>2, DeliverTyped DEF EngineDies
    <2>4. HostOK' /\ EngineOK'
      BY <1>7, ReplacedTyped DEF EngineDies, Serve, Typed, HostOK, Busy
    <2> QED BY <1>1, <1>7, <2>3, <2>4 DEF EngineDies, Typed, OrdersOK
  <1> QED BY <1>2, <1>3, <1>4, <1>5, <1>6, <1>7 DEF HostStep

(* What the engine writes: frames of one job, behind what is there.        *)
LEMMA WriteTyped ==
  ASSUME Typed, NEW frames \in Seq(Frames), Write(frames)
  PROVE  pipe' \in Seq(Frames)
  BY DEF Write, Typed, EngineOK

LEMMA EngineTyped ==
  ASSUME Typed, EngineStep
  PROVE  Typed'
  <1>0. UNCHANGED <<clientVars, stopVars, up, down, hostVars>>
    BY DEF EngineStep, TakeJob, Solve, SolveFails, Cancel, Complete
  <1>1. inbox' \in Seq(Sweeps) /\ job' \in Sweeps \cup {None} /\ done' \in 0 .. Total
    <2>1. CASE TakeJob
      <3>1. Head(inbox) \in Sweeps /\ Tail(inbox) \in Seq(Sweeps)
        BY <2>1, Took DEF TakeJob, Typed, EngineOK
      <3> QED BY <2>1, <3>1 DEF TakeJob, EndJob
    <2>2. CASE Solve
      BY <2>2 DEF Solve, Typed, EngineOK
    <2>3. CASE SolveFails \/ Cancel \/ Complete
      BY <2>3 DEF SolveFails, Cancel, Complete, EndJob, Typed, EngineOK
    <2> QED BY <2>1, <2>2, <2>3 DEF EngineStep
  <1>2. pipe' \in Seq(Frames)
    <2> USE DEF Terminal
    <2>1. CASE TakeJob
      <3>1. Head(inbox) \in Sweeps
        BY <2>1, Took DEF TakeJob, Typed, EngineOK
      <3>2. /\ <<Frame(Head(inbox), "initialized", 0)>> \in Seq(Frames)
            /\ <<Frame(Head(inbox), "failed", 0)>> \in Seq(Frames)
        BY <3>1, FrameTyped, ZeroTyped
      <3> QED BY <2>1, <3>2, WriteTyped DEF TakeJob
    <2>2. CASE Solve
      <3>1. job \in Sweeps /\ done + 1 \in 0 .. Total
        BY <2>2 DEF Solve, Typed, EngineOK
      <3>2. <<Frame(job, "result", done + 1)>> \in Seq(Frames)
        BY <3>1, FrameTyped
      <3> QED BY <2>2, <3>2, WriteTyped DEF Solve
    <2>3. CASE SolveFails \/ Cancel \/ Complete
      <3>1. job \in Sweeps /\ done \in 0 .. Total
        BY <2>3 DEF SolveFails, Cancel, Complete, Typed, EngineOK
      <3>2. /\ Frame(job, "failed", 0) \in Frames /\ Frame(job, "cancelled", done) \in Frames
            /\ Frame(job, "completed", done) \in Frames
        BY <3>1, FrameTyped, ZeroTyped
      <3>3. /\ <<Frame(job, "failed", 0)>> \in Seq(Frames)
            /\ <<Frame(job, "cancelled", done)>> \in Seq(Frames)
            /\ <<Frame(job, "cancelled", done), Frame(job, "failed", 0)>> \in Seq(Frames)
            /\ <<Frame(job, "completed", done)>> \in Seq(Frames)
        BY <3>2
      <3> QED BY <2>3, <3>3, WriteTyped DEF SolveFails, Cancel, Complete
    <2> QED BY <2>1, <2>2, <2>3 DEF EngineStep
  <1>3. ClientOK' /\ WorkerOK' /\ FramesOK' /\ OrdersOK' /\ HostOK'
    BY <1>0 DEF Typed, ClientOK, WorkerOK, FramesOK, OrdersOK, HostOK,
                clientVars, stopVars, hostVars
  <1> QED BY <1>1, <1>2, <1>3 DEF Typed, EngineOK

LEMMA StepTyped == Typed /\ [Next]_vars => Typed'
  <1> SUFFICES ASSUME Typed, [Next]_vars PROVE Typed'
    OBVIOUS
  <1> USE DEF Typed, ClientOK, WorkerOK, FramesOK, OrdersOK
  <1>1. CASE CrashHost
    <2>1. HostOK' /\ EngineOK'
      BY <1>1, ReplacedTyped DEF CrashHost, EndHost, HostOK, Busy
    <2> QED BY <1>1, <2>1 DEF CrashHost, clientVars, stopVars
  <1>2. CASE UNCHANGED vars
    BY <1>2 DEF vars, clientVars, stopVars, hostVars, engineVars, HostOK, EngineOK
  <1> QED BY <1>1, <1>2, ClientTyped, StopTyped, HostTyped, EngineTyped DEF Next

LEMMA TypeInvariance == Spec => []Typed
  BY InitTyped, StepTyped, PTL DEF Spec

(* The sweeps, the connections, the host and the engine keep their types,  *)
(* whatever fails and wherever a caller's exception lands.                 *)
THEOREM HostedSweepTyped == Spec => []TypeOK
  <1>1. Typed => TypeOK
    BY DEF Typed, ClientOK, WorkerOK, FramesOK, OrdersOK, HostOK, EngineOK, TypeOK, Early, Ending
  <1> QED BY <1>1, TypeInvariance, PTL
-----------------------------------------------------------------------------
(* Whose the slot, the connections and the threads of the host are.  The   *)
(* worker's connection is the owner's until the application stops; a name  *)
(* nobody has dialled with is unused; an order is on its sweep's line.     *)
Owner(s) ==
  /\ at[s] \in Reading \cup {"connecting", "hearing"} => holder = s
  /\ holder = s => at[s] \in Reading \cup Ending \cup {"connecting"}

Lined(s) ==
  /\ at[s] \in {"idle", "queued"} => line[s] = None
  /\ holder = s /\ line[s] # None /\ at[s] # "leaving"
     => connection = line[s] \/ (closed /\ connection = None /\ line[s] \in shut)
  /\ line[s] = None => up[s] = <<>> /\ down[s] = <<>> /\ serving[s] = "gone" /\ s \notin shut

Threaded(c) ==
  /\ serving[c] # "gone" => alive
  /\ serving[c] \in Busy => line[serves[c]] = c
  /\ \A i \in DOMAIN up[c] : up[c][i].op = "submit" => line[up[c][i].of] = c

Open ==
  connection # None => /\ line[connection] # None /\ connection \notin shut
                       /\ alive => serving[connection] # "gone"

Hosting ==
  /\ ~alive => inbox = <<>> /\ job = None /\ pipe = <<>>
  /\ \A c, d \in Sweeps : serving[c] = "forwarding" /\ serving[d] = "forwarding" => c = d

Stopping == stop = "up" <=> ~closed

Attached ==
  /\ \A s \in Sweeps : Owner(s) /\ Lined(s) /\ Threaded(s)
  /\ Open /\ Hosting /\ Stopping

LEMMA InitAttached == Init => Attached
  BY DEF Init, Attached, Owner, Lined, Threaded, Open, Hosting, Stopping, Reading, Ending, Busy

(* The slot moves with its sweep.                                          *)
LEMMA OwnerMoves ==
  ASSUME Typed, Attached, NEW s \in Sweeps, Call(s) \/ SweepStep(s)
  PROVE  \A t \in Sweeps : Owner(t)'
  <1> USE DEF Goto, Owner
  <1>1. \A t \in Sweeps : Owner(t)
    BY DEF Attached
  <1>2. CASE Call(s) \/ Acquire(s) \/ Refused(s) \/ Connect(s) \/ Submit(s)
    BY <1>1, <1>2 DEF Call, Acquire, Refused, Connect, Submit, Typed, ClientOK, Reading, Ending
  <1>3. CASE Read(s)
    <2>1. /\ at[s] \in Reading /\ holder' = holder
          /\ at' = at \/ (\E place \in Reading \cup {"retiring", "leaving"} : Goto(s, place))
      BY <1>3, ReadEffect DEF Read, Close, Reading, Ending
    <2> QED BY <1>1, <2>1 DEF Typed, ClientOK, Reading, Ending
  <1>4. CASE HearNothing(s) \/ ReadRaises(s)
    BY <1>1, <1>4 DEF HearNothing, ReadRaises, StreamRaises, Close, Typed, ClientOK, Reading, Ending
  <1>5. CASE Retire(s) \/ Hear(s) \/ Leave(s)
    BY <1>1, <1>5 DEF Retire, Hear, Leave, Typed, ClientOK, Reading, Ending, Over
  <1> QED BY <1>2, <1>3, <1>4, <1>5 DEF SweepStep

(* The owner's line is the worker's connection when it says "retire".      *)
LEMMA RetireInPlace ==
  ASSUME Typed, Attached, NEW s \in Sweeps, Retire(s)
  PROVE  line' = line
  <1>1. holder = s /\ connection # None => connection = line[s]
    BY DEF Retire, Attached, Lined, Typed, ClientOK
  <1> QED BY <1>1 DEF Retire, Typed, ClientOK

(* An order and a frame that is on its way.                                *)
LEMMA Ordering ==
  ASSUME Typed, NEW c \in Sweeps, NEW i \in DOMAIN up[c]
  PROVE  up[c] \in Seq(Orders) /\ i \in 1 .. Len(up[c]) /\ up[c][i].of \in Sweeps
  <1>1. up[c] \in Seq(Orders)
    BY DEF Typed, OrdersOK
  <1>2. i \in 1 .. Len(up[c]) /\ up[c][i] \in Orders
    BY <1>1
  <1> QED BY <1>1, <1>2 DEF Orders

(* A pipe or a connection that is put to use has been dialled.             *)
LEMMA Dialled ==
  ASSUME Typed, Attached, NEW c \in Sweeps
  PROVE  /\ serving[c] # "gone" => line[c] # None
         /\ down[c] # <<>> => line[c] # None
         /\ connection = c => line[c] # None
  BY DEF Attached, Lined, Open

LEMMA ClientAttached ==
  ASSUME Typed, Attached, NEW s \in Sweeps, Call(s) \/ SweepStep(s)
  PROVE  Attached'
  <1> USE DEF Goto
  <1>0. \A t \in Sweeps : Owner(t)'
    BY OwnerMoves
  <1>1. Stopping'
    <2>1. stop' = stop /\ closed' = closed
      BY DEF SweepStep, Call, Acquire, Refused, Connect, Submit, Read, HearNothing, ReadRaises,
             StreamRaises, Retire, Hear, Leave, stopVars
    <2> QED BY <2>1 DEF Attached, Stopping
  <1>2. CASE Call(s) \/ Acquire(s) \/ Refused(s) \/ Leave(s)
    <2>1. UNCHANGED <<line, connection, shut, closed, up, down, hostVars, engineVars>>
      BY <1>2 DEF Call, Acquire, Refused, Leave
    <2>2. \A t \in Sweeps : Threaded(t)'
      BY <2>1 DEF Attached, Threaded, hostVars
    <2>3. Open' /\ Hosting'
      BY <2>1 DEF Attached, Open, Hosting, hostVars, engineVars
    <2>4. ASSUME NEW t \in Sweeps PROVE Lined(t)'
      <3>1. Lined(t) /\ Lined(s) /\ t # None
        BY DEF Attached
      <3>2. /\ at'[t] \in {"idle", "queued"} => line[t] = None
            /\ holder' = t /\ line[t] # None /\ at'[t] # "leaving"
               => holder = t /\ at[t] # "leaving"
        <4>1. CASE Call(s) \/ Acquire(s) \/ Refused(s)
          BY <3>1, <4>1 DEF Call, Acquire, Refused, Typed, ClientOK, Lined
        <4>2. CASE Leave(s)
          <5>1. outcome[s] \in Over
            BY <4>2 DEF Leave, Typed, ClientOK, Ending
          <5> QED BY <3>1, <4>2, <5>1 DEF Leave, Typed, ClientOK, Lined, Over
        <4> QED BY <1>2, <4>1, <4>2
      <3> QED BY <2>1, <3>1, <3>2 DEF Lined, hostVars
    <2> QED BY <1>0, <1>1, <2>2, <2>3, <2>4 DEF Attached
  <1>3. CASE Connect(s)
    <2> DEFINE c == IF connection # None THEN connection ELSE s
    <2>1. /\ line' = [line EXCEPT ![s] = c] /\ connection' = c /\ c \in Sweeps
          /\ at[s] = "connecting" /\ line[s] = None /\ UNCHANGED <<at, holder, closed, shut, up, down>>
          /\ serves' = serves /\ UNCHANGED engineVars
          /\ up[s] = <<>> /\ down[s] = <<>> /\ serving[s] = "gone" /\ s \notin shut
      BY <1>3 DEF Connect, Typed, ClientOK, WorkerOK, Attached, Lined, hostVars
    <2>2. /\ connection # None => UNCHANGED <<serving, alive>>
          /\ connection = None => serving' = [serving EXCEPT ![s] = "reading"] /\ alive' = TRUE
      BY <1>3 DEF Connect, hostVars
    <2>3. c # None /\ line'[c] # None /\ c \notin shut
      BY <2>1 DEF Attached, Open, Typed, ClientOK
    <2>4. Open'
      BY <2>1, <2>2, <2>3 DEF Attached, Open, Typed, HostOK
    <2>5. Hosting'
      BY <2>1, <2>2 DEF Attached, Hosting, Typed, HostOK, engineVars
    <2>6. ASSUME NEW t \in Sweeps PROVE Lined(t)'
      <3>1. Lined(t) /\ Owner(t) /\ Owner(s)
        BY DEF Attached
      <3>2. CASE t = s
        BY <2>1, <2>3, <3>1, <3>2 DEF Lined, Typed, ClientOK
      <3>3. CASE t # s
        <4>1. holder # t /\ line'[t] = line[t] /\ serving'[t] = serving[t]
          BY <2>1, <2>2, <3>1, <3>3 DEF Owner, Typed, ClientOK, HostOK
        <4> QED BY <2>1, <3>1, <4>1 DEF Lined
      <3> QED BY <3>2, <3>3
    <2>7. ASSUME NEW t \in Sweeps PROVE Threaded(t)'
      <3>1. Threaded(t)
        BY DEF Attached
      <3>2. \A u \in Sweeps : u # s => line'[u] = line[u]
        BY <2>1 DEF Typed, ClientOK
      <3>3. serving'[t] # "gone" => alive'
        BY <2>1, <2>2, <3>1 DEF Threaded, Typed, HostOK
      <3>4. serving'[t] \in Busy => line'[serves'[t]] = t
        BY <2>1, <2>2, <3>1, <3>2 DEF Threaded, Typed, HostOK, Busy
      <3>5. ASSUME NEW i \in DOMAIN up[t], up[t][i].op = "submit" PROVE line'[up[t][i].of] = t
        <4>1. up[t][i].of \in Sweeps
          BY <3>5, Ordering
        <4> QED BY <2>1, <3>1, <3>2, <3>5, <4>1 DEF Threaded
      <3> QED BY <2>1, <3>3, <3>4, <3>5 DEF Threaded
    <2> QED BY <1>0, <1>1, <2>4, <2>5, <2>6, <2>7 DEF Attached
  <1>4. CASE Submit(s)
    <2>1. /\ UNCHANGED <<holder, closed, connection, line, shut, down, hostVars, engineVars>>
          /\ line[s] \in Sweeps /\ line[s] # None /\ at[s] = "connecting"
          /\ at' \in {[at EXCEPT ![s] = "awaiting"], [at EXCEPT ![s] = "leaving"]}
          /\ up' = up \/ (Reachable(line[s]) /\ Send(line[s], "submit", s))
      BY <1>4 DEF Submit, Typed, ClientOK
    <2>2. Open' /\ Hosting'
      BY <2>1 DEF Attached, Open, Hosting, hostVars, engineVars
    <2>3. ASSUME NEW t \in Sweeps PROVE Lined(t)'
      <3>1. Lined(t) /\ Lined(s)
        BY DEF Attached
      <3>2. line[t] = None => up'[t] = up[t]
        BY <2>1, <3>1 DEF Reachable, Lined, Send, Typed, OrdersOK
      <3>3. at'[t] = at[t] \/ (t = s /\ at'[t] \notin {"idle", "queued"})
        BY <2>1 DEF Typed, ClientOK
      <3> QED BY <2>1, <3>1, <3>2, <3>3 DEF Lined, hostVars
    <2>4. ASSUME NEW t \in Sweeps PROVE Threaded(t)'
      <3>1. Threaded(t)
        BY DEF Attached
      <3>2. ASSUME NEW i \in DOMAIN up'[t], up'[t][i].op = "submit" PROVE line[up'[t][i].of] = t
        <4>1. CASE up'[t] = up[t]
          BY <3>1, <3>2, <4>1 DEF Threaded
        <4>2. CASE t = line[s] /\ up'[t] = Append(up[t], [op |-> "submit", of |-> s])
          <5>1. up[t] \in Seq(Orders) /\ [op |-> "submit", of |-> s] \in Orders
            BY DEF Typed, OrdersOK, Orders
          <5>2. i \in 1 .. Len(up[t]) + 1
            BY <3>2, <4>2, <5>1, Added
          <5>3. CASE i = Len(up[t]) + 1
            BY <4>2, <5>1, <5>3, Added
          <5>4. CASE i \in DOMAIN up[t]
            <6>1. up'[t][i] = up[t][i]
              BY <4>2, <5>1, <5>4, Added
            <6> QED BY <3>1, <3>2, <5>4, <6>1 DEF Threaded
          <5> QED BY <5>1, <5>2, <5>3, <5>4, Added
        <4> QED BY <2>1, <4>1, <4>2 DEF Send, Typed, OrdersOK
      <3> QED BY <2>1, <3>1, <3>2 DEF Threaded, hostVars
    <2> QED BY <1>0, <1>1, <2>2, <2>3, <2>4 DEF Attached
  <1>5. CASE Read(s)
    <2>1. /\ UNCHANGED <<holder, closed, connection, line, shut, up, hostVars, engineVars>>
          /\ at[s] \in Reading /\ down' = [down EXCEPT ![line[s]] = Tail(@)]
          /\ line[s] \in Sweeps /\ down[line[s]] # <<>>
          /\ at' = at \/ (\E place \in Reading \cup Ending : Goto(s, place))
      BY <1>5, ReadEffect DEF Read, Drop, Close, Reading, Ending
    <2>2. Open' /\ Hosting' /\ \A t \in Sweeps : Threaded(t)'
      BY <2>1 DEF Attached, Open, Hosting, Threaded, hostVars, engineVars
    <2>3. ASSUME NEW t \in Sweeps PROVE Lined(t)'
      <3>1. Lined(t) /\ at[s] \notin {"idle", "queued", "leaving"}
        BY <2>1 DEF Attached, Reading
      <3>2. line[t] = None => down'[t] = down[t]
        BY <2>1, <3>1 DEF Lined, Typed, FramesOK
      <3>3. at'[t] = at[t] \/ (t = s /\ at'[t] \notin {"idle", "queued"})
        BY <2>1 DEF Typed, ClientOK, Reading, Ending
      <3> QED BY <2>1, <3>1, <3>2, <3>3 DEF Lined, hostVars
    <2> QED BY <1>0, <1>1, <2>2, <2>3 DEF Attached
  <1>6. CASE HearNothing(s) \/ ReadRaises(s)
    <2>1. /\ UNCHANGED <<closed, line, up, down, hostVars, engineVars>>
          /\ at[s] \in Reading /\ at' = [at EXCEPT ![s] = "retiring"] /\ holder' = None
          /\ UNCHANGED <<connection, shut>> \/ HangUp
      BY <1>6 DEF HearNothing, ReadRaises, StreamRaises, Close, Attached, Owner
    <2>2. Open' /\ Hosting' /\ \A t \in Sweeps : Threaded(t)'
      BY <2>1 DEF Attached, Open, Hosting, Threaded, hostVars, engineVars, HangUp
    <2>3. ASSUME NEW t \in Sweeps PROVE Lined(t)'
      <3>1. Lined(t) /\ at'[t] \in {at[t], "retiring"} /\ t # None
        BY <2>1 DEF Attached, Typed, ClientOK
      <3>2. line[t] = None => (t \in shut' <=> t \in shut)
        BY <2>1, Dialled DEF HangUp
      <3> QED BY <2>1, <3>1, <3>2 DEF Lined, hostVars
    <2> QED BY <1>0, <1>1, <2>2, <2>3 DEF Attached
  <1>7. CASE Retire(s)
    <2>1. /\ UNCHANGED <<holder, closed, line, down, hostVars, engineVars>> /\ at[s] = "retiring"
          /\ \/ /\ Send(connection, "retire", s) /\ Reachable(connection) /\ connection \in Sweeps
                /\ at' = [at EXCEPT ![s] = "hearing"] /\ UNCHANGED <<connection, shut>>
             \/ /\ at' = [at EXCEPT ![s] = "leaving"] /\ up' = up
                /\ UNCHANGED <<connection, shut>> \/ (holder = s /\ HangUp)
      BY <1>7, RetireInPlace DEF Retire, Typed, WorkerOK
    <2>2. Open' /\ Hosting'
      BY <2>1 DEF Attached, Open, Hosting, hostVars, engineVars, HangUp
    <2>3. ASSUME NEW t \in Sweeps PROVE Lined(t)'
      <3>1. Lined(t) /\ t # None
        BY DEF Attached
      <3>2. line[t] = None => up'[t] = up[t] /\ (t \in shut' <=> t \in shut)
        BY <2>1, <3>1, Dialled DEF HangUp, Reachable, Send, Typed, OrdersOK
      <3>3. /\ at'[t] \in {"idle", "queued"} => at'[t] = at[t]
            /\ holder = t /\ at'[t] # "leaving" => UNCHANGED <<connection, shut>> /\ at[t] # "leaving"
        BY <2>1 DEF Typed, ClientOK
      <3> QED BY <2>1, <3>1, <3>2, <3>3 DEF Lined, hostVars
    <2>4. ASSUME NEW t \in Sweeps PROVE Threaded(t)'
      <3>1. Threaded(t)
        BY DEF Attached
      <3>2. ASSUME NEW i \in DOMAIN up'[t], up'[t][i].op = "submit" PROVE line[up'[t][i].of] = t
        <4>1. CASE up'[t] = up[t]
          BY <3>1, <3>2, <4>1 DEF Threaded
        <4>2. CASE up'[t] = Append(up[t], [op |-> "retire", of |-> s])
          <5>1. up[t] \in Seq(Orders) /\ [op |-> "retire", of |-> s] \in Orders
            BY DEF Typed, OrdersOK, Orders
          <5>2. i \in 1 .. Len(up[t]) /\ up'[t][i] = up[t][i]
            BY <3>2, <4>2, <5>1, Added
          <5> QED BY <3>1, <3>2, <5>1, <5>2, Added DEF Threaded
        <4> QED BY <2>1, <4>1, <4>2 DEF Send, Typed, OrdersOK
      <3> QED BY <2>1, <3>1, <3>2 DEF Threaded, hostVars
    <2> QED BY <1>0, <1>1, <2>2, <2>3, <2>4 DEF Attached
  <1>8. CASE Hear(s)
    <2>1. /\ UNCHANGED <<holder, closed, line, up, hostVars, engineVars>>
          /\ at[s] = "hearing" /\ line[s] \in Sweeps
          /\ \/ at' = at /\ UNCHANGED <<connection, shut>>
             \/ at' = [at EXCEPT ![s] = "leaving"] /\ HangUp
          /\ down' = down \/ (down[line[s]] # <<>> /\ down' = [down EXCEPT ![line[s]] = Tail(@)])
      BY <1>8 DEF Hear, Drop, Typed, ClientOK
    <2>2. Open' /\ Hosting' /\ \A t \in Sweeps : Threaded(t)'
      BY <2>1 DEF Attached, Open, Hosting, Threaded, hostVars, engineVars, HangUp
    <2>3. ASSUME NEW t \in Sweeps PROVE Lined(t)'
      <3>1. Lined(t) /\ t # None /\ Owner(s)
        BY DEF Attached
      <3>2. line[t] = None => down'[t] = down[t] /\ (t \in shut' <=> t \in shut)
        BY <2>1, <3>1, Dialled DEF HangUp, Typed, FramesOK
      <3>3. /\ at'[t] \in {"idle", "queued"} => at'[t] = at[t]
            /\ holder = t /\ at'[t] # "leaving" => UNCHANGED <<connection, shut>> /\ at[t] # "leaving"
        BY <2>1, <3>1 DEF Typed, ClientOK, Owner
      <3> QED BY <2>1, <3>1, <3>2, <3>3 DEF Lined, hostVars
    <2> QED BY <1>0, <1>1, <2>2, <2>3 DEF Attached
  <1> QED BY <1>2, <1>3, <1>4, <1>5, <1>6, <1>7, <1>8 DEF SweepStep

LEMMA StopAttached ==
  ASSUME Typed, Attached, Stop
  PROVE  Attached'
  <1>1. UNCHANGED <<at, holder, line, hostVars, engineVars>> /\ (closed => closed')
    BY DEF Stop, Refuse, SayShutdown, Detach, HearShutdown, clientVars
  <1>2. /\ Stopping'
        /\ UNCHANGED <<connection, shut>> \/ (closed /\ HangUp)
    BY DEF Stop, Refuse, SayShutdown, Detach, HearShutdown, StopStep, clientVars,
           Attached, Stopping
  <1>3. /\ up' = up \/ (connection # None /\ Send(connection, "shutdown", connection))
        /\ down' = down \/ (down[asked] # <<>> /\ Drop(asked))
    BY DEF Stop, Refuse, SayShutdown, Detach, HearShutdown
  <1>4. Open' /\ Hosting' /\ \A t \in Sweeps : Owner(t)'
    BY <1>1, <1>2 DEF Attached, Open, Hosting, Owner, hostVars, engineVars, HangUp
  <1>5. ASSUME NEW t \in Sweeps PROVE Lined(t)'
    <2>1. Lined(t) /\ t # None
      BY DEF Attached
    <2>2. line[t] = None => up'[t] = up[t]
      BY <1>3, Dialled DEF Send, Typed, OrdersOK
    <2>3. line[t] = None => down'[t] = down[t]
      BY <1>3, <2>1, Dialled DEF Drop, Typed, FramesOK, Lined
    <2>4. line[t] = None => (t \in shut' <=> t \in shut)
      BY <1>2, Dialled DEF HangUp
    <2>5. /\ connection' = connection \/ (closed /\ connection' = None)
          /\ shut \subseteq shut'
          /\ connection' # connection => connection \in shut'
      BY <1>2 DEF HangUp
    <2> QED BY <1>1, <2>1, <2>2, <2>3, <2>4, <2>5 DEF Lined, hostVars
  <1>6. ASSUME NEW t \in Sweeps PROVE Threaded(t)'
    <2>1. Threaded(t)
      BY DEF Attached
    <2>2. ASSUME NEW i \in DOMAIN up'[t], up'[t][i].op = "submit" PROVE line[up'[t][i].of] = t
      <3>1. CASE up'[t] = up[t]
        BY <2>1, <2>2, <3>1 DEF Threaded
      <3>2. CASE connection # None /\ up'[t] = Append(up[t], [op |-> "shutdown", of |-> connection])
        <4>1. up[t] \in Seq(Orders) /\ [op |-> "shutdown", of |-> connection] \in Orders
          BY <3>2 DEF Typed, WorkerOK, OrdersOK, Orders
        <4>2. i \in 1 .. Len(up[t]) /\ up'[t][i] = up[t][i]
          BY <2>2, <3>2, <4>1, Added
        <4> QED BY <2>1, <2>2, <4>1, <4>2, Added DEF Threaded
      <3> QED BY <1>3, <3>1, <3>2 DEF Send, Typed, OrdersOK
    <2> QED BY <1>1, <2>1, <2>2 DEF Threaded, hostVars
  <1> QED BY <1>2, <1>4, <1>5, <1>6 DEF Attached

(* What remains of a thread's orders when it has taken one.                *)
LEMMA Rest ==
  ASSUME Typed, NEW c \in Sweeps, up[c] # <<>>, up' = [up EXCEPT ![c] = Tail(@)]
  PROVE  /\ \A d \in Sweeps : d # c => up'[d] = up[d]
         /\ up'[c] = Tail(up[c])
         /\ DOMAIN up'[c] = 1 .. Len(up[c]) - 1 /\ DOMAIN up[c] = 1 .. Len(up[c])
         /\ \A i \in DOMAIN up'[c] : i + 1 \in DOMAIN up[c] /\ i + 1 > 1 /\ up'[c][i] = up[c][i + 1]
         /\ Len(up[c]) \in Nat \ {0}
  <1>1. up[c] \in Seq(Orders) /\ up'[c] = Tail(up[c])
    BY DEF Typed, OrdersOK
  <1>2. \A d \in Sweeps : d # c => up'[d] = up[d]
    BY DEF Typed, OrdersOK
  <1> DEFINE q == up[c]
  <1>3. /\ DOMAIN Tail(q) = 1 .. Len(q) - 1 /\ DOMAIN q = 1 .. Len(q)
        /\ \A i \in 1 .. Len(q) - 1 : Tail(q)[i] = q[i + 1]
        /\ Len(q) \in Nat \ {0}
    <2>1. q \in Seq(Orders) /\ q # <<>>
      BY <1>1
    <2> HIDE DEF q
    <2> QED BY <2>1, Took
  <1>4. \A i \in 1 .. Len(q) - 1 : i + 1 \in 1 .. Len(q) /\ i + 1 > 1
    BY <1>3
  <1> HIDE DEF q
  <1>5. up'[c] = Tail(q) /\ up[c] = q
    BY <1>1 DEF q
  <1> QED BY <1>2, <1>3, <1>4, <1>5

(* The threads of the host and the engine leave the clients' side alone.   *)
LEMMA HostEffect ==
  ASSUME NEW c \in Sweeps, HostStep(c) \/ EngineDies(c)
  PROVE  UNCHANGED <<clientVars, stopVars>>
  BY DEF HostStep, TakeSubmit, TakeRetire, TakeShutdown, HearHangUp, LockJob, Forward, Abandon,
         EngineDies

LEMMA HostAttached ==
  ASSUME Typed, Attached, NEW c \in Sweeps, HostStep(c) \/ EngineDies(c)
  PROVE  Attached'
  <1>0. UNCHANGED <<clientVars, stopVars>>
    BY HostEffect
  <1>1. Stopping' /\ \A t \in Sweeps : Owner(t)'
    BY <1>0 DEF Attached, Stopping, Owner, clientVars, stopVars
  <1>2. CASE TakeShutdown(c)
    <2>1. EndHost /\ up[c] # <<>> /\ up' = [up EXCEPT ![c] = Tail(@)]
      BY <1>2 DEF TakeShutdown, Ordered
    <2>2. serving[c] # "gone" /\ down' = [down EXCEPT ![c] = down'[c]]
      BY <1>2 DEF TakeShutdown, Ordered, Deliver, Typed, FramesOK
    <2>3. Open' /\ Hosting'
      BY <1>0, <2>1 DEF EndHost, ReplaceEngine, Attached, Open, Hosting, clientVars
    <2>4. ASSUME NEW t \in Sweeps PROVE Lined(t)'
      <3>1. Lined(t) /\ (line[t] = None => up'[t] = up[t] /\ down'[t] = down[t])
        BY <2>1, <2>2 DEF Attached, Lined, Typed, OrdersOK, FramesOK
      <3> QED BY <1>0, <2>1, <3>1 DEF Lined, EndHost, clientVars
    <2>5. ASSUME NEW t \in Sweeps PROVE Threaded(t)'
      <3>1. Threaded(t)
        BY DEF Attached
      <3>2. up'[t] # up[t] => t = c
        BY <2>1 DEF Typed, OrdersOK
      <3>3. \A i \in DOMAIN up'[t] : up'[t][i].op = "submit" => line[up'[t][i].of] = t
        <4>1. CASE t = c
          <5>1. \A i \in DOMAIN up'[c] : i + 1 \in DOMAIN up[c] /\ up'[c][i] = up[c][i + 1]
            BY <2>1, Rest
          <5> QED BY <3>1, <4>1, <5>1 DEF Threaded
        <4> QED BY <3>1, <3>2, <4>1 DEF Threaded
      <3> QED BY <1>0, <2>1, <3>3 DEF Threaded, EndHost, clientVars, Busy
    <2> QED BY <1>1, <2>3, <2>4, <2>5 DEF Attached
  <1>3. CASE TakeSubmit(c) \/ TakeRetire(c) \/ HearHangUp(c) \/ LockJob(c) \/ Forward(c)
             \/ Abandon(c) \/ EngineDies(c)
    <2> DEFINE place == serving'[c]
    <2>1. /\ serving[c] # "gone" /\ alive' = alive
          /\ up' = up \/ (up[c] # <<>> /\ up' = [up EXCEPT ![c] = Tail(@)])
          /\ serving' = [serving EXCEPT ![c] = place] /\ serves' = [serves EXCEPT ![c] = serves'[c]]
          /\ down' = [down EXCEPT ![c] = down'[c]]
      <3> USE DEF Ordered, Serve, Typed, HostOK, FramesOK, hostVars
      <3>1. CASE TakeSubmit(c) \/ TakeRetire(c) \/ HearHangUp(c) \/ LockJob(c)
        BY <3>1 DEF TakeSubmit, TakeRetire, HearHangUp, LockJob, Deliver
      <3>2. CASE Forward(c) \/ Abandon(c) \/ EngineDies(c)
        BY <3>2 DEF Forward, Abandon, EngineDies, Deliver
      <3> QED BY <1>3, <3>1, <3>2
    <2>2. place = "gone" => c \in shut
      <3>1. CASE TakeSubmit(c) \/ TakeRetire(c) \/ HearHangUp(c) \/ LockJob(c)
        BY <2>1, <3>1 DEF TakeSubmit, TakeRetire, HearHangUp, LockJob, Serve, hostVars,
                          Typed, HostOK
      <3>2. CASE Forward(c) \/ Abandon(c) \/ EngineDies(c)
        BY <2>1, <3>2 DEF Forward, Abandon, EngineDies, Serve, Typed, HostOK
      <3> QED BY <1>3, <3>1, <3>2
    <2>3. place \in Busy => line[serves'[c]] = c
      <3>1. CASE TakeSubmit(c)
        <4>1. 1 \in DOMAIN up[c] /\ up[c][1] = Head(up[c]) /\ up[c][1].op = "submit"
          <5>1. up[c] # <<>> /\ up[c] \in Seq(Orders) /\ Head(up[c]).op = "submit"
            BY <3>1 DEF TakeSubmit, Ordered, Typed, OrdersOK
          <5> QED BY <5>1, Took
        <4>2. line[Head(up[c]).of] = c
          BY <4>1 DEF Attached, Threaded
        <4>3. place \in Busy => serves'[c] = Head(up[c]).of \/ (serves'[c] = serves[c] /\ place = serving[c])
          BY <3>1 DEF TakeSubmit, Serve, Typed, HostOK
        <4> QED BY <4>2, <4>3 DEF Attached, Threaded
      <3>2. CASE TakeRetire(c) \/ HearHangUp(c) \/ LockJob(c)
        BY <3>2 DEF TakeRetire, HearHangUp, LockJob, Serve, hostVars, Typed, HostOK, Attached,
                    Threaded, Busy
      <3>3. CASE Forward(c) \/ Abandon(c) \/ EngineDies(c)
        BY <3>3 DEF Forward, Abandon, EngineDies, Serve, Typed, HostOK, Attached, Threaded, Busy
      <3> QED BY <1>3, <3>1, <3>2, <3>3
    <2>4. Hosting'
      <3>1. alive
        BY <2>1 DEF Attached, Threaded
      <3>2. place = "forwarding" => serving[c] = "forwarding" \/ Free
        BY <1>3 DEF TakeSubmit, TakeRetire, HearHangUp, LockJob, Forward, Abandon, EngineDies,
                    Serve, hostVars, Typed, HostOK
      <3> QED BY <2>1, <3>1, <3>2 DEF Attached, Hosting, Free, Typed, HostOK
    <2>5. Open'
      BY <1>0, <2>1, <2>2 DEF Attached, Open, clientVars, Typed, HostOK, WorkerOK
    <2>6. ASSUME NEW t \in Sweeps PROVE Lined(t)'
      <3>1. /\ Lined(t) /\ (t = c => line[t] # None)
            /\ t # c => up'[t] = up[t] /\ down'[t] = down[t] /\ serving'[t] = serving[t]
        BY <2>1, Dialled DEF Attached, Typed, OrdersOK, FramesOK, HostOK
      <3> QED BY <1>0, <3>1 DEF Lined, clientVars
    <2>7. ASSUME NEW t \in Sweeps PROVE Threaded(t)'
      <3>1. Threaded(t) /\ Threaded(c)
        BY DEF Attached
      <3>2. t # c => up'[t] = up[t] /\ serving'[t] = serving[t] /\ serves'[t] = serves[t]
        BY <2>1 DEF Typed, OrdersOK, HostOK
      <3>3. \A i \in DOMAIN up'[t] : up'[t][i].op = "submit" => line[up'[t][i].of] = t
        BY <2>1, <3>1, <3>2, Rest DEF Threaded
      <3>4. serving'[t] # "gone" => alive'
        BY <2>1, <3>1, <3>2 DEF Threaded
      <3>5. serving'[t] \in Busy => line[serves'[t]] = t
        BY <2>3, <3>1, <3>2 DEF Threaded
      <3> QED BY <1>0, <3>3, <3>4, <3>5 DEF Threaded, clientVars
    <2> QED BY <1>1, <2>4, <2>5, <2>6, <2>7 DEF Attached
  <1> QED BY <1>2, <1>3 DEF HostStep

LEMMA EngineAttached ==
  ASSUME Typed, Attached, EngineStep
  PROVE  Attached'
  <1>1. UNCHANGED <<clientVars, stopVars, up, down, hostVars>>
    BY DEF EngineStep, TakeJob, Solve, SolveFails, Cancel, Complete
  <1>2. alive
    BY DEF EngineStep, TakeJob, Solve, SolveFails, Cancel, Complete, Attached, Hosting
  <1>3. Hosting' /\ Open' /\ Stopping'
    BY <1>1, <1>2 DEF Attached, Hosting, Open, Stopping, clientVars, stopVars, hostVars
  <1>4. \A t \in Sweeps : Owner(t)' /\ Lined(t)' /\ Threaded(t)'
    BY <1>1 DEF Attached, Owner, Lined, Threaded, clientVars, hostVars
  <1> QED BY <1>3, <1>4 DEF Attached

LEMMA StepAttached == Typed /\ Attached /\ [Next]_vars => Attached'
  <1> SUFFICES ASSUME Typed, Attached, [Next]_vars PROVE Attached'
    OBVIOUS
  <1>1. CASE UNCHANGED vars
    BY <1>1 DEF vars, clientVars, stopVars, hostVars, engineVars, Attached, Owner, Lined,
                Threaded, Open, Hosting, Stopping
  <1>3. CASE CrashHost
    <2>1. UNCHANGED <<clientVars, stopVars, up, down>> /\ EndHost
      BY <1>3 DEF CrashHost
    <2>2. Open' /\ Hosting' /\ Stopping'
      BY <2>1 DEF Attached, Open, Hosting, Stopping, EndHost, ReplaceEngine, clientVars, stopVars
    <2>3. \A t \in Sweeps : Owner(t)' /\ Lined(t)' /\ Threaded(t)'
      BY <2>1 DEF Attached, Owner, Lined, Threaded, EndHost, clientVars, Busy
    <2> QED BY <2>2, <2>3 DEF Attached
  <1> QED BY <1>1, <1>3, ClientAttached, StopAttached, HostAttached, EngineAttached DEF Next

-----------------------------------------------------------------------------
(* A sweep whose request is on its way to the engine is Ahead, and one     *)
(* that has something in the engine but a last "failed" is InEngine.  One  *)
(* sweep at most is ahead: the one that owns the slot, or the last of a    *)
(* worker that is closed (Last).                                           *)
SubmitAt(c, i, t) == up[c][i].op = "submit" /\ up[c][i].of = t

Ahead(t) ==
  /\ line[t] # None /\ serving[line[t]] # "gone"
  /\ \/ \E i \in DOMAIN up[line[t]] : SubmitAt(line[t], i, t)
     \/ serving[line[t]] = "queued" /\ serves[line[t]] = t

Last(t) == closed /\ holder \in {t, None}

Apart(c) ==
  serving[c] # "gone" =>
    /\ \A i, j \in DOMAIN up[c] : up[c][i].op = "submit" /\ up[c][j].op = "submit" => i = j
    /\ serving[c] \in Busy => \A i \in DOMAIN up[c] : up[c][i].op # "submit"

Orderly ==
  /\ \A t \in Sweeps : Ahead(t) => at[t] = "awaiting" \/ (Last(t) /\ at[t] \notin Early)
  /\ \A t, u \in Sweeps : Ahead(t) /\ Ahead(u) => t = u
  /\ \A c \in Sweeps : Apart(c)

(* Before the worker is closed, a connection is in one of four states      *)
(* while its sweep reads, and clean when the next one gets it.             *)
Clean(c) ==
  /\ serving[c] = "reading" /\ down[c] = <<>>
  /\ \A i \in DOMAIN up[c] : closed /\ up[c][i].op = "shutdown"

Shaped(s) ==
  LET c == line[s] IN
  ~closed /\ at[s] \in Reading /\ alive =>
    \/ /\ serving[c] = "reading" /\ down[c] = <<>> /\ Len(up[c]) = 1
       /\ SubmitAt(c, 1, s)
    \/ /\ serving[c] = "queued" /\ down[c] = <<>> /\ up[c] = <<>>
    \/ /\ serving[c] = "forwarding" /\ up[c] = <<>>
       /\ \A i \in DOMAIN down[c] : down[c][i].kind \notin Terminal
    \/ /\ serving[c] = "reading" /\ up[c] = <<>>
       /\ \A i \in DOMAIN down[c] : down[c][i].kind \in Terminal => i = Len(down[c])

Handing ==
  \/ \E s \in Sweeps : holder = s /\ at[s] = "connecting"
  \/ ~closed /\ (holder = None \/ \E s \in Sweeps : holder = s /\ at[s] = "leaving")

Calm == connection # None /\ alive /\ Handing => Clean(connection)

(* What a sweep may find in its connection: its own, or what it raises on  *)
(* or reads past.                                                          *)
Harmless(frame, s) == frame.of = s \/ frame.kind \in {"failed", "retired", "shutdown_ok"}

Listens(s) ==
  at[s] \in Reading =>
    /\ serving[line[s]] \in Busy => serves[line[s]] = s
    /\ \A i \in DOMAIN down[line[s]] : Harmless(down[line[s]][i], s)

InPipe(t) == \E i \in DOMAIN pipe : pipe[i].of = t
InEngine(t) ==
  \/ \E i \in DOMAIN inbox : inbox[i] = t
  \/ job = t
  \/ \E i \in DOMAIN pipe : pipe[i].of = t /\ pipe[i].kind # "failed"

Final(t) == Last(t) /\ \A u \in Sweeps : ~Ahead(u)

(* An earlier sweep's "failed" has been taken for this one's: the sweep    *)
(* raises, and has the engine replaced before it gives the slot back.      *)
Misled(t) ==
  LET c == line[t] IN
  /\ ~closed /\ holder = t /\ serving[c] = "reading"
  /\ \/ /\ at[t] = "awaiting" /\ up[c] = <<>>
        /\ Len(down[c]) = 1 /\ down[c][1].kind = "failed"
     \/ at[t] = "retiring" /\ up[c] = <<>> /\ down[c] = <<>>
     \/ /\ at[t] = "hearing" /\ down[c] = <<>>
        /\ Len(up[c]) = 1 /\ up[c][1].op = "retire"

(* While a sweep's job is forwarded the engine has nobody else's; what is  *)
(* stale in its output is in front, and nothing but a "failed" is behind   *)
(* the job's own last frame.                                               *)
Stale(t) == \E i \in DOMAIN pipe : pipe[i].of # t
Foremost(t) == \A i, j \in DOMAIN pipe : i < j /\ pipe[j].of # t => pipe[i].of # t
Ended(t) ==
  \A i \in DOMAIN pipe : pipe[i].of = t /\ pipe[i].kind \in Terminal =>
    inbox = <<>> /\ job = None /\ \A j \in DOMAIN pipe : j > i => pipe[j].kind = "failed"

Single == Len(inbox) <= 1 /\ (job # None => inbox = <<>>)

Forwards(c) ==
  LET t == serves[c] IN
  serving[c] = "forwarding" =>
    /\ at[t] \notin Early
    /\ \A u \in Sweeps : InEngine(u) => u = t
    /\ Stale(t) => Final(t) \/ (~closed /\ at[t] = "awaiting" /\ down[c] = <<>>)
    /\ Foremost(t) /\ Ended(t)

(* The engine has one job, none of a sweep that is still ahead, and while  *)
(* no thread forwards, of one that is the last or has been misled.         *)
Settled == \A t \in Sweeps : InEngine(t) \/ InPipe(t) => at[t] \notin Early /\ ~Ahead(t)
Excused == \A t \in Sweeps : Free /\ InEngine(t) => Final(t) \/ Misled(t)
Engaged == Single /\ Settled /\ Excused /\ \A c \in Sweeps : Forwards(c)

(* What a step may add to a connection: an order that is no request, ...   *)
LEMMA Told ==
  ASSUME Typed, NEW c \in Sweeps, NEW op \in {"submit", "retire", "shutdown"},
         NEW s \in Sweeps, Send(c, op, s)
  PROVE  /\ \A d \in Sweeps : d # c => up'[d] = up[d]
         /\ DOMAIN up'[c] = 1 .. Len(up[c]) + 1 /\ DOMAIN up[c] = 1 .. Len(up[c])
         /\ Len(up[c]) \in Nat /\ Len(up'[c]) = Len(up[c]) + 1
         /\ \A i \in 1 .. Len(up[c]) : up'[c][i] = up[c][i]
         /\ up'[c][Len(up[c]) + 1].op = op /\ up'[c][Len(up[c]) + 1].of = s
  <1> DEFINE order == [op |-> op, of |-> s]
             q == up[c]
  <1>1. q \in Seq(Orders) /\ order \in Orders
    BY DEF Typed, OrdersOK, Orders
  <1>2. up'[c] = Append(q, order) /\ \A d \in Sweeps : d # c => up'[d] = up[d]
    BY DEF Send, Typed, OrdersOK
  <1>3. /\ DOMAIN Append(q, order) = 1 .. Len(q) + 1 /\ DOMAIN q = 1 .. Len(q)
        /\ Len(q) \in Nat /\ Len(Append(q, order)) = Len(q) + 1
        /\ \A i \in 1 .. Len(q) : Append(q, order)[i] = q[i]
        /\ Append(q, order)[Len(q) + 1] = order
    <2> HIDE DEF order, q
    <2> QED BY <1>1, Added
  <1>4. up[c] = q /\ order.op = op /\ order.of = s
    OBVIOUS
  <1> HIDE DEF order, q
  <1> QED BY <1>2, <1>3, <1>4

(* ... and nobody is ahead but who was, or who submits now.                *)
LEMMA AheadStays ==
  ASSUME Typed, Attached, [Next]_vars, NEW t \in Sweeps, Ahead(t)'
  PROVE  Ahead(t) \/ (Submit(t) /\ Reachable(line[t]))
  <1> DEFINE c == line[t]
  <1>1. ASSUME NEW s \in Sweeps, Connect(s) PROVE Ahead(t)
    <2>1. /\ UNCHANGED <<up, serves>> /\ line[s] = None /\ up[s] = <<>> /\ serving[s] = "gone"
          /\ \A u \in Sweeps : u # s => line'[u] = line[u]
          /\ serving' = serving \/ (serving' = [serving EXCEPT ![s] = "reading"] /\ connection = None)
          /\ line'[s] \in Sweeps /\ (serving' # serving => line'[s] = s)
      BY <1>1 DEF Connect, Attached, Lined, hostVars, Typed, ClientOK, WorkerOK
    <2>2. CASE t # s
      <3>1. line'[t] = c /\ c # None /\ c \in Sweeps
        BY <2>1, <2>2 DEF Ahead, Typed, ClientOK
      <3>2. c # s \/ serving' = serving
        BY <2>1, <3>1 DEF Ahead, Typed, HostOK
      <3> QED BY <2>1, <3>1, <3>2 DEF Ahead, SubmitAt, Typed, HostOK
    <2>3. CASE t = s
      <3>1. \A d \in Sweeps : \A i \in DOMAIN up[d] : ~SubmitAt(d, i, s)
        BY <2>1 DEF Attached, Threaded, SubmitAt, Typed, ClientOK
      <3>2. \A d \in Sweeps : ~(serving[d] = "queued" /\ serves[d] = s)
        BY <2>1 DEF Attached, Threaded, Busy, Typed, ClientOK
      <3>3. \A d \in Sweeps : ~(serving'[d] = "queued" /\ serves[d] = s)
        BY <2>1, <3>2 DEF Typed, HostOK
      <3> QED BY <2>1, <2>3, <3>1, <3>3 DEF Ahead, SubmitAt
    <2> QED BY <2>2, <2>3
  <1>2. ASSUME UNCHANGED <<line, up, serving, serves>> PROVE Ahead(t)
    BY <1>2 DEF Ahead, SubmitAt
  <1>3. ASSUME NEW d \in Sweeps, NEW op \in {"submit", "retire", "shutdown"}, NEW s \in Sweeps,
               Send(d, op, s), UNCHANGED <<line, serving, serves>>,
               op # "submit" \/ s # t
        PROVE  Ahead(t)
    <2>1. c # None /\ c \in Sweeps /\ serving[c] # "gone"
      BY <1>3 DEF Ahead, Typed, ClientOK
    <2>2. ASSUME NEW i \in DOMAIN up'[c], up'[c][i].op = "submit", up'[c][i].of = t
          PROVE  i \in DOMAIN up[c] /\ SubmitAt(c, i, t)
      <3>1. /\ \A e \in Sweeps : e # d => up'[e] = up[e]
            /\ DOMAIN up'[d] = 1 .. Len(up[d]) + 1 /\ DOMAIN up[d] = 1 .. Len(up[d])
            /\ Len(up[d]) \in Nat
            /\ \A j \in 1 .. Len(up[d]) : up'[d][j] = up[d][j]
            /\ up'[d][Len(up[d]) + 1].op = op /\ up'[d][Len(up[d]) + 1].of = s
        BY <1>3, Told
      <3>2. CASE c = d
        <4>1. i # Len(up[d]) + 1
          BY <1>3, <2>2, <3>1, <3>2
        <4>2. i \in 1 .. Len(up[c]) /\ up'[c][i] = up[c][i]
          BY <2>2, <3>1, <3>2, <4>1
        <4> QED BY <2>2, <3>1, <3>2, <4>2 DEF SubmitAt
      <3>3. CASE c # d
        BY <2>1, <2>2, <3>1, <3>3 DEF SubmitAt
      <3> QED BY <3>2, <3>3
    <2> QED BY <1>3, <2>1, <2>2 DEF Ahead, SubmitAt
  <1>4. ASSUME NEW d \in Sweeps, HostStep(d) \/ EngineDies(d) PROVE Ahead(t)
    <2>1. line' = line
      BY <1>4, HostEffect DEF clientVars
    <2>2. CASE TakeShutdown(d)
      BY <2>1, <2>2 DEF TakeShutdown, EndHost, Ahead, Typed, ClientOK
    <2>3. CASE ~TakeShutdown(d)
      <3>1. c # None /\ c \in Sweeps /\ serving'[c] # "gone"
        BY <2>1 DEF Ahead, Typed, ClientOK
      <3>2. /\ \A e \in Sweeps : e # d => serving'[e] = serving[e] /\ serves'[e] = serves[e]
            /\ serving[d] # "gone"
            /\ up' = up \/ (up[d] # <<>> /\ up' = [up EXCEPT ![d] = Tail(@)])
        BY <1>4, <2>3 DEF HostStep, TakeSubmit, TakeRetire, HearHangUp, LockJob, Forward, Abandon,
                    EngineDies, Serve, Ordered, hostVars, Typed, HostOK
      <3>3. \A i \in DOMAIN up'[c] :
              SubmitAt(c, i, t)' => \E j \in DOMAIN up[c] : SubmitAt(c, j, t)
        <4>1. CASE up'[c] = up[c]
          BY <2>1, <4>1 DEF SubmitAt
        <4>2. CASE c = d /\ up[d] # <<>> /\ up' = [up EXCEPT ![d] = Tail(@)]
          <5>1. \A i \in DOMAIN up'[d] : i + 1 \in DOMAIN up[d] /\ up'[d][i] = up[d][i + 1]
            BY <4>2, Rest
          <5> QED BY <2>1, <4>2, <5>1 DEF SubmitAt
        <4> QED BY <3>1, <3>2, <4>1, <4>2 DEF Typed, OrdersOK
      <3>4. serving'[c] = "queued" /\ serves'[c] = t /\ ~(serving[c] = "queued" /\ serves[c] = t)
            => \E j \in DOMAIN up[c] : SubmitAt(c, j, t)
        <4> SUFFICES ASSUME serving'[c] = "queued", serves'[c] = t,
                            ~(serving[c] = "queued" /\ serves[c] = t)
                     PROVE  \E j \in DOMAIN up[c] : SubmitAt(c, j, t)
          OBVIOUS
        <4>1. TakeSubmit(c)
          BY <1>4, <2>3, <3>1, <3>2
             DEF HostStep, TakeRetire, HearHangUp, LockJob, Forward, Abandon, EngineDies, Serve,
                 hostVars, Typed, HostOK
        <4>2. up[c] \in Seq(Orders) /\ up[c] # <<>> /\ Head(up[c]).op = "submit" /\ Head(up[c]).of = t
          BY <3>1, <4>1 DEF TakeSubmit, Ordered, Serve, Typed, HostOK, OrdersOK
        <4>3. 1 \in DOMAIN up[c] /\ up[c][1] = Head(up[c])
          BY <4>2, Took
        <4> QED BY <4>2, <4>3 DEF SubmitAt
      <3>5. serving[c] # "gone"
        BY <3>1, <3>2
      <3> QED BY <2>1, <3>1, <3>3, <3>4, <3>5 DEF Ahead, SubmitAt
    <2> QED BY <2>2, <2>3
  <1>5. ASSUME NEW s \in Sweeps, Submit(s) PROVE Ahead(t) \/ (s = t /\ Reachable(line[s]))
    <2>1. UNCHANGED <<line, serving, serves>> /\ line[s] \in Sweeps
      BY <1>5 DEF Submit, hostVars, Typed, ClientOK
    <2>2. CASE Reachable(line[s])
      BY <1>3, <1>5, <2>1, <2>2 DEF Submit
    <2>3. CASE ~Reachable(line[s])
      BY <1>2, <1>5, <2>1, <2>3 DEF Submit
    <2> QED BY <2>2, <2>3
  <1>6. ASSUME NEW s \in Sweeps, Retire(s) PROVE Ahead(t)
    <2>1. UNCHANGED <<line, serving, serves>>
      BY <1>6, RetireInPlace DEF Retire, hostVars
    <2>2. up' = up \/ (connection \in Sweeps /\ Send(connection, "retire", s))
      BY <1>6 DEF Retire, Typed, WorkerOK
    <2> QED BY <1>2, <1>3, <2>1, <2>2
  <1>7. CASE Stop
    <2>1. UNCHANGED <<line, serving, serves>>
      BY <1>7 DEF Stop, Refuse, SayShutdown, Detach, HearShutdown, hostVars, clientVars
    <2>2. up' = up \/ (connection \in Sweeps /\ Send(connection, "shutdown", connection))
      BY <1>7 DEF Stop, Refuse, SayShutdown, Detach, HearShutdown, Typed, WorkerOK
    <2> QED BY <1>2, <1>3, <2>1, <2>2
  <1>8. CASE CrashHost
    BY <1>8 DEF CrashHost, EndHost, Ahead, Typed, ClientOK, clientVars
  <1>9. CASE EngineStep \/ UNCHANGED vars
    BY <1>2, <1>9 DEF EngineStep, TakeJob, Solve, SolveFails, Cancel, Complete, vars, clientVars,
                      hostVars
  <1>10. ASSUME NEW s \in Sweeps,
                Call(s) \/ Acquire(s) \/ Refused(s) \/ Read(s) \/ HearNothing(s) \/ ReadRaises(s)
                  \/ Hear(s) \/ Leave(s)
         PROVE  Ahead(t)
    BY <1>2, <1>10 DEF Call, Acquire, Refused, Read, HearNothing, ReadRaises, StreamRaises, Hear,
                       Leave, hostVars
  <1> QED BY <1>1, <1>4, <1>5, <1>6, <1>7, <1>8, <1>9, <1>10 DEF Next, SweepStep

-----------------------------------------------------------------------------
(* The hypothesis: an exception that lands while a sweep waits for a frame *)
(* gives the slot back with its job running.                               *)
Uninterrupted == "reading" \notin Interrupts

(* How the sides of a sweep fit together.                                  *)
Coherent ==
  /\ Typed /\ Attached /\ Orderly /\ Calm /\ Engaged
  /\ \A s \in Sweeps : Shaped(s) /\ Listens(s)

(* A sweep that reads owns the slot, and the worker's connection unless it *)
(* is closed.                                                              *)
LEMMA Ours ==
  ASSUME Typed, Attached, NEW s \in Sweeps, at[s] \in Reading
  PROVE  /\ holder = s /\ line[s] \in Sweeps /\ line[s] # None /\ s # None
         /\ ~closed => /\ connection = line[s] /\ line[s] \notin shut
                       /\ alive => serving[line[s]] # "gone"
  <1>1. Owner(s) /\ Lined(s) /\ Open
    BY DEF Attached
  <1>2. holder = s /\ line[s] \in Sweeps /\ line[s] # None /\ s # None /\ at[s] # "leaving"
    BY <1>1 DEF Owner, Typed, ClientOK, Reading
  <1> QED BY <1>1, <1>2 DEF Lined, Open

(* The owner that is about to submit finds nobody ahead and a clean line.  *)
LEMMA Submitting ==
  ASSUME Coherent, NEW s \in Sweeps, Submit(s), Reachable(line[s])
  PROVE  /\ holder = s /\ at[s] = "connecting" /\ connection = line[s] /\ Clean(line[s])
         /\ \A u \in Sweeps : ~Ahead(u)
         /\ line[s] \in Sweeps /\ Send(line[s], "submit", s) /\ at' = [at EXCEPT ![s] = "awaiting"]
  <1>1. /\ at[s] = "connecting" /\ line[s] # None /\ alive /\ line[s] \notin shut
        /\ Send(line[s], "submit", s) /\ at' = [at EXCEPT ![s] = "awaiting"]
    BY DEF Submit, Reachable, Goto
  <1>2. holder = s /\ connection = line[s] /\ line[s] \in Sweeps
    BY <1>1 DEF Coherent, Typed, ClientOK, Attached, Owner, Lined
  <1>3. Clean(line[s])
    BY <1>1, <1>2 DEF Coherent, Calm, Handing
  <1>4. ASSUME NEW u \in Sweeps, Ahead(u) PROVE FALSE
    <2>1. u # s
      BY <1>1, <1>4 DEF Coherent, Orderly, Early
    <2>2. at[u] # "awaiting"
      BY <1>2, <2>1 DEF Coherent, Attached, Owner, Reading
    <2>3. s # None
      BY <1>1 DEF Coherent, Typed
    <2> QED BY <1>2, <1>4, <2>1, <2>2, <2>3 DEF Coherent, Orderly, Last
  <1> QED BY <1>1, <1>2, <1>3, <1>4

(* Whoever is ahead while somebody owns the slot is its owner; while the   *)
(* worker is open, there is no frame for one that is ahead.                *)
LEMMA AheadIsOwner ==
  ASSUME Coherent, NEW t \in Sweeps, Ahead(t)
  PROVE  /\ holder # None => holder = t
         /\ ~closed => holder = t /\ at[t] = "awaiting"
         /\ alive /\ line[t] \in Sweeps /\ serving[line[t]] # "gone" /\ at[t] \notin Early
         /\ ~closed /\ at[t] \in Reading => down[line[t]] = <<>>
  <1>1. at[t] = "awaiting" \/ (Last(t) /\ at[t] \notin Early)
    BY DEF Coherent, Orderly
  <1>2. alive /\ line[t] \in Sweeps /\ serving[line[t]] # "gone"
    BY DEF Ahead, Coherent, Typed, ClientOK, Attached, Threaded
  <1>3. at[t] = "awaiting" => holder = t
    BY DEF Coherent, Attached, Owner, Reading
  <1>4. ~closed /\ at[t] \in Reading => down[line[t]] = <<>>
    <2>1. up[line[t]] = <<>> => serving[line[t]] = "queued"
      BY DEF Ahead
    <2> QED BY <1>2, <2>1 DEF Coherent, Shaped
  <1> QED BY <1>1, <1>2, <1>3, <1>4 DEF Last, Early

(* A socket is closed under its reader only when the worker is.            *)
LEMMA ReadRaisesClosed ==
  ASSUME Uninterrupted, Typed, Attached, NEW s \in Sweeps, ReadRaises(s)
  PROVE  closed
  BY Ours DEF Uninterrupted, ReadRaises

(* Whoever was ahead keeps waiting, or is the last.                        *)
LEMMA StillOrdered ==
  ASSUME Uninterrupted, Coherent, [Next]_vars, NEW t \in Sweeps, Ahead(t)
  PROVE  at'[t] = "awaiting" \/ (Last(t)' /\ at'[t] \notin Early)
  <1>1. /\ at[t] = "awaiting" \/ (Last(t) /\ at[t] \notin Early)
        /\ Typed /\ Attached /\ t # None
    BY DEF Coherent, Orderly, Typed
  <1>2. ASSUME NEW s \in Sweeps, s # t, Call(s) \/ SweepStep(s)
        PROVE  at'[t] = at[t] /\ (Last(t) => Last(t)')
    <2>1. CASE Call(s) \/ Acquire(s) \/ Refused(s) \/ Connect(s) \/ Submit(s)
      BY <1>1, <1>2, <2>1 DEF Call, Acquire, Refused, Connect, Submit, Goto, Last, Typed, ClientOK
    <2>2. CASE Read(s)
      <3>1. at' = at \/ \E place : Goto(s, place)
        BY <1>1, <2>2, ReadEffect DEF Close
      <3> QED BY <1>1, <1>2, <2>2, <3>1 DEF Read, Goto, Last, Typed, ClientOK
    <2>3. CASE HearNothing(s) \/ ReadRaises(s)
      BY <1>1, <1>2, <2>3 DEF HearNothing, ReadRaises, StreamRaises, Close, Goto, Last, Typed,
                              ClientOK
    <2>4. CASE Retire(s) \/ Hear(s) \/ Leave(s)
      BY <1>1, <1>2, <2>4 DEF Retire, Hear, Leave, Goto, Last, Typed, ClientOK
    <2> QED BY <1>2, <2>1, <2>2, <2>3, <2>4 DEF SweepStep
  <1>3. ASSUME Call(t) \/ Acquire(t) \/ Refused(t) \/ Connect(t) \/ Submit(t) PROVE FALSE
    BY <1>1, <1>3 DEF Call, Acquire, Refused, Connect, Submit, Early
  <1>4. CASE Read(t)
    <2>1. closed /\ holder = t
      <3>1. at[t] \in Reading /\ down[line[t]] # <<>>
        BY <1>4 DEF Read
      <3> QED BY <1>1, <3>1, AheadIsOwner, Ours
    <2>2. at' = at \/ \E place \in Reading \cup Ending : Goto(t, place)
      BY <1>1, <1>4, ReadEffect DEF Close, Reading, Ending
    <2> QED BY <1>1, <1>4, <2>1, <2>2
            DEF Read, Goto, Last, Typed, ClientOK, Reading, Ending, Early
  <1>5. ASSUME HearNothing(t) PROVE FALSE
    BY <1>5, AheadIsOwner DEF HearNothing
  <1>6. CASE ReadRaises(t)
    BY <1>1, <1>6, ReadRaisesClosed
       DEF ReadRaises, StreamRaises, Close, Goto, Last, Typed, ClientOK, Early, Attached, Owner
  <1>7. CASE Retire(t) \/ Hear(t) \/ Leave(t)
    <2>1. outcome[t] \in Over \/ at[t] # "leaving"
      BY <1>1 DEF Typed, ClientOK, Ending
    <2> QED BY <1>1, <1>7, <2>1 DEF Retire, Hear, Leave, Goto, Last, Typed, ClientOK, Early, Over
  <1>8. CASE Stop
    BY <1>1, <1>8 DEF Stop, Refuse, SayShutdown, Detach, HearShutdown, clientVars, Last
  <1>9. CASE EngineStep \/ CrashHost \/ UNCHANGED vars
    BY <1>1, <1>9 DEF EngineStep, TakeJob, Solve, SolveFails, Cancel, Complete, CrashHost, vars,
                      clientVars, Last
  <1>10. ASSUME NEW c \in Sweeps, HostStep(c) \/ EngineDies(c)
         PROVE  UNCHANGED <<at, closed, holder>>
    BY <1>10, HostEffect DEF clientVars
  <1> QED BY <1>1, <1>2, <1>3, <1>4, <1>5, <1>6, <1>7, <1>8, <1>9, <1>10 DEF Next, SweepStep, Last

(* One request on a connection at a time.                                  *)
LEMMA StillApart ==
  ASSUME Coherent, [Next]_vars, NEW c \in Sweeps
  PROVE  Apart(c)'
  <1>0. Apart(c) /\ Typed /\ Attached
    BY DEF Coherent, Orderly
  <1>1. ASSUME UNCHANGED <<up, serving>> PROVE Apart(c)'
    BY <1>0, <1>1 DEF Apart
  <1>2. ASSUME NEW d \in Sweeps, NEW op \in {"retire", "shutdown"}, NEW s \in Sweeps,
               Send(d, op, s), UNCHANGED serving
        PROVE  Apart(c)'
    <2>1. CASE c = d
      <3>1. \A i \in DOMAIN up'[c] : up'[c][i].op = "submit"
                                     => i \in DOMAIN up[c] /\ up[c][i].op = "submit"
        <4>1. /\ DOMAIN up'[c] = 1 .. Len(up[c]) + 1 /\ DOMAIN up[c] = 1 .. Len(up[c])
              /\ Len(up[c]) \in Nat /\ \A i \in 1 .. Len(up[c]) : up'[c][i] = up[c][i]
              /\ up'[c][Len(up[c]) + 1].op # "submit"
          BY <1>0, <1>2, <2>1, Told
        <4>2. \A i \in DOMAIN up'[c] : i \in DOMAIN up[c] \/ i = Len(up[c]) + 1
          BY <4>1
        <4> QED BY <4>1, <4>2
      <3> QED BY <1>0, <1>2, <3>1 DEF Apart
    <2>2. CASE c # d
      <3>1. up'[c] = up[c]
        BY <1>0, <1>2, <2>2, Told
      <3> QED BY <1>0, <1>2, <3>1 DEF Apart
    <2> QED BY <2>1, <2>2
  <1>3. ASSUME NEW s \in Sweeps, Submit(s) PROVE Apart(c)'
    <2>1. CASE Reachable(line[s])
      <3>1. Send(line[s], "submit", s) /\ Clean(line[s]) /\ line[s] \in Sweeps
        BY <1>3, <2>1, Submitting
      <3>2. serving' = serving
        BY <1>3 DEF Submit, hostVars
      <3>3. CASE c = line[s]
        <4>1. \A i \in DOMAIN up'[c] : up'[c][i].op = "submit" => i = Len(up[c]) + 1
          <5>1. /\ DOMAIN up'[c] = 1 .. Len(up[c]) + 1 /\ DOMAIN up[c] = 1 .. Len(up[c])
                /\ Len(up[c]) \in Nat /\ \A i \in 1 .. Len(up[c]) : up'[c][i] = up[c][i]
            BY <1>0, <3>1, <3>3, Told
          <5>2. \A i \in DOMAIN up[c] : up[c][i].op # "submit"
            BY <3>1, <3>3 DEF Clean
          <5>3. \A i \in DOMAIN up'[c] : i \in DOMAIN up[c] \/ i = Len(up[c]) + 1
            BY <5>1
          <5> QED BY <5>1, <5>2, <5>3
        <4> QED BY <3>1, <3>2, <3>3, <4>1 DEF Apart, Clean, Busy
      <3>4. CASE c # line[s]
        <4>1. up'[c] = up[c]
          BY <1>0, <3>1, <3>4, Told
        <4> QED BY <1>0, <3>2, <4>1 DEF Apart
      <3> QED BY <3>3, <3>4
    <2>2. CASE ~Reachable(line[s])
      BY <1>1, <1>3, <2>2 DEF Submit, hostVars
    <2> QED BY <2>1, <2>2
  <1>4. ASSUME NEW s \in Sweeps, Connect(s) PROVE Apart(c)'
    <2>1. up' = up /\ up[s] = <<>> /\ (serving' = serving \/ serving' = [serving EXCEPT ![s] = "reading"])
      BY <1>0, <1>4 DEF Connect, hostVars, Attached, Lined
    <2>2. CASE c = s
      BY <2>1, <2>2 DEF Apart
    <2>3. CASE c # s
      BY <1>0, <2>1, <2>3 DEF Apart, Typed, HostOK
    <2> QED BY <2>2, <2>3
  <1>5. ASSUME NEW s \in Sweeps, Retire(s) PROVE Apart(c)'
    <2>1. serving' = serving /\ (up' = up \/ (connection \in Sweeps /\ Send(connection, "retire", s)))
      BY <1>0, <1>5 DEF Retire, Typed, WorkerOK, hostVars
    <2> QED BY <1>1, <1>2, <2>1
  <1>6. ASSUME NEW s \in Sweeps,
               Call(s) \/ Acquire(s) \/ Refused(s) \/ Read(s) \/ HearNothing(s) \/ ReadRaises(s)
                 \/ Hear(s) \/ Leave(s)
        PROVE  Apart(c)'
    BY <1>1, <1>6 DEF Call, Acquire, Refused, Read, HearNothing, ReadRaises, StreamRaises, Hear,
                      Leave, hostVars
  <1>7. CASE Stop
    <2>1. /\ serving' = serving
          /\ up' = up \/ (connection \in Sweeps /\ Send(connection, "shutdown", connection))
      BY <1>0, <1>7 DEF Stop, Refuse, SayShutdown, Detach, HearShutdown, Typed, WorkerOK, hostVars
    <2> QED BY <1>1, <1>2, <2>1
  <1>8. CASE EngineStep \/ UNCHANGED vars
    BY <1>1, <1>8 DEF EngineStep, TakeJob, Solve, SolveFails, Cancel, Complete, vars, hostVars
  <1>9. CASE CrashHost
    BY <1>9 DEF CrashHost, EndHost, Apart
  <1>10. ASSUME NEW d \in Sweeps, HostStep(d) \/ EngineDies(d) PROVE Apart(c)'
    <2>1. CASE TakeShutdown(d)
      BY <2>1 DEF TakeShutdown, EndHost, Apart
    <2>2. CASE c # d /\ ~TakeShutdown(d)
      <3>1. up'[c] = up[c] /\ serving'[c] = serving[c]
        BY <1>0, <1>10, <2>2
           DEF HostStep, TakeSubmit, TakeRetire, HearHangUp, LockJob, Forward, Abandon,
               EngineDies, Serve, Ordered, hostVars, Typed, HostOK, OrdersOK
      <3> QED BY <1>0, <3>1 DEF Apart
    <2>3. CASE c = d /\ (TakeSubmit(d) \/ TakeRetire(d))
      <3>1. /\ up[c] # <<>> /\ up' = [up EXCEPT ![c] = Tail(@)] /\ serving[c] = "reading"
            /\ TakeSubmit(c) => Head(up[c]).op = "submit"
            /\ TakeRetire(c) => serving' = serving
        BY <2>3 DEF TakeSubmit, TakeRetire, Ordered, hostVars
      <3>2. /\ \A i \in DOMAIN up'[c] : i + 1 \in DOMAIN up[c] /\ i + 1 > 1 /\ up'[c][i] = up[c][i + 1]
            /\ DOMAIN up'[c] \subseteq Nat
            /\ 1 \in DOMAIN up[c]
        <4>1. /\ DOMAIN up'[c] = 1 .. Len(up[c]) - 1 /\ DOMAIN up[c] = 1 .. Len(up[c])
              /\ Len(up[c]) \in Nat \ {0}
          BY <1>0, <3>1, Rest
        <4>2. \A i \in DOMAIN up'[c] : i + 1 \in DOMAIN up[c] /\ i + 1 > 1 /\ up'[c][i] = up[c][i + 1]
          BY <1>0, <3>1, Rest
        <4> QED BY <4>1, <4>2
      <3>3. up[c][1] = Head(up[c])
        BY <1>0, <3>1, Took DEF Typed, OrdersOK
      <3>4. /\ \A i, j \in DOMAIN up'[c] : up'[c][i].op = "submit" /\ up'[c][j].op = "submit"
                                           => i + 1 = j + 1
            /\ TakeSubmit(c) => \A i \in DOMAIN up'[c] : up'[c][i].op # "submit"
        BY <1>0, <3>1, <3>2, <3>3 DEF Apart
      <3> QED BY <2>3, <3>1, <3>2, <3>4 DEF Apart, Busy
    <2>4. CASE c = d /\ (HearHangUp(d) \/ LockJob(d) \/ Forward(d) \/ Abandon(d) \/ EngineDies(d))
      <3>1. up' = up /\ serving[c] # "gone" /\ (serving'[c] \in Busy => serving[c] \in Busy)
        BY <1>0, <2>4 DEF HearHangUp, LockJob, Forward, Abandon, EngineDies, Serve, Typed, HostOK,
                          Busy
      <3> QED BY <1>0, <3>1 DEF Apart
    <2> QED BY <1>10, <2>1, <2>2, <2>3, <2>4 DEF HostStep
  <1> QED BY <1>3, <1>4, <1>5, <1>6, <1>7, <1>8, <1>9, <1>10 DEF Next, SweepStep

(* One sweep at most is ahead, after every step.                           *)
LEMMA StepOrderly ==
  ASSUME Uninterrupted, Coherent, [Next]_vars
  PROVE  Orderly'
  <1>0. Typed /\ Attached
    BY DEF Coherent
  <1>1. ASSUME NEW t \in Sweeps, Submit(t), Reachable(line[t])
        PROVE  at'[t] = "awaiting" /\ holder = t /\ \A u \in Sweeps : ~Ahead(u)
    BY <1>0, <1>1, Submitting DEF Typed, ClientOK
  <1>2. ASSUME NEW t \in Sweeps, Ahead(t)'
        PROVE  at'[t] = "awaiting" \/ (Last(t)' /\ at'[t] \notin Early)
    BY <1>0, <1>1, <1>2, AheadStays, StillOrdered
  <1>3. ASSUME NEW t \in Sweeps, NEW u \in Sweeps, Ahead(t)', Ahead(u)'
        PROVE  t = u
    BY <1>0, <1>1, <1>3, AheadStays DEF Coherent, Orderly
  <1>4. \A c \in Sweeps : Apart(c)'
    BY StillApart
  <1> QED BY <1>2, <1>3, <1>4 DEF Orderly

(* What a delivery and a read do to the frames of a connection.            *)
LEMMA Delivered ==
  ASSUME Typed, NEW c \in Sweeps, NEW frame \in Frames, Deliver(c, frame)
  PROVE  /\ \A d \in Sweeps : d # c => down'[d] = down[d]
         /\ c \in shut => down' = down
         /\ DOMAIN down[c] = 1 .. Len(down[c]) /\ Len(down[c]) \in Nat
         /\ c \notin shut =>
              /\ DOMAIN down'[c] = 1 .. Len(down[c]) + 1 /\ Len(down'[c]) = Len(down[c]) + 1
              /\ \A i \in 1 .. Len(down[c]) : down'[c][i] = down[c][i]
              /\ down'[c][Len(down[c]) + 1] = frame
  <1> DEFINE q == down[c]
  <1>1. q \in Seq(Frames) /\ down[c] = q
    BY DEF Typed, FramesOK
  <1>2. /\ c \in shut => down' = down
        /\ c \notin shut => down'[c] = Append(q, frame)
        /\ \A d \in Sweeps : d # c => down'[d] = down[d]
    BY DEF Deliver, Typed, FramesOK
  <1> HIDE DEF q
  <1>3. /\ DOMAIN Append(q, frame) = 1 .. Len(q) + 1 /\ DOMAIN q = 1 .. Len(q)
        /\ Len(q) \in Nat /\ Len(Append(q, frame)) = Len(q) + 1
        /\ \A i \in 1 .. Len(q) : Append(q, frame)[i] = q[i]
        /\ Append(q, frame)[Len(q) + 1] = frame
    BY <1>1, Added
  <1> QED BY <1>1, <1>2, <1>3

LEMMA Dropped ==
  ASSUME Typed, NEW c \in Sweeps, down[c] # <<>>, Drop(c)
  PROVE  /\ \A d \in Sweeps : d # c => down'[d] = down[d]
         /\ DOMAIN down[c] = 1 .. Len(down[c]) /\ Len(down[c]) \in Nat \ {0}
         /\ down[c][1] = Head(down[c]) /\ Head(down[c]) \in Frames
         /\ DOMAIN down'[c] = 1 .. Len(down[c]) - 1 /\ Len(down'[c]) = Len(down[c]) - 1
         /\ \A i \in 1 .. Len(down[c]) - 1 : down'[c][i] = down[c][i + 1]
         /\ Len(down[c]) = 1 => down'[c] = <<>>
  <1> DEFINE q == down[c]
  <1>1. q \in Seq(Frames) /\ q # <<>> /\ down[c] = q
    BY DEF Typed, FramesOK
  <1>2. down'[c] = Tail(q) /\ \A d \in Sweeps : d # c => down'[d] = down[d]
    BY DEF Drop, Typed, FramesOK
  <1> HIDE DEF q
  <1>3. /\ DOMAIN q = 1 .. Len(q) /\ Len(q) \in Nat \ {0} /\ q[1] = Head(q) /\ Head(q) \in Frames
        /\ DOMAIN Tail(q) = 1 .. Len(q) - 1 /\ Len(Tail(q)) = Len(q) - 1
        /\ Tail(q) \in Seq(Frames)
        /\ \A i \in 1 .. Len(q) - 1 : Tail(q)[i] = q[i + 1]
    BY <1>1, Took
  <1>4. Len(q) = 1 => Tail(q) = <<>>
    BY <1>3
  <1> QED BY <1>1, <1>2, <1>3, <1>4

(* Where a sweep is when it has read a frame.                              *)
LEMMA ReadEnds ==
  ASSUME Typed, NEW s \in Sweeps, Read(s)
  PROVE  /\ \A t \in Sweeps : t # s => at'[t] = at[t]
         /\ at'[s] \in Reading \cup {"retiring", "leaving"}
         /\ at'[s] = "awaiting" => at[s] = "awaiting"
         /\ Head(down[line[s]]).kind \in Terminal => at'[s] \notin Reading
         /\ Head(down[line[s]]).kind = "failed" => at'[s] = "retiring"
         /\ at'[s] = "leaving" => Head(down[line[s]]).kind \in Terminal \ {"failed"}
  <1> DEFINE frame == Head(down[line[s]])
  <1>1. at[s] \in Reading /\ (ReadStart(s, frame) \/ ReadSolve(s, frame))
    BY DEF Read
  <1>2. at' = at \/ \E place : Goto(s, place)
    BY ReadEffect DEF Close
  <1> HIDE DEF frame
  <1>3. CASE ReadStart(s, frame) /\ frame.kind \notin Terminal
    <2>1. at' = at \/ Goto(s, "solving")
      BY <1>3 DEF ReadStart, Terminal
    <2>2. frame.kind \notin Terminal /\ frame.kind # "failed"
      BY <1>3 DEF Terminal
    <2> QED BY <1>1, <2>1, <2>2 DEF frame, Goto, Typed, ClientOK, Reading
  <1>4. CASE ReadStart(s, frame) /\ frame.kind \in Terminal
    <2>1. Close(s, "raised", TRUE, frame.kind = "failed")
      BY <1>4 DEF ReadStart, Terminal
    <2>2. at'[s] = IF frame.kind = "failed" THEN "retiring" ELSE "leaving"
      BY <2>1 DEF Close, Goto, Typed, ClientOK
    <2> QED BY <1>2, <1>4, <2>2 DEF frame, Goto, Typed, ClientOK, Reading
  <1>5. CASE ReadSolve(s, frame) /\ frame.kind \in Terminal
    <2>1. Finish(s, frame.kind)
      BY <1>5 DEF ReadSolve, Terminal
    <2>2. at'[s] = IF frame.kind = "failed" THEN "retiring" ELSE "leaving"
      BY <2>1 DEF Finish, Close, Goto, Typed, ClientOK
    <2> QED BY <1>2, <1>5, <2>2 DEF frame, Goto, Typed, ClientOK, Reading
  <1>6. CASE ReadSolve(s, frame) /\ frame.kind = "result"
    <2>1. Keep(s, frame)
      BY <1>6 DEF ReadSolve, Terminal
    <2>2. at' = at \/ Goto(s, "retiring")
      BY <2>1 DEF Keep, Report, Close
    <2> QED BY <1>1, <1>6, <2>2 DEF frame, Goto, Typed, ClientOK, Reading, Terminal
  <1>7. CASE ReadSolve(s, frame) /\ frame.kind # "result" /\ frame.kind \notin Terminal
    BY <1>1, <1>7 DEF frame, ReadSolve, Terminal
  <1>8. (frame.kind \in Terminal \/ frame.kind \notin Terminal) /\ frame = Head(down[line[s]])
    BY DEF frame
  <1> QED BY <1>1, <1>2, <1>3, <1>4, <1>5, <1>6, <1>7, <1>8 DEF Terminal, Goto, Typed, ClientOK, Reading

(* A thread of the host touches its own connection only.                   *)
LEMMA HostTouches ==
  ASSUME Typed, NEW d \in Sweeps, HostStep(d) \/ EngineDies(d), ~TakeShutdown(d),
         NEW c \in Sweeps, c # d
  PROVE  /\ up'[c] = up[c] /\ down'[c] = down[c]
         /\ serving'[c] = serving[c] /\ serves'[c] = serves[c] /\ alive' = alive
  <1> USE DEF Typed, OrdersOK, FramesOK, HostOK, Ordered, Serve, Deliver, hostVars
  <1>1. CASE TakeSubmit(d) \/ TakeRetire(d) \/ HearHangUp(d) \/ LockJob(d)
    BY <1>1 DEF TakeSubmit, TakeRetire, HearHangUp, LockJob
  <1>2. CASE Forward(d) \/ Abandon(d) \/ EngineDies(d)
    BY <1>2 DEF Forward, Abandon, EngineDies
  <1> QED BY <1>1, <1>2 DEF HostStep

(* A connection that changes hands is clean.                               *)
LEMMA ReadCalm ==
  ASSUME Coherent, NEW s \in Sweeps, Read(s), ~closed, alive, at'[s] = "leaving"
  PROVE  connection = line[s] /\ Clean(line[s])'
  <1> DEFINE c == line[s]
  <1>0. Typed /\ Attached /\ Shaped(s)
    BY DEF Coherent
  <1>1. /\ at[s] \in Reading /\ down[c] # <<>> /\ Drop(c)
        /\ UNCHANGED <<closed, line, up, serving>>
    BY DEF Read, hostVars
  <1>2. connection = c /\ c \in Sweeps
    BY <1>0, <1>1, Ours
  <1>3. Head(down[c]).kind \in Terminal
    BY <1>0, ReadEnds
  <1> HIDE DEF c
  <1>4. /\ DOMAIN down[c] = 1 .. Len(down[c]) /\ Len(down[c]) \in Nat \ {0}
        /\ down[c][1] = Head(down[c]) /\ (Len(down[c]) = 1 => down'[c] = <<>>)
    BY <1>0, <1>1, <1>2, Dropped
  <1>5. /\ up[c] = <<>> /\ serving[c] = "reading"
        /\ \A i \in DOMAIN down[c] : down[c][i].kind \in Terminal => i = Len(down[c])
    BY <1>0, <1>1, <1>3, <1>4 DEF Shaped, c
  <1>6. down'[c] = <<>>
    <2>1. 1 \in DOMAIN down[c] /\ down[c][1].kind \in Terminal
      BY <1>3, <1>4
    <2> QED BY <1>4, <1>5, <2>1
  <1> QED BY <1>1, <1>2, <1>5, <1>6 DEF Clean, c

(* Whoever hands the worker on, leaves its connection clean.               *)
LEMMA StepCalm ==
  ASSUME Uninterrupted, Coherent, [Next]_vars
  PROVE  Calm'
  <1> SUFFICES ASSUME connection' # None, alive', Handing' PROVE Clean(connection)'
    BY DEF Calm
  <1>0. Typed /\ Attached /\ (connection # None /\ alive /\ Handing => Clean(connection))
    BY DEF Coherent, Calm
  <1>1. ASSUME UNCHANGED <<connection, alive>>, Handing' => Handing, closed => closed',
               up'[connection] = up[connection], down'[connection] = down[connection],
               serving'[connection] = serving[connection]
        PROVE  Clean(connection)'
    BY <1>0, <1>1 DEF Clean
  <1>2. ASSUME NEW s \in Sweeps, Call(s) \/ Acquire(s) \/ Refused(s) \/ Leave(s)
        PROVE  Clean(connection)'
    <2>1. UNCHANGED <<connection, alive, closed, up, down, serving>>
      BY <1>2 DEF Call, Acquire, Refused, Leave, hostVars
    <2>2. Owner(s) /\ s # None /\ (at[s] = "leaving" => outcome[s] \in Over)
      BY <1>0 DEF Attached, Typed, ClientOK, Ending
    <2>3. Handing' => Handing
      <3>1. CASE Call(s) \/ Acquire(s) \/ Refused(s)
        BY <1>0, <2>2, <3>1 DEF Call, Acquire, Refused, Goto, Owner, Handing, Typed, ClientOK, Reading, Ending
      <3>2. CASE Leave(s)
        BY <1>0, <2>2, <3>2 DEF Leave, Goto, Handing, Typed, ClientOK, Over
      <3> QED BY <1>2, <3>1, <3>2
    <2> QED BY <1>1, <2>1, <2>3
  <1>3. ASSUME NEW s \in Sweeps, Connect(s) PROVE Clean(connection)'
    <2>1. CASE connection # None
      BY <1>0, <1>1, <1>3, <2>1 DEF Connect, Typed, ClientOK, hostVars, Handing
    <2>2. CASE connection = None
      BY <1>0, <1>3, <2>2 DEF Connect, Typed, ClientOK, HostOK, Attached, Lined, Clean
    <2> QED BY <2>1, <2>2
  <1>4. ASSUME NEW s \in Sweeps, Submit(s) PROVE FALSE
    <2>1. holder = s /\ s # None /\ connection = connection' /\ alive = alive'
      BY <1>0, <1>4 DEF Submit, Attached, Owner, Typed, hostVars
    <2>2. ~Reachable(line[s])
      <3>1. SUFFICES ASSUME Reachable(line[s]) PROVE FALSE
        OBVIOUS
      <3>2. at' = [at EXCEPT ![s] = "awaiting"] /\ holder' = holder
        BY <1>4, <3>1 DEF Submit, Goto
      <3> QED BY <1>0, <2>1, <3>2 DEF Handing, Typed, ClientOK
    <2>3. connection = line[s]
      BY <1>0, <1>4, <2>1 DEF Submit, Attached, Lined
    <2> QED BY <1>0, <2>1, <2>2, <2>3 DEF Reachable, Attached, Open
  <1>5. ASSUME NEW s \in Sweeps, Read(s) PROVE Clean(connection)'
    <2>1. holder = s /\ s # None /\ UNCHANGED <<holder, closed, connection, alive>>
      BY <1>0, <1>5, Ours DEF Read, hostVars
    <2>2. ~closed /\ at'[s] = "leaving"
      <3>1. at'[s] # "connecting"
        BY <1>0, <1>5, ReadEnds DEF Reading
      <3> QED BY <2>1, <3>1 DEF Handing
    <2>3. connection = line[s] /\ Clean(line[s])' /\ line' = line
      BY <1>5, <2>1, <2>2, ReadCalm DEF Read
    <2> QED BY <2>1, <2>3
  <1>6. ASSUME NEW s \in Sweeps, HearNothing(s) \/ ReadRaises(s) PROVE FALSE
    <2>1. CASE HearNothing(s)
      BY <2>1 DEF HearNothing, HangUp
    <2>2. CASE ReadRaises(s)
      <3>1. closed /\ closed' /\ holder' = None
        BY <1>0, <2>2, ReadRaisesClosed, Ours DEF ReadRaises, StreamRaises
      <3> QED BY <1>0, <3>1 DEF Handing, Typed
    <2> QED BY <1>6, <2>1, <2>2
  <1>7. ASSUME NEW s \in Sweeps, Retire(s) PROVE Clean(connection)'
    <2>1. CASE holder = s
      <3>1. at' = [at EXCEPT ![s] = "hearing"] /\ holder' = s /\ s # None
        BY <1>0, <1>7, <2>1 DEF Retire, HangUp, Goto, Typed
      <3> QED BY <1>0, <3>1 DEF Handing, Typed, ClientOK
    <2>2. CASE holder # s
      BY <1>0, <1>1, <1>7, <2>2 DEF Retire, Goto, Handing, Typed, ClientOK, hostVars
    <2> QED BY <2>1, <2>2
  <1>8. ASSUME NEW s \in Sweeps, Hear(s) PROVE FALSE
    <2>1. holder = s /\ s # None /\ at[s] = "hearing" /\ holder' = holder /\ at' = at
      BY <1>0, <1>8 DEF Hear, HangUp, Attached, Owner, Typed
    <2> QED BY <2>1 DEF Handing
  <1>9. CASE Stop
    <2>1. UNCHANGED <<at, holder, alive, serving>>
      BY <1>9 DEF Stop, Refuse, SayShutdown, Detach, HearShutdown, clientVars, hostVars
    <2>2. CASE Refuse
      BY <1>1, <2>1, <2>2 DEF Refuse, Handing
    <2>3. ~Refuse => closed /\ closed'
      BY <1>0, <1>9 DEF Stop, SayShutdown, Detach, HearShutdown, StopStep, Attached, Stopping, clientVars
    <2>4. CASE SayShutdown
      <3>1. Send(connection, "shutdown", connection) /\ connection \in Sweeps
            /\ UNCHANGED <<connection, down, closed>> /\ closed
        BY <1>0, <2>3, <2>4 DEF SayShutdown, StopStep, Refuse, Typed, WorkerOK, clientVars
      <3>2. Clean(connection)
        BY <1>0, <2>1, <2>3, <3>1 DEF Handing
      <3>3. \A i \in DOMAIN up'[connection] : up'[connection][i].op = "shutdown"
        BY <1>0, <3>1, <3>2, Told DEF Clean
      <3> QED BY <2>1, <3>1, <3>2, <3>3 DEF Clean
    <2>5. CASE HearShutdown
      <3>1. UNCHANGED <<connection, closed, up>> /\ closed
        BY <1>0, <2>3, <2>5 DEF HearShutdown, HangUp, Refuse, StopStep, Stopping, Attached
      <3>2. Clean(connection)
        BY <1>0, <2>1, <2>3, <3>1 DEF Handing
      <3>3. down'[connection] = down[connection]
        <4>1. down' = down \/ (down[asked] # <<>> /\ down' = [down EXCEPT ![asked] = Tail(@)])
          BY <2>5 DEF HearShutdown, Drop
        <4>2. connection \in Sweeps /\ down[connection] = <<>>
          BY <1>0, <3>1, <3>2 DEF Clean, Typed, WorkerOK
        <4> QED BY <1>0, <4>1, <4>2 DEF Typed, FramesOK
      <3> QED BY <2>1, <3>1, <3>2, <3>3 DEF Clean
    <2>6. CASE Detach
      BY <2>6 DEF Detach, HangUp
    <2> QED BY <1>9, <2>2, <2>4, <2>5, <2>6 DEF Stop
  <1>10. CASE EngineStep \/ UNCHANGED vars
    <2>1. UNCHANGED <<clientVars, up, down, hostVars>>
      BY <1>10 DEF EngineStep, TakeJob, Solve, SolveFails, Cancel, Complete, vars
    <2>2. UNCHANGED <<at, holder, closed, connection, alive, up, down, serving>>
      BY <2>1 DEF clientVars, hostVars
    <2> QED BY <1>1, <2>2 DEF Handing
  <1>11. ASSUME CrashHost PROVE FALSE
    BY <1>11 DEF CrashHost, EndHost
  <1>12. ASSUME NEW d \in Sweeps, HostStep(d) \/ EngineDies(d) PROVE Clean(connection)'
    <2>1. UNCHANGED <<connection, closed, at, holder>>
      BY <1>12, HostEffect DEF clientVars
    <2>2. ~TakeShutdown(d)
      BY DEF TakeShutdown, EndHost
    <2>3. alive' = alive
      BY <1>12, <2>2 DEF HostStep, TakeSubmit, TakeRetire, HearHangUp, LockJob, Forward, Abandon,
                         EngineDies, hostVars
    <2>4. Clean(connection) /\ connection \notin shut
      BY <1>0, <2>1, <2>3 DEF Handing, Attached, Open
    <2>5. d # connection
      <3>1. d = connection /\ up[d] # <<>> => Head(up[d]).op = "shutdown"
        <4>1. up[d] # <<>> => up[d][1] = Head(up[d]) /\ 1 \in DOMAIN up[d]
          BY <1>0, Took DEF Typed, OrdersOK
        <4> QED BY <2>4, <4>1 DEF Clean
      <3> QED BY <1>12, <2>2, <2>4, <3>1
              DEF HostStep, TakeSubmit, TakeRetire, HearHangUp, LockJob, Forward, Abandon,
                  EngineDies, Ordered, Clean
    <2>6. /\ up'[connection] = up[connection] /\ down'[connection] = down[connection]
          /\ serving'[connection] = serving[connection]
      BY <1>0, <1>12, <2>1, <2>2, <2>5, HostTouches DEF Typed, WorkerOK
    <2> QED BY <2>1, <2>4, <2>6 DEF Clean
  <1> QED BY <1>2, <1>3, <1>4, <1>5, <1>6, <1>7, <1>8, <1>9, <1>10, <1>11, <1>12
          DEF Next, SweepStep

(* A sweep that reads on has read before, or has just submitted; and while *)
(* it reads nobody else has the slot.                                      *)
LEMMA ReadsOn ==
  ASSUME Typed, Attached, [Next]_vars, NEW s \in Sweeps, at'[s] \in Reading
  PROVE  \/ Submit(s) /\ Reachable(line[s])
         \/ at[s] \in Reading /\ line' = line
  <1>1. line' = line \/ \E u \in Sweeps : Connect(u)
    <2>1. ASSUME NEW u \in Sweeps, Call(u) \/ SweepStep(u), ~Connect(u) PROVE line' = line
      BY <2>1, RetireInPlace DEF SweepStep, Call, Acquire, Refused, Submit, Read, HearNothing,
                                 ReadRaises, StreamRaises, Hear, Leave
    <2>2. ASSUME NEW c \in Sweeps, HostStep(c) \/ EngineDies(c) PROVE line' = line
      BY <2>2, HostEffect DEF clientVars
    <2>3. Stop => line' = line
      BY DEF Stop, Refuse, SayShutdown, Detach, HearShutdown, clientVars
    <2>4. EngineStep \/ CrashHost \/ UNCHANGED vars => line' = line
      BY DEF EngineStep, TakeJob, Solve, SolveFails, Cancel, Complete, CrashHost, vars, clientVars
    <2> QED BY <2>1, <2>2, <2>3, <2>4 DEF Next, SweepStep
  <1>2. ASSUME NEW u \in Sweeps, Connect(u) PROVE at[s] \notin Reading /\ at' = at
    BY <1>2 DEF Connect, Attached, Owner, Reading
  <1>3. ASSUME NEW u \in Sweeps, Call(u) \/ SweepStep(u), u # s PROVE at'[s] = at[s]
    <2>1. CASE Read(u)
      BY <1>3, <2>1, ReadEnds
    <2>2. CASE ~Read(u)
      BY <1>3, <2>2 DEF SweepStep, Call, Acquire, Refused, Connect, Submit, HearNothing, ReadRaises,
                        StreamRaises, Close, Retire, Hear, Leave, Goto, Typed, ClientOK
    <2> QED BY <2>1, <2>2
  <1>4. CASE Call(s) \/ SweepStep(s)
    <2>1. CASE Submit(s)
      BY <2>1 DEF Submit, Goto, Typed, ClientOK, Reading
    <2>2. CASE Leave(s)
      BY <2>2 DEF Leave, Goto, Typed, ClientOK, Reading, Over, Ending
    <2>3. CASE Read(s)
      BY <2>3 DEF Read
    <2>4. CASE ~Submit(s) /\ ~Leave(s) /\ ~Read(s)
      BY <1>4, <2>4 DEF SweepStep, Call, Acquire, Refused, Connect, HearNothing, ReadRaises,
                        StreamRaises, Close, Retire, Hear, Goto, Typed, ClientOK, Reading
    <2> QED BY <1>1, <1>2, <2>1, <2>2, <2>3, <2>4
  <1>5. ASSUME NEW c \in Sweeps, HostStep(c) \/ EngineDies(c) PROVE at' = at
    BY <1>5, HostEffect DEF clientVars
  <1>6. Stop \/ EngineStep \/ CrashHost \/ UNCHANGED vars => at' = at
    BY DEF Stop, Refuse, SayShutdown, Detach, HearShutdown,
           EngineStep, TakeJob, Solve, SolveFails, Cancel, Complete, CrashHost, vars, clientVars
  <1> QED BY <1>1, <1>2, <1>3, <1>4, <1>5, <1>6 DEF Next

(* The steps that leave a reading sweep's connection as it is.             *)
LEMMA Untouched ==
  ASSUME Coherent, [Next]_vars, NEW s \in Sweeps, at[s] \in Reading, line' = line,
         ~Read(s), ~Stop, ~CrashHost,
         ~ \E c \in Sweeps : HostStep(c) \/ EngineDies(c)
  PROVE  UNCHANGED <<up, down, alive, serving, serves, closed>>
  <1>0. Typed /\ Attached /\ holder = s
    BY Ours DEF Coherent
  <1>1. ASSUME NEW t \in Sweeps PROVE ~Connect(t) /\ ~Submit(t) /\ ~Hear(t) /\ ~(Read(t) /\ t # s)
    <2>1. Owner(t)
      BY <1>0 DEF Attached
    <2>2. at[s] # "connecting" /\ at[s] # "hearing"
      BY DEF Reading
    <2> QED BY <1>0, <2>1, <2>2 DEF Connect, Submit, Hear, Read, Owner
  <1>2. ASSUME NEW t \in Sweeps, Call(t) \/ Acquire(t) \/ Refused(t) \/ HearNothing(t) \/ ReadRaises(t)
                                 \/ Leave(t)
        PROVE  UNCHANGED <<up, down, alive, serving, serves, closed>>
    BY <1>2 DEF Call, Acquire, Refused, HearNothing, ReadRaises, StreamRaises, Leave, hostVars
  <1>3. ASSUME NEW t \in Sweeps, Retire(t)
        PROVE  UNCHANGED <<up, down, alive, serving, serves, closed>>
    BY <1>0, <1>3 DEF Retire, hostVars, Reading
  <1>4. EngineStep \/ UNCHANGED vars => UNCHANGED <<up, down, alive, serving, serves, closed>>
    BY DEF EngineStep, TakeJob, Solve, SolveFails, Cancel, Complete, vars, clientVars, hostVars
  <1> QED BY <1>1, <1>2, <1>3, <1>4 DEF Next, SweepStep

(* The connection of a sweep that reads goes from one of its states to     *)
(* the next.                                                               *)
LEMMA StepShaped ==
  ASSUME Uninterrupted, Coherent, [Next]_vars, NEW s \in Sweeps
  PROVE  Shaped(s)'
  <1> SUFFICES ASSUME ~closed', at'[s] \in Reading, alive' PROVE Shaped(s)'
    BY DEF Shaped
  <1>0. Typed /\ Attached /\ Shaped(s)
    BY DEF Coherent
  <1>1. CASE Submit(s) /\ Reachable(line[s])
    <2> DEFINE c == line[s]
    <2>1. /\ Clean(c) /\ c \in Sweeps /\ Send(c, "submit", s)
          /\ UNCHANGED <<line, down, serving, closed>> /\ ~closed
      BY <1>1, Submitting DEF Submit, hostVars
    <2> HIDE DEF c
    <2>2. Len(up[c]) = 0
      <3>1. Len(up[c]) \in Nat /\ DOMAIN up[c] = 1 .. Len(up[c])
        BY <1>0, <2>1, Told
      <3>2. ASSUME Len(up[c]) # 0 PROVE FALSE
        <4>1. 1 \in DOMAIN up[c]
          BY <3>1, <3>2
        <4> QED BY <2>1, <4>1 DEF Clean
      <3> QED BY <3>2
    <2>3. Len(up'[c]) = 1 /\ up'[c][1].op = "submit" /\ up'[c][1].of = s
      <3>1. /\ Len(up'[c]) = Len(up[c]) + 1
            /\ up'[c][Len(up[c]) + 1].op = "submit" /\ up'[c][Len(up[c]) + 1].of = s
        BY <1>0, <2>1, Told
      <3> QED BY <2>2, <3>1
    <2>4. serving'[c] = "reading" /\ down'[c] = <<>> /\ line'[s] = c
      BY <2>1 DEF Clean, c
    <2> QED BY <2>3, <2>4 DEF Shaped, SubmitAt
  <1>2. CASE at[s] \in Reading /\ line' = line
    <2> DEFINE c == line[s]
    <2>1. ~Stop /\ ~CrashHost
      BY <1>0 DEF Stop, Refuse, SayShutdown, Detach, HearShutdown, StopStep, Attached, Stopping,
                  clientVars, CrashHost, EndHost
    <2>2. ASSUME ~Read(s), ~ \E d \in Sweeps : HostStep(d) \/ EngineDies(d) PROVE Shaped(s)'
      <3>1. UNCHANGED <<up, down, alive, serving, serves, closed>>
        BY <1>2, <2>1, <2>2, Untouched
      <3> QED BY <1>0, <1>2, <3>1 DEF Shaped, SubmitAt
    <2>3. CASE Read(s)
      <3>1. /\ down[c] # <<>> /\ Drop(c) /\ UNCHANGED <<closed, line, up, serving, alive>>
            /\ c \in Sweeps
        BY <1>0, <1>2, <2>3, Ours DEF Read, hostVars
      <3>2. Head(down[c]).kind \notin Terminal
        BY <1>0, <2>3, ReadEnds
      <3> HIDE DEF c
      <3>3. /\ DOMAIN down[c] = 1 .. Len(down[c]) /\ Len(down[c]) \in Nat \ {0}
            /\ DOMAIN down'[c] = 1 .. Len(down[c]) - 1 /\ Len(down'[c]) = Len(down[c]) - 1
            /\ \A i \in 1 .. Len(down[c]) - 1 : down'[c][i] = down[c][i + 1]
        BY <1>0, <3>1, Dropped
      <3>4. \/ serving[c] = "forwarding" /\ up[c] = <<>>
               /\ \A i \in DOMAIN down[c] : down[c][i].kind \notin Terminal
            \/ serving[c] = "reading" /\ up[c] = <<>>
               /\ \A i \in DOMAIN down[c] : down[c][i].kind \in Terminal => i = Len(down[c])
        BY <1>0, <1>2, <3>1 DEF Shaped, c
      <3>5. /\ (\A i \in DOMAIN down[c] : down[c][i].kind \notin Terminal)
               => \A i \in DOMAIN down'[c] : down'[c][i].kind \notin Terminal
            /\ (\A i \in DOMAIN down[c] : down[c][i].kind \in Terminal => i = Len(down[c]))
               => \A i \in DOMAIN down'[c] : down'[c][i].kind \in Terminal => i = Len(down'[c])
        <4>1. \A i \in DOMAIN down'[c] : i + 1 \in DOMAIN down[c] /\ down'[c][i] = down[c][i + 1]
          BY <3>3
        <4>2. \A i \in DOMAIN down'[c] : i \in Nat /\ (i + 1 = Len(down[c]) => i = Len(down'[c]))
          BY <3>3
        <4> QED BY <4>1, <4>2
      <3> QED BY <3>1, <3>4, <3>5 DEF Shaped, c
    <2>4. ASSUME NEW d \in Sweeps, HostStep(d) \/ EngineDies(d) PROVE Shaped(s)'
      <3>1. UNCHANGED <<at, closed, line, shut, connection>>
        BY <2>4, HostEffect DEF clientVars
      <3>2. ~TakeShutdown(d)
        BY DEF TakeShutdown, EndHost
      <3>3. alive' = alive
        BY <2>4, <3>2 DEF HostStep, TakeSubmit, TakeRetire, HearHangUp, LockJob, Forward, Abandon,
                          EngineDies, hostVars
      <3>4. c \in Sweeps /\ c \notin shut
        BY <1>0, <1>2, <3>1, Ours
      <3>5. CASE d # c
        <4>1. up'[c] = up[c] /\ down'[c] = down[c] /\ serving'[c] = serving[c]
          BY <1>0, <2>4, <3>2, <3>4, <3>5, HostTouches
        <4> QED BY <1>0, <1>2, <3>1, <3>3, <4>1 DEF Shaped, SubmitAt
      <3>6. CASE d = c
        <4> HIDE DEF c
        <4>0. \/ SubmitAt(c, 1, s) /\ serving[c] = "reading" /\ down[c] = <<>> /\ Len(up[c]) = 1
              \/ serving[c] = "queued" /\ down[c] = <<>> /\ up[c] = <<>>
              \/ /\ serving[c] = "forwarding" /\ up[c] = <<>>
                 /\ \A i \in DOMAIN down[c] : down[c][i].kind \notin Terminal
              \/ serving[c] = "reading" /\ up[c] = <<>>
          BY <1>0, <1>2, <3>1, <3>3 DEF Shaped, c
        <4>1. up[c] # <<>> => /\ Head(up[c]) = up[c][1] /\ DOMAIN up[c] = 1 .. Len(up[c])
                              /\ (Len(up[c]) = 1 => Tail(up[c]) = <<>>)
          BY <1>0, <3>4, OnlyOne, Took DEF Typed, OrdersOK
        <4>2. CASE TakeSubmit(c)
          <5>1. /\ up[c] # <<>> /\ up'[c] = Tail(up[c]) /\ serving[c] = "reading"
            BY <1>0, <3>4, <4>2 DEF TakeSubmit, Ordered, Typed, OrdersOK
          <5>2. SubmitAt(c, 1, s) /\ down[c] = <<>> /\ up'[c] = <<>>
            BY <4>0, <4>1, <5>1
          <5>3. at[Head(up[c]).of] \notin Over
            BY <1>2, <4>1, <5>1, <5>2 DEF SubmitAt, Reading, Over
          <5>4. serving'[c] = "queued" /\ down' = down
            BY <1>0, <3>4, <4>2, <5>3 DEF TakeSubmit, Serve, Typed, HostOK
          <5> QED BY <3>1, <5>2, <5>4 DEF Shaped, c
        <4>3. ASSUME TakeRetire(c) PROVE FALSE
          BY <4>0, <4>1, <4>3 DEF TakeRetire, Ordered, SubmitAt
        <4>4. ASSUME HearHangUp(c) \/ Abandon(c) PROVE FALSE
          BY <3>4, <4>4 DEF HearHangUp, Abandon
        <4>5. CASE LockJob(c)
          <5>1. serving[c] = "queued" /\ serving'[c] = "forwarding" /\ UNCHANGED <<up, down>>
            BY <1>0, <3>4, <4>5 DEF LockJob, Serve, Typed, HostOK
          <5>2. up[c] = <<>> /\ down[c] = <<>>
            BY <4>0, <5>1
          <5> QED BY <3>1, <5>1, <5>2 DEF Shaped, c
        <4>6. ASSUME NEW frame \in Frames, Deliver(c, frame), up' = up, serving[c] = "forwarding",
                     serving'[c] = IF frame.kind \in Terminal THEN "reading" ELSE "forwarding"
              PROVE  Shaped(s)'
          <5>1. up'[c] = <<>> /\ \A i \in DOMAIN down[c] : down[c][i].kind \notin Terminal
            BY <4>0, <4>6
          <5>2. /\ DOMAIN down[c] = 1 .. Len(down[c]) /\ Len(down[c]) \in Nat
                /\ DOMAIN down'[c] = 1 .. Len(down[c]) + 1 /\ Len(down'[c]) = Len(down[c]) + 1
                /\ \A i \in 1 .. Len(down[c]) : down'[c][i] = down[c][i]
                /\ down'[c][Len(down[c]) + 1] = frame
            BY <1>0, <3>4, <4>6, Delivered
          <5>3. /\ \A i \in DOMAIN down'[c] : down'[c][i].kind \in Terminal => i = Len(down'[c])
                /\ frame.kind \notin Terminal
                   => \A i \in DOMAIN down'[c] : down'[c][i].kind \notin Terminal
            <6>1. \A i \in DOMAIN down'[c] : \/ i = Len(down'[c]) /\ down'[c][i] = frame
                                             \/ i \in DOMAIN down[c] /\ down'[c][i] = down[c][i]
              BY <5>2
            <6> QED BY <5>1, <6>1
          <5> QED BY <3>1, <4>6, <5>1, <5>3 DEF Shaped, c
        <4>7. CASE Forward(c)
          <5>1. Head(pipe) \in Frames /\ Deliver(c, Head(pipe)) /\ up' = up
            BY <1>0, <4>7, Took DEF Forward, Typed, EngineOK
          <5>2. /\ serving[c] = "forwarding"
                /\ serving'[c] = IF Head(pipe).kind \in Terminal THEN "reading" ELSE "forwarding"
            BY <1>0, <3>4, <4>7 DEF Forward, Serve, Typed, HostOK
          <5> QED BY <4>6, <5>1, <5>2
        <4>8. CASE EngineDies(c)
          <5>1. serves[c] \in Sweeps /\ serving[c] = "forwarding" /\ up' = up
            BY <1>0, <3>4, <4>8 DEF EngineDies, Typed, HostOK, Busy
          <5>2. Frame(serves[c], "failed", 0) \in Frames
            BY <5>1, FrameTyped, ZeroTyped DEF Terminal
          <5>3. Frame(serves[c], "failed", 0).kind \in Terminal
            BY DEF Frame, Terminal
          <5>4. Deliver(c, Frame(serves[c], "failed", 0)) /\ serving'[c] = "reading"
            BY <1>0, <3>4, <4>8 DEF EngineDies, Serve, Typed, HostOK
          <5> QED BY <4>6, <5>1, <5>2, <5>3, <5>4
        <4> QED BY <2>4, <3>2, <3>6, <4>2, <4>3, <4>4, <4>5, <4>7, <4>8 DEF HostStep
      <3> QED BY <3>5, <3>6
    <2> QED BY <2>1, <2>2, <2>3, <2>4
  <1> QED BY <1>0, <1>1, <1>2, ReadsOn

(* A sweep hears its own frames, or such as it raises on or reads past.    *)
LEMMA HearsHarmless ==
  ASSUME Typed, NEW c \in Sweeps, NEW s \in Sweeps, NEW frame \in Frames, Deliver(c, frame),
         Harmless(frame, s), \A i \in DOMAIN down[c] : Harmless(down[c][i], s)
  PROVE  \A i \in DOMAIN down'[c] : Harmless(down'[c][i], s)
  <1>1. CASE c \in shut
    BY <1>1, Delivered
  <1>2. CASE c \notin shut
    <2>1. /\ DOMAIN down[c] = 1 .. Len(down[c]) /\ Len(down[c]) \in Nat
          /\ DOMAIN down'[c] = 1 .. Len(down[c]) + 1
          /\ \A i \in 1 .. Len(down[c]) : down'[c][i] = down[c][i]
          /\ down'[c][Len(down[c]) + 1] = frame
      BY <1>2, Delivered
    <2>2. \A i \in DOMAIN down'[c] : \/ down'[c][i] = frame
                                     \/ i \in DOMAIN down[c] /\ down'[c][i] = down[c][i]
      BY <2>1
    <2> QED BY <2>2
  <1> QED BY <1>1, <1>2

LEMMA HearsOn ==
  ASSUME Typed, NEW c \in Sweeps, NEW s \in Sweeps, down[c] # <<>>, Drop(c),
         \A i \in DOMAIN down[c] : Harmless(down[c][i], s)
  PROVE  \A i \in DOMAIN down'[c] : Harmless(down'[c][i], s)
  <1>1. /\ DOMAIN down[c] = 1 .. Len(down[c]) /\ Len(down[c]) \in Nat \ {0}
        /\ DOMAIN down'[c] = 1 .. Len(down[c]) - 1
        /\ \A i \in 1 .. Len(down[c]) - 1 : down'[c][i] = down[c][i + 1]
    BY Dropped
  <1>2. \A i \in DOMAIN down'[c] : i + 1 \in DOMAIN down[c] /\ down'[c][i] = down[c][i + 1]
    BY <1>1
  <1> QED BY <1>2

(* The frame at the head of the engine's output is the job's own, or a     *)
(* last "failed" of an earlier one.                                        *)
LEMMA HeadOfPipe ==
  ASSUME Typed, pipe # <<>>
  PROVE  /\ Head(pipe) \in Frames /\ Head(pipe).of \in Sweeps /\ 1 \in DOMAIN pipe
         /\ pipe[1] = Head(pipe)
         /\ Head(pipe).kind # "failed" => InEngine(Head(pipe).of)
  <1>1. Head(pipe) \in Frames /\ pipe[1] = Head(pipe) /\ 1 \in DOMAIN pipe
    <2>1. pipe \in Seq(Frames)
      BY DEF Typed, EngineOK
    <2>2. Head(pipe) = pipe[1] /\ Head(pipe) \in Frames /\ DOMAIN pipe = 1 .. Len(pipe)
          /\ Len(pipe) \in Nat \ {0}
      BY <2>1, Took
    <2> QED BY <2>2
  <1> QED BY <1>1 DEF InEngine, Frames

(* Nobody else's results get into the connection of a sweep that reads.    *)
LEMMA StepListens ==
  ASSUME Uninterrupted, Coherent, [Next]_vars, NEW s \in Sweeps
  PROVE  Listens(s)'
  <1> SUFFICES ASSUME at'[s] \in Reading PROVE Listens(s)'
    BY DEF Listens
  <1> DEFINE c == line[s]
  <1>0. Typed /\ Attached /\ Listens(s)
    BY DEF Coherent
  <1>1. CASE Submit(s) /\ Reachable(c)
    <2>1. Clean(c) /\ UNCHANGED <<line, down, serving>>
      BY <1>1, Submitting DEF Submit, hostVars
    <2> QED BY <2>1 DEF Listens, Clean, Busy
  <1>2. CASE at[s] \in Reading /\ line' = line
    <2>0. /\ c \in Sweeps /\ holder = s /\ s # None
          /\ serving[c] \in Busy => serves[c] = s
          /\ \A i \in DOMAIN down[c] : Harmless(down[c][i], s)
          /\ line'[s] = c
      BY <1>0, <1>2, Ours DEF Listens
    <2> HIDE DEF c
    <2>1. ASSUME serving'[c] \in Busy => serves'[c] = s,
                 \A i \in DOMAIN down'[c] : Harmless(down'[c][i], s)
          PROVE  Listens(s)'
      BY <2>0, <2>1 DEF Listens, Harmless
    <2>2. ASSUME ~Read(s), ~Stop, ~CrashHost, ~ \E d \in Sweeps : HostStep(d) \/ EngineDies(d)
          PROVE Listens(s)'
      <3>1. UNCHANGED <<down, serving, serves>>
        BY <1>2, <2>2, Untouched
      <3> QED BY <2>0, <2>1, <3>1
    <2>3. CASE Read(s)
      <3>1. down[c] # <<>> /\ Drop(c) /\ UNCHANGED <<serving, serves>>
        BY <2>3 DEF Read, hostVars, c
      <3> QED BY <1>0, <2>0, <2>1, <3>1, HearsOn
    <2>4. CASE Stop
      <3>1. UNCHANGED <<serving, serves>>
        BY <2>4 DEF Stop, Refuse, SayShutdown, Detach, HearShutdown, hostVars
      <3>2. down' = down \/ (asked \in Sweeps /\ down[asked] # <<>> /\ Drop(asked))
        BY <1>0, <2>4 DEF Stop, Refuse, SayShutdown, Detach, HearShutdown, Typed, WorkerOK
      <3>3. down'[c] = down[c] \/ (asked = c /\ down[c] # <<>> /\ Drop(c))
        BY <1>0, <2>0, <3>2, Dropped
      <3> QED BY <1>0, <2>0, <2>1, <3>1, <3>3, HearsOn
    <2>5. CASE CrashHost
      <3>1. serving'[c] = "gone" /\ down' = down
        BY <2>0, <2>5 DEF CrashHost, EndHost
      <3> QED BY <2>0, <2>1, <3>1 DEF Busy
    <2>6. ASSUME NEW d \in Sweeps, HostStep(d) \/ EngineDies(d) PROVE Listens(s)'
      <3>1. CASE TakeShutdown(d)
        <4>1. serving'[c] = "gone" /\ Deliver(d, Frame(Head(up[d]).of, "shutdown_ok", 0))
          BY <2>0, <3>1 DEF TakeShutdown, EndHost
        <4>2. Frame(Head(up[d]).of, "shutdown_ok", 0) \in Frames
          <5>1. Head(up[d]).of \in Sweeps
            BY <1>0, <3>1, OrderedEffect DEF TakeShutdown
          <5> QED BY <5>1, FrameTyped, ZeroTyped
        <4>3. Harmless(Frame(Head(up[d]).of, "shutdown_ok", 0), s)
          BY DEF Harmless, Frame
        <4>4. \A i \in DOMAIN down'[c] : Harmless(down'[c][i], s)
          BY <1>0, <2>0, <4>1, <4>2, <4>3, HearsHarmless, Delivered
        <4> QED BY <2>1, <4>1, <4>4 DEF Busy
      <3>2. CASE ~TakeShutdown(d) /\ d # c
        <4>1. down'[c] = down[c] /\ serving'[c] = serving[c] /\ serves'[c] = serves[c]
          BY <1>0, <2>0, <2>6, <3>2, HostTouches
        <4> QED BY <2>0, <2>1, <4>1
      <3>3. CASE ~TakeShutdown(d) /\ d = c
        <4>1. CASE TakeSubmit(c)
          <5>1. /\ serving[c] = "reading" /\ up[c] \in Seq(Orders) /\ up[c] # <<>>
                /\ Head(up[c]).op = "submit"
            BY <1>0, <2>0, <4>1 DEF TakeSubmit, Ordered, Typed, OrdersOK
          <5>2. /\ Head(up[c]) = up[c][1] /\ 1 \in DOMAIN up[c] /\ Head(up[c]).of \in Sweeps
            <6>1. /\ Head(up[c]) = up[c][1] /\ Head(up[c]) \in Orders
                  /\ DOMAIN up[c] = 1 .. Len(up[c]) /\ Len(up[c]) \in Nat \ {0}
              BY <5>1, Took
            <6> QED BY <6>1 DEF Orders
          <5>3. line[Head(up[c]).of] = c
            BY <1>0, <2>0, <5>1, <5>2 DEF Attached, Threaded
          <5>4. Ahead(Head(up[c]).of)
            BY <2>0, <5>1, <5>2, <5>3, HostedAssumption DEF Ahead, SubmitAt
          <5>5. Head(up[c]).of = s
            BY <2>0, <5>2, <5>4, AheadIsOwner
          <5>6. Serve(c, "queued", s) /\ down' = down
            BY <1>2, <4>1, <5>5 DEF TakeSubmit, Reading, Over
          <5>7. serves'[c] = s
            BY <1>0, <2>0, <5>6 DEF Serve, Typed, HostOK
          <5> QED BY <2>0, <2>1, <5>6, <5>7
        <4>2. CASE TakeRetire(c)
          <5>1. UNCHANGED <<serving, serves>> /\ Deliver(c, Frame(Head(up[c]).of, "retired", 0))
            BY <1>0, <2>0, <4>2 DEF TakeRetire, hostVars
          <5>2. Frame(Head(up[c]).of, "retired", 0) \in Frames
            <6>1. Head(up[c]).of \in Sweeps
              BY <1>0, <2>0, <4>2, OrderedEffect DEF TakeRetire
            <6> QED BY <6>1, FrameTyped, ZeroTyped
          <5>3. Harmless(Frame(Head(up[c]).of, "retired", 0), s)
            BY DEF Harmless, Frame
          <5> QED BY <1>0, <2>0, <2>1, <5>1, <5>2, <5>3, HearsHarmless
        <4>3. CASE HearHangUp(c) \/ Abandon(c)
          <5>1. serving'[c] = "gone" /\ down' = down
            BY <1>0, <2>0, <4>3 DEF HearHangUp, Abandon, Serve, Typed, HostOK
          <5> QED BY <2>0, <2>1, <5>1 DEF Busy
        <4>4. CASE LockJob(c)
          <5>1. serves'[c] = serves[c] /\ serving[c] = "queued" /\ down' = down
            BY <1>0, <2>0, <4>4 DEF LockJob, Serve, Typed, HostOK
          <5> QED BY <2>0, <2>1, <5>1 DEF Busy
        <4>5. CASE Forward(c)
          <5>1. /\ serving[c] = "forwarding" /\ pipe # <<>> /\ Deliver(c, Head(pipe))
                /\ serving'[c] \in Busy => serves'[c] = serves[c]
            BY <1>0, <2>0, <4>5 DEF Forward, Serve, Typed, HostOK, Busy
          <5>2. serves[c] = s
            BY <2>0, <5>1 DEF Busy
          <5>3. Head(pipe) \in Frames /\ Harmless(Head(pipe), s)
            BY <1>0, <2>0, <5>1, <5>2, HeadOfPipe DEF Harmless, Coherent, Engaged, Forwards
          <5> QED BY <1>0, <2>0, <2>1, <5>1, <5>2, <5>3, HearsHarmless
        <4>6. CASE EngineDies(c)
          <5>1. /\ serves[c] \in Sweeps /\ serving'[c] = "reading"
                /\ Deliver(c, Frame(serves[c], "failed", 0))
            BY <1>0, <2>0, <4>6 DEF EngineDies, Serve, Typed, HostOK, Busy
          <5>2. Frame(serves[c], "failed", 0) \in Frames /\ Harmless(Frame(serves[c], "failed", 0), s)
            BY <5>1, FrameTyped, ZeroTyped DEF Harmless, Frame, Terminal
          <5> QED BY <1>0, <2>0, <2>1, <5>1, <5>2, HearsHarmless DEF Busy
        <4> QED BY <2>6, <3>3, <4>1, <4>2, <4>3, <4>4, <4>5, <4>6 DEF HostStep
      <3> QED BY <3>1, <3>2, <3>3
    <2> QED BY <2>2, <2>3, <2>4, <2>5, <2>6
  <1> QED BY <1>0, <1>1, <1>2, ReadsOn DEF c

LEMMA Joined ==
  ASSUME NEW T, NEW q \in Seq(T), NEW r \in Seq(T)
  PROVE  /\ DOMAIN q = 1 .. Len(q) /\ Len(q) \in Nat /\ Len(r) \in Nat
         /\ DOMAIN (q \o r) = 1 .. Len(q) + Len(r)
         /\ \A i \in 1 .. Len(q) : (q \o r)[i] = q[i]
         /\ \A i \in 1 .. Len(r) : (q \o r)[Len(q) + i] = r[i]
  OBVIOUS

(* What the engine writes: one frame of its job's, or a cancellation and   *)
(* the "failed" behind it; nothing after the last.                         *)
Writes(w) ==
  /\ \/ job = None /\ inbox # <<>> /\ w = Head(inbox) /\ inbox' = Tail(inbox)
     \/ job = w /\ inbox' = inbox
  /\ job' \in {w, None}
  /\ \E frame \in Frames :
       /\ frame.of = w /\ (frame.kind \in Terminal => job' = None)
       /\ frame.kind = "cancelled" => w \in cancelFiles
       /\ \/ pipe' = pipe \o <<frame>>
          \/ frame.kind = "cancelled" /\ pipe' = pipe \o <<frame, Frame(w, "failed", 0)>>

LEMMA EngineWrites ==
  ASSUME Typed, EngineStep
  PROVE  \E w \in Sweeps : Writes(w)
  <1> USE DEF Write, EndJob
  <1>1. CASE TakeJob
    <2>1. Head(inbox) \in Sweeps
      BY <1>1, Took DEF TakeJob, Typed, EngineOK
    <2>2. /\ Frame(Head(inbox), "initialized", 0) \in Frames
          /\ Frame(Head(inbox), "failed", 0) \in Frames
      BY <2>1, FrameTyped, ZeroTyped DEF Terminal
    <2> QED BY <1>1, <2>1, <2>2 DEF TakeJob, Writes, Frame, Terminal
  <1>2. CASE Solve
    <2>1. job \in Sweeps /\ done + 1 \in 0 .. Total
      BY <1>2 DEF Solve, Typed, EngineOK
    <2>2. Frame(job, "result", done + 1) \in Frames
      BY <2>1, FrameTyped
    <2> QED BY <1>2, <2>1, <2>2 DEF Solve, Writes, Frame, Terminal
  <1>3. CASE SolveFails
    <2>1. job \in Sweeps
      BY <1>3 DEF SolveFails, Typed, EngineOK
    <2>2. Frame(job, "failed", 0) \in Frames
      BY <2>1, FrameTyped, ZeroTyped DEF Terminal
    <2> QED BY <1>3, <2>1, <2>2 DEF SolveFails, Writes, Frame, Terminal
  <1>4. CASE Cancel
    <2>1. job \in Sweeps /\ done \in 0 .. Total
      BY <1>4 DEF Cancel, Typed, EngineOK
    <2>2. Frame(job, "failed", 0) \in Frames /\ Frame(job, "cancelled", done) \in Frames
      BY <2>1, FrameTyped, ZeroTyped DEF Terminal
    <2> QED BY <1>4, <2>1, <2>2 DEF Cancel, Writes, Frame, Terminal
  <1>5. CASE Complete
    <2>1. job \in Sweeps /\ done \in 0 .. Total
      BY <1>5 DEF Complete, Typed, EngineOK
    <2>2. Frame(job, "failed", 0) \in Frames /\ Frame(job, "completed", done) \in Frames
      BY <2>1, FrameTyped, ZeroTyped DEF Terminal
    <2> QED BY <1>5, <2>1, <2>2 DEF Complete, Writes, Frame, Terminal
  <1> QED BY <1>1, <1>2, <1>3, <1>4, <1>5 DEF EngineStep

LEMMA Written ==
  ASSUME Typed, NEW w \in Sweeps, Writes(w)
  PROVE  /\ DOMAIN pipe = 1 .. Len(pipe) /\ Len(pipe) \in Nat
         /\ \A i \in DOMAIN pipe : i \in DOMAIN pipe' /\ pipe'[i] = pipe[i]
         /\ \A i \in DOMAIN pipe' : i \in Nat /\ (i \notin DOMAIN pipe => i > Len(pipe))
         /\ \A i \in DOMAIN pipe' : i \notin DOMAIN pipe =>
              /\ pipe'[i].of = w
              /\ pipe'[i].kind \in Terminal =>
                   job' = None /\ \A j \in DOMAIN pipe' : j > i => pipe'[j].kind = "failed"
              /\ pipe'[i].kind = "cancelled" => w \in cancelFiles
  <1>1. PICK frame \in Frames :
          /\ frame.of = w /\ (frame.kind \in Terminal => job' = None)
          /\ frame.kind = "cancelled" => w \in cancelFiles
          /\ \/ pipe' = pipe \o <<frame>>
             \/ frame.kind = "cancelled" /\ pipe' = pipe \o <<frame, Frame(w, "failed", 0)>>
    BY DEF Writes
  <1>2. pipe \in Seq(Frames) /\ Frame(w, "failed", 0) \in Frames
    BY FrameTyped, ZeroTyped DEF Typed, EngineOK, Terminal
  <1> DEFINE n == Len(pipe)
             last == Frame(w, "failed", 0)
  <1>3. last.of = w /\ last.kind = "failed" /\ last \in Frames
    BY <1>2 DEF Frame
  <1> HIDE DEF last
  <1>4. CASE pipe' = pipe \o <<frame>>
    <2>1. /\ DOMAIN pipe = 1 .. n /\ n \in Nat /\ DOMAIN pipe' = 1 .. n + 1
          /\ \A i \in 1 .. n : pipe'[i] = pipe[i]
          /\ pipe'[n + 1] = frame
      <3>1. <<frame>> \in Seq(Frames) /\ Len(<<frame>>) = 1 /\ <<frame>>[1] = frame
        OBVIOUS
      <3> QED BY <1>2, <1>4, <3>1, Joined
    <2>2. \A i \in DOMAIN pipe' : i \notin DOMAIN pipe => i = n + 1
      BY <2>1
    <2>3. \A j \in DOMAIN pipe' : ~(j > n + 1)
      BY <2>1
    <2>4. \A i \in DOMAIN pipe : i \in DOMAIN pipe' /\ pipe'[i] = pipe[i]
      BY <2>1
    <2>5. \A i \in DOMAIN pipe' : i \in Nat /\ (i \notin DOMAIN pipe => i > Len(pipe))
      BY <2>1
    <2> QED BY <1>1, <2>1, <2>2, <2>3, <2>4, <2>5
  <1>5. CASE frame.kind = "cancelled" /\ pipe' = pipe \o <<frame, last>>
    <2>1. /\ DOMAIN pipe = 1 .. n /\ n \in Nat /\ DOMAIN pipe' = 1 .. n + 2
          /\ \A i \in 1 .. n : pipe'[i] = pipe[i]
          /\ pipe'[n + 1] = frame /\ pipe'[n + 2] = last
      <3>1. /\ <<frame, last>> \in Seq(Frames) /\ Len(<<frame, last>>) = 2
            /\ <<frame, last>>[1] = frame /\ <<frame, last>>[2] = last
        BY <1>3
      <3> QED BY <1>2, <1>5, <3>1, Joined
    <2>2. \A i \in DOMAIN pipe' : i \notin DOMAIN pipe => i = n + 1 \/ i = n + 2
      BY <2>1
    <2>3. \A j \in DOMAIN pipe' : ~(j > n + 2) /\ (j > n + 1 => j = n + 2)
      BY <2>1
    <2>4. \A i \in DOMAIN pipe : i \in DOMAIN pipe' /\ pipe'[i] = pipe[i]
      BY <2>1
    <2>5. \A i \in DOMAIN pipe' : i \in Nat /\ (i \notin DOMAIN pipe => i > Len(pipe))
      BY <2>1
    <2>6. job' = None
      BY <1>1, <1>5 DEF Terminal
    <2> QED BY <1>1, <1>3, <1>5, <2>1, <2>2, <2>3, <2>4, <2>5, <2>6
  <1> QED BY <1>1, <1>4, <1>5 DEF last

(* The engine goes on with its one job, and what is stale in its output    *)
(* stays in front.                                                         *)
LEMMA WritesOn ==
  ASSUME Typed, Single, NEW w \in Sweeps, Writes(w)
  PROVE  /\ InEngine(w) /\ Single'
         /\ \A t \in Sweeps : InEngine(t)' => InEngine(t)
         /\ \A t \in Sweeps : InPipe(t)' => InPipe(t) \/ t = w
         /\ Stale(w)' => Stale(w)
         /\ Foremost(w) => Foremost(w)'
         /\ Ended(w) => Ended(w)'
  <1>1. inbox' = <<>> /\ InEngine(w) /\ ~(inbox = <<>> /\ job = None) /\ job' \in {w, None}
    <2>1. CASE job = w /\ inbox' = inbox
      <3>1. job # None
        BY <2>1, HostedAssumption
      <3> QED BY <2>1, <3>1 DEF Single, InEngine, Writes
    <2>2. CASE inbox # <<>> /\ w = Head(inbox) /\ inbox' = Tail(inbox)
      <3>1. inbox \in Seq(Sweeps) /\ Len(inbox) = 1 /\ inbox[1] = w /\ 1 \in DOMAIN inbox
        <4>1. inbox \in Seq(Sweeps)
          BY DEF Typed, EngineOK
        <4>2. Len(inbox) \in Nat \ {0} /\ DOMAIN inbox = 1 .. Len(inbox) /\ Head(inbox) = inbox[1]
          BY <2>2, <4>1, Took
        <4> QED BY <2>2, <4>1, <4>2 DEF Single
      <3>2. Tail(inbox) = <<>>
        BY <3>1, OnlyOne
      <3> QED BY <2>2, <3>1, <3>2 DEF InEngine, Writes
    <2> QED BY <2>1, <2>2 DEF Writes
  <1>2. /\ DOMAIN pipe = 1 .. Len(pipe) /\ Len(pipe) \in Nat
        /\ \A i \in DOMAIN pipe : i \in DOMAIN pipe' /\ pipe'[i] = pipe[i]
        /\ \A i \in DOMAIN pipe' : i \in Nat /\ (i \notin DOMAIN pipe => i > Len(pipe))
        /\ \A i \in DOMAIN pipe' : i \notin DOMAIN pipe =>
             /\ pipe'[i].of = w
             /\ pipe'[i].kind \in Terminal =>
                  job' = None /\ \A j \in DOMAIN pipe' : j > i => pipe'[j].kind = "failed"
    BY Written
  <1>3. Single'
    BY <1>1 DEF Single
  <1>4. ASSUME NEW t \in Sweeps, InEngine(t)' PROVE InEngine(t)
    BY <1>1, <1>2, <1>4, HostedAssumption DEF InEngine
  <1>5. ASSUME NEW t \in Sweeps, InPipe(t)' PROVE InPipe(t) \/ t = w
    BY <1>2, <1>5 DEF InPipe
  <1>6. Stale(w)' => Stale(w)
    BY <1>2 DEF Stale
  <1>7. Foremost(w) => Foremost(w)'
    <2> SUFFICES ASSUME Foremost(w), NEW i \in DOMAIN pipe', NEW j \in DOMAIN pipe', i < j,
                        pipe'[j].of # w
                 PROVE  pipe'[i].of # w
      BY DEF Foremost
    <2>1. j \in DOMAIN pipe /\ i \in DOMAIN pipe
      <3>1. j \in DOMAIN pipe
        BY <1>2
      <3> QED BY <1>2, <3>1
    <2> QED BY <1>2, <2>1 DEF Foremost
  <1>8. Ended(w) => Ended(w)'
    <2> SUFFICES ASSUME Ended(w), NEW i \in DOMAIN pipe', pipe'[i].of = w,
                        pipe'[i].kind \in Terminal
                 PROVE  job' = None /\ \A j \in DOMAIN pipe' : j > i => pipe'[j].kind = "failed"
      BY <1>1 DEF Ended
    <2>1. i \notin DOMAIN pipe
      BY <1>1, <1>2 DEF Ended
    <2> QED BY <1>2, <2>1
  <1> QED BY <1>1, <1>3, <1>4, <1>5, <1>6, <1>7, <1>8

LEMMA EngineEngaged ==
  ASSUME Coherent, EngineStep
  PROVE  Engaged'
  <1>0. Typed /\ Single /\ Settled /\ Excused /\ \A c \in Sweeps : Forwards(c)
    BY DEF Coherent, Engaged
  <1>1. PICK w \in Sweeps : Writes(w)
    BY <1>0, EngineWrites
  <1>2. UNCHANGED <<at, line, holder, closed, up, down, serving, serves>>
    BY DEF EngineStep, TakeJob, Solve, SolveFails, Cancel, Complete, clientVars, hostVars
  <1>3. /\ InEngine(w) /\ Single'
        /\ \A t \in Sweeps : InEngine(t)' => InEngine(t)
        /\ \A t \in Sweeps : InPipe(t)' => InPipe(t) \/ t = w
    BY <1>0, <1>1, WritesOn
  <1>4. \A t \in Sweeps : /\ Ahead(t)' <=> Ahead(t)
                          /\ Final(t)' <=> Final(t)
                          /\ Misled(t)' <=> Misled(t)
    BY <1>2 DEF Ahead, SubmitAt, Final, Last, Misled
  <1>5. Settled'
    BY <1>0, <1>2, <1>3, <1>4 DEF Settled
  <1>6. Excused'
    BY <1>0, <1>2, <1>3, <1>4 DEF Excused, Free
  <1>7. ASSUME NEW c \in Sweeps, serving'[c] = "forwarding" PROVE Forwards(c)'
    <2>1. serving[c] = "forwarding" /\ serves[c] = w /\ serves'[c] = w
      BY <1>0, <1>2, <1>3, <1>7 DEF Forwards
    <2>2. /\ at[w] \notin Early
          /\ \A u \in Sweeps : InEngine(u) => u = w
          /\ Stale(w) => Final(w) \/ (~closed /\ at[w] = "awaiting" /\ down[c] = <<>>)
          /\ Foremost(w) /\ Ended(w)
      BY <1>0, <2>1 DEF Forwards
    <2>3. (Stale(w)' => Stale(w)) /\ Foremost(w)' /\ Ended(w)'
      BY <1>0, <1>1, <2>2, WritesOn
    <2>4. /\ at'[w] \notin Early
          /\ \A u \in Sweeps : InEngine(u)' => u = w
          /\ Stale(w)' => Final(w)' \/ (~closed' /\ at'[w] = "awaiting" /\ down'[c] = <<>>)
      BY <1>2, <1>3, <1>4, <2>2, <2>3
    <2> QED BY <2>1, <2>3, <2>4 DEF Forwards
  <1> QED BY <1>3, <1>5, <1>6, <1>7 DEF Engaged, Forwards

(* The last of a closed worker stays the last.                             *)
LEMMA FinalStays ==
  ASSUME Coherent, [Next]_vars, NEW t \in Sweeps, at[t] \notin Early, Final(t)
  PROVE  Final(t)'
  <1>0. Typed /\ Attached /\ closed /\ holder \in {t, None} /\ (\A u \in Sweeps : ~Ahead(u))
    BY DEF Coherent, Final, Last
  <1>1. ASSUME NEW u \in Sweeps PROVE ~Ahead(u)'
    <2>1. ASSUME Submit(u), Reachable(line[u]) PROVE FALSE
      <3>1. holder = u /\ at[u] = "connecting" /\ u # None
        BY <2>1, Submitting DEF Submit
      <3> QED BY <1>0, <3>1 DEF Early
    <2> QED BY <1>0, <2>1, AheadStays
  <1>2. closed' /\ holder' \in {t, None}
    <2>1. ASSUME NEW s \in Sweeps, Call(s) \/ SweepStep(s)
          PROVE  closed' = closed /\ holder' \in {holder, None}
      BY <1>0, <2>1 DEF SweepStep, Call, Acquire, Refused, Connect, Submit, Read, HearNothing,
                        ReadRaises, StreamRaises, Retire, Hear, Leave
    <2>2. ASSUME NEW c \in Sweeps, HostStep(c) \/ EngineDies(c) PROVE UNCHANGED <<closed, holder>>
      BY <2>2, HostEffect DEF clientVars
    <2>3. Stop => closed' /\ holder' = holder
      BY <1>0 DEF Stop, Refuse, SayShutdown, Detach, HearShutdown, clientVars
    <2>4. EngineStep \/ CrashHost \/ UNCHANGED vars => UNCHANGED <<closed, holder>>
      BY DEF EngineStep, TakeJob, Solve, SolveFails, Cancel, Complete, CrashHost, vars, clientVars
    <2> QED BY <1>0, <2>1, <2>2, <2>3, <2>4 DEF Next
  <1> QED BY <1>1, <1>2 DEF Final, Last

(* While somebody owns an open worker's slot, the steps of the others      *)
(* leave the connections and the engine alone.                             *)
LEMMA Bystander ==
  ASSUME Typed, Attached, NEW t \in Sweeps, holder = t, ~closed,
         NEW s \in Sweeps, s # t, Call(s) \/ SweepStep(s)
  PROVE  UNCHANGED <<holder, closed, line, up, down, serving, serves, alive>> /\ at'[t] = at[t]
  <1>1. Owner(s) /\ holder # s /\ holder # None
    BY HostedAssumption DEF Attached
  <1>2. ~Connect(s) /\ ~Submit(s) /\ ~Read(s) /\ ~HearNothing(s) /\ ~ReadRaises(s) /\ ~Hear(s)
        /\ ~Acquire(s) /\ ~Refused(s)
    BY <1>1 DEF Connect, Submit, Read, HearNothing, ReadRaises, Hear, Acquire, Refused, Owner
  <1>3. CASE Call(s) \/ Leave(s)
    BY <1>1, <1>3 DEF Call, Leave, Goto, Typed, ClientOK, hostVars
  <1>4. CASE Retire(s)
    BY <1>1, <1>4 DEF Retire, Goto, Typed, ClientOK, hostVars
  <1> QED BY <1>2, <1>3, <1>4 DEF SweepStep

(* A new engine knows nobody.                                              *)
LEMMA Renewed ==
  ASSUME Typed, ReplaceEngine
  PROVE  /\ Single'
         /\ \A t \in Sweeps : ~InEngine(t)' /\ ~InPipe(t)'
         /\ \A t \in Sweeps : ~Stale(t)' /\ Foremost(t)' /\ Ended(t)'
  <1>1. DOMAIN inbox' = {} /\ DOMAIN pipe' = {} /\ inbox' = <<>> /\ job' = None
    <2>1. DOMAIN <<>> = {}
      OBVIOUS
    <2> QED BY <2>1 DEF ReplaceEngine
  <1>2. Single'
    <2>1. Len(<<>>) <= 1
      OBVIOUS
    <2> QED BY <1>1, <2>1 DEF Single
  <1> QED BY <1>1, <1>2, HostedAssumption DEF InEngine, InPipe, Stale, Foremost, Ended

(* Nobody whom the engine knows gets ahead.                                *)
LEMMA StillSettled ==
  ASSUME Coherent, [Next]_vars, NEW t \in Sweeps, at[t] \notin Early, ~Ahead(t)
  PROVE  at'[t] \notin Early /\ ~Ahead(t)'
  <1>0. Typed /\ Attached
    BY DEF Coherent
  <1>1. ~Ahead(t)'
    <2>1. ~Submit(t)
      BY DEF Submit, Early
    <2> QED BY <1>0, <2>1, AheadStays
  <1>2. at'[t] \notin Early
    <2>1. ASSUME NEW s \in Sweeps, Call(s) \/ SweepStep(s) PROVE at'[t] \notin Early
      <3>1. CASE Read(s)
        BY <1>0, <3>1, ReadEnds DEF Early, Reading
      <3>2. CASE Leave(s)
        BY <1>0, <3>2 DEF Leave, Goto, Typed, ClientOK, Ending, Early, Over
      <3>3. CASE ~Read(s) /\ ~Leave(s)
        BY <1>0, <2>1, <3>3 DEF SweepStep, Call, Acquire, Refused, Connect, Submit, HearNothing,
                  ReadRaises, StreamRaises, Close, Retire, Hear, Goto, Typed, ClientOK, Early
      <3> QED BY <3>1, <3>2, <3>3
    <2>2. ASSUME NEW c \in Sweeps, HostStep(c) \/ EngineDies(c) PROVE at' = at
      BY <2>2, HostEffect DEF clientVars
    <2>3. Stop \/ EngineStep \/ CrashHost \/ UNCHANGED vars => at' = at
      BY DEF Stop, Refuse, SayShutdown, Detach, HearShutdown,
             EngineStep, TakeJob, Solve, SolveFails, Cancel, Complete, CrashHost, vars, clientVars
    <2> QED BY <2>1, <2>2, <2>3 DEF Next
  <1> QED BY <1>1, <1>2

(* A sweep that was misled does what it takes to have the engine replaced. *)
LEMMA MisledLine ==
  ASSUME Coherent, NEW t \in Sweeps, Misled(t)
  PROVE  /\ ~closed /\ holder = t /\ serving[line[t]] = "reading"
         /\ at[t] \in {"awaiting", "retiring", "hearing"} /\ t # None
         /\ line[t] \in Sweeps /\ connection = line[t] /\ connection # None
         /\ line[t] \notin shut /\ alive
  <1>1. /\ ~closed /\ holder = t /\ serving[line[t]] = "reading"
        /\ at[t] \in {"awaiting", "retiring", "hearing"}
    BY DEF Misled
  <1>2. line[t] \in Sweeps /\ line[t] # None /\ t # None
    BY <1>1, HostedAssumption DEF Coherent, Typed, ClientOK, Reading
  <1>3. Lined(t) /\ Threaded(line[t]) /\ Open
    BY <1>2 DEF Coherent, Attached
  <1> QED BY <1>1, <1>2, <1>3 DEF Lined, Threaded, Open

LEMMA MisledMoves ==
  ASSUME Uninterrupted, Coherent, NEW t \in Sweeps, Misled(t), Call(t) \/ SweepStep(t)
  PROVE  Misled(t)'
  <1> DEFINE c == line[t]
  <1>0. /\ Typed /\ Attached /\ ~closed /\ holder = t /\ serving[c] = "reading"
        /\ at[t] \in {"awaiting", "retiring", "hearing"}
    BY MisledLine DEF Coherent
  <1>1. /\ c \in Sweeps /\ c # None /\ t # None /\ connection = c /\ c \notin shut /\ alive
    BY MisledLine
  <1>2. ~Call(t) /\ ~Acquire(t) /\ ~Refused(t) /\ ~Connect(t) /\ ~Submit(t) /\ ~Leave(t)
    BY <1>0 DEF Call, Acquire, Refused, Connect, Submit, Leave
  <1>3. ~ReadRaises(t)
    BY <1>0, ReadRaisesClosed
  <1> HIDE DEF c
  <1>4. ~HearNothing(t)
    <2> SUFFICES ASSUME HearNothing(t) PROVE FALSE
      OBVIOUS
    <2>1. at[t] = "awaiting" /\ down[c] = <<>>
      BY <1>0 DEF HearNothing, Reading, c
    <2>2. Len(down[c]) = 1
      BY <2>1 DEF Misled, c
    <2> QED BY <2>1, <2>2
  <1>5. CASE Read(t)
    <2>1. /\ at[t] = "awaiting" /\ down[c] # <<>> /\ Drop(c)
          /\ UNCHANGED <<holder, closed, line, up, serving>>
      BY <1>0, <1>5 DEF Read, Reading, hostVars, c
    <2>2. up[c] = <<>> /\ Len(down[c]) = 1 /\ down[c][1].kind = "failed"
      BY <2>1 DEF Misled, c
    <2>3. down'[c] = <<>> /\ Head(down[c]) = down[c][1]
      BY <1>0, <1>1, <2>1, <2>2, Dropped
    <2>4. at'[t] = "retiring"
      <3>1. Head(down[line[t]]).kind = "failed"
        BY <2>2, <2>3 DEF c
      <3> QED BY <1>0, <1>5, <3>1, ReadEnds
    <2> QED BY <1>0, <2>1, <2>2, <2>3, <2>4 DEF Misled, c
  <1>6. CASE Retire(t)
    <2>1. line' = line
      BY <1>0, <1>6, RetireInPlace
    <2>2. at[t] = "retiring" /\ up[c] = <<>> /\ down[c] = <<>>
      BY <1>6 DEF Misled, Retire, c
    <2>3. /\ Send(c, "retire", t) /\ at'[t] = "hearing"
          /\ UNCHANGED <<holder, closed, serving, down>>
      BY <1>0, <1>1, <1>6 DEF Retire, Reachable, Goto, hostVars, Typed, ClientOK
    <2>4. Len(up'[c]) = 1 /\ up'[c][1].op = "retire"
      <3>1. Len(up'[c]) = Len(up[c]) + 1 /\ up'[c][Len(up[c]) + 1].op = "retire"
        BY <1>0, <1>1, <2>3, Told
      <3>2. Len(up[c]) = 0
        BY <2>2
      <3> QED BY <3>1, <3>2
    <2> QED BY <1>0, <2>1, <2>2, <2>3, <2>4 DEF Misled, c
  <1>7. ~Hear(t)
    <2> SUFFICES ASSUME Hear(t) PROVE FALSE
      OBVIOUS
    <2>1. at[t] = "hearing" /\ (down[c] # <<>> \/ Late(c))
      BY DEF Hear, c
    <2>2. down[c] = <<>>
      BY <2>1 DEF Misled, c
    <2>3. ~Late(c)
      BY <1>0, <1>1 DEF Late, Reachable, c
    <2> QED BY <2>1, <2>2, <2>3
  <1> QED BY <1>2, <1>3, <1>4, <1>5, <1>6, <1>7 DEF SweepStep

(* Steps that leave the engine alone.                                      *)
LEMMA SameEngine ==
  ASSUME Coherent, [Next]_vars, UNCHANGED engineVars
  PROVE  /\ Single' /\ Settled'
         /\ \A t \in Sweeps : /\ InEngine(t)' <=> InEngine(t)
                              /\ Stale(t)' <=> Stale(t)
                              /\ Foremost(t)' <=> Foremost(t)
                              /\ Ended(t)' <=> Ended(t)
  <1>1. /\ Single' <=> Single
        /\ \A t \in Sweeps : /\ InEngine(t)' <=> InEngine(t)
                             /\ InPipe(t)' <=> InPipe(t)
                             /\ Stale(t)' <=> Stale(t)
                             /\ Foremost(t)' <=> Foremost(t)
                             /\ Ended(t)' <=> Ended(t)
    BY DEF engineVars, Single, InEngine, InPipe, Stale, Foremost, Ended
  <1>2. Settled' /\ Single
    BY <1>1, StillSettled DEF Coherent, Engaged, Settled
  <1> QED BY <1>1, <1>2

(* The sweep whose job is being forwarded is not ahead.                    *)
LEMMA NoLongerAhead ==
  ASSUME Coherent, NEW c \in Sweeps, serving[c] = "forwarding", NEW t \in Sweeps, serves[c] = t
  PROVE  line[t] = c /\ alive /\ at[t] \notin Early /\ ~Ahead(t)
  <1>1. line[t] = c /\ alive
    BY DEF Coherent, Attached, Threaded, Busy
  <1>2. at[t] \notin Early
    BY DEF Coherent, Engaged, Forwards
  <1>3. \A i \in DOMAIN up[c] : up[c][i].op # "submit"
    BY DEF Coherent, Orderly, Apart, Busy
  <1> QED BY <1>1, <1>2, <1>3 DEF Ahead, SubmitAt

LEMMA ForwardsOn ==
  ASSUME Coherent, [Next]_vars, UNCHANGED engineVars,
         NEW c \in Sweeps, serving[c] = "forwarding", NEW t \in Sweeps, serves[c] = t,
         serves'[c] = t,
         ~closed /\ at[t] = "awaiting" /\ down[c] = <<>>
         => Final(t)' \/ (~closed' /\ at'[t] = "awaiting" /\ down'[c] = <<>>)
  PROVE  Forwards(c)'
  <1>1. /\ at[t] \notin Early
        /\ \A u \in Sweeps : InEngine(u) => u = t
        /\ Stale(t) => Final(t) \/ (~closed /\ at[t] = "awaiting" /\ down[c] = <<>>)
        /\ Foremost(t) /\ Ended(t)
    BY DEF Coherent, Engaged, Forwards
  <1>2. at'[t] \notin Early
    BY <1>1, NoLongerAhead, StillSettled
  <1>3. Final(t) => Final(t)'
    BY <1>1, FinalStays
  <1>4. /\ \A u \in Sweeps : InEngine(u)' => u = t
        /\ Stale(t)' => Stale(t)
        /\ Foremost(t)' /\ Ended(t)'
    BY <1>1, SameEngine
  <1> QED BY <1>1, <1>2, <1>3, <1>4 DEF Forwards

(* What the sweeps and the stop do to what the engine is for.              *)
LEMMA ClientEngaged ==
  ASSUME Uninterrupted, Coherent, NEW s \in Sweeps, Call(s) \/ SweepStep(s)
  PROVE  Engaged'
  <1>0. Typed /\ Attached /\ Settled /\ Excused /\ [Next]_vars
    BY DEF Coherent, Engaged, Next
  <1>1. UNCHANGED engineVars
    BY DEF SweepStep, Call, Acquire, Refused, Connect, Submit, Read, HearNothing,
           ReadRaises, StreamRaises, Retire, Hear, Leave
  <1>2. Single' /\ Settled' /\ \A t \in Sweeps : InEngine(t)' <=> InEngine(t)
    BY <1>0, <1>1, SameEngine
  <1>3. \A c \in Sweeps : /\ serving'[c] = "forwarding" <=> serving[c] = "forwarding"
                          /\ serves'[c] = serves[c]
    <2>1. CASE Connect(s)
      <3>1. serves' = serves /\ (serving' = serving \/ serving' = [serving EXCEPT ![s] = "reading"])
        BY <2>1 DEF Connect, hostVars
      <3>2. serving[s] = "gone"
        BY <1>0, <2>1 DEF Connect, Attached, Lined
      <3> QED BY <1>0, <3>1, <3>2 DEF Typed, HostOK
    <2>2. CASE ~Connect(s)
      <3>1. UNCHANGED <<serving, serves>>
        BY <2>2 DEF SweepStep, Call, Acquire, Refused, Submit, Read, HearNothing,
           ReadRaises, StreamRaises, Retire, Hear, Leave, hostVars
      <3> QED BY <3>1
    <2> QED BY <2>1, <2>2
  <1>4. Excused'
    <2> SUFFICES ASSUME NEW t \in Sweeps, Free', InEngine(t)' PROVE Final(t)' \/ Misled(t)'
      BY DEF Excused
    <2>1. (Final(t) \/ Misled(t)) /\ at[t] \notin Early
      BY <1>0, <1>2, <1>3 DEF Excused, Free, Settled
    <2>2. Final(t) => Final(t)'
      BY <1>0, <2>1, FinalStays
    <2>3. CASE Misled(t) /\ s # t
      <3>1. holder = t /\ ~closed
        BY <2>3 DEF Misled
      <3>2. UNCHANGED <<holder, closed, line, up, down, serving>> /\ at'[t] = at[t]
        BY <1>0, <2>3, <3>1, Bystander
      <3> QED BY <2>3, <3>2 DEF Misled
    <2>4. CASE Misled(t) /\ s = t
      BY <2>4, MisledMoves
    <2> QED BY <2>1, <2>2, <2>3, <2>4
  <1>5. ASSUME NEW c \in Sweeps, serving'[c] = "forwarding" PROVE Forwards(c)'
    <2>1. PICK t \in Sweeps : serves[c] = t
      BY <1>0, <1>3, <1>5 DEF Typed, HostOK, Busy
    <2>2. serving[c] = "forwarding" /\ serves'[c] = t /\ line[t] = c /\ alive
      BY <1>3, <1>5, <2>1, NoLongerAhead
    <2>3. ASSUME ~closed, at[t] = "awaiting", down[c] = <<>>
          PROVE  ~closed' /\ at'[t] = "awaiting" /\ down'[c] = <<>>
      <3>1. holder = t
        BY <1>0, <2>3, Ours DEF Reading
      <3>2. CASE s # t
        BY <1>0, <2>3, <3>1, <3>2, Bystander
      <3>3. ~Read(t) /\ ~HearNothing(t) /\ ~ReadRaises(t)
        BY <1>0, <2>2, <2>3, ReadRaisesClosed DEF Read, HearNothing
      <3>4. s # t
        BY <2>3, <3>3 DEF SweepStep, Call, Acquire, Refused, Connect, Submit, Retire, Hear, Leave
      <3> QED BY <3>2, <3>4
    <2> QED BY <1>0, <1>1, <2>1, <2>2, <2>3, ForwardsOn
  <1> QED BY <1>2, <1>4, <1>5 DEF Engaged, Forwards

LEMMA StopEngaged ==
  ASSUME Coherent, Stop
  PROVE  Engaged'
  <1>0. Typed /\ Attached /\ Settled /\ Excused /\ [Next]_vars
    BY DEF Coherent, Engaged, Next
  <1>1. UNCHANGED <<at, holder, line, serving, serves, engineVars>>
    BY DEF Stop, Refuse, SayShutdown, Detach, HearShutdown, clientVars, hostVars
  <1>2. Single' /\ Settled' /\ \A t \in Sweeps : InEngine(t)' <=> InEngine(t)
    BY <1>0, <1>1, SameEngine
  <1>3. ~closed => Refuse
    BY <1>0 DEF Stop, SayShutdown, Detach, HearShutdown, StopStep, Attached, Stopping
  <1>4. ASSUME NEW t \in Sweeps, holder = t, ~closed, ~Ahead(t) PROVE Final(t)'
    <2>1. closed' /\ holder' = t
      BY <1>1, <1>3, <1>4 DEF Refuse
    <2>2. \A u \in Sweeps : ~Ahead(u)'
      <3>1. ASSUME NEW u \in Sweeps, Ahead(u)' PROVE Ahead(u)
        BY <1>3, <1>4, <3>1 DEF Refuse, hostVars, Ahead, SubmitAt
      <3> QED BY <1>4, <3>1, AheadIsOwner
    <2> QED BY <2>1, <2>2 DEF Final, Last
  <1>5. Excused'
    <2> SUFFICES ASSUME NEW t \in Sweeps, Free', InEngine(t)' PROVE Final(t)'
      BY DEF Excused
    <2>1. (Final(t) \/ Misled(t)) /\ at[t] \notin Early /\ ~Ahead(t)
      BY <1>0, <1>1, <1>2 DEF Excused, Free, Settled
    <2> QED BY <1>0, <1>4, <2>1, FinalStays DEF Misled
  <1>6. ASSUME NEW c \in Sweeps, serving'[c] = "forwarding" PROVE Forwards(c)'
    <2>1. PICK t \in Sweeps : serves[c] = t
      BY <1>0, <1>1, <1>6 DEF Typed, HostOK, Busy
    <2>2. serving[c] = "forwarding" /\ serves'[c] = t /\ ~Ahead(t)
      BY <1>1, <1>6, <2>1, NoLongerAhead
    <2>3. ~closed /\ at[t] = "awaiting" => Final(t)'
      BY <1>0, <1>4, <2>2, Ours DEF Reading
    <2> QED BY <1>0, <1>1, <2>1, <2>2, <2>3, ForwardsOn
  <1> QED BY <1>2, <1>5, <1>6 DEF Engaged, Forwards

(* A host that ends takes its engine along.                                *)
LEMMA EndEngaged ==
  ASSUME Coherent, EndHost
  PROVE  Engaged'
  <1>1. /\ Single' /\ \A t \in Sweeps : ~InEngine(t)' /\ ~InPipe(t)'
    BY Renewed DEF Coherent, EndHost
  <1>2. \A c \in Sweeps : serving'[c] # "forwarding"
    BY DEF EndHost
  <1> QED BY <1>1, <1>2 DEF Engaged, Settled, Excused, Forwards

(* The thread that gets the job lock finds an engine that has at most a    *)
(* "failed" of somebody else's left to say.                                *)
LEMMA LockEngaged ==
  ASSUME Coherent, NEW c \in Sweeps, LockJob(c)
  PROVE  Engaged'
  <1>0. Typed /\ Attached /\ Single /\ Settled /\ Excused /\ [Next]_vars
    BY DEF Coherent, Engaged, Next, HostStep
  <1>1. PICK t \in Sweeps : serves[c] = t
    BY <1>0 DEF LockJob, Typed, HostOK, Busy
  <1>2. /\ serving[c] = "queued" /\ Free /\ inbox' = Append(inbox, t)
        /\ UNCHANGED <<at, holder, closed, line, up, down, job, pipe>>
        /\ serving'[c] = "forwarding" /\ serves'[c] = t
        /\ \A d \in Sweeps : d # c => serving'[d] = serving[d]
    BY <1>0, <1>1 DEF LockJob, Serve, clientVars, Typed, HostOK
  <1>3. line[t] = c /\ Ahead(t)
    <2>1. line[t] = c
      BY <1>0, <1>1, <1>2 DEF Attached, Threaded, Busy
    <2> QED BY <1>1, <1>2, <2>1, HostedAssumption DEF Ahead
  <1>4. ASSUME NEW u \in Sweeps, InEngine(u) PROVE FALSE
    <2>1. ~Final(u)
      BY <1>3 DEF Final
    <2>2. Misled(u)
      BY <1>0, <1>2, <1>4, <2>1 DEF Excused
    <2>3. u = t
      BY <1>3, <2>2, MisledLine, AheadIsOwner
    <2> QED BY <1>2, <1>3, <2>2, <2>3, MisledLine
  <1>5. inbox = <<>> /\ job = None
    <2>1. job = None
      BY <1>0, <1>4 DEF InEngine, Typed, EngineOK
    <2>2. inbox = <<>>
      <3>1. inbox # <<>> => inbox[1] \in Sweeps /\ 1 \in DOMAIN inbox
        <4>1. inbox \in Seq(Sweeps)
          BY <1>0 DEF Typed, EngineOK
        <4> QED BY <4>1
      <3> QED BY <1>4, <3>1 DEF InEngine
    <2> QED BY <2>1, <2>2
  <1>6. inbox' = <<t>> /\ DOMAIN inbox' = {1} /\ inbox'[1] = t /\ Len(inbox') = 1
    BY <1>2, <1>5
  <1>7. \A u \in Sweeps : InEngine(u)' => u = t
    BY <1>2, <1>4, <1>5, <1>6, HostedAssumption DEF InEngine
  <1>8. \A u \in Sweeps : InPipe(u)' <=> InPipe(u)
    BY <1>2 DEF InPipe
  <1>9. at[t] \notin Early /\ ~InPipe(t)
    BY <1>0, <1>3, AheadIsOwner DEF Settled
  <1>10. ~Ahead(t)'
    <2>1. \A i \in DOMAIN up[c] : up[c][i].op # "submit"
      BY <1>2 DEF Coherent, Orderly, Apart, Busy
    <2> QED BY <1>2, <1>3, <2>1 DEF Ahead, SubmitAt
  <1>11. Single'
    BY <1>2, <1>5, <1>6 DEF Single
  <1>12. Settled'
    <2> SUFFICES ASSUME NEW u \in Sweeps, InEngine(u)' \/ InPipe(u)'
                 PROVE  at'[u] \notin Early /\ ~Ahead(u)'
      BY DEF Settled
    <2>1. CASE u = t
      BY <1>2, <1>9, <1>10, <2>1
    <2>2. CASE u # t
      <3>1. at[u] \notin Early /\ ~Ahead(u)
        BY <1>0, <1>7, <1>8, <2>2 DEF Settled
      <3> QED BY <1>0, <3>1, StillSettled
    <2> QED BY <2>1, <2>2
  <1>13. Excused'
    BY <1>2 DEF Excused, Free
  <1>14. Stale(t)' => Final(t)' \/ (~closed' /\ at'[t] = "awaiting" /\ down'[c] = <<>>)
    <2>1. CASE closed
      <3>1. Last(t)
        BY <1>3, <2>1, AheadIsOwner DEF Last
      <3>2. ASSUME NEW u \in Sweeps, Ahead(u)' PROVE FALSE
        <4>1. Ahead(u) /\ u # t
          <5>1. ~Submit(u)
            BY <1>0, <1>2 DEF Submit, Goto, Typed, ClientOK
          <5> QED BY <1>0, <1>10, <3>2, <5>1, AheadStays
        <4> QED BY <1>3, <4>1 DEF Coherent, Orderly
      <3> QED BY <1>2, <3>1, <3>2 DEF Final, Last
    <2>2. CASE ~closed
      BY <1>2, <1>3, <2>2, AheadIsOwner DEF Reading
    <2> QED BY <2>1, <2>2
  <1>15. Foremost(t)' /\ Ended(t)'
    BY <1>2, <1>9 DEF Foremost, Ended, InPipe
  <1>16. Forwards(c)'
    BY <1>2, <1>7, <1>9, <1>14, <1>15 DEF Forwards
  <1>17. \A d \in Sweeps : d # c => Forwards(d)'
    BY <1>2 DEF Free, Forwards
  <1> QED BY <1>11, <1>12, <1>13, <1>16, <1>17 DEF Engaged

(* A frame is forwarded: the job's own, with nothing stale behind it, or   *)
(* an earlier one's "failed", which ends the forwarding of this one's.     *)
LEMMA ForwardEngaged ==
  ASSUME Coherent, NEW c \in Sweeps, Forward(c)
  PROVE  Engaged'
  <1>0. Typed /\ Attached /\ Single /\ Settled /\ Excused /\ [Next]_vars
    BY DEF Coherent, Engaged, Next, HostStep
  <1>1. PICK t \in Sweeps : serves[c] = t
    BY <1>0 DEF Forward, Typed, HostOK, Busy
  <1> DEFINE frame == Head(pipe)
  <1>2. /\ serving[c] = "forwarding" /\ pipe # <<>> /\ pipe' = Tail(pipe) /\ Deliver(c, frame)
        /\ UNCHANGED <<at, holder, closed, line, up, inbox, job>>
        /\ frame.kind \in Terminal => serving'[c] = "reading"
        /\ frame.kind \notin Terminal => serving'[c] = "forwarding" /\ serves'[c] = t
        /\ \A d \in Sweeps : d # c => serving'[d] = serving[d]
    BY <1>0, <1>1 DEF Forward, Serve, clientVars, Typed, HostOK
  <1>3. line[t] = c /\ alive /\ at[t] \notin Early /\ ~Ahead(t)
    BY <1>1, <1>2, NoLongerAhead
  <1>4. /\ \A u \in Sweeps : InEngine(u) => u = t
        /\ Stale(t) => Final(t) \/ (~closed /\ at[t] = "awaiting" /\ down[c] = <<>>)
        /\ Foremost(t) /\ Ended(t)
    BY <1>1, <1>2 DEF Coherent, Engaged, Forwards
  <1>5. /\ frame \in Frames /\ frame.of \in Sweeps /\ 1 \in DOMAIN pipe /\ pipe[1] = frame
        /\ frame.kind = "failed" \/ frame.of = t
    BY <1>0, <1>2, <1>4, HeadOfPipe
  <1> HIDE DEF frame
  <1>6. \A i \in DOMAIN pipe' : /\ i \in Nat /\ i + 1 \in DOMAIN pipe /\ i + 1 > 1
                                /\ pipe'[i] = pipe[i + 1]
    <2>1. pipe \in Seq(Frames)
      BY <1>0 DEF Typed, EngineOK
    <2>2. /\ DOMAIN pipe = 1 .. Len(pipe) /\ Len(pipe) \in Nat \ {0}
          /\ DOMAIN Tail(pipe) = 1 .. Len(pipe) - 1
          /\ \A i \in 1 .. Len(pipe) - 1 : Tail(pipe)[i] = pipe[i + 1]
      BY <1>2, <2>1, Took
    <2> QED BY <1>2, <2>2
  <1>7. \A u \in Sweeps : (InEngine(u)' => InEngine(u)) /\ (InPipe(u)' => InPipe(u))
    BY <1>2, <1>6 DEF InEngine, InPipe
  <1>8. Single' /\ Settled'
    <2>1. Single'
      BY <1>0, <1>2 DEF Single
    <2> QED BY <1>0, <1>7, <2>1, StillSettled DEF Settled
  <1>9. Excused'
    <2> SUFFICES ASSUME NEW u \in Sweeps, Free', InEngine(u)' PROVE Final(u)' \/ Misled(u)'
      BY DEF Excused
    <2>1. frame.kind \in Terminal /\ serving'[c] = "reading"
      BY <1>2 DEF Free
    <2>2. u = t
      BY <1>4, <1>7
    <2>3. frame.of # t
      <3>1. frame.of = t => /\ inbox = <<>> /\ job = None
                            /\ \A j \in DOMAIN pipe : j > 1 => pipe[j].kind = "failed"
        BY <1>4, <1>5, <2>1 DEF Ended
      <3>2. frame.of = t => ~InEngine(u)'
        BY <1>2, <1>6, <3>1, HostedAssumption DEF InEngine
      <3> QED BY <3>2
    <2>4. frame.kind = "failed" /\ Stale(t)
      BY <1>5, <2>3 DEF Stale
    <2>5. Final(t) => Final(t)'
      BY <1>0, <1>3, FinalStays
    <2>6. CASE ~closed /\ at[t] = "awaiting" /\ down[c] = <<>>
      <3>1. holder = t /\ c \notin shut
        BY <1>0, <1>3, <2>6, Ours DEF Reading
      <3>2. up[c] = <<>>
        BY <1>2, <1>3, <2>6 DEF Coherent, Shaped, Reading
      <3>3. Len(down'[c]) = 1 /\ down'[c][1] = frame
        <4>1. Len(down'[c]) = Len(down[c]) + 1 /\ down'[c][Len(down[c]) + 1] = frame
          BY <1>0, <1>2, <1>5, <3>1, Delivered
        <4>2. Len(down[c]) = 0
          BY <2>6
        <4> QED BY <4>1, <4>2
      <3> QED BY <1>2, <1>3, <2>1, <2>2, <2>4, <2>6, <3>1, <3>2, <3>3 DEF Misled
    <2> QED BY <1>4, <2>2, <2>4, <2>5, <2>6
  <1>10. ASSUME NEW d \in Sweeps, serving'[d] = "forwarding" PROVE Forwards(d)'
    <2>1. d = c
      BY <1>0, <1>2, <1>10 DEF Attached, Hosting
    <2>2. frame.kind \notin Terminal /\ serves'[c] = t
      BY <1>2, <1>10, <2>1
    <2>3. frame.of = t
      BY <1>5, <2>2 DEF Terminal
    <2>4. ~Stale(t)'
      <3>1. \A j \in DOMAIN pipe : j > 1 => pipe[j].of = t
        BY <1>4, <1>5, <2>3 DEF Foremost
      <3> QED BY <1>6, <3>1 DEF Stale
    <2>5. Foremost(t)'
      BY <2>4 DEF Foremost, Stale
    <2>6. Ended(t)'
      <3> SUFFICES ASSUME NEW i \in DOMAIN pipe', pipe'[i].of = t, pipe'[i].kind \in Terminal
                   PROVE  /\ inbox' = <<>> /\ job' = None
                          /\ \A j \in DOMAIN pipe' : j > i => pipe'[j].kind = "failed"
        BY DEF Ended
      <3>1. /\ inbox = <<>> /\ job = None
            /\ \A j \in DOMAIN pipe : j > i + 1 => pipe[j].kind = "failed"
        BY <1>4, <1>6 DEF Ended
      <3>2. \A j \in DOMAIN pipe' : j > i => j + 1 > i + 1
        BY <1>6
      <3> QED BY <1>2, <1>6, <3>1, <3>2
    <2>7. /\ at'[t] \notin Early
          /\ \A u \in Sweeps : InEngine(u)' => u = t
      BY <1>2, <1>3, <1>4, <1>7
    <2> QED BY <2>1, <2>2, <2>4, <2>5, <2>6, <2>7 DEF Forwards
  <1> QED BY <1>8, <1>9, <1>10 DEF Engaged, Forwards

(* A new engine, and no thread that forwards from it.                      *)
LEMMA RenewedEngaged ==
  ASSUME Typed, ReplaceEngine, \A d \in Sweeps : serving'[d] # "forwarding"
  PROVE  Engaged'
  BY Renewed DEF Engaged, Settled, Excused, Forwards

(* What the threads of the host do to it.                                  *)
LEMMA HostEngaged ==
  ASSUME Coherent, NEW c \in Sweeps, HostStep(c) \/ EngineDies(c)
  PROVE  Engaged'
  <1>0. Typed /\ Attached /\ Settled /\ Excused /\ [Next]_vars
    BY DEF Coherent, Engaged, Next
  <1>1. UNCHANGED <<at, holder, closed, line, shut>>
    BY HostEffect DEF clientVars
  <1>2. CASE TakeShutdown(c)
    BY <1>2, EndEngaged DEF TakeShutdown
  <1>3. CASE Abandon(c) \/ EngineDies(c)
    <2>1. /\ ReplaceEngine /\ serving[c] = "forwarding" /\ serving'[c] # "forwarding"
          /\ \A d \in Sweeps : d # c => serving'[d] = serving[d]
      BY <1>0, <1>3 DEF Abandon, EngineDies, Serve, Typed, HostOK
    <2>2. \A d \in Sweeps : serving'[d] # "forwarding"
      BY <1>0, <2>1 DEF Attached, Hosting
    <2> QED BY <1>0, <2>1, <2>2, RenewedEngaged
  <1>4. CASE TakeRetire(c) /\ Free
    BY <1>0, <1>4, RenewedEngaged DEF TakeRetire, Free, hostVars
  <1>5. CASE TakeRetire(c) /\ ~Free
    <2>1. UNCHANGED <<serving, serves, engineVars>> /\ serving[c] = "reading"
      BY <1>5 DEF TakeRetire, Ordered, hostVars
    <2>2. Single' /\ Settled'
      BY <1>0, <2>1, SameEngine
    <2>3. Excused'
      BY <1>5, <2>1 DEF Excused, Free
    <2>4. ASSUME NEW d \in Sweeps, serving'[d] = "forwarding" PROVE Forwards(d)'
      <3>1. PICK t \in Sweeps : serves[d] = t
        BY <1>0, <2>1, <2>4 DEF Typed, HostOK, Busy
      <3>2. serving[d] = "forwarding" /\ serves'[d] = t /\ d # c
        BY <2>1, <2>4, <3>1
      <3>3. down'[d] = down[d]
        <4>1. ~TakeShutdown(c)
          BY <2>1, <3>2 DEF TakeShutdown, EndHost
        <4> QED BY <1>0, <3>2, <4>1, HostTouches
      <3> QED BY <1>0, <1>1, <2>1, <3>1, <3>2, <3>3, ForwardsOn
    <2> QED BY <2>2, <2>3, <2>4 DEF Engaged, Forwards
  <1>6. CASE TakeSubmit(c) \/ HearHangUp(c)
    <2>1. UNCHANGED engineVars /\ serving[c] = "reading" /\ serving'[c] # "forwarding"
      BY <1>0, <1>6 DEF TakeSubmit, HearHangUp, Ordered, Serve, Typed, HostOK
    <2>2. Single' /\ Settled' /\ \A t \in Sweeps : InEngine(t)' <=> InEngine(t)
      BY <1>0, <2>1, SameEngine
    <2>3. ~TakeShutdown(c)
      BY <1>6 DEF TakeShutdown, TakeSubmit, HearHangUp, Ordered
    <2>4. \A d \in Sweeps : d # c => /\ up'[d] = up[d] /\ down'[d] = down[d]
                                     /\ serving'[d] = serving[d] /\ serves'[d] = serves[d]
      BY <1>0, <2>3, HostTouches
    <2>5. Excused'
      <3> SUFFICES ASSUME NEW t \in Sweeps, Free', InEngine(t)' PROVE Final(t)' \/ Misled(t)'
        BY DEF Excused
      <3>1. Free
        BY <2>1, <2>4 DEF Free
      <3>2. (Final(t) \/ Misled(t)) /\ at[t] \notin Early
        BY <1>0, <2>2, <3>1 DEF Excused, Settled
      <3>3. Final(t) => Final(t)'
        BY <1>0, <3>2, FinalStays
      <3>4. CASE Misled(t)
        <4>1. line[t] # c
          <5> SUFFICES ASSUME line[t] = c PROVE FALSE
            OBVIOUS
          <5>1. c \notin shut
            BY <3>4, MisledLine
          <5>2. TakeSubmit(c)
            BY <1>6, <5>1 DEF HearHangUp
          <5>3. up[c] # <<>> /\ up[c][1].op = "submit"
            BY <1>0, <5>2, OrderedEffect DEF TakeSubmit
          <5>4. up[c] = <<>> \/ up[c][1].op = "retire"
            BY <3>4 DEF Misled
          <5> QED BY <5>3, <5>4
        <4>2. line[t] \in Sweeps
          BY <3>4, MisledLine
        <4> QED BY <1>1, <2>4, <3>4, <4>1, <4>2 DEF Misled
      <3> QED BY <3>2, <3>3, <3>4
    <2>6. ASSUME NEW d \in Sweeps, serving'[d] = "forwarding" PROVE Forwards(d)'
      <3>1. d # c /\ serving[d] = "forwarding"
        BY <2>1, <2>4, <2>6
      <3>2. PICK t \in Sweeps : serves[d] = t
        BY <1>0, <3>1 DEF Typed, HostOK, Busy
      <3>3. serves'[d] = t /\ down'[d] = down[d]
        BY <2>4, <3>1, <3>2
      <3> QED BY <1>0, <1>1, <2>1, <3>1, <3>2, <3>3, ForwardsOn
    <2> QED BY <2>2, <2>5, <2>6 DEF Engaged, Forwards
  <1>7. CASE LockJob(c)
    BY <1>7, LockEngaged
  <1>8. CASE Forward(c)
    BY <1>8, ForwardEngaged
  <1> QED BY <1>2, <1>3, <1>4, <1>5, <1>6, <1>7, <1>8 DEF HostStep

LEMMA StepEngaged ==
  ASSUME Uninterrupted, Coherent, [Next]_vars
  PROVE  Engaged'
  <1>1. CASE UNCHANGED vars
    <2>1. Engaged
      BY DEF Coherent
    <2>2. /\ Single' /\ Settled'
          /\ \A t \in Sweeps : InEngine(t)' <=> InEngine(t)
      BY <1>1, SameEngine DEF vars
    <2>3. UNCHANGED <<at, holder, closed, line, up, down, serving, serves, engineVars>>
      BY <1>1 DEF vars, clientVars, hostVars
    <2>4. \A t \in Sweeps : (Final(t)' <=> Final(t)) /\ (Misled(t)' <=> Misled(t))
      BY <2>3 DEF Final, Last, Misled, Ahead, SubmitAt
    <2>5. Excused'
      BY <2>1, <2>2, <2>3, <2>4 DEF Engaged, Excused, Free
    <2>6. ASSUME NEW c \in Sweeps, serving'[c] = "forwarding" PROVE Forwards(c)'
      <3>1. serves[c] \in Sweeps /\ serves'[c] = serves[c] /\ serving[c] = "forwarding"
        BY <2>3, <2>6 DEF Coherent, Typed, HostOK, Busy
      <3>2. PICK t \in Sweeps : serves[c] = t
        BY <3>1
      <3> QED BY <2>3, <3>1, <3>2, ForwardsOn
    <2> QED BY <2>2, <2>5, <2>6 DEF Engaged, Forwards
  <1>2. CrashHost => Engaged'
    BY EndEngaged DEF CrashHost
  <1> QED BY <1>1, <1>2, ClientEngaged, StopEngaged, HostEngaged, EngineEngaged DEF Next

(* A cancellation is on its way only to a sweep whose file is there, or    *)
(* that has come to its end.                                               *)
Allowed(frame) ==
  frame.kind = "cancelled" => frame.of \in cancelFiles \/ at[frame.of] \in Over

Cancelled ==
  /\ \A i \in DOMAIN pipe : Allowed(pipe[i])
  /\ \A c \in Sweeps : \A i \in DOMAIN down[c] : Allowed(down[c][i])

(* A cancel file is there until its sweep has come to its end.             *)
LEMMA StillAllowed ==
  ASSUME Typed, [Next]_vars, NEW frame \in Frames, Allowed(frame)
  PROVE  Allowed(frame)'
  <1> SUFFICES ASSUME frame.kind = "cancelled"
               PROVE  frame.of \in cancelFiles' \/ at'[frame.of] \in Over
    BY DEF Allowed
  <1>0. frame.of \in Sweeps /\ (frame.of \in cancelFiles \/ at[frame.of] \in Over)
    BY DEF Allowed, Frames
  <1>1. PICK t \in Sweeps : frame.of = t
    BY <1>0
  <1>2. ASSUME NEW s \in Sweeps, Call(s) \/ SweepStep(s)
        PROVE  t \in cancelFiles' \/ at'[t] \in Over
    <2>1. CASE Read(s)
      <3>1. /\ t \in cancelFiles => t \in cancelFiles'
            /\ at[s] \in Reading /\ \A u \in Sweeps : u # s => at'[u] = at[u]
        BY <2>1, ReadEffect, ReadEnds DEF Read
      <3> QED BY <1>0, <1>1, <3>1 DEF Reading, Over
    <2>2. CASE Leave(s)
      <3>1. outcome[s] \in Over
        BY <2>2 DEF Leave, Typed, ClientOK, Ending
      <3> QED BY <1>0, <1>1, <2>2, <3>1 DEF Leave, Goto, Typed, ClientOK
    <2>3. CASE ~Read(s) /\ ~Leave(s)
      <3>1. cancelFiles \subseteq cancelFiles'
        BY <1>2, <2>3 DEF SweepStep, Call, Acquire, Refused, Connect, Submit, HearNothing, ReadRaises,
                          StreamRaises, Close, Retire, Hear
      <3>2. at[s] \notin Over /\ \A u \in Sweeps : u # s => at'[u] = at[u]
        BY <1>2, <2>3 DEF SweepStep, Call, Acquire, Refused, Connect, Submit, HearNothing, ReadRaises,
                          StreamRaises, Close, Retire, Hear, Goto, Typed, ClientOK, Reading, Over
      <3> QED BY <1>0, <1>1, <3>1, <3>2
    <2> QED BY <2>1, <2>2, <2>3
  <1>3. ASSUME NEW c \in Sweeps, HostStep(c) \/ EngineDies(c) PROVE UNCHANGED <<at, cancelFiles>>
    BY <1>3, HostEffect DEF clientVars
  <1>4. Stop \/ EngineStep \/ CrashHost \/ UNCHANGED vars => UNCHANGED <<at, cancelFiles>>
    BY DEF Stop, Refuse, SayShutdown, Detach, HearShutdown,
           EngineStep, TakeJob, Solve, SolveFails, Cancel, Complete, CrashHost, vars, clientVars
  <1> QED BY <1>0, <1>1, <1>2, <1>3, <1>4 DEF Next

(* Where a frame that is in a connection comes from.                       *)
LEMMA Delivers ==
  ASSUME Typed, NEW c \in Sweeps, NEW frame \in Frames, Deliver(c, frame),
         NEW d \in Sweeps, NEW i \in DOMAIN down'[d]
  PROVE  down'[d][i] = frame \/ \E j \in DOMAIN down[d] : down'[d][i] = down[d][j]
  <1>1. CASE d # c \/ c \in shut
    BY <1>1, Delivered
  <1>2. CASE d = c /\ c \notin shut
    <2>1. /\ DOMAIN down[c] = 1 .. Len(down[c]) /\ Len(down[c]) \in Nat
          /\ DOMAIN down'[c] = 1 .. Len(down[c]) + 1
          /\ \A j \in 1 .. Len(down[c]) : down'[c][j] = down[c][j]
          /\ down'[c][Len(down[c]) + 1] = frame
      BY <1>2, Delivered
    <2>2. i \in DOMAIN down[c] \/ i = Len(down[c]) + 1
      BY <1>2, <2>1
    <2> QED BY <1>2, <2>1, <2>2
  <1> QED BY <1>1, <1>2

LEMMA Drops ==
  ASSUME Typed, NEW c \in Sweeps, down[c] # <<>>, Drop(c),
         NEW d \in Sweeps, NEW i \in DOMAIN down'[d]
  PROVE  \E j \in DOMAIN down[d] : down'[d][i] = down[d][j]
  <1>1. CASE d # c
    BY <1>1, Dropped
  <1>2. CASE d = c
    <2>1. /\ DOMAIN down[c] = 1 .. Len(down[c]) /\ Len(down[c]) \in Nat \ {0}
          /\ DOMAIN down'[c] = 1 .. Len(down[c]) - 1
          /\ \A j \in 1 .. Len(down[c]) - 1 : down'[c][j] = down[c][j + 1]
      BY Dropped
    <2>2. i + 1 \in DOMAIN down[c] /\ down'[c][i] = down[c][i + 1]
      BY <1>2, <2>1
    <2> QED BY <1>2, <2>2
  <1> QED BY <1>1, <1>2

LEMMA Origin ==
  ASSUME Typed, [Next]_vars, NEW d \in Sweeps, NEW i \in DOMAIN down'[d]
  PROVE  \/ \E j \in DOMAIN down[d] : down'[d][i] = down[d][j]
         \/ down'[d][i].kind # "cancelled"
         \/ \E j \in DOMAIN pipe : down'[d][i] = pipe[j]
  <1>1. ASSUME NEW s \in Sweeps, Call(s) \/ SweepStep(s)
        PROVE  \E j \in DOMAIN down[d] : down'[d][i] = down[d][j]
    <2>1. CASE Read(s)
      <3>1. line[s] \in Sweeps /\ down[line[s]] # <<>> /\ Drop(line[s])
        BY <2>1, ReadEffect DEF Read
      <3> QED BY <3>1, Drops
    <2>2. CASE Hear(s)
      <3>1. down' = down \/ (line[s] \in Sweeps /\ down[line[s]] # <<>> /\ Drop(line[s]))
        BY <2>2 DEF Hear, Typed, ClientOK
      <3> QED BY <3>1, Drops
    <2>3. CASE ~Read(s) /\ ~Hear(s)
      <3>1. down' = down
        BY <1>1, <2>3 DEF SweepStep, Call, Acquire, Refused, Connect, Submit, HearNothing, ReadRaises,
                          StreamRaises, Retire, Leave
      <3> QED BY <3>1
    <2> QED BY <2>1, <2>2, <2>3
  <1>2. ASSUME NEW c \in Sweeps, HostStep(c) \/ EngineDies(c)
        PROVE  \/ \E j \in DOMAIN down[d] : down'[d][i] = down[d][j]
               \/ down'[d][i].kind # "cancelled"
               \/ \E j \in DOMAIN pipe : down'[d][i] = pipe[j]
    <2> DEFINE t == Head(up[c]).of
    <2>1. ASSUME NEW s \in Sweeps, NEW kind \in {"failed", "retired", "shutdown_ok"},
                 Deliver(c, Frame(s, kind, 0))
          PROVE  (\E j \in DOMAIN down[d] : down'[d][i] = down[d][j]) \/ down'[d][i].kind # "cancelled"
      <3>1. Frame(s, kind, 0) \in Frames
        BY FrameTyped, ZeroTyped DEF Terminal
      <3>2. Frame(s, kind, 0).kind # "cancelled"
        BY DEF Frame
      <3> QED BY <2>1, <3>1, <3>2, Delivers
    <2>2. CASE TakeSubmit(c)
      <3>1. t \in Sweeps /\ (down' = down \/ Deliver(c, Frame(t, "failed", 0)))
        BY <2>2, OrderedEffect DEF TakeSubmit
      <3> QED BY <2>1, <3>1
    <2>3. CASE TakeRetire(c)
      <3>1. t \in Sweeps /\ Deliver(c, Frame(t, "retired", 0))
        BY <2>3, OrderedEffect DEF TakeRetire
      <3> QED BY <2>1, <3>1
    <2>4. CASE TakeShutdown(c)
      <3>1. t \in Sweeps /\ Deliver(c, Frame(t, "shutdown_ok", 0))
        BY <2>4, OrderedEffect DEF TakeShutdown
      <3> QED BY <2>1, <3>1
    <2>5. CASE HearHangUp(c) \/ LockJob(c) \/ Abandon(c)
      BY <2>5 DEF HearHangUp, LockJob, Abandon
    <2>6. CASE Forward(c)
      <3>1. pipe # <<>> /\ Deliver(c, Head(pipe))
        BY <2>6 DEF Forward
      <3>2. Head(pipe) \in Frames /\ 1 \in DOMAIN pipe /\ pipe[1] = Head(pipe)
        BY <3>1, HeadOfPipe
      <3> QED BY <3>1, <3>2, Delivers
    <2>7. CASE EngineDies(c)
      <3>1. serves[c] \in Sweeps /\ Deliver(c, Frame(serves[c], "failed", 0))
        BY <2>7 DEF EngineDies, Typed, HostOK, Busy
      <3> QED BY <2>1, <3>1
    <2> QED BY <1>2, <2>2, <2>3, <2>4, <2>5, <2>6, <2>7 DEF HostStep
  <1>3. CASE Stop
    <2>1. down' = down \/ (asked \in Sweeps /\ down[asked] # <<>> /\ Drop(asked))
      BY <1>3 DEF Stop, Refuse, SayShutdown, Detach, HearShutdown, Typed, WorkerOK
    <2> QED BY <2>1, Drops
  <1>4. CASE EngineStep \/ CrashHost \/ UNCHANGED vars
    <2>1. down' = down
      BY <1>4 DEF EngineStep, TakeJob, Solve, SolveFails, Cancel, Complete, CrashHost, vars
    <2> QED BY <2>1
  <1> QED BY <1>1, <1>2, <1>3, <1>4 DEF Next

(* Only Julia says "cancelled", and of a job whose file it has seen.       *)
LEMMA StepCancelled ==
  ASSUME Typed, Cancelled, [Next]_vars
  PROVE  Cancelled'
  <1>1. ASSUME NEW i \in DOMAIN pipe'
        PROVE  \/ \E j \in DOMAIN pipe : pipe'[i] = pipe[j]
               \/ pipe'[i].kind = "cancelled" => pipe'[i].of \in cancelFiles'
    <2>1. CASE EngineStep
      <3>1. PICK w \in Sweeps : Writes(w)
        BY <2>1, EngineWrites
      <3>2. cancelFiles' = cancelFiles
        BY <2>1 DEF EngineStep, TakeJob, Solve, SolveFails, Cancel, Complete, clientVars
      <3>3. /\ \A j \in DOMAIN pipe : pipe'[j] = pipe[j]
            /\ i \notin DOMAIN pipe =>
                 pipe'[i].of = w /\ (pipe'[i].kind = "cancelled" => w \in cancelFiles)
        BY <3>1, Written
      <3> QED BY <3>2, <3>3
    <2>2. CASE ~EngineStep
      <3>1. pipe' = pipe \/ pipe' = <<>> \/ (pipe # <<>> /\ pipe' = Tail(pipe))
        <4>1. \A s \in Sweeps : Call(s) \/ SweepStep(s) => pipe' = pipe
          BY DEF SweepStep, Call, Acquire, Refused, Connect, Submit, Read, HearNothing,
                 ReadRaises, StreamRaises, Retire, Hear, Leave, engineVars
        <4>2. ASSUME NEW c \in Sweeps, HostStep(c) \/ EngineDies(c)
              PROVE  pipe' = pipe \/ pipe' = <<>> \/ (pipe # <<>> /\ pipe' = Tail(pipe))
          BY <4>2 DEF HostStep, TakeSubmit, TakeRetire, TakeShutdown, HearHangUp, LockJob, Forward,
                      Abandon, EngineDies, EndHost, ReplaceEngine, engineVars
        <4>3. Stop \/ CrashHost \/ UNCHANGED vars => pipe' = pipe \/ pipe' = <<>>
          BY DEF Stop, Refuse, SayShutdown, Detach, HearShutdown, CrashHost, EndHost, ReplaceEngine,
                 vars, engineVars
        <4> QED BY <2>2, <4>1, <4>2, <4>3 DEF Next
      <3>2. CASE pipe # <<>> /\ pipe' = Tail(pipe)
        <4>1. pipe \in Seq(Frames)
          BY DEF Typed, EngineOK
        <4>2. /\ DOMAIN pipe = 1 .. Len(pipe) /\ Len(pipe) \in Nat \ {0}
              /\ DOMAIN pipe' = 1 .. Len(pipe) - 1
              /\ \A j \in 1 .. Len(pipe) - 1 : pipe'[j] = pipe[j + 1]
          BY <3>2, <4>1, Took
        <4>3. i + 1 \in DOMAIN pipe /\ pipe'[i] = pipe[i + 1]
          BY <4>2
        <4> QED BY <4>3
      <3> QED BY <3>1, <3>2
    <2> QED BY <2>1, <2>2
  <1>2. \A i \in DOMAIN pipe : pipe[i] \in Frames /\ Allowed(pipe[i])
    <2>1. pipe \in Seq(Frames)
      BY DEF Typed, EngineOK
    <2>2. \A i \in DOMAIN pipe : pipe[i] \in Frames
      BY <2>1
    <2> QED BY <2>2 DEF Cancelled
  <1>3. ASSUME NEW i \in DOMAIN pipe' PROVE Allowed(pipe[i])'
    <2>1. CASE \E j \in DOMAIN pipe : pipe'[i] = pipe[j]
      <3>1. PICK frame \in Frames : pipe'[i] = frame /\ Allowed(frame)
        BY <1>2, <2>1
      <3>2. Allowed(frame)'
        BY <3>1, StillAllowed
      <3> QED BY <3>1, <3>2 DEF Allowed
    <2> QED BY <1>1, <2>1 DEF Allowed
  <1>4. ASSUME NEW d \in Sweeps, NEW i \in DOMAIN down'[d] PROVE Allowed(down[d][i])'
    <2>1. \A j \in DOMAIN down[d] : down[d][j] \in Frames /\ Allowed(down[d][j])
      <3>1. down[d] \in Seq(Frames)
        BY DEF Typed, FramesOK
      <3>2. \A j \in DOMAIN down[d] : down[d][j] \in Frames
        BY <3>1
      <3> QED BY <3>2 DEF Cancelled
    <2>2. CASE down'[d][i].kind # "cancelled"
      BY <2>2 DEF Allowed
    <2>3. CASE down'[d][i].kind = "cancelled"
      <3>1. PICK frame \in Frames : down'[d][i] = frame /\ Allowed(frame)
        BY <1>2, <2>1, <2>3, Origin
      <3>2. Allowed(frame)'
        BY <3>1, StillAllowed
      <3> QED BY <3>1, <3>2 DEF Allowed
    <2> QED BY <2>2, <2>3
  <1> QED BY <1>3, <1>4 DEF Cancelled

-----------------------------------------------------------------------------
(* What a sweep has made of what it read.                                  *)
Honest(s) ==
  /\ \A i \in DOMAIN got[s] : got[s][i] = Frame(s, "result", i)
  /\ outcome[s] = "returned" => Len(got[s]) = Total
  /\ outcome[s] = "cancelled" => at[s] \in Over \/ (at[s] = "leaving" /\ s \in cancelFiles)

(* A sweep keeps the results that are its own, takes a completion only     *)
(* with all of them, and a cancellation only after its caller's.           *)
LEMMA ReadHonest ==
  ASSUME Coherent, Cancelled, NEW s \in Sweeps, Honest(s), Read(s)
  PROVE  Honest(s)'
  <1> DEFINE frame == Head(down[line[s]])
  <1>0. /\ Typed /\ Attached /\ at[s] \in Reading /\ outcome[s] = None
        /\ line[s] \in Sweeps /\ down[line[s]] # <<>> /\ Drop(line[s])
        /\ ReadStart(s, frame) \/ ReadSolve(s, frame)
    BY Ours DEF Coherent, Read, Typed, ClientOK
  <1>1. frame \in Frames /\ Harmless(frame, s) /\ Allowed(frame)
    <2>1. frame \in Frames /\ frame = down[line[s]][1] /\ 1 \in DOMAIN down[line[s]]
      BY <1>0, Dropped
    <2> QED BY <1>0, <2>1 DEF Coherent, Listens, Cancelled
  <1> HIDE DEF frame
  <1>2. got[s] \in Seq(Frames) /\ \A i \in DOMAIN got[s] : got[s][i] = Frame(s, "result", i)
    BY <1>0 DEF Honest, Typed, FramesOK
  <1>3. ASSUME UNCHANGED got, outcome'[s] \notin {"returned", "cancelled"} PROVE Honest(s)'
    BY <1>2, <1>3 DEF Honest
  <1>4. CASE ReadStart(s, frame)
    <2>1. UNCHANGED got /\ (outcome'[s] = None \/ outcome'[s] = "raised")
      BY <1>0, <1>4 DEF ReadStart, Close, Typed, ClientOK
    <2> QED BY <1>3, <2>1, HostedAssumption
  <1>5. CASE ReadSolve(s, frame) /\ frame.kind = "result"
    <2>1. Keep(s, frame)
      BY <1>5 DEF ReadSolve, Terminal
    <2>2. outcome'[s] = None \/ outcome'[s] = "raised"
      BY <1>0, <2>1 DEF Keep, Report, Close, Typed, ClientOK
    <2>3. CASE UNCHANGED got
      BY <1>3, <2>2, <2>3, HostedAssumption
    <2>4. CASE frame.n = Len(got[s]) + 1 /\ got' = [got EXCEPT ![s] = Append(@, frame)]
      <3>1. frame = Frame(s, "result", Len(got[s]) + 1)
        BY <1>1, <1>5, <2>4 DEF Harmless, Frame, Frames
      <3>2. got'[s] = Append(got[s], frame)
        BY <1>0, <2>4 DEF Typed, FramesOK
      <3>3. \A i \in DOMAIN got'[s] : got'[s][i] = Frame(s, "result", i)
        <4> DEFINE q == got[s]
        <4>1. q \in Seq(Frames) /\ frame \in Frames
          BY <1>1, <1>2
        <4> HIDE DEF q
        <4>2. /\ DOMAIN q = 1 .. Len(q) /\ DOMAIN Append(q, frame) = 1 .. Len(q) + 1
              /\ Len(q) \in Nat
              /\ \A i \in 1 .. Len(q) : Append(q, frame)[i] = q[i]
              /\ Append(q, frame)[Len(q) + 1] = frame
          BY <4>1, Added
        <4>3. \A i \in DOMAIN Append(q, frame) : i \in DOMAIN q \/ i = Len(q) + 1
          BY <4>2
        <4> QED BY <1>2, <3>1, <3>2, <4>2, <4>3 DEF q
      <3> QED BY <2>2, <3>3, HostedAssumption DEF Honest
    <2> QED BY <2>1, <2>3, <2>4 DEF Keep
  <1>6. CASE ReadSolve(s, frame) /\ frame.kind \in Terminal
    <2>1. Finish(s, frame.kind)
      BY <1>6 DEF ReadSolve, Terminal
    <2>2. /\ UNCHANGED <<got, cancelFiles>>
          /\ outcome'[s] = IF frame.kind = "cancelled" THEN "cancelled"
                           ELSE IF frame.kind = "completed" /\ Len(got[s]) = Total
                           THEN "returned" ELSE "raised"
          /\ frame.kind # "failed" => at'[s] = "leaving"
      BY <1>0, <2>1 DEF Finish, Close, Goto, Typed, ClientOK
    <2>3. CASE frame.kind = "cancelled"
      <3>1. s \in cancelFiles
        BY <1>0, <1>1, <2>3 DEF Harmless, Allowed, Reading, Over
      <3> QED BY <1>2, <2>2, <2>3, <3>1 DEF Honest
    <2>4. CASE frame.kind # "cancelled"
      BY <1>2, <2>2, <2>4 DEF Honest
    <2> QED BY <2>3, <2>4
  <1>7. CASE ReadSolve(s, frame) /\ frame.kind # "result" /\ frame.kind \notin Terminal
    <2>1. UNCHANGED <<outcome, got>>
      BY <1>7 DEF ReadSolve
    <2> QED BY <1>0, <1>3, <2>1, HostedAssumption
  <1> QED BY <1>0, <1>4, <1>5, <1>6, <1>7

(* No other step touches what a sweep has kept and decided.                *)
LEMMA StepHonest ==
  ASSUME Coherent, Cancelled, [Next]_vars, NEW t \in Sweeps, Honest(t)
  PROVE  Honest(t)'
  <1>0. Typed
    BY DEF Coherent
  <1>1. ASSUME UNCHANGED got, outcome'[t] = outcome[t], at'[t] = at[t],
               t \in cancelFiles => t \in cancelFiles'
        PROVE  Honest(t)'
    BY <1>1 DEF Honest
  <1>2. ASSUME NEW s \in Sweeps, Call(s) \/ SweepStep(s), s # t PROVE Honest(t)'
    <2>1. CASE Read(s)
      <3>1. /\ got'[t] = got[t] /\ outcome'[t] = outcome[t] /\ at'[t] = at[t]
            /\ t \in cancelFiles => t \in cancelFiles'
        <4>1. UNCHANGED got \/ got' = [got EXCEPT ![s] = Append(@, Head(down[line[s]]))]
          BY <1>0, <2>1, ReadEffect
        <4>2. got'[t] = got[t]
          BY <1>0, <1>2, <4>1 DEF Typed, FramesOK
        <4>3. outcome' = outcome \/ \E how : outcome' = [outcome EXCEPT ![s] = how]
          BY <1>0, <2>1, ReadEffect DEF Close
        <4>4. outcome'[t] = outcome[t]
          BY <1>0, <1>2, <4>3 DEF Typed, ClientOK
        <4>5. at'[t] = at[t]
          BY <1>0, <1>2, <2>1, ReadEnds
        <4>6. t \in cancelFiles => t \in cancelFiles'
          BY <1>0, <2>1, ReadEffect
        <4> QED BY <4>2, <4>4, <4>5, <4>6
      <3> QED BY <3>1 DEF Honest
    <2>2. CASE ~Read(s)
      <3>1. /\ UNCHANGED got /\ outcome'[t] = outcome[t] /\ at'[t] = at[t]
            /\ t \in cancelFiles => t \in cancelFiles'
        BY <1>0, <1>2, <2>2 DEF SweepStep, Call, Acquire, Refused, Connect, Submit, HearNothing,
                  ReadRaises, StreamRaises, Close, Retire, Hear, Leave, Goto, Typed, ClientOK
      <3> QED BY <1>1, <3>1
    <2> QED BY <2>1, <2>2
  <1>3. ASSUME Call(t) \/ SweepStep(t) PROVE Honest(t)'
    <2>1. CASE Read(t)
      BY <2>1, ReadHonest
    <2>2. CASE Leave(t)
      <3>1. UNCHANGED <<got, outcome>> /\ at'[t] = outcome[t]
        BY <1>0, <2>2 DEF Leave, Goto, Typed, ClientOK
      <3> QED BY <3>1 DEF Honest, Over
    <2>3. CASE Call(t) \/ Acquire(t) \/ Connect(t)
      <3>1. UNCHANGED <<got, outcome>> /\ outcome[t] = None
        BY <1>0, <2>3 DEF Call, Acquire, Connect, Typed, ClientOK, Early
      <3> QED BY <3>1, HostedAssumption DEF Honest
    <2>4. CASE Refused(t) \/ Submit(t) \/ HearNothing(t) \/ ReadRaises(t)
      <3>1. UNCHANGED got /\ outcome'[t] \in {None, "raised"}
        BY <1>0, <2>4 DEF Refused, Submit, HearNothing, ReadRaises, StreamRaises, Close, Typed,
                          ClientOK, Early
      <3> QED BY <3>1, HostedAssumption DEF Honest
    <2>5. CASE Retire(t) \/ Hear(t)
      <3>1. UNCHANGED <<got, outcome>> /\ at[t] \notin Over \cup {"leaving"}
        BY <2>5 DEF Retire, Hear, Over
      <3> QED BY <3>1 DEF Honest
    <2> QED BY <1>3, <2>1, <2>2, <2>3, <2>4, <2>5 DEF SweepStep
  <1>4. ASSUME NEW c \in Sweeps, HostStep(c) \/ EngineDies(c) PROVE Honest(t)'
    BY <1>1, <1>4, HostEffect DEF clientVars
  <1>5. Stop \/ EngineStep \/ CrashHost \/ UNCHANGED vars => Honest(t)'
    <2>1. Stop \/ EngineStep \/ CrashHost \/ UNCHANGED vars
          => UNCHANGED <<at, outcome, got, cancelFiles>>
      BY DEF Stop, Refuse, SayShutdown, Detach, HearShutdown,
             EngineStep, TakeJob, Solve, SolveFails, Cancel, Complete, CrashHost, vars, clientVars
    <2> QED BY <1>1, <2>1
  <1> QED BY <1>2, <1>3, <1>4, <1>5 DEF Next

(* The inductive invariant.                                                *)
Trusted == Coherent /\ Cancelled /\ \A s \in Sweeps : Honest(s)

LEMMA InitTrusted == Init => Trusted
  <1> SUFFICES ASSUME Init PROVE Trusted
    OBVIOUS
  <1>1. Typed /\ Attached
    BY InitTyped, InitAttached
  <1>2. /\ \A s \in Sweeps : at[s] = "idle" /\ line[s] = None /\ serving[s] = "gone"
                             /\ outcome[s] = None /\ got[s] = <<>> /\ down[s] = <<>>
        /\ connection = None /\ inbox = <<>> /\ job = None /\ pipe = <<>>
    BY DEF Init
  <1>3. DOMAIN inbox = {} /\ DOMAIN pipe = {} /\ Len(inbox) = 0
        /\ \A s \in Sweeps : DOMAIN got[s] = {} /\ DOMAIN down[s] = {}
    BY <1>2
  <1>4. Orderly /\ Calm
    BY <1>2 DEF Orderly, Ahead, Apart, Calm
  <1>5. \A s \in Sweeps : Shaped(s) /\ Listens(s)
    BY <1>2 DEF Shaped, Listens, Reading
  <1>6. \A s \in Sweeps : ~InEngine(s) /\ ~InPipe(s)
    BY <1>2, <1>3, HostedAssumption DEF InEngine, InPipe
  <1>7. Engaged
    BY <1>2, <1>3, <1>6 DEF Engaged, Single, Settled, Excused, Forwards
  <1>8. Cancelled
    BY <1>3 DEF Cancelled
  <1>9. \A s \in Sweeps : Honest(s)
    BY <1>2, <1>3, HostedAssumption DEF Honest
  <1> QED BY <1>1, <1>4, <1>5, <1>7, <1>8, <1>9 DEF Trusted, Coherent

LEMMA StepTrusted == Uninterrupted /\ Trusted /\ [Next]_vars => Trusted'
  <1> SUFFICES ASSUME Uninterrupted, Trusted, [Next]_vars PROVE Trusted'
    OBVIOUS
  <1>1. Coherent /\ Typed /\ Attached
    BY DEF Trusted, Coherent
  <1>2. Typed' /\ Attached'
    BY <1>1, StepTyped, StepAttached
  <1>3. Orderly' /\ Calm' /\ Engaged' /\ \A s \in Sweeps : Shaped(s)' /\ Listens(s)'
    BY <1>1, StepOrderly, StepCalm, StepEngaged, StepShaped, StepListens
  <1>4. Cancelled' /\ \A s \in Sweeps : Honest(s)'
    BY <1>1, StepCancelled, StepHonest DEF Trusted
  <1> QED BY <1>2, <1>3, <1>4 DEF Trusted, Coherent

(* A sweep that returns has the results it asked for, each its own and in  *)
(* order, and one that says it was cancelled was cancelled by its caller:  *)
(* whatever the sweeps before it left in the socket, in the host and in    *)
(* the engine, whoever else reads from the socket, and whatever dies on    *)
(* the far side.  Nothing may land in a sweep while it waits for a frame:  *)
(* run SweepInterrupted shows what comes of that.                          *)
THEOREM ResultsAreTheSweepsOwn ==
  ASSUME Uninterrupted
  PROVE  Spec => []SweepIsHonest
  <1>1. Trusted => SweepIsHonest
    BY DEF Trusted, Honest, SweepIsHonest, Over
  <1>2. Trusted /\ [Next]_vars => Trusted'
    BY StepTrusted
  <1> QED BY <1>1, <1>2, InitTrusted, PTL DEF Spec
=============================================================================
