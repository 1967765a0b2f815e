-------------------------- MODULE WorkerHostProofs ---------------------------
(***************************************************************************)
(* What holds of a worker host for every set of connections and warm-ups.  *)
(* The host's job lock keeps the connections apart and the engine's slot   *)
(* keeps out the warm-ups, but terminate() asks neither the slot nor the   *)
(* warm-up that may own it: what saves the connection behind it is that a  *)
(* warm-up has no work in any child, and that a terminated child is one    *)
(* nobody is given again.                                                  *)
(***************************************************************************)
EXTENDS WorkerHost, WorkerProcessProofs

USE NoRequestAssumption, RuntimeAssumption, ProcessAssumption, BackgroundAssumption

-----------------------------------------------------------------------------
(* Types.  A warm-up stays in the places of ensure_started(): what a       *)
(* connection's thread does with the job lock, it never does.              *)
WarmPlaces == {"new", "calling", "parked", "admitted", "spawning", "starting", "startfailed",
               "ready", "unwinding", "raised"}
Roles == \A w \in Background : at[w] \in WarmPlaces

Idle == {"new", "queued", "done", "answered"}
HostPlaces == Jobs \cup {"queued", "answered"}

LEMMA InitTyped == Init => TypeOK /\ Roles
  <1> SUFFICES ASSUME Init PROVE TypeOK /\ Roles
    OBVIOUS
  <1>1. ProcessTypeOK
    BY InitProcess DEF Init
  <1>2. /\ at \in [Requests -> HostPlaces]
        /\ \A r \in Requests : at[r] \in {"new", "calling"}
        /\ \A r \in Connections : at[r] = "new"
    BY DEF Init, HostPlaces, Jobs, ProcessPlaces, Connections
  <1> QED BY <1>1, <1>2 DEF Init, TypeOK, Roles, HostPlaces, WarmPlaces, Connections

(* One thread moves, and the job lock stays with the connection that has   *)
(* it.                                                                     *)
LEMMA Moved ==
  ASSUME TypeOK, Roles, NEW r \in Requests, NEW place \in HostPlaces, Goto(r, place),
         r \in Background => place \in WarmPlaces
  PROVE  /\ at' \in [Requests -> HostPlaces] /\ Roles'
         /\ \A q \in Requests : at'[q] = IF q = r THEN place ELSE at[q]
  BY DEF TypeOK, HostPlaces, Goto, Roles

Locked(r) == at[r] \notin Idle <=> jobLock = r

LEMMA StillLocked ==
  ASSUME TypeOK, Roles, NEW r \in Requests, NEW place \in HostPlaces, Goto(r, place),
         UNCHANGED jobLock, at[r] \in Idle <=> place \in Idle
  PROVE  \A q \in Connections : Locked(q)'
  <1>1. \A q \in Requests : at'[q] = IF q = r THEN place ELSE at[q]
    BY DEF TypeOK, Goto
  <1>2. \A q \in Connections : Locked(q)
    BY DEF TypeOK, Locked, Idle
  <1> QED BY <1>1, <1>2 DEF Locked, Connections

LEMMA ProcessMoves ==
  ASSUME NEW r \in Requests, ProcessStep(r)
  PROVE  \E place \in ProcessPlaces \ Idle :
           /\ Goto(r, place) /\ at[r] \in ProcessPlaces \ Idle
           /\ r \in Warmers /\ at[r] \in WarmPlaces => place \in WarmPlaces
  <1> USE DEF ProcessPlaces, InSubmit, Over, Idle, WarmPlaces
  <1>1. CASE Acquire(r) \/ CheckChild(r) \/ Spawn(r) \/ ReturnStream(r)
    BY <1>1 DEF Acquire, CheckChild, Spawn, ReturnStream
  <1>2. CASE BindStarting(r) \/ ReadStarting(r) \/ StartingEnds(r) \/ StartFailed(r)
    BY <1>2 DEF BindStarting, Bind, ReadStarting, StartingEnds, StartFailed
  <1>3. CASE TakeStdin(r) \/ WriteRequest(r)
    BY <1>3 DEF TakeStdin, WriteRequest
  <1>4. CASE Unwind(r)
    BY <1>4 DEF Unwind
  <1> QED BY <1>1, <1>2, <1>3, <1>4 DEF ProcessStep

LEMMA StepTyped == TypeOK /\ Roles /\ [Next]_vars => TypeOK' /\ Roles'
  <1> SUFFICES ASSUME TypeOK, Roles, [Next]_vars PROVE TypeOK' /\ Roles'
    OBVIOUS
  <1>1. UNCHANGED runtimeVars => RuntimeTypeOK'
    BY DEF TypeOK, ProcessTypeOK, RuntimeTypeOK, runtimeVars
  <1>2. UNCHANGED slotVars => SlotTypeOK'
    BY ClosingTyped DEF TypeOK, ProcessTypeOK
  <1>3. /\ Connections = Requests \ Background
        /\ \A w \in Background : w \in Requests /\ w \in Warmers /\ at[w] \in WarmPlaces
        /\ \A r \in Connections : Locked(r)
    BY DEF Connections, TypeOK, Roles, Locked, Idle
  <1> DEFINE Hosted == /\ jobLock \in Connections \cup {NoRequest}
                       /\ warm \in Background
                       /\ gone \cup asked \subseteq Connections
                       /\ victim \in Requests \cup {NoRequest}
  <1>4. Hosted
    BY DEF TypeOK
  <1>5. ProcessTypeOK' /\ at' \in [Requests -> HostPlaces] /\ Hosted'
          /\ (\A q \in Connections : Locked(q)') => TypeOK'
    BY DEF TypeOK, HostPlaces, Locked, Idle
  <1> HIDE DEF Hosted
  <1>6. UNCHANGED hostVars => Hosted'
    BY <1>4 DEF Hosted, hostVars
  (* The thread that a step moves, from place to place.                    *)
  <1>7. ASSUME NEW r \in Requests, NEW place \in HostPlaces, Goto(r, place), UNCHANGED jobLock,
               at[r] \in Idle <=> place \in Idle,
               r \in Background => place \in WarmPlaces
        PROVE  at' \in [Requests -> HostPlaces] /\ Roles' /\ \A q \in Connections : Locked(q)'
    BY <1>7, Moved, StillLocked
  <1> USE DEF HostPlaces, Jobs, Retiring, ProcessPlaces, InSubmit, Over, Idle, WarmPlaces
  <1>8. ASSUME NEW r \in Connections, TakeFrame(r) \/ SendFails(r) PROVE TypeOK' /\ Roles'
    <2>1. UNCHANGED <<slotVars, runtimeVars, child, reads, hostVars>>
      BY <1>8 DEF TakeFrame, SendFails
    <2>2. at' \in [Requests -> HostPlaces] /\ Roles' /\ \A q \in Connections : Locked(q)'
      BY <1>3, <1>7, <1>8, <2>1 DEF TakeFrame, SendFails, hostVars
    <2> QED BY <1>1, <1>2, <1>5, <1>6, <2>1, <2>2 DEF TypeOK, ProcessTypeOK
  <1>9. ASSUME NEW r \in Requests, LockJob(r) PROVE TypeOK' /\ Roles'
    <2>1. r \in Connections
      BY <1>3, <1>9 DEF LockJob
    <2>2. at' \in [Requests -> HostPlaces] /\ Roles' /\ \A q \in Connections : Locked(q)'
      BY <1>3, <1>9, <2>1 DEF LockJob, Goto, TypeOK, Roles, Locked
    <2>3. Hosted'
      BY <1>4, <1>9, <2>1 DEF LockJob, Hosted
    <2> QED BY <1>1, <1>2, <1>5, <1>9, <2>2, <2>3 DEF LockJob, TypeOK, ProcessTypeOK
  <1>10. ASSUME NEW r \in Requests, UseEngine(r) PROVE TypeOK' /\ Roles'
    <2>1. UNCHANGED hostVars
      BY <1>10 DEF UseEngine
    <2>2. CASE ProcessStep(r)
      <3>1. ProcessTypeOK' /\ at' \in [Requests -> HostPlaces]
        BY <2>2, ProcessTyped DEF TypeOK
      <3>2. Roles' /\ \A q \in Connections : Locked(q)'
        BY <1>3, <1>7, <2>1, <2>2, ProcessMoves DEF hostVars
      <3> QED BY <1>5, <1>6, <2>1, <3>1, <3>2
    <2>3. CASE BindStream(r, "returned", "breaking") \/ (at[r] = "returned" /\ StreamEOF(r, "breaking"))
      <3>1. /\ at[r] = "returned" /\ (Goto(r, "returned") \/ Goto(r, "breaking"))
            /\ UNCHANGED <<slotVars, runtimeVars>>
        BY <2>3 DEF BindStream, Bind, StreamEOF
      <3>2. child' \in Requests \cup {NoRequest} /\ reads' \in [Requests -> Requests \cup {NoRequest}]
        BY <2>3 DEF BindStream, Bind, StreamEOF, TypeOK, ProcessTypeOK
      <3>3. r \notin Background
        BY <1>3, <3>1
      <3>4. at' \in [Requests -> HostPlaces] /\ Roles' /\ \A q \in Connections : Locked(q)'
        BY <1>7, <2>1, <3>1, <3>3 DEF hostVars
      <3> QED BY <1>1, <1>2, <1>5, <1>6, <2>1, <3>1, <3>2, <3>4 DEF TypeOK, ProcessTypeOK
    <2> QED BY <1>10, <2>2, <2>3 DEF UseEngine
  <1>11. ASSUME NEW r \in Requests, Forward(r) PROVE TypeOK' /\ Roles'
    <2>1. reads[r] \in Requests /\ r \notin Background
      BY <1>3, <1>11 DEF Forward, HasLine, TypeOK, ProcessTypeOK
    <2>2. pipe' \in [Requests -> Seq(Events)]
      BY <1>11, <2>1, Taken DEF Forward, TypeOK, ProcessTypeOK
    <2>3. at' \in [Requests -> HostPlaces] /\ Roles' /\ \A q \in Connections : Locked(q)'
      BY <1>7, <1>11, <2>1 DEF Forward, hostVars
    <2> QED BY <1>2, <1>5, <1>6, <1>11, <2>2, <2>3 DEF Forward, TypeOK, ProcessTypeOK, RuntimeTypeOK
  <1>12. ASSUME NEW r \in Requests, EndStream(r) \/ CloseEvents(r) PROVE TypeOK' /\ Roles'
    <2>1. SlotTypeOK' /\ r \notin Background /\ UNCHANGED <<runtimeVars, child, reads, hostVars>>
      BY <1>3, <1>12, SlotTyped DEF EndStream, CloseEvents, TypeOK, ProcessTypeOK
    <2>2. at' \in [Requests -> HostPlaces] /\ Roles' /\ \A q \in Connections : Locked(q)'
      BY <1>7, <1>12, <2>1 DEF EndStream, CloseEvents, hostVars
    <2> QED BY <1>1, <1>5, <1>6, <2>1, <2>2 DEF TypeOK, ProcessTypeOK
  <1>13. ASSUME NEW r \in Requests, Abandon(r) PROVE TypeOK' /\ Roles'
    <2>1. r \in Connections
      BY <1>3, <1>13 DEF Abandon
    <2>2. at' \in [Requests -> HostPlaces] /\ Roles' /\ \A q \in Connections : Locked(q)'
      BY <1>3, <1>7, <1>13, <2>1 DEF Abandon
    <2>3. Hosted'
      BY <1>4, <1>13, <2>1 DEF Abandon, Hosted
    <2> QED BY <1>2, <1>5, <1>13, <2>2, <2>3 DEF Abandon, TypeOK, ProcessTypeOK, RuntimeTypeOK
  <1>14. ASSUME NEW r \in Requests, Report(r) PROVE TypeOK' /\ Roles'
    <2>1. at' \in [Requests -> HostPlaces] /\ Roles' /\ \A q \in Connections : Locked(q)'
      BY <1>3, <1>7, <1>14 DEF Report, hostVars
    <2> QED BY <1>1, <1>2, <1>5, <1>6, <1>14, <2>1 DEF Report, TypeOK, ProcessTypeOK
  <1>15. ASSUME NEW r \in Requests, ReadProcess(r) \/ ForgetProcess(r) PROVE TypeOK' /\ Roles'
    <2>1. r \notin Background /\ UNCHANGED jobLock
      BY <1>3, <1>15 DEF ReadProcess, ForgetProcess, hostVars
    <2>2. at' \in [Requests -> HostPlaces] /\ Roles' /\ \A q \in Connections : Locked(q)'
      BY <1>7, <1>15, <2>1 DEF ReadProcess, ForgetProcess
    <2>3. Hosted'
      BY <1>4, <1>15 DEF ReadProcess, ForgetProcess, hostVars, Hosted, TypeOK, ProcessTypeOK
    <2> QED BY <1>1, <1>2, <1>5, <1>15, <2>2, <2>3
            DEF ReadProcess, ForgetProcess, TypeOK, ProcessTypeOK
  <1>16. ASSUME NEW r \in Requests, KillProcess(r) PROVE TypeOK' /\ Roles'
    <2>1. r \in Connections /\ UNCHANGED jobLock
      BY <1>3, <1>16 DEF KillProcess
    <2>2. at' \in [Requests -> HostPlaces] /\ Roles' /\ \A q \in Connections : Locked(q)'
      BY <1>3, <1>7, <1>16, <2>1 DEF KillProcess
    <2>3. Hosted'
      BY <1>4, <1>16, <2>1 DEF KillProcess, Hosted
    <2> QED BY <1>2, <1>5, <1>16, <2>2, <2>3 DEF KillProcess, TypeOK, ProcessTypeOK, RuntimeTypeOK
  <1>17. ASSUME NEW r \in Requests, Rewarm(r) PROVE TypeOK' /\ Roles'
    <2>1. r \in Connections /\ UNCHANGED <<jobLock, gone, asked, victim>>
      BY <1>3, <1>17 DEF Rewarm
    <2>2. CASE Goto(r, "closing") /\ UNCHANGED warm
      <3>1. at' \in [Requests -> HostPlaces] /\ Roles' /\ \A q \in Connections : Locked(q)'
        BY <1>3, <1>7, <1>17, <2>1, <2>2 DEF Rewarm
      <3>2. Hosted'
        BY <1>4, <2>1, <2>2 DEF Hosted
      <3> QED BY <1>1, <1>2, <1>5, <1>17, <3>1, <3>2 DEF Rewarm, TypeOK, ProcessTypeOK
    <2>3. ASSUME NEW w \in Unstarted, warm' = w, at' = [at EXCEPT ![r] = "closing", ![w] = "calling"]
          PROVE  TypeOK' /\ Roles'
      <3>1. w \in Background /\ w \in Requests /\ w # r
        BY <1>3, <2>1, <2>3 DEF Unstarted
      <3>2. /\ at' \in [Requests -> HostPlaces]
            /\ \A q \in Requests :
                 at'[q] = IF q = r THEN "closing" ELSE IF q = w THEN "calling" ELSE at[q]
        BY <2>3, <3>1 DEF TypeOK
      <3>3. Roles' /\ \A q \in Connections : Locked(q)'
        BY <1>3, <1>17, <2>1, <3>1, <3>2 DEF Rewarm, Roles, Locked
      <3>4. Hosted'
        BY <1>4, <2>1, <2>3, <3>1 DEF Hosted
      <3> QED BY <1>1, <1>2, <1>5, <1>17, <3>2, <3>3, <3>4 DEF Rewarm, TypeOK, ProcessTypeOK
    <2> QED BY <1>17, <2>2, <2>3 DEF Rewarm, StartWarm
  <1>18. ASSUME NEW r \in Requests, EndJobFrame(r) PROVE TypeOK' /\ Roles'
    <2>1. r \in Connections /\ jobLock = r /\ jobLock' = NoRequest
      BY <1>3, <1>18 DEF EndJobFrame, Locked
    <2>2. at' \in [Requests -> HostPlaces] /\ Roles'
      BY <1>3, <1>18, <2>1, Moved DEF EndJobFrame
    <2>3. \A q \in Connections : Locked(q)'
      BY <1>3, <1>18, <2>1 DEF EndJobFrame, Goto, Locked, TypeOK
    <2>4. Hosted'
      BY <1>4, <1>18, <2>1 DEF EndJobFrame, Hosted
    <2> QED BY <1>1, <1>2, <1>5, <1>18, <2>2, <2>3, <2>4 DEF EndJobFrame, TypeOK, ProcessTypeOK
  <1>19. ASSUME NEW r \in Connections, RetireFrame(r) PROVE TypeOK' /\ Roles'
    <2>1. at' \in [Requests -> HostPlaces] /\ Roles'
      BY <1>3, <1>19, Moved DEF RetireFrame
    <2>2. \A q \in Connections : Locked(q)'
      BY <1>3, <1>19 DEF RetireFrame, Goto, Locked, TypeOK
    <2>3. Hosted'
      BY <1>4, <1>19 DEF RetireFrame, Hosted
    <2> QED BY <1>1, <1>2, <1>5, <1>19, <2>1, <2>2, <2>3 DEF RetireFrame, TypeOK, ProcessTypeOK
  <1>20. ASSUME NEW c \in Requests, ChildStep(c), UNCHANGED hostVars PROVE TypeOK' /\ Roles'
    <2>1. ProcessTypeOK' /\ UNCHANGED at
      BY <1>20, ChildTyped DEF ChildStep, TypeOK
    <2> QED BY <1>5, <1>6, <1>20, <2>1 DEF hostVars, TypeOK, Roles, Locked
  <1>21. CASE UNCHANGED vars
    <2>1. UNCHANGED <<slotVars, runtimeVars, child, at, reads, hostVars>>
      BY <1>21 DEF vars, processVars
    <2> QED BY <1>1, <1>2, <1>5, <1>6, <2>1 DEF hostVars, TypeOK, ProcessTypeOK, Roles, Locked
  <1>22. ASSUME NEW r \in Connections, RequestCancel(r) PROVE TypeOK' /\ Roles'
    <2>1. UNCHANGED <<slotVars, child, at, reads, hostVars>>
      BY <1>22 DEF RequestCancel
    <2>2. RuntimeTypeOK'
      BY <1>3, <1>22 DEF RequestCancel, TypeOK, ProcessTypeOK, RuntimeTypeOK
    <2> QED BY <1>2, <1>5, <1>6, <2>1, <2>2 DEF hostVars, TypeOK, ProcessTypeOK, Roles, Locked
  <1> QED BY <1>8, <1>9, <1>10, <1>11, <1>12, <1>13, <1>14, <1>15, <1>16, <1>17, <1>18, <1>19,
             <1>20, <1>21, <1>22 DEF Next, HostStep, Quiet

(* The host's state keeps its types; in particular the job lock is held by *)
(* exactly the connection whose frame is being served.                     *)
THEOREM WorkerHostTyped == Spec => []TypeOK
  BY InitTyped, StepTyped, PTL DEF Spec
-----------------------------------------------------------------------------
(* Where a thread stands, and what it has by that.  Unlaunched: no child   *)
(* is named after it yet.  Owning: it owns the engine's slot.  A child     *)
(* that has not booted is the slot owner's own launch, and the stream or   *)
(* the stdin that a connection has at hand is the engine's child's: only   *)
(* the connection itself could make the engine forget it.                  *)
Unlaunched == {"new", "queued", "calling", "parked", "admitted", "spawning"}
Owning == InSubmit \cup {"startfailed", "unwinding", "severed", "returned", "finishing",
                         "breaking", "abandoning"}

Placed(r) ==
  /\ at[r] \in Owning => holder = r
  /\ at[r] \in Unlaunched => r \notin alive \cup booted \cup crashed
  /\ at[r] \in Unlaunched \cup {"flushed"} => reads[r] = NoRequest
  /\ at[r] = "starting" => {child, reads[r]} \subseteq {r, NoRequest}
  /\ at[r] \in {"writing", "returned"} => reads[r] \in {child, NoRequest}

Coherent ==
  /\ \A r \in Requests : Placed(r)
  /\ child \notin booted \cup {NoRequest} => at[child] \in {"starting", "startfailed"}
  /\ alive \cap crashed = {}

(* A connection in one of the first has written no request, and one whose  *)
(* request may be in the engine's child is in one of the others.           *)
Unsent == Unlaunched \cup {"starting", "ready", "writing"}
Engaged == {"flushed", "returned", "abandoning", "retiring", "terminating"}

OnlyOf(c, r) == Serving(c) \subseteq {r, NoRequest}

Accounted(r) ==
  /\ at[r] \in Unlaunched => OnlyOf(r, NoRequest)
  /\ at[r] \in Unsent => \A c \in Requests : r \notin Serving(c)
  /\ at[r] \in {"terminating", "forgetting"} /\ victim # NoRequest => OnlyOf(victim, r)

(* Whatever is in the engine's child is of a connection that listens to    *)
(* it, or that is about to terminate it.                                   *)
HandedOver ==
  child # NoRequest => \A q \in Serving(child) \ {NoRequest} : at[q] \in Engaged

Separate ==
  /\ \A r \in Requests : Accounted(r)
  /\ HandedOver
  /\ \A c \in Requests : Once(c) /\ Settled(c) /\ Told(c)

LEMMA InitCoherent == Init => Coherent /\ Separate
  <1> SUFFICES ASSUME Init PROVE Coherent /\ Separate
    OBVIOUS
  <1>1. /\ alive = {} /\ booted = {} /\ crashed = {} /\ child = NoRequest /\ victim = NoRequest
        /\ \A r \in Requests : reads[r] = NoRequest /\ at[r] \in {"new", "calling"}
    BY DEF Init, ProcessInit, RuntimeInit
  <1>2. \A c \in Requests : Serving(c) = {NoRequest} /\ Once(c) /\ Settled(c) /\ Told(c)
    <2>1. \A c \in Requests : Serving(c) = {NoRequest} /\ Once(c) /\ Settled(c)
      BY InitRuntime DEF Init, ProcessInit
    <2>2. ASSUME NEW c \in Requests PROVE job[c] = NoRequest /\ DOMAIN pipe[c] = {}
      <3>1. job[c] = NoRequest /\ pipe[c] = <<>>
        BY DEF Init, ProcessInit, RuntimeInit
      <3> QED BY <3>1
    <2>3. \A c \in Requests : Told(c)
      BY <2>2 DEF Told
    <2> QED BY <2>1, <2>3
  <1>3. Coherent
    BY <1>1 DEF Coherent, Placed, Owning, InSubmit
  <1>4. ASSUME NEW r \in Requests PROVE Accounted(r)
    BY <1>1, <1>2, <1>4 DEF Accounted, OnlyOf
  <1> QED BY <1>1, <1>2, <1>3, <1>4 DEF Separate, HandedOver

-----------------------------------------------------------------------------
(* The job lock's holder is the only connection with a frame in hand.      *)
LEMMA OneFrame ==
  ASSUME TypeOK, Roles, NEW r \in Requests,
         at[r] \in {"writing", "flushed", "severed", "brokenpipe", "returned", "finishing",
                    "breaking", "abandoning", "closing", "ending"} \cup Retiring
  PROVE  r \in Connections /\ jobLock = r
  <1>1. r \in Connections
    BY DEF Roles, WarmPlaces, Retiring, Connections
  <1> QED BY <1>1 DEF TypeOK, Retiring

LEMMA StepCoherent == TypeOK /\ Roles /\ Coherent /\ Separate /\ [Next]_vars => Coherent'
  <1> SUFFICES ASSUME TypeOK, Roles, Coherent, Separate, [Next]_vars PROVE Coherent'
    OBVIOUS
  <1>0. /\ at \in [Requests -> Jobs \cup {"queued", "answered"}]
        /\ reads \in [Requests -> Requests \cup {NoRequest}]
        /\ child \in Requests \cup {NoRequest} /\ alive \subseteq Requests
    BY DEF TypeOK, ProcessTypeOK, RuntimeTypeOK
  <1> USE <1>0 DEF Coherent, Placed, Unlaunched, Owning, InSubmit, Goto, slotVars, runtimeVars, hostVars
  <1>1. ASSUME NEW r \in Connections,
               TakeFrame(r) \/ SendFails(r) \/ RetireFrame(r) \/ RequestCancel(r)
        PROVE  Coherent'
    BY <1>1 DEF TakeFrame, SendFails, RetireFrame, RequestCancel, Connections
  <1>2. ASSUME NEW r \in Requests, LockJob(r) \/ Report(r) \/ Abandon(r) \/ ReadProcess(r)
        PROVE  Coherent'
    BY <1>2 DEF LockJob, Report, Abandon, ReadProcess
  <1>3. ASSUME NEW r \in Requests, ForgetProcess(r) PROVE Coherent'
    <2>1. \A q \in Requests : at[q] \notin {"writing", "returned"}
      BY <1>3, OneFrame DEF ForgetProcess, Retiring
    <2> QED BY <1>3, <2>1 DEF ForgetProcess
  <1>4. ASSUME NEW r \in Requests, KillProcess(r) PROVE Coherent'
    BY <1>4 DEF KillProcess
  <1>5. ASSUME NEW r \in Requests, EndStream(r) \/ CloseEvents(r) PROVE Coherent'
    <2>1. holder' = holder \/ holder = r
      BY <1>5 DEF EndStream, CloseEvents, Release, FreeSlot, ReleaseRefused
    <2> QED BY <1>5, <2>1 DEF EndStream, CloseEvents
  <1>6. ASSUME NEW r \in Requests, EndJobFrame(r) PROVE Coherent'
    BY <1>6 DEF EndJobFrame
  <1>7. ASSUME NEW r \in Requests, Rewarm(r) PROVE Coherent'
    BY <1>7 DEF Rewarm, StartWarm, Unstarted
  <1>8. ASSUME NEW r \in Requests, Forward(r) PROVE Coherent'
    BY <1>8 DEF Forward
  <1>9. ASSUME NEW r \in Requests, ProcessStep(r) PROVE Coherent'
    <2>1. CASE Acquire(r)
      <3>1. CASE Admit(r) /\ Goto(r, "admitted")
        BY <2>1, <3>1 DEF Acquire, Admit
      <3>2. CASE (Park(r) /\ Goto(r, "parked")) \/ (RaiseClosed(r) /\ Goto(r, "raised"))
        BY <2>1, <3>2 DEF Acquire, Park, RaiseClosed
      <3> QED BY <2>1, <3>1, <3>2 DEF Acquire
    <2>2. CASE CheckChild(r) \/ ReturnStream(r)
      BY <2>2 DEF CheckChild, ReturnStream
    <2>3. CASE Spawn(r)
      BY <2>3 DEF Spawn
    <2>4. CASE BindStarting(r) \/ TakeStdin(r)
      BY <2>4 DEF BindStarting, Bind, TakeStdin
    <2>5. CASE ReadStarting(r)
      <3>1. NextLine(r).kind = "ready" => reads[r] \in booted
        BY <2>5, Taken DEF ReadStarting, HasLine, Separate, Told, TypeOK, ProcessTypeOK
      <3> QED BY <2>5, <3>1 DEF ReadStarting, HasLine
    <2>6. CASE StartingEnds(r) \/ StartFailed(r)
      BY <2>6 DEF StartingEnds, StartFailed, Kill
    <2>7. CASE WriteRequest(r)
      BY <2>7 DEF WriteRequest
    <2>8. CASE Unwind(r)
      BY <2>8 DEF Unwind, Release, FreeSlot, ReleaseRefused
    <2> QED BY <1>9, <2>1, <2>2, <2>3, <2>4, <2>5, <2>6, <2>7, <2>8 DEF ProcessStep
  <1>10. ASSUME NEW r \in Requests, UseEngine(r) PROVE Coherent'
    <2>1. CASE BindStream(r, "returned", "breaking") \/ (at[r] = "returned" /\ StreamEOF(r, "breaking"))
      BY <2>1 DEF BindStream, Bind, StreamEOF
    <2> QED BY <1>9, <1>10, <2>1 DEF UseEngine
  <1>11. ASSUME NEW c \in Requests, ChildStep(c) PROVE Coherent'
    <2>1. /\ c \in alive /\ alive' \subseteq alive /\ alive' \cap crashed' = {}
          /\ booted \subseteq booted' /\ booted' \cup crashed' \subseteq booted \cup crashed \cup {c}
      BY <1>11 DEF ChildStep, RuntimeStep, Boot, BootFails, TakeRequest, Initialize, EndJob, CleanUp,
                   Crash
    <2> QED BY <1>11, <2>1 DEF ChildStep
  <1>12. CASE UNCHANGED vars
    BY <1>12 DEF vars, processVars
  <1> QED BY <1>1, <1>2, <1>3, <1>4, <1>5, <1>6, <1>7, <1>8, <1>10, <1>11, <1>12
          DEF Next, HostStep, Quiet

-----------------------------------------------------------------------------
(* A thread goes on with what it had: it does not come back to where it    *)
(* had written nothing, what it terminates is its own, and it turns from   *)
(* the engine's child only when that has nothing of it, or when the engine *)
(* has forgotten it.                                                       *)
Onward(r) ==
  /\ at'[r] \in Unlaunched => at[r] \in Unlaunched
  /\ at'[r] \in Unsent => at[r] \in Unsent
  /\ at'[r] \in {"terminating", "forgetting"}
     => \/ victim' = NoRequest
        \/ victim' = victim /\ at[r] \in {"terminating", "forgetting"}
        \/ \E c \in Requests : victim' = c /\ OnlyOf(c, r)
  /\ at[r] \in Engaged
     => \/ at'[r] \in Engaged \/ child' = NoRequest
        \/ \E c \in Requests : child' = c /\ r \notin Serving(c)'

LEMMA OnwardSeparate ==
  ASSUME TypeOK, Separate,
         \A c \in Requests :
           /\ Serving(c)' \subseteq Serving(c) \cup {NoRequest}
           /\ Once(c)' /\ Settled(c)' /\ Told(c)',
         \A r \in Requests : Onward(r),
         \/ child' \in {child, NoRequest}
         \/ \E c \in Requests : child' = c /\ OnlyOf(c, NoRequest)
  PROVE  Separate'
  <1>3. victim \in Requests \cup {NoRequest} /\ child \in Requests \cup {NoRequest}
    BY DEF TypeOK, ProcessTypeOK
  <1>4. ASSUME NEW r \in Requests PROVE Accounted(r)'
    <2>1. Accounted(r) /\ Onward(r)
      BY DEF Separate
    <2>2. at'[r] \in Unlaunched => OnlyOf(r, NoRequest)'
      BY <2>1 DEF Accounted, Onward, OnlyOf
    <2>3. at'[r] \in Unsent => \A c \in Requests : r \notin Serving(c)'
      BY <2>1 DEF Accounted, Onward
    <2>4. ASSUME at'[r] \in {"terminating", "forgetting"}, victim' # NoRequest
          PROVE  OnlyOf(victim, r)'
      <3>1. PICK c \in Requests : victim' = c /\ OnlyOf(c, r)
        BY <1>3, <2>1, <2>4 DEF Accounted, Onward
      <3>2. OnlyOf(c, r)'
        BY <3>1 DEF OnlyOf
      <3> QED BY <3>1, <3>2 DEF OnlyOf, Serving
    <2> QED BY <2>2, <2>3, <2>4 DEF Accounted
  <1>5. HandedOver'
    <2> SUFFICES ASSUME NEW c \in Requests, child' = c, NEW q \in Serving(c)' \ {NoRequest}
                 PROVE  at'[q] \in Engaged
      BY <1>3 DEF HandedOver, Serving
    <2>1. CASE OnlyOf(c, NoRequest)
      BY <2>1 DEF OnlyOf
    <2>2. CASE child = c
      <3>1. at[q] \in Engaged /\ q \in Requests
        BY <2>2, ServesTyped DEF Separate, HandedOver, TypeOK, ProcessTypeOK
      <3>2. child' # NoRequest
        BY NoRequestAssumption
      <3> QED BY <3>1, <3>2 DEF Onward
    <2> QED BY <2>1, <2>2
  <1> QED BY <1>4, <1>5 DEF Separate

(* A step of threads that leaves the children to their work.               *)
LEMMA CalmSeparate ==
  ASSUME TypeOK, Separate, UNCHANGED <<inbox, job, pipe, booted, crashed>>,
         \A r \in Requests : Onward(r),
         \/ child' \in {child, NoRequest}
         \/ \E c \in Requests : child' = c /\ OnlyOf(c, NoRequest)
  PROVE  Separate'
  <1>1. ASSUME NEW c \in Requests PROVE Serving(c)' = Serving(c) /\ Once(c)' /\ Settled(c)' /\ Told(c)'
    BY DEF Separate, Serving, Once, Settled, Told, EndsAll, LastOf
  <1> QED BY <1>1, OnwardSeparate

(* The host's own steps.                                                   *)
LEMMA HostSeparate ==
  ASSUME TypeOK, Roles, Coherent, Separate, NEW r \in Requests,
         \/ TakeFrame(r) \/ SendFails(r) \/ RetireFrame(r) \/ RequestCancel(r)
         \/ LockJob(r) \/ EndStream(r)
         \/ Abandon(r) \/ Report(r) \/ ReadProcess(r) \/ ForgetProcess(r) \/ KillProcess(r)
         \/ Rewarm(r) \/ CloseEvents(r) \/ EndJobFrame(r)
  PROVE  Separate'
  <1>0. /\ at \in [Requests -> Jobs \cup {"queued", "answered"}]
        /\ victim \in Requests \cup {NoRequest} /\ child \in Requests \cup {NoRequest}
    BY DEF TypeOK, ProcessTypeOK
  <1>1. UNCHANGED <<inbox, job, pipe, booted, crashed>> /\ child' \in {child, NoRequest}
    BY DEF TakeFrame, SendFails, RetireFrame, RequestCancel, LockJob, EndStream, Abandon, Report,
           ReadProcess, ForgetProcess, KillProcess, Rewarm, CloseEvents, EndJobFrame, runtimeVars
  <1> USE <1>0 DEF Onward, Unlaunched, Unsent, Engaged, Goto
  <1>2. CASE TakeFrame(r) \/ SendFails(r) \/ RetireFrame(r) \/ RequestCancel(r) \/ LockJob(r)
    <2>1. \A q \in Requests : Onward(q)
      BY <1>2 DEF TakeFrame, SendFails, RetireFrame, RequestCancel, LockJob, hostVars
    <2> QED BY <1>1, <2>1, CalmSeparate
  <1>3. CASE EndStream(r) \/ Abandon(r) \/ Report(r)
    <2>1. \A q \in Requests : Onward(q)
      BY <1>3 DEF EndStream, Abandon, Report, hostVars
    <2> QED BY <1>1, <2>1, CalmSeparate
  <1>4. CASE ReadProcess(r)
    <2>1. \A q \in Requests \ {r} : at[q] \notin {"terminating", "forgetting"}
      BY <1>4, OneFrame DEF ReadProcess, Retiring
    <2>2. child # NoRequest => OnlyOf(child, r)
      <3>1. ASSUME child # NoRequest, NEW q \in Serving(child), q # NoRequest PROVE q = r
        <4>1. q \in Requests /\ at[q] \in Engaged
          BY <3>1, ServesTyped DEF Separate, HandedOver, TypeOK, ProcessTypeOK
        <4> QED BY <1>4, <4>1, OneFrame DEF ReadProcess, Retiring
      <3> QED BY <3>1 DEF OnlyOf
    <2>3. \A q \in Requests : Onward(q)
      BY <1>4, <2>1, <2>2 DEF ReadProcess
    <2> QED BY <1>1, <2>3, CalmSeparate
  <1>5. CASE ForgetProcess(r) \/ KillProcess(r)
    <2>1. \A q \in Requests : Onward(q)
      BY <1>5 DEF ForgetProcess, KillProcess, hostVars
    <2> QED BY <1>1, <2>1, CalmSeparate
  <1>6. CASE Rewarm(r) \/ CloseEvents(r) \/ EndJobFrame(r)
    <2>1. \A q \in Requests : Onward(q)
      BY <1>6 DEF Rewarm, StartWarm, Unstarted, CloseEvents, EndJobFrame, hostVars
    <2> QED BY <1>1, <2>1, CalmSeparate
  <1> QED BY <1>2, <1>3, <1>4, <1>5, <1>6

(* submit(), ensure_started() and the stream, but for reads and writes.    *)
LEMMA EngineSeparate ==
  ASSUME TypeOK, Roles, Coherent, Separate, NEW r \in Requests, UNCHANGED hostVars,
         \/ Acquire(r) \/ CheckChild(r) \/ Spawn(r) \/ BindStarting(r) \/ StartingEnds(r)
         \/ StartFailed(r) \/ TakeStdin(r) \/ ReturnStream(r) \/ Unwind(r)
         \/ BindStream(r, "returned", "breaking")
         \/ at[r] = "returned" /\ StreamEOF(r, "breaking")
  PROVE  Separate'
  <1>0. /\ at \in [Requests -> Jobs \cup {"queued", "answered"}]
        /\ victim \in Requests \cup {NoRequest} /\ child \in Requests \cup {NoRequest}
    BY DEF TypeOK, ProcessTypeOK
  <1>1. UNCHANGED <<inbox, job, pipe, booted, crashed, victim>>
    BY DEF Acquire, CheckChild, Spawn, BindStarting, StartingEnds, StartFailed, TakeStdin,
           ReturnStream, Unwind, BindStream, StreamEOF, runtimeVars, hostVars
  <1> USE <1>0, <1>1 DEF Onward, Unlaunched, Unsent, Engaged, Goto
  <1>2. CASE Acquire(r) \/ CheckChild(r) \/ ReturnStream(r) \/ Unwind(r)
    <2>1. (\A q \in Requests : Onward(q)) /\ child' = child
      BY <1>2 DEF Acquire, CheckChild, ReturnStream, Unwind
    <2> QED BY <2>1, CalmSeparate
  <1>3. CASE Spawn(r)
    <2>1. OnlyOf(r, NoRequest)
      BY <1>3 DEF Spawn, Separate, Accounted
    <2>2. \A q \in Requests : Onward(q)
      BY <1>3, <2>1 DEF Spawn
    <2>3. child' = child \/ child' = r
      BY <1>3 DEF Spawn
    <2> QED BY <2>1, <2>2, <2>3, CalmSeparate
  <1>4. CASE BindStarting(r) \/ TakeStdin(r)
    <2>1. (\A q \in Requests : Onward(q)) /\ child' = child
      BY <1>4 DEF BindStarting, Bind, TakeStdin
    <2> QED BY <2>1, CalmSeparate
  <1>5. CASE StartingEnds(r) \/ StartFailed(r)
    <2>1. (\A q \in Requests : Onward(q)) /\ child' = NoRequest
      BY <1>5 DEF StartingEnds, StartFailed, Kill
    <2> QED BY <2>1, CalmSeparate
  <1>6. CASE BindStream(r, "returned", "breaking") \/ (at[r] = "returned" /\ StreamEOF(r, "breaking"))
    <2>1. (\A q \in Requests : Onward(q)) /\ child' \in {child, NoRequest}
      BY <1>6 DEF BindStream, Bind, StreamEOF
    <2> QED BY <2>1, CalmSeparate
  <1> QED BY <1>2, <1>3, <1>4, <1>5, <1>6

(* A child works.                                                          *)
LEMMA WorkSeparate ==
  ASSUME ~Relapses, TypeOK, Coherent, Separate, NEW c \in Requests, ChildStep(c), UNCHANGED hostVars
  PROVE  Separate'
  <1>1. /\ Works(c) /\ RuntimeTypeOK /\ UNCHANGED <<at, child, victim>>
        /\ child \in Requests \cup {NoRequest}
    BY DEF ChildStep, Works, hostVars, TypeOK, ProcessTypeOK
  <1>2. ASSUME NEW d \in Requests
        PROVE  /\ Serving(d)' \subseteq Serving(d) \cup {NoRequest}
               /\ Once(d)' /\ Settled(d)' /\ Told(d)'
    <2>1. Once(d) /\ Settled(d) /\ Told(d) /\ Told(c) /\ c \notin alive \cap crashed
      BY DEF Separate, Coherent
    <2> QED BY <1>1, <2>1, WorkServes, WorkSettles, WorkTells
  <1>3. \A r \in Requests : Onward(r)
    BY <1>1 DEF Onward
  <1> QED BY <1>1, <1>2, <1>3, OnwardSeparate

(* A line is read.  One that ends a job is the last that the child has of  *)
(* the connection that reads it, for the child has booted.                 *)
LEMMA ReadSeparate ==
  ASSUME TypeOK, Roles, Coherent, Separate, NEW r \in Requests, ReadStarting(r) \/ Forward(r),
         UNCHANGED hostVars
  PROVE  Separate'
  <1> PICK c \in Requests : reads[r] = c
    BY DEF ReadStarting, Forward, HasLine, TypeOK, ProcessTypeOK
  <1>1. /\ HasLine(r) /\ Read(r) /\ RuntimeTypeOK
        /\ UNCHANGED <<inbox, job, booted, crashed, child, victim>>
        /\ at \in [Requests -> Jobs \cup {"queued", "answered"}]
    BY DEF ReadStarting, Forward, hostVars, TypeOK, ProcessTypeOK
  <1>2. ASSUME NEW d \in Requests
        PROVE  /\ Serving(d)' \subseteq Serving(d) \cup {NoRequest}
               /\ Once(d)' /\ Settled(d)' /\ Told(d)'
    <2>1. Once(d) /\ Settled(d) /\ Told(d)
      BY DEF Separate
    <2> QED BY <1>1, <2>1, ReadServes, ReadSettles, ReadTells
  <1> USE DEF Onward, Unlaunched, Unsent, Engaged, Goto
  <1>3. CASE ReadStarting(r)
    <2>1. \A q \in Requests : Onward(q)
      BY <1>1, <1>3 DEF ReadStarting
    <2> QED BY <1>1, <1>2, <2>1, OnwardSeparate
  <1>4. CASE Forward(r)
    <2>1. at[r] = "returned" /\ jobLock = r
      BY <1>4, OneFrame DEF Forward
    <2>2. child = c /\ holder = r
      BY <2>1 DEF Coherent, Placed, Owning
    <2>3. c \in booted
      <3>1. c \notin booted => at[c] \in {"starting", "startfailed"} /\ holder = c
        BY <2>2 DEF Coherent, Placed, Owning, InSubmit
      <3> QED BY <2>1, <2>2, <3>1
    <2>4. ASSUME NextLine(r).kind \in Terminal PROVE r \notin Serving(c)'
      <3>1. NextLine(r).of # NoRequest /\ NextLine(r).of \notin Serving(c)'
        BY <1>1, <2>3, <2>4, ReadsEnd DEF Separate
      <3>2. NextLine(r).of \in Serving(c)
        BY <1>1, Taken DEF Serving
      <3>3. NextLine(r).of \in Requests /\ at[NextLine(r).of] \in Engaged
        BY <1>1, <2>2, <3>1, <3>2, ServesTyped DEF Separate, HandedOver
      <3>4. NextLine(r).of = r
        BY <2>1, <3>3, OneFrame DEF Retiring
      <3> QED BY <3>1, <3>4 DEF NextLine
    <2>5. \A q \in Requests : Onward(q)
      BY <1>1, <1>4, <2>1, <2>2, <2>4 DEF Forward
    <2> QED BY <1>1, <1>2, <2>5, OnwardSeparate
  <1> QED BY <1>3, <1>4

(* A request is written: to a child that runs, which is not one that       *)
(* somebody has yet to launch, by the connection that has the job lock.    *)
LEMMA WriteSeparate ==
  ASSUME TypeOK, Roles, Coherent, Separate, NEW r \in Requests, WriteRequest(r), UNCHANGED hostVars
  PROVE  Separate'
  <1>0. /\ at \in [Requests -> Jobs \cup {"queued", "answered"}]
        /\ RuntimeTypeOK /\ alive \subseteq Requests
        /\ reads[r] \in Requests \cup {NoRequest} /\ child \in Requests \cup {NoRequest}
    BY DEF TypeOK, ProcessTypeOK, RuntimeTypeOK
  <1>1. at[r] = "writing" /\ UNCHANGED <<child, victim, jobLock>> /\ jobLock = r
    BY OneFrame DEF WriteRequest, hostVars
  <1>2. CASE reads[r] \notin alive
    <2>1. UNCHANGED <<inbox, job, pipe, booted, crashed>> /\ at' = [at EXCEPT ![r] = "severed"]
      BY <1>2 DEF WriteRequest, Goto
    <2>2. \A q \in Requests : Onward(q)
      BY <1>0, <1>1, <2>1 DEF Onward, Unlaunched, Unsent, Engaged
    <2> QED BY <1>1, <2>1, <2>2, CalmSeparate
  <1>3. CASE reads[r] \in alive
    <2> PICK c \in Requests : reads[r] = c
      BY <1>0, <1>3
    <2>1. /\ inbox' = [inbox EXCEPT ![c] = Append(@, r)]
          /\ UNCHANGED <<job, pipe, booted, crashed>> /\ at' = [at EXCEPT ![r] = "flushed"]
      BY <1>0, <1>3 DEF WriteRequest, Goto
    <2>2. r \notin Serving(c)
      BY <1>1 DEF Separate, Accounted, Unsent
    <2>3. ASSUME NEW d \in Requests
          PROVE  /\ d # c => Serving(d)' = Serving(d)
                 /\ Serving(d)' \subseteq Serving(d) \cup {r}
      <3>1. inbox' = [inbox EXCEPT ![c] = Append(@, r)] /\ UNCHANGED <<job, pipe>>
        BY <2>1
      <3>2. RuntimeTypeOK
        BY <1>0
      <3> QED BY ONLY <3>1, <3>2, WriteServes
    <2>4. ASSUME NEW d \in Requests PROVE Once(d)' /\ Settled(d)' /\ Told(d)'
      <3>1. Once(d) /\ Settled(d) /\ Told(d)
        BY DEF Separate
      <3> QED BY <1>0, <2>1, <2>2, <3>1, WriteSettles, WriteTells
    <2>5. ASSUME NEW q \in Requests PROVE Accounted(q)'
      <3>1. CASE q = r
        BY <1>0, <2>1, <3>1 DEF Accounted, Unlaunched, Unsent
      <3>2. CASE q # r
        <4>1. at'[q] = at[q] /\ victim' = victim /\ Accounted(q)
          BY <1>0, <1>1, <2>1, <3>2 DEF Separate
        <4>2. at[q] \in Unlaunched => q # c
          BY <1>3 DEF Coherent, Placed
        <4>3. at[q] \in Unlaunched => OnlyOf(q, NoRequest)'
          BY <2>3, <4>1, <4>2 DEF Accounted, OnlyOf
        <4>4. at[q] \in Unsent => \A d \in Requests : q \notin Serving(d)'
          BY <2>3, <3>2, <4>1 DEF Accounted
        <4>5. at[q] \notin {"terminating", "forgetting"}
          BY <1>1, <3>2, OneFrame DEF Retiring
        <4> QED BY <4>1, <4>3, <4>4, <4>5 DEF Accounted
      <3> QED BY <3>1, <3>2
    <2>6. HandedOver'
      <3> SUFFICES ASSUME child # NoRequest, NEW q \in Serving(child)' \ {NoRequest}
                   PROVE  at'[q] \in Engaged
        BY <1>1 DEF HandedOver
      <3>1. CASE q = r
        BY <1>0, <2>1, <3>1 DEF Engaged
      <3>2. CASE q # r
        <4>1. q \in Serving(child)
          BY <1>0, <1>1, <2>3, <3>2
        <4> QED BY <1>0, <2>1, <3>2, <4>1, ServesTyped DEF Separate, HandedOver
      <3> QED BY <3>1, <3>2
    <2> QED BY <2>4, <2>5, <2>6 DEF Separate
  <1> QED BY <1>2, <1>3

LEMMA StepSeparate ==
  ASSUME ~Relapses
  PROVE  TypeOK /\ Roles /\ Coherent /\ Separate /\ [Next]_vars => Separate'
  <1> SUFFICES ASSUME TypeOK, Roles, Coherent, Separate, [Next]_vars PROVE Separate'
    OBVIOUS
  <1>1. ASSUME NEW r \in Requests, UseEngine(r) \/ Forward(r) PROVE Separate'
    BY <1>1, EngineSeparate, ReadSeparate, WriteSeparate DEF UseEngine, ProcessStep, Forward
  <1>2. ASSUME NEW r \in Requests, HostStep(r) PROVE Separate'
    BY <1>1, <1>2, HostSeparate DEF HostStep
  <1>3. ASSUME NEW r \in Connections,
               TakeFrame(r) \/ RetireFrame(r) \/ SendFails(r) \/ RequestCancel(r)
        PROVE  Separate'
    BY <1>3, HostSeparate DEF Connections
  <1>4. ASSUME NEW c \in Requests, ChildStep(c), UNCHANGED hostVars PROVE Separate'
    BY <1>4, WorkSeparate
  <1>5. CASE UNCHANGED vars
    <2>1. UNCHANGED <<inbox, job, pipe, booted, crashed, at, child, victim>>
      BY <1>5 DEF vars, processVars, runtimeVars, hostVars
    <2>2. \A r \in Requests : Onward(r)
      BY <2>1 DEF Onward
    <2> QED BY <2>1, <2>2, CalmSeparate
  <1> QED BY <1>2, <1>3, <1>4, <1>5 DEF Next, Quiet

LEMMA Invariance ==
  ASSUME ~Relapses
  PROVE  Spec => [](TypeOK /\ Roles /\ Coherent /\ Separate)
  <1>1. Init => TypeOK /\ Roles /\ Coherent /\ Separate
    BY InitTyped, InitCoherent
  <1>2. TypeOK /\ Roles /\ Coherent /\ Separate /\ [Next]_vars
        => (TypeOK /\ Roles /\ Coherent /\ Separate)'
    BY StepTyped, StepCoherent, StepSeparate
  <1> QED BY <1>1, <1>2, PTL DEF Spec

-----------------------------------------------------------------------------
(* Where no clean-up raises behind a "cancelled" line, what a connection   *)
(* forwards to its client is its own solve's: the child it reads is the    *)
(* engine's, and that has nothing of anybody else, however the connections *)
(* before it ended and whatever a warm-up was doing.                       *)
THEOREM ClientsGetTheirOwnEvents ==
  ASSUME ~Relapses
  PROVE  Spec => []EventsBelongToReader
  <1>1. TypeOK /\ Roles /\ Coherent /\ Separate => EventsBelongToReader
    <2> SUFFICES ASSUME TypeOK, Roles, Coherent, Separate,
                        NEW r \in Connections, at[r] = "returned", reads[r] # NoRequest,
                        NEW i \in DOMAIN pipe[reads[r]], pipe[reads[r]][i].of # NoRequest
                 PROVE  pipe[reads[r]][i].of = r
      BY DEF EventsBelongToReader
    <2>1. r \in Requests /\ child = reads[r] /\ child \in Requests
      BY DEF Connections, Coherent, Placed, TypeOK, ProcessTypeOK
    <2> DEFINE q == pipe[reads[r]][i].of
    <2>2. q \in Serving(child)
      BY <2>1 DEF Serving
    <2>3. q \in Requests /\ at[q] \in Engaged
      BY <2>1, <2>2, ServesTyped DEF Separate, HandedOver, TypeOK, ProcessTypeOK
    <2>4. jobLock = q /\ jobLock = r
      BY <2>1, <2>3, OneFrame DEF Engaged, Retiring
    <2> QED BY <2>4
  <1> QED BY <1>1, Invariance, PTL

(* Where no clean-up raises behind a "cancelled" line, a child that is     *)
(* stopped has nothing in it but the work of the connection that stops it, *)
(* also when a warm-up that nobody asked owns the slot, and also when the  *)
(* start-up of a warm-up has failed.                                       *)
THEOREM RetirementsHarmNobodyElse ==
  ASSUME ~Relapses
  PROVE  Spec => RetireSparesOthers
  <1>1. TypeOK /\ Roles /\ Coherent /\ Separate /\ [Next]_vars
        => [\A c \in alive \ alive' :
              Serving(c) \subseteq {jobLock, NoRequest} \/ c \in crashed']_vars
    <2> SUFFICES ASSUME TypeOK, Roles, Coherent, Separate, Next, NEW c \in alive \ alive',
                        c \notin crashed'
                 PROVE  Serving(c) \subseteq {jobLock, NoRequest}
      BY DEF vars, processVars, runtimeVars
    <2>0. c \in Requests /\ c # NoRequest
      BY DEF TypeOK, ProcessTypeOK, RuntimeTypeOK
    <2>1. ASSUME NEW d \in Requests, ChildStep(d) PROVE FALSE
      BY <2>1, WorkTyped DEF ChildStep, Works, TypeOK, ProcessTypeOK
    <2>2. PICK r \in Requests : StartFailed(r) \/ KillProcess(r)
      BY <2>1 DEF Next, Quiet, HostStep, UseEngine, ProcessStep, TakeFrame, RetireFrame, SendFails,
                  RequestCancel, LockJob, Forward, EndStream, Abandon, Report, ReadProcess, ForgetProcess, Rewarm,
                  CloseEvents, EndJobFrame, Acquire, CheckChild, Spawn, BindStarting, ReadStarting,
                  StartingEnds, TakeStdin, WriteRequest, ReturnStream, Unwind, BindStream,
                  StreamEOF, vars, processVars, runtimeVars
    <2>3. CASE StartFailed(r)
      <3>1. c = child
        BY <2>3 DEF StartFailed, Kill
      <3>2. ASSUME NEW q \in Serving(c), q # NoRequest PROVE q = jobLock
        <4>1. q \in Requests /\ at[q] \in Engaged
          BY <2>0, <3>1, <3>2, ServesTyped DEF Separate, HandedOver, TypeOK, ProcessTypeOK
        <4> QED BY <4>1, OneFrame DEF Engaged, Retiring
      <3> QED BY <3>2
    <2>4. CASE KillProcess(r)
      <3>1. c = victim /\ at[r] = "forgetting"
        BY <2>4 DEF KillProcess
      <3>2. jobLock = r
        BY <3>1, OneFrame DEF Retiring
      <3> QED BY <2>0, <3>1, <3>2 DEF Separate, Accounted, OnlyOf
    <2> QED BY <2>2, <2>3, <2>4
  <1> QED BY <1>1, Invariance, PTL DEF Spec, RetireSparesOthers
=============================================================================
