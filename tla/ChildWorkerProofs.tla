------------------------- MODULE ChildWorkerProofs --------------------------
(***************************************************************************)
(* What holds of one cached worker for every set of sessions.  The slot    *)
(* keeps the sessions apart only as long as each of them is where its      *)
(* place says: the first invariant ties the places to the slot, to the     *)
(* child and to the stream a session has at hand.  The second ties them to *)
(* the work that is inside the children.                                   *)
(***************************************************************************)
EXTENDS ChildWorker, WorkerProcessProofs

USE NoRequestAssumption, RuntimeAssumption, ProcessAssumption, WorkerAssumption

-----------------------------------------------------------------------------
(* Types.                                                                  *)
LEMMA InitTyped == Init => Types
  BY InitProcess DEF Init, Types, Places, ProcessPlaces

LEMMA Moved ==
  ASSUME Types, NEW r \in Requests, NEW place \in Places, Goto(r, place)
  PROVE  at' \in [Requests -> Places]
  BY DEF Types, Goto

LEMMA StepTyped == Types /\ [Next]_vars => Types'
  <1> SUFFICES ASSUME Types, [Next]_vars PROVE Types'
    OBVIOUS
  <1>1. UNCHANGED runtimeVars => RuntimeTypeOK'
    BY DEF Types, ProcessTypeOK, RuntimeTypeOK, runtimeVars
  <1>2. UNCHANGED slotVars => SlotTypeOK'
    BY ClosingTyped DEF Types, ProcessTypeOK
  <1>3. ASSUME NEW r \in Requests, Open(r) PROVE Types'
    <2>1. at' \in [Requests -> Places]
      BY <1>3, Moved DEF Open, Places, ProcessPlaces
    <2> QED BY <1>1, <1>2, <1>3, <2>1 DEF Open, Keep, sessionVars, stopVars, Types, ProcessTypeOK
  <1>4. ASSUME NEW r \in Requests, Submit(r) PROVE Types'
    <2>1. ProcessTypeOK' /\ at' \in [Requests -> Places]
      BY <1>4, ProcessTyped DEF Submit, Types, Places
    <2> QED BY <1>4, <2>1 DEF Submit, Keep, sessionVars, stopVars, Types
  <1>5. ASSUME NEW r \in Requests, StoreSubmission(r) \/ StoreStream(r) \/ SetSubmitted(r)
        PROVE  Types'
    <2>1. at' \in [Requests -> Places]
      BY <1>5, Moved DEF StoreSubmission, StoreStream, SetSubmitted, Places, InSession
    <2> QED BY <1>1, <1>2, <1>5, <2>1
            DEF StoreSubmission, StoreStream, SetSubmitted, stopVars, Types, ProcessTypeOK
  <1>6. ASSUME NEW r \in Requests, Listen(r) PROVE Types'
    <2>1. at' \in [Requests -> Places]
      BY <1>6, Moved DEF Listen, BindStream, Bind, StreamEOF, Places, InSession
    <2>2. child' \in Requests \cup {NoRequest} /\ reads' \in [Requests -> Requests \cup {NoRequest}]
      BY <1>6 DEF Listen, BindStream, Bind, StreamEOF, Types, ProcessTypeOK
    <2>3. UNCHANGED <<slotVars, runtimeVars, sessionVars, stopVars>>
      BY <1>6 DEF Listen, BindStream, StreamEOF, Keep
    <2> QED BY <1>1, <1>2, <2>1, <2>2, <2>3 DEF sessionVars, stopVars, Types, ProcessTypeOK
  <1>7. ASSUME NEW r \in Requests, NEW ended \in BOOLEAN, NEW failed \in BOOLEAN,
               BeginClose(r, ended, failed)
        PROVE  /\ at' \in [Requests -> Places] /\ cancelFiles' \in SUBSET Requests
               /\ claimed' \cup opened' \cup submitted' \cup finished' \cup condemning' \subseteq Requests
    <2>1. at' \in [Requests -> Places]
      BY <1>7, Moved DEF BeginClose, Places
    <2> QED BY <1>7, <2>1 DEF BeginClose, Types, ProcessTypeOK, RuntimeTypeOK
  <1>8. ASSUME NEW r \in Requests, ReadEvent(r) PROVE Types'
    <2>1. reads[r] \in Requests
      BY <1>8 DEF ReadEvent, HasLine, Types, ProcessTypeOK
    <2>2. pipe' \in [Requests -> Seq(Events)]
      BY <1>8, <2>1, Taken DEF ReadEvent, Types, ProcessTypeOK
    <2>3. /\ at' \in [Requests -> Places] /\ cancelFiles' \in SUBSET Requests
          /\ claimed' \cup opened' \cup submitted' \cup finished' \cup condemning' \subseteq Requests
      <3>1. CASE NextLine(r).kind \in Terminal
        BY <1>7, <1>8, <3>1 DEF ReadEvent
      <3>2. CASE NextLine(r).kind \notin Terminal
        <4>1. at' \in [Requests -> Places]
          BY <1>8, <3>2, Moved DEF ReadEvent, Places, InSession
        <4> QED BY <1>8, <3>2, <4>1 DEF ReadEvent, Keep, sessionVars, Types, ProcessTypeOK, RuntimeTypeOK
      <3> QED BY <3>1, <3>2
    <2> QED BY <1>2, <1>8, <2>2, <2>3 DEF ReadEvent, stopVars, Types, ProcessTypeOK, RuntimeTypeOK
  <1>9. ASSUME NEW r \in Requests, EndStream(r) PROVE Types'
    <2>1. /\ at' \in [Requests -> Places] /\ cancelFiles' \in SUBSET Requests
          /\ claimed' \cup opened' \cup submitted' \cup finished' \cup condemning' \subseteq Requests
      BY <1>7, <1>9 DEF EndStream
    <2>2. SlotTypeOK'
      BY <1>9, SlotTyped DEF EndStream, Types, ProcessTypeOK
    <2> QED BY <1>9, <2>1, <2>2 DEF EndStream, stopVars, Types, ProcessTypeOK, RuntimeTypeOK
  <1>10. ASSUME NEW r \in Requests, RequestCancel(r) PROVE Types'
    BY <1>2, <1>10 DEF RequestCancel, Keep, sessionVars, stopVars, Types, ProcessTypeOK, RuntimeTypeOK
  <1>11. ASSUME NEW r \in Requests, Retire(r) \/ KeepWorker(r) PROVE Types'
    <2>1. at' \in [Requests -> Places]
      BY <1>11, Moved DEF Retire, KeepWorker, Places
    <2>2. SlotTypeOK'
      BY <1>11, SlotTyped DEF Retire, KeepWorker, Types, ProcessTypeOK
    <2> QED BY <1>1, <1>11, <2>1, <2>2
            DEF Retire, KeepWorker, Keep, sessionVars, stopVars, Types, ProcessTypeOK
  <1>12. ASSUME NEW r \in Requests, KillInRetire(r) PROVE Types'
    <2>1. at' \in [Requests -> Places]
      BY <1>12, Moved DEF KillInRetire, Places
    <2>2. SlotTypeOK'
      BY <1>12, SlotTyped DEF KillInRetire, Types, ProcessTypeOK
    <2> QED BY <1>12, <2>1, <2>2 DEF KillInRetire, Kill, Keep, sessionVars, stopVars,
                                     Types, ProcessTypeOK, RuntimeTypeOK
  <1>13. ASSUME NEW r \in Requests, CloseStream(r) \/ ReleaseSubmission(r) PROVE Types'
    <2>1. at' \in [Requests -> Places]
      BY <1>13, Moved DEF CloseStream, ReleaseSubmission, Places, ProcessPlaces, Over
    <2>2. SlotTypeOK'
      BY <1>13, <1>2, SlotTyped DEF CloseStream, ReleaseSubmission, Types, ProcessTypeOK
    <2> QED BY <1>1, <1>13, <2>1, <2>2 DEF CloseStream, ReleaseSubmission, stopVars, Types, ProcessTypeOK
  <1>14. ASSUME NEW r \in Requests, Raise(r) PROVE Types'
    <2>1. /\ at' \in [Requests -> Places] /\ cancelFiles' \in SUBSET Requests
          /\ claimed' \cup opened' \cup submitted' \cup finished' \cup condemning' \subseteq Requests
      <3>1. CASE BeginClose(r, FALSE, FALSE)
        BY <1>7, <3>1
      <3>2. CASE /\ Goto(r, "unwinding") \/ Goto(r, "dropped") \/ Goto(r, "ending")
                 /\ Keep /\ UNCHANGED cancelFiles
        <4>1. at' \in [Requests -> Places]
          BY <3>2, Moved DEF Places, ProcessPlaces
        <4> QED BY <3>2, <4>1 DEF Keep, sessionVars, Types, ProcessTypeOK, RuntimeTypeOK
      <3> QED BY <1>14, <3>1, <3>2 DEF Raise
    <2> QED BY <1>2, <1>14, <2>1 DEF Raise, stopVars, Types, ProcessTypeOK, RuntimeTypeOK
  <1>15. ASSUME NEW r \in Requests, Finalize(r) PROVE Types'
    <2>1. at' \in [Requests -> Places]
      BY <1>15, Moved DEF Finalize, Places, ProcessPlaces, Over
    <2>2. SlotTypeOK'
      BY <1>15, SlotTyped DEF Finalize, GiveUp, Release, Types, ProcessTypeOK
    <2> QED BY <1>1, <1>15, <2>1, <2>2 DEF Finalize, Keep, sessionVars, stopVars, Types, ProcessTypeOK
  <1>16. ASSUME NEW c \in Requests, ChildStep(c) /\ UNCHANGED <<sessionVars, stopVars>>
         PROVE  Types'
    BY <1>16, ChildTyped DEF ChildStep, sessionVars, stopVars, Types
  <1>17. CASE RefuseSubmissions
    BY <1>1, <1>17, ClosingTyped
       DEF RefuseSubmissions, StopStep, Keep, sessionVars, Types, ProcessTypeOK
  <1>18. CASE DropWorkers \/ TerminateRead \/ TerminateForget
    BY <1>1, <1>2, <1>18 DEF DropWorkers, TerminateRead, TerminateForget, StopStep, Keep,
                             sessionVars, Types, ProcessTypeOK
  <1>19. CASE TerminateKill
    BY <1>2, <1>19 DEF TerminateKill, StopStep, Keep, sessionVars, Types, ProcessTypeOK, RuntimeTypeOK
  <1>20. CASE UNCHANGED vars
    BY <1>1, <1>2, <1>20 DEF vars, processVars, sessionVars, stopVars, Types, ProcessTypeOK
  <1> QED BY <1>3, <1>4, <1>5, <1>6, <1>8, <1>9, <1>10, <1>11, <1>12, <1>13, <1>14, <1>15,
             <1>16, <1>17, <1>18, <1>19, <1>20 DEF Next, SessionStep, Finished

LEMMA TypesInvariance == Spec => []Types
  BY InitTyped, StepTyped, PTL DEF Spec

-----------------------------------------------------------------------------
(* Where a session stands, and what it has by that.  Unlaunched: no child  *)
(* is named after it yet.  Owning: it owns the slot.  Unheard: it has no   *)
(* stream at hand.  Hearing: the stream it has is the worker's child's.    *)
Unlaunched == {"new", "calling", "parked", "admitted", "spawning"}
Owning == InSubmit \cup InSession
            \cup {"startfailed", "unwinding", "severed", "returned", "ending", "killing"}
Unheard == Unlaunched \cup {"flushed", "returned", "stored", "bound"}
Hearing == {"starting", "consuming", "running"}

Placed(r) ==
  /\ at[r] \in Owning => holder = r
  /\ at[r] = "killing" <=> mutex = r
  /\ at[r] \in Unlaunched => r \notin alive
  /\ at[r] \in Unheard => reads[r] = NoRequest
  /\ at[r] \in Hearing => reads[r] \in {child, NoRequest} \/ child = NoRequest

(* Until it is shut down, the worker can reach the one child that runs,    *)
(* and launches another only when none does.                               *)
Reachable ==
  /\ ~Stubborn => alive \subseteq {child}
  /\ \A r \in Requests :
       /\ at[r] = "spawning" => ~Running
       /\ at[r] \in Hearing => reads[r] \in {child, NoRequest}

Coherent ==
  /\ \A r \in Requests : Placed(r)
  /\ ~Stoppable => stop = "up" /\ Reachable

LEMMA InitCoherent == Init => Coherent
  <1> SUFFICES ASSUME Init PROVE Coherent
    OBVIOUS
  <1>1. ASSUME NEW r \in Requests PROVE Placed(r)
    <2>1. /\ at[r] = "new" /\ mutex # r /\ r \notin alive /\ reads[r] = NoRequest
          /\ child = NoRequest
      BY DEF Init, ProcessInit, SlotInit, RuntimeInit
    <2> QED BY <2>1 DEF Placed, Owning, InSubmit, InSession, Hearing
  <1>2. stop = "up" /\ Reachable
    <2>1. /\ stop = "up" /\ alive = {} /\ child = NoRequest
          /\ \A r \in Requests : at[r] = "new"
      BY DEF Init, ProcessInit, RuntimeInit
    <2> QED BY <2>1 DEF Reachable, Running, Hearing
  <1> QED BY <1>1, <1>2 DEF Coherent

LEMMA StepCoherent == Types /\ Coherent /\ [Next]_vars => Coherent'
  <1> SUFFICES ASSUME Types, Coherent, [Next]_vars PROVE Coherent'
    OBVIOUS
  <1>0. /\ at \in [Requests -> Places] /\ reads \in [Requests -> Requests \cup {NoRequest}]
        /\ child \in Requests \cup {NoRequest} /\ alive \subseteq Requests
    BY DEF Types, ProcessTypeOK, RuntimeTypeOK
  <1> USE <1>0 DEF Coherent, Placed, Reachable, Running, Unlaunched, Owning, InSubmit, InSession,
               Unheard, Hearing, Goto
  <1>3. ASSUME NEW r \in Requests, Open(r) PROVE Coherent'
    BY <1>3 DEF Open, Keep, sessionVars, stopVars, slotVars, runtimeVars
  <1>4. ASSUME NEW r \in Requests, Submit(r) PROVE Coherent'
    <2> USE DEF slotVars, runtimeVars
    <2>0. UNCHANGED stop
      BY <1>4 DEF Submit, stopVars
    <2>1. CASE Acquire(r)
      <3>1. CASE Admit(r) /\ Goto(r, "admitted")
        BY <2>0, <2>1, <3>1 DEF Acquire, Admit
      <3>2. CASE Park(r) /\ Goto(r, "parked")
        BY <2>0, <2>1, <3>2 DEF Acquire, Park
      <3>3. CASE RaiseClosed(r) /\ Goto(r, "raised")
        BY <2>0, <2>1, <3>3 DEF Acquire, RaiseClosed
      <3> QED BY <2>1, <3>1, <3>2, <3>3 DEF Acquire
    <2>2. CASE CheckChild(r) \/ ReturnStream(r)
      BY <2>0, <2>2 DEF CheckChild, ReturnStream
    <2>3. CASE Spawn(r)
      <3>1. ASSUME NEW q \in Requests PROVE Placed(q)'
        BY <2>3 DEF Spawn
      <3>2. ~Stoppable => Reachable'
        BY <2>3 DEF Spawn
      <3> QED BY <2>0, <3>1, <3>2
    <2>4. CASE BindStarting(r) \/ TakeStdin(r)
      BY <2>0, <2>4 DEF BindStarting, Bind, TakeStdin
    <2>5. CASE ReadStarting(r)
      BY <2>0, <2>5 DEF ReadStarting
    <2>6. CASE StartingEnds(r)
      BY <2>0, <2>6 DEF StartingEnds, AtEOF
    <2>7. CASE StartFailed(r)
      BY <2>0, <2>7 DEF StartFailed, Kill
    <2>8. CASE WriteRequest(r)
      BY <2>0, <2>8 DEF WriteRequest
    <2>9. CASE Unwind(r)
      BY <2>0, <2>9 DEF Unwind, Release, FreeSlot, ReleaseRefused
    <2> QED BY <1>4, <2>1, <2>2, <2>3, <2>4, <2>5, <2>6, <2>7, <2>8, <2>9 DEF Submit, ProcessStep
  <1>5. ASSUME NEW r \in Requests, StoreSubmission(r) \/ StoreStream(r) \/ SetSubmitted(r)
        PROVE  Coherent'
    BY <1>5 DEF StoreSubmission, StoreStream, SetSubmitted, stopVars, slotVars, runtimeVars
  <1>6. ASSUME NEW r \in Requests, Listen(r) PROVE Coherent'
    <2>1. CASE BindStream(r, "consuming", "ending")
      BY <1>6, <2>1 DEF Listen, BindStream, Bind, Keep, stopVars, slotVars, runtimeVars
    <2>2. CASE at[r] \in {"consuming", "running"} /\ StreamEOF(r, "ending")
      BY <1>6, <2>2 DEF Listen, StreamEOF, AtEOF, Keep, stopVars, slotVars, runtimeVars
    <2> QED BY <1>6, <2>1, <2>2 DEF Listen
  <1>8. ASSUME NEW r \in Requests, ReadEvent(r) PROVE Coherent'
    <2>1. at' = [at EXCEPT ![r] = "closing"] \/ at' = [at EXCEPT ![r] = "running"] \/ at' = at
      BY <1>8 DEF ReadEvent, BeginClose
    <2> QED BY <1>8, <2>1 DEF ReadEvent, stopVars, slotVars
  <1>9. ASSUME NEW r \in Requests, EndStream(r) PROVE Coherent'
    BY <1>9 DEF EndStream, BeginClose, Release, FreeSlot, ReleaseRefused, stopVars, slotVars
  <1>10. ASSUME NEW r \in Requests, RequestCancel(r) PROVE Coherent'
    BY <1>10 DEF RequestCancel, stopVars, slotVars
  <1>11. ASSUME NEW r \in Requests, Retire(r) \/ KeepWorker(r) PROVE Coherent'
    BY <1>11 DEF Retire, KeepWorker, RetireBegin, RetireRefused, stopVars, slotVars, runtimeVars, MutexFree
  <1>12. ASSUME NEW r \in Requests, KillInRetire(r) PROVE Coherent'
    <2>1. ASSUME NEW q \in Requests PROVE Placed(q)'
      BY <1>12 DEF KillInRetire, Kill, RetireEnd
    <2>2. ~Stoppable => Reachable'
      BY <1>12 DEF KillInRetire, Kill, RetireEnd
    <2> QED BY <1>12, <2>1, <2>2 DEF KillInRetire, stopVars
  <1>13. ASSUME NEW r \in Requests, CloseStream(r) \/ ReleaseSubmission(r) PROVE Coherent'
    BY <1>13 DEF CloseStream, ReleaseSubmission, Release, FreeSlot, ReleaseRefused,
                 stopVars, slotVars, runtimeVars
  <1>14. ASSUME NEW r \in Requests, Raise(r) PROVE Coherent'
    BY <1>14 DEF Raise, BeginClose, stopVars, slotVars
  <1>15. ASSUME NEW r \in Requests, Finalize(r) PROVE Coherent'
    BY <1>15 DEF Finalize, FreeSlot, GiveUp, stopVars, slotVars, runtimeVars
  <1>16. ASSUME NEW c \in Requests, ChildStep(c) /\ UNCHANGED <<sessionVars, stopVars>>
         PROVE  Coherent'
    <2>1. alive' \subseteq alive
      BY <1>16, WorkTyped DEF ChildStep, Works, Types, ProcessTypeOK
    <2> QED BY <1>16, <2>1 DEF ChildStep, stopVars, slotVars
  <1>17. CASE DropWorkers \/ RefuseSubmissions
    BY <1>17 DEF DropWorkers, RefuseSubmissions, CloseSlot, StopStep, slotVars, runtimeVars
  <1>18. CASE TerminateRead \/ TerminateForget \/ TerminateKill
    BY <1>18 DEF TerminateRead, TerminateForget, TerminateKill, StopStep, slotVars, runtimeVars
  <1>20. CASE UNCHANGED vars
    BY <1>20 DEF vars, processVars, slotVars, runtimeVars, stopVars
  <1> QED BY <1>3, <1>4, <1>5, <1>6, <1>8, <1>9, <1>10, <1>11, <1>12, <1>13, <1>14, <1>15,
             <1>16, <1>17, <1>18, <1>20 DEF Next, SessionStep, Finished

LEMMA CoherentInvariance == Spec => [](Types /\ Coherent)
  BY InitTyped, StepTyped, InitCoherent, StepCoherent, PTL DEF Spec

(* The sessions, the slot, the child and its streams keep their types, and *)
(* a retirement runs with the slot's mutex for the owner of the slot,      *)
(* wherever exceptions land.                                               *)
THEOREM ChildWorkerTyped == Spec => []TypeOK
  <1>1. Types /\ Coherent => TypeOK
    BY DEF Types, ProcessTypeOK, SlotTypeOK, Coherent, Placed, Owning, TypeOK
  <1> QED BY <1>1, CoherentInvariance, PTL

(* Until the worker is shut down it can reach every child that runs, also  *)
(* when a launch, a stream or a kill failed half way: a launch is never    *)
(* made beside a child that runs, and only the owner of the slot forgets.  *)
THEOREM NoChildIsOrphaned ==
  ASSUME ~Stoppable
  PROVE  Spec => []NoOrphan
  <1>1. Coherent => NoOrphan
    BY DEF Coherent, Reachable, NoOrphan
  <1> QED BY <1>1, CoherentInvariance, PTL

-----------------------------------------------------------------------------
(* No foreign exception lands between the last byte of a request and the   *)
(* store that lets the session's unwind find it, nor in the stream's       *)
(* generator, which gives the slot back in front of the unwind.            *)
Sheltered == RaisePoints \cap {"flushed", "returned", "reading"} = {}

(* A session in one of these places has written no request.                *)
Unsent == Unlaunched \cup {"starting", "startfailed", "ready", "writing", "unwinding",
                           "severed", "raised", "brokenpipe"}

OnlyOf(c, r) == Serving(c) \subseteq {r, NoRequest}

(* What is in the children is where the sessions' places say: nothing of a *)
(* request that has not been written, in the stream at hand only what is   *)
(* the session's own, and in the child that a session gives back nothing   *)
(* of it - unless it is about to retire it.                                *)
Accounted(r) ==
  /\ at[r] \notin {"dropped", "leaked"}
  /\ at[r] \in Unlaunched => OnlyOf(r, NoRequest)
  /\ at[r] \in Unsent => \A c \in Requests : r \notin Serving(c)
  /\ at[r] \in Hearing \cup {"writing"} /\ reads[r] # NoRequest => OnlyOf(reads[r], r)
  /\ at[r] \in InSession => r \in claimed
  /\ at[r] = "ending" => child = NoRequest
  /\ at[r] \in {"closing", "streaming", "backstop"} /\ holder = r
     => \/ child = NoRequest \/ r \notin Serving(child)
        \/ at[r] = "closing" /\ r \in condemning \cap claimed

HandedOver == child # NoRequest => OnlyOf(child, holder)

Separate ==
  /\ \A r \in Requests : Accounted(r)
  /\ HandedOver
  /\ \A c \in Requests : Once(c) /\ Settled(c)

LEMMA InitSeparate == Init => Separate
  <1> SUFFICES ASSUME Init PROVE Separate
    OBVIOUS
  <1>1. \A c \in Requests : Serving(c) = {NoRequest} /\ Once(c) /\ Settled(c)
    BY InitRuntime DEF Init, ProcessInit
  <1>2. ASSUME NEW r \in Requests PROVE Accounted(r)
    <2>1. at[r] = "new"
      BY DEF Init
    <2> QED BY <1>1, <2>1 DEF Accounted, OnlyOf, InSession, Hearing
  <1>3. HandedOver
    BY DEF Init, ProcessInit, HandedOver
  <1> QED BY <1>1, <1>2, <1>3 DEF Separate

(* A step that adds to the children nothing but work of nobody leaves a    *)
(* session that it does not move with its account.                         *)
LEMMA Bystander ==
  ASSUME Types, Coherent, Separate, NEW r \in Requests,
         \A c \in Requests : Serving(c)' \subseteq Serving(c) \cup {NoRequest},
         at'[r] = at[r], reads'[r] = reads[r],
         child' \in {child, NoRequest} \/ holder # r, holder' = r => holder = r,
         r \in claimed <=> r \in claimed', r \in condemning <=> r \in condemning'
  PROVE  Accounted(r)'
  <1>1. r # NoRequest /\ reads[r] \in Requests \cup {NoRequest} /\ child \in Requests \cup {NoRequest}
    BY DEF Types, ProcessTypeOK
  <1>2. Accounted(r)
    BY DEF Separate
  <1>3. at[r] = "ending" => holder = r
    BY DEF Coherent, Placed, Owning
  <1> QED BY <1>1, <1>2, <1>3 DEF Accounted, OnlyOf

LEMMA WorkUntouched ==
  ASSUME UNCHANGED <<inbox, job, pipe>>, NEW c \in Requests
  PROVE  /\ Serving(c)' = Serving(c)
         /\ Once(c) /\ Settled(c) => Once(c)' /\ Settled(c)'
  BY DEF Serving, Once, Settled, LastOf

(* One session moves, and the children are left to their work.             *)
Moves(r) ==
  /\ UNCHANGED <<inbox, job, pipe>>
  /\ \A q \in Requests \ {r} :
       /\ at'[q] = at[q] /\ reads'[q] = reads[q]
       /\ q \in claimed <=> q \in claimed'
       /\ q \in condemning <=> q \in condemning'
  /\ child' \in {child, NoRequest} \/ holder = r
  /\ holder' \in {holder, NoRequest, r}

LEMMA MoveSeparate ==
  ASSUME Types, Coherent, Separate, NEW r \in Requests, Moves(r),
         Accounted(r)', HandedOver'
  PROVE  Separate'
  <1>1. ASSUME NEW q \in Requests \ {r} PROVE Accounted(q)'
    BY WorkUntouched, Bystander DEF Moves
  <1> QED BY <1>1, WorkUntouched DEF Separate, Moves

(* submit() and ensure_started(), but for their reads and writes.          *)
LEMMA SubmitMoves ==
  ASSUME Sheltered, Types, Coherent, Separate, NEW r \in Requests,
         \/ Acquire(r) \/ CheckChild(r) \/ Spawn(r) \/ BindStarting(r) \/ StartingEnds(r)
         \/ StartFailed(r) \/ TakeStdin(r) \/ ReturnStream(r) \/ Unwind(r),
         Keep
  PROVE  Separate'
  <1>0. /\ at \in [Requests -> Places] /\ reads \in [Requests -> Requests \cup {NoRequest}]
        /\ child \in Requests \cup {NoRequest} /\ alive \subseteq Requests
    BY DEF Types, ProcessTypeOK, RuntimeTypeOK
  <1>1. Placed(r) /\ Accounted(r) /\ HandedOver
    BY DEF Coherent, Separate
  <1> USE <1>0 DEF Goto, Keep, sessionVars, slotVars, runtimeVars
  <1>2. UNCHANGED <<inbox, job, pipe>>
    BY DEF Acquire, CheckChild, Spawn, BindStarting, StartingEnds, StartFailed, TakeStdin,
           ReturnStream, Unwind
  <1>3. \A c \in Requests : Serving(c)' = Serving(c)
    BY <1>2, WorkUntouched
  <1>4. CASE Acquire(r)
    <2>1. holder' = holder \/ (holder = NoRequest /\ holder' = r)
      BY <1>4 DEF Acquire, Admit, Park, RaiseClosed
    <2>2. HandedOver'
      BY <1>1, <1>3, <1>4, <2>1 DEF Acquire, HandedOver, OnlyOf
    <2>3. Moves(r)
      BY <1>2, <1>4, <2>1 DEF Acquire, Moves
    <2>4. Accounted(r)'
      BY <1>1, <1>3, <1>4 DEF Acquire, Placed, Accounted, OnlyOf, Unsent, Unlaunched, Hearing,
                              InSession
    <2> QED BY <2>2, <2>3, <2>4, MoveSeparate
  <1>5. CASE CheckChild(r) \/ ReturnStream(r)
    <2>1. HandedOver' /\ Moves(r)
      BY <1>1, <1>2, <1>3, <1>5 DEF CheckChild, ReturnStream, HandedOver, OnlyOf, Moves
    <2>2. Accounted(r)'
      BY <1>1, <1>3, <1>5 DEF CheckChild, ReturnStream, Placed, Accounted, OnlyOf, Unsent, Unlaunched,
                              Hearing, InSession
    <2> QED BY <2>1, <2>2, MoveSeparate
  <1>6. CASE Spawn(r)
    <2>1. holder = r /\ OnlyOf(r, NoRequest) /\ reads[r] = NoRequest
      BY <1>1, <1>6 DEF Spawn, Placed, Accounted, Owning, InSubmit, Unlaunched, Unheard
    <2>2. HandedOver'
      BY <1>1, <1>3, <1>6, <2>1 DEF Spawn, HandedOver, OnlyOf
    <2>3. Moves(r)
      BY <1>2, <1>6, <2>1 DEF Spawn, Moves
    <2>4. Accounted(r)'
      BY <1>1, <1>3, <1>6, <2>1 DEF Spawn, Accounted, OnlyOf, Unsent, Unlaunched, Hearing, InSession
    <2> QED BY <2>2, <2>3, <2>4, MoveSeparate
  <1>7. CASE BindStarting(r) \/ TakeStdin(r)
    <2>1. holder = r
      BY <1>1, <1>7 DEF BindStarting, TakeStdin, Placed, Owning, InSubmit
    <2>2. HandedOver' /\ Moves(r)
      BY <1>1, <1>2, <1>3, <1>7 DEF BindStarting, TakeStdin, Bind, HandedOver, OnlyOf, Moves
    <2>3. Accounted(r)'
      BY <1>1, <1>3, <1>7, <2>1 DEF BindStarting, TakeStdin, Bind, HandedOver, Accounted, OnlyOf,
                                    Unsent, Unlaunched, Hearing, InSession
    <2> QED BY <2>2, <2>3, MoveSeparate
  <1>8. CASE StartingEnds(r) \/ StartFailed(r)
    <2>1. child' = NoRequest
      BY <1>8 DEF StartingEnds, StartFailed, Kill
    <2>2. HandedOver' /\ Moves(r)
      BY <1>2, <1>8, <2>1 DEF StartingEnds, StartFailed, HandedOver, Moves
    <2>3. Accounted(r)'
      BY <1>1, <1>3, <1>8 DEF StartingEnds, StartFailed, Accounted, OnlyOf, Unsent, Unlaunched,
                              Hearing, InSession
    <2> QED BY <2>2, <2>3, MoveSeparate
  <1>9. CASE Unwind(r)
    <2>1. \A c \in Requests : r \notin Serving(c)
      BY <1>1, <1>9 DEF Unwind, Accounted, Unsent
    <2>2. holder' = holder \/ (holder = r /\ holder' = NoRequest)
      BY <1>9 DEF Unwind, Release, FreeSlot, ReleaseRefused
    <2>3. HandedOver'
      BY <1>1, <1>3, <1>9, <2>1, <2>2 DEF Unwind, HandedOver, OnlyOf
    <2>4. Moves(r)
      BY <1>2, <1>9, <2>2 DEF Unwind, Moves
    <2>5. Accounted(r)'
      BY <1>1, <1>3, <1>9 DEF Unwind, Accounted, OnlyOf, Unsent, Unlaunched, Hearing, InSession
    <2> QED BY <2>3, <2>4, <2>5, MoveSeparate
  <1> QED BY <1>4, <1>5, <1>6, <1>7, <1>8, <1>9

(* A line is read: from the stream at hand, which has only lines of the    *)
(* reader's own.                                                           *)
LEMMA ReadSeparate ==
  ASSUME Types, Coherent, Separate, NEW r \in Requests, HasLine(r), Read(r),
         UNCHANGED <<inbox, job, child, holder, reads, claimed>>,
         \A q \in Requests \ {r} : at'[q] = at[q] /\ (q \in condemning <=> q \in condemning'),
         Accounted(r)'
  PROVE  Separate'
  <1>0. reads[r] \in Requests /\ child \in Requests \cup {NoRequest} /\ RuntimeTypeOK
    BY DEF Types, ProcessTypeOK, HasLine
  <1>1. \A c \in Requests : Serving(c)' \subseteq Serving(c)
    BY <1>0, ReadServes
  <1>2. \A c \in Requests : Once(c)' /\ Settled(c)'
    BY <1>0, ReadSettles DEF Separate
  <1>3. ASSUME NEW q \in Requests \ {r} PROVE Accounted(q)'
    BY <1>1, Bystander
  <1>4. HandedOver'
    BY <1>0, <1>1 DEF Separate, HandedOver, OnlyOf
  <1> QED BY <1>2, <1>3, <1>4 DEF Separate

LEMMA ReadStartingSeparate ==
  ASSUME Types, Coherent, Separate, NEW r \in Requests, ReadStarting(r), Keep
  PROVE  Separate'
  <1>0. reads[r] \in Requests /\ RuntimeTypeOK /\ at \in [Requests -> Places]
    BY DEF ReadStarting, Types, ProcessTypeOK, HasLine
  <1>1. \A c \in Requests : Serving(c)' \subseteq Serving(c)
    BY <1>0, ReadServes DEF ReadStarting
  <1>2. at' = [at EXCEPT ![r] = "ready"] \/ at' = [at EXCEPT ![r] = "startfailed"]
    BY DEF ReadStarting, Goto
  <1>3. \A c \in Requests : r \notin Serving(c)
    BY DEF ReadStarting, Separate, Accounted, Unsent
  <1>4. Accounted(r)'
    BY <1>0, <1>1, <1>2, <1>3 DEF Accounted, Unlaunched, Hearing, InSession
  <1>5. UNCHANGED <<inbox, job, child, holder, reads, claimed, condemning>>
    BY DEF ReadStarting, Keep, sessionVars, slotVars
  <1> QED BY <1>0, <1>2, <1>4, <1>5, ReadSeparate DEF ReadStarting

(* A request is written: to a child that runs, which is not one that       *)
(* somebody has yet to launch, by the owner of the slot.                   *)
LEMMA WriteSeparate ==
  ASSUME Types, Coherent, Separate, NEW r \in Requests, WriteRequest(r), Keep
  PROVE  Separate'
  <1>0. /\ at \in [Requests -> Places] /\ reads \in [Requests -> Requests \cup {NoRequest}]
        /\ child \in Requests \cup {NoRequest} /\ alive \subseteq Requests
        /\ RuntimeTypeOK
    BY DEF Types, ProcessTypeOK, RuntimeTypeOK
  <1>1. /\ at[r] = "writing" /\ holder = r /\ HandedOver
        /\ \A q \in Requests : Placed(q) /\ Accounted(q) /\ Once(q) /\ Settled(q)
    BY DEF WriteRequest, Coherent, Separate, Placed, Owning, InSubmit
  <1> USE DEF Goto, Keep, sessionVars, slotVars
  <1>2. CASE reads[r] \notin alive
    <2>1. UNCHANGED <<inbox, job, pipe>> /\ at' = [at EXCEPT ![r] = "severed"]
      BY <1>2 DEF WriteRequest
    <2>2. HandedOver' /\ Moves(r)
      BY <1>0, <1>1, <2>1, WorkUntouched DEF WriteRequest, HandedOver, OnlyOf, Moves
    <2>3. Accounted(r)'
      BY <1>0, <1>1, <2>1, WorkUntouched DEF WriteRequest, Accounted, OnlyOf, Unsent, Unlaunched,
                                             Hearing, InSession
    <2> QED BY <2>2, <2>3, MoveSeparate
  <1>3. CASE reads[r] \in alive
    <2> PICK c \in Requests : reads[r] = c
      BY <1>0, <1>3
    <2>1. /\ inbox' = [inbox EXCEPT ![c] = Append(@, r)]
          /\ UNCHANGED <<job, pipe>> /\ at' = [at EXCEPT ![r] = "flushed"]
          /\ reads' = [reads EXCEPT ![r] = NoRequest]
          /\ UNCHANGED <<child, holder, claimed, condemning>>
      BY <1>0, <1>3 DEF WriteRequest
    <2>2. r \notin Serving(c)
      BY <1>1, <2>1 DEF Accounted, Unsent
    <2>3. ASSUME NEW d \in Requests
          PROVE  /\ d # c => Serving(d)' = Serving(d)
                 /\ Serving(d)' \subseteq Serving(d) \cup {r}
      <3>1. inbox' = [inbox EXCEPT ![c] = Append(@, r)] /\ UNCHANGED <<job, pipe>>
        BY <2>1
      <3>2. RuntimeTypeOK
        BY <1>0
      <3> QED BY ONLY <3>1, <3>2, WriteServes
    <2>4. \A d \in Requests : Once(d)' /\ Settled(d)'
      BY <1>0, <1>1, <2>1, <2>2, WriteSettles
    <2>5. HandedOver'
      BY <1>0, <1>1, <2>1, <2>3 DEF HandedOver, OnlyOf
    <2>6. Accounted(r)'
      BY <1>0, <2>1 DEF Accounted, Unsent, Unlaunched, Hearing, InSession
    <2>7. ASSUME NEW q \in Requests \ {r} PROVE Accounted(q)'
      <3>1. at'[q] = at[q] /\ reads'[q] = reads[q] /\ holder' # q
        BY <1>0, <1>1, <2>1
      <3>2. Placed(q) /\ Accounted(q)
        BY <1>1
      <3>3. at[q] \in Unlaunched => q # c
        BY <1>3, <3>2 DEF Placed
      <3>4. at[q] \in Unlaunched => OnlyOf(q, NoRequest)'
        BY <2>3, <3>2, <3>3 DEF Accounted, OnlyOf
      <3>5. at[q] \in Unsent => \A d \in Requests : q \notin Serving(d)'
        BY <2>3, <3>2 DEF Accounted
      <3>6. at[q] \notin Hearing \cup InSession \cup {"writing", "ending"}
        BY <1>1, <3>2 DEF Placed, Owning, Hearing, InSubmit, InSession
      <3> QED BY <3>1, <3>2, <3>4, <3>5, <3>6 DEF Accounted
    <2> QED BY <2>4, <2>5, <2>6, <2>7 DEF Separate
  <1> QED BY <1>2, <1>3

(* A child works.                                                          *)
LEMMA WorkSeparate ==
  ASSUME Types, Coherent, Separate, NEW c \in Requests, ChildStep(c), Keep
  PROVE  Separate'
  <1>0. Works(c) /\ RuntimeTypeOK /\ child \in Requests \cup {NoRequest}
    BY DEF ChildStep, Works, Types, ProcessTypeOK
  <1>1. \A d \in Requests : Serving(d)' \subseteq Serving(d) \cup {NoRequest}
    BY <1>0, WorkServes
  <1>2. \A d \in Requests : Once(d)' /\ Settled(d)'
    BY <1>0, WorkSettles DEF Separate
  <1>3. UNCHANGED <<at, reads, child, holder, claimed, condemning>>
    BY DEF ChildStep, Keep, sessionVars, slotVars
  <1>4. \A r \in Requests : Accounted(r)'
    BY <1>1, <1>3, Bystander
  <1>5. HandedOver'
    BY <1>0, <1>1, <1>3 DEF Separate, HandedOver, OnlyOf
  <1> QED BY <1>2, <1>4, <1>5 DEF Separate

(* What a session does before it is closed, reading apart.                 *)
LEMMA SessionMoves ==
  ASSUME Sheltered, Types, Coherent, Separate, NEW r \in Requests,
         \/ Open(r) \/ StoreSubmission(r) \/ StoreStream(r) \/ SetSubmitted(r)
         \/ Listen(r) \/ EndStream(r) \/ RequestCancel(r) \/ Raise(r) \/ Finalize(r)
  PROVE  Separate'
  <1>0. /\ at \in [Requests -> Places] /\ reads \in [Requests -> Requests \cup {NoRequest}]
        /\ child \in Requests \cup {NoRequest}
    BY DEF Types, ProcessTypeOK
  <1>1. Placed(r) /\ Accounted(r) /\ HandedOver
    BY DEF Coherent, Separate
  <1>2. UNCHANGED <<inbox, job, pipe>>
    BY DEF Open, StoreSubmission, StoreStream, SetSubmitted, Listen, BindStream, StreamEOF,
           EndStream, RequestCancel, Raise, Finalize, runtimeVars
  <1>3. \A c \in Requests : Serving(c)' = Serving(c)
    BY <1>2, WorkUntouched
  <1> USE <1>0 DEF Goto, Keep, sessionVars, slotVars
  <1>4. CASE Open(r) \/ RequestCancel(r)
    <2>1. HandedOver' /\ Moves(r)
      BY <1>1, <1>2, <1>3, <1>4 DEF Open, RequestCancel, HandedOver, OnlyOf, Moves
    <2>2. Accounted(r)'
      BY <1>1, <1>3, <1>4 DEF Open, RequestCancel, Accounted, OnlyOf, Unsent, Unlaunched, Hearing,
                              InSession
    <2> QED BY <2>1, <2>2, MoveSeparate
  <1>5. CASE StoreSubmission(r) \/ StoreStream(r) \/ SetSubmitted(r)
    <2>1. HandedOver' /\ Moves(r)
      BY <1>1, <1>2, <1>3, <1>5 DEF StoreSubmission, StoreStream, SetSubmitted, HandedOver, OnlyOf,
                                    Moves
    <2>2. reads[r] = NoRequest
      BY <1>1, <1>5 DEF StoreSubmission, StoreStream, SetSubmitted, Placed, Unheard
    <2>3. at'[r] \in InSession /\ r \in claimed'
      BY <1>1, <1>5 DEF StoreSubmission, StoreStream, SetSubmitted, Accounted, InSession
    <2>4. reads'[r] = NoRequest
      BY <1>5, <2>2 DEF StoreSubmission, StoreStream, SetSubmitted
    <2>5. Accounted(r)'
      BY <2>3, <2>4 DEF Accounted, Unsent, Unlaunched, InSession
    <2> QED BY <2>1, <2>5, MoveSeparate
  <1>6. CASE Listen(r)
    <2>1. holder = r /\ r \in claimed
      BY <1>1, <1>6 DEF Listen, BindStream, StreamEOF, Placed, Accounted, Owning, InSession
    <2>2. CASE BindStream(r, "consuming", "ending")
      <3>1. HandedOver' /\ Moves(r)
        BY <1>1, <1>2, <1>3, <1>6, <2>2 DEF Listen, BindStream, Bind, HandedOver, OnlyOf, Moves
      <3>2. Accounted(r)'
        BY <1>1, <1>3, <1>6, <2>1, <2>2
           DEF Listen, BindStream, Bind, HandedOver, Accounted, OnlyOf, Unsent, Unlaunched, Hearing,
               InSession
      <3> QED BY <3>1, <3>2, MoveSeparate
    <2>3. CASE at[r] \in {"consuming", "running"} /\ StreamEOF(r, "ending")
      <3>1. HandedOver' /\ Moves(r)
        BY <1>2, <1>6, <2>3 DEF Listen, StreamEOF, HandedOver, Moves
      <3>2. Accounted(r)'
        BY <1>6, <2>3 DEF Listen, StreamEOF, Accounted, Unsent, Unlaunched, Hearing, InSession
      <3> QED BY <3>1, <3>2, MoveSeparate
    <2> QED BY <1>6, <2>2, <2>3 DEF Listen
  <1>7. CASE EndStream(r)
    <2>1. child = NoRequest /\ UNCHANGED <<child, reads, claimed>> /\ at' = [at EXCEPT ![r] = "closing"]
      BY <1>1, <1>7 DEF EndStream, BeginClose, Accounted
    <2>2. holder' \in {holder, NoRequest}
      BY <1>7 DEF EndStream, Release, FreeSlot, ReleaseRefused
    <2>3. HandedOver' /\ Moves(r)
      BY <1>2, <1>7, <2>1, <2>2 DEF EndStream, BeginClose, HandedOver, Moves
    <2>4. Accounted(r)'
      BY <2>1 DEF Accounted, Unsent, Unlaunched, Hearing, InSession
    <2> QED BY <2>3, <2>4, MoveSeparate
  <1>8. CASE Raise(r)
    <2>1. HandedOver' /\ Moves(r)
      BY <1>1, <1>2, <1>3, <1>8 DEF Raise, BeginClose, HandedOver, OnlyOf, Moves
    <2>2. CASE at[r] \in InSubmit
      <3>1. at' = [at EXCEPT ![r] = "unwinding"] /\ at[r] # "flushed"
        BY <1>8, <2>2 DEF Raise, Sheltered, InSubmit, InSession
      <3>2. \A c \in Requests : r \notin Serving(c)'
        BY <1>1, <1>3, <2>2, <3>1 DEF Accounted, InSubmit, Unsent, Unlaunched
      <3>3. Accounted(r)'
        BY <3>1, <3>2 DEF Accounted, Unlaunched, Hearing, InSession
      <3> QED BY <2>1, <3>3, MoveSeparate
    <2>3. CASE at[r] \in InSession
      <3>1. BeginClose(r, FALSE, FALSE)
        BY <1>8, <2>3 DEF Raise, Sheltered, InSubmit, InSession
      <3>2. at' = [at EXCEPT ![r] = "closing"] /\ r \in condemning' \cap claimed'
        BY <1>1, <2>3, <3>1 DEF BeginClose, Accounted
      <3>3. Accounted(r)'
        BY <3>2 DEF Accounted, Unsent, Unlaunched, Hearing, InSession
      <3> QED BY <2>1, <3>3, MoveSeparate
    <2> QED BY <1>8, <2>2, <2>3 DEF Raise, Sheltered
  <1>9. CASE Finalize(r)
    BY <1>1, <1>9 DEF Finalize, Accounted
  <1> QED BY <1>4, <1>5, <1>6, <1>7, <1>8, <1>9

(* An event is read.  One that says that the job is done is the reader's   *)
(* own, and the last thing the child has of it; after one that says that   *)
(* it failed, the worker is retired.                                       *)
LEMMA ReadEventSeparate ==
  ASSUME Types, Coherent, Separate, NEW r \in Requests, ReadEvent(r)
  PROVE  Separate'
  <1> DEFINE e == NextLine(r)
  <1> PICK c \in Requests : reads[r] = c
    BY DEF ReadEvent, Types, ProcessTypeOK, HasLine
  <1>0. /\ RuntimeTypeOK /\ at \in [Requests -> Places]
        /\ child \in Requests \cup {NoRequest}
    BY DEF Types, ProcessTypeOK
  <1>1. /\ at[r] \in {"consuming", "running"} /\ HasLine(r) /\ Read(r)
        /\ UNCHANGED <<inbox, job, child, holder, reads>>
    BY DEF ReadEvent, slotVars
  <1>2. \A d \in Requests : Serving(d)' \subseteq Serving(d)
    BY <1>0, <1>1, ReadServes
  <1>3. /\ r \in claimed /\ OnlyOf(c, r) /\ Settled(c)
        /\ child \in {c, NoRequest}
    BY <1>0, <1>1 DEF Separate, Coherent, Placed, Accounted, Hearing, InSession
  <1>4. CASE e.kind \in Terminal
    <2>1. BeginClose(r, TRUE, e.kind = "failed")
      BY <1>4 DEF ReadEvent
    <2>2. /\ at' = [at EXCEPT ![r] = "closing"] /\ UNCHANGED claimed
          /\ \A q \in Requests \ {r} : q \in condemning <=> q \in condemning'
          /\ e.kind = "failed" => r \in condemning'
      BY <2>1 DEF BeginClose, Goto
    <2>3. child = NoRequest \/ r \notin Serving(child)' \/ r \in condemning'
      <3>1. CASE e.kind = "failed"
        BY <2>2, <3>1
      <3>2. CASE e.kind \in {"completed", "cancelled"}
        <4>1. e.of # NoRequest /\ e.of \notin Serving(c)'
          BY <1>0, <1>1, <1>3, <3>2, ReadsLast
        <4>2. e.of \in Serving(c)
          BY <1>0, <1>1, Taken DEF Serving
        <4>3. e.of = r
          BY <1>3, <4>1, <4>2 DEF OnlyOf
        <4>4. child' = child /\ (child = NoRequest \/ child = c)
          BY <1>1, <1>3
        <4> QED BY <4>1, <4>3, <4>4 DEF Serving
      <3> QED BY <1>4, <3>1, <3>2 DEF Terminal
    <2>4. Accounted(r)'
      BY <1>0, <1>1, <1>3, <2>2, <2>3 DEF Accounted, Unsent, Unlaunched, Hearing, InSession
    <2> QED BY <1>0, <1>1, <2>2, <2>4, ReadSeparate
  <1>5. CASE e.kind \notin Terminal
    <2>1. /\ at' = [at EXCEPT ![r] = "running"] \/ at' = at
          /\ UNCHANGED <<claimed, condemning>>
      <3>1. Goto(r, IF e.kind = "initialized" THEN "running" ELSE at[r]) /\ Keep
        BY <1>5 DEF ReadEvent
      <3> QED BY <1>0, <3>1 DEF Keep, sessionVars, Goto
    <2>2. at'[r] \in {"consuming", "running"}
      BY <1>0, <1>1, <2>1
    <2>3. OnlyOf(c, r)'
      BY <1>0, <1>1, <1>2, <1>3 DEF OnlyOf
    <2>4. Accounted(r)'
      BY <1>0, <1>1, <1>3, <2>1, <2>2, <2>3 DEF Accounted, OnlyOf, Unsent, Unlaunched, Hearing, InSession
    <2> QED BY <1>0, <1>1, <2>1, <2>4, ReadSeparate
  <1> QED BY <1>4, <1>5

(* The unwind: a session whose job may be in the child retires it, and the *)
(* slot is given back with nothing of the session left behind it.          *)
LEMMA UnwindMoves ==
  ASSUME Types, Coherent, Separate, NEW r \in Requests,
         \/ Retire(r) \/ KeepWorker(r) \/ KillInRetire(r) \/ CloseStream(r) \/ ReleaseSubmission(r)
  PROVE  Separate'
  <1>0. /\ at \in [Requests -> Places] /\ child \in Requests \cup {NoRequest}
    BY DEF Types, ProcessTypeOK
  <1>1. Placed(r) /\ Accounted(r) /\ HandedOver
    BY DEF Coherent, Separate
  <1>2. UNCHANGED <<inbox, job, pipe>>
    BY DEF Retire, KeepWorker, KillInRetire, CloseStream, ReleaseSubmission, runtimeVars
  <1>3. \A c \in Requests : Serving(c)' = Serving(c)
    BY <1>2, WorkUntouched
  <1> USE <1>0 DEF Goto, Keep, sessionVars, slotVars
  <1>4. CASE Retire(r)
    <2>1. /\ \/ at' = [at EXCEPT ![r] = "killing"]
             \/ at' = [at EXCEPT ![r] = "streaming"] /\ holder # r
          /\ UNCHANGED <<holder, child, reads, claimed>> /\ condemning' = condemning \ {r}
      BY <1>4 DEF Retire, RetireBegin, RetireRefused
    <2>2. HandedOver' /\ Moves(r)
      BY <1>1, <1>2, <1>3, <2>1 DEF HandedOver, OnlyOf, Moves
    <2>3. Accounted(r)'
      BY <2>1 DEF Accounted, Unsent, Unlaunched, Hearing, InSession
    <2> QED BY <2>2, <2>3, MoveSeparate
  <1>5. CASE KeepWorker(r)
    <2>1. HandedOver' /\ Moves(r)
      BY <1>1, <1>2, <1>3, <1>5 DEF KeepWorker, HandedOver, OnlyOf, Moves
    <2>2. holder = r => child = NoRequest \/ r \notin Serving(child)
      BY <1>1, <1>5 DEF KeepWorker, Accounted
    <2>3. Accounted(r)'
      BY <1>3, <1>5, <2>2 DEF KeepWorker, Accounted, Unsent, Unlaunched, Hearing, InSession
    <2> QED BY <2>1, <2>3, MoveSeparate
  <1>6. CASE KillInRetire(r)
    <2>1. /\ child' = NoRequest /\ at' = [at EXCEPT ![r] = "streaming"]
          /\ UNCHANGED <<holder, reads, claimed, condemning>>
      BY <1>6 DEF KillInRetire, Kill, RetireEnd
    <2>2. HandedOver' /\ Moves(r)
      BY <1>2, <2>1 DEF HandedOver, Moves
    <2>3. Accounted(r)'
      BY <2>1 DEF Accounted, Unsent, Unlaunched, Hearing, InSession
    <2> QED BY <2>2, <2>3, MoveSeparate
  <1>7. CASE CloseStream(r) \/ ReleaseSubmission(r)
    <2>1. /\ holder' = holder \/ (holder = r /\ holder' = NoRequest)
          /\ at' = [at EXCEPT ![r] = "backstop"] \/ at' = [at EXCEPT ![r] = "done"]
          /\ UNCHANGED <<child, reads, condemning>>
          /\ \A q \in Requests \ {r} : q \in claimed <=> q \in claimed'
      BY <1>7 DEF CloseStream, ReleaseSubmission, Release, FreeSlot, ReleaseRefused
    <2>2. holder = r => child = NoRequest \/ r \notin Serving(child)
      BY <1>1, <1>7 DEF CloseStream, ReleaseSubmission, Accounted
    <2>3. HandedOver' /\ Moves(r)
      BY <1>1, <1>2, <1>3, <2>1, <2>2 DEF HandedOver, OnlyOf, Moves
    <2>4. Accounted(r)'
      BY <1>3, <2>1, <2>2 DEF Accounted, Unsent, Unlaunched, Hearing, InSession
    <2> QED BY <2>3, <2>4, MoveSeparate
  <1> QED BY <1>4, <1>5, <1>6, <1>7

LEMMA StepSeparate ==
  ASSUME Sheltered
  PROVE  Types /\ Coherent /\ Separate /\ [Next]_vars => Separate'
  <1> SUFFICES ASSUME Types, Coherent, Separate, [Next]_vars PROVE Separate'
    OBVIOUS
  <1>1. ASSUME NEW r \in Requests, Submit(r) PROVE Separate'
    BY <1>1, SubmitMoves, ReadStartingSeparate, WriteSeparate DEF Submit, ProcessStep
  <1>2. ASSUME NEW r \in Requests,
               SessionStep(r) \/ Open(r) \/ RequestCancel(r) \/ Raise(r) \/ Finalize(r)
        PROVE  Separate'
    BY <1>1, <1>2, SessionMoves, ReadEventSeparate, UnwindMoves DEF SessionStep
  <1>3. ASSUME NEW c \in Requests, ChildStep(c), UNCHANGED sessionVars PROVE Separate'
    BY <1>3, WorkSeparate DEF Keep
  <1>4. ASSUME UNCHANGED <<inbox, job, pipe, at, reads, holder, claimed, condemning>>,
               child' \in {child, NoRequest}
        PROVE  Separate'
    <2>1. \A r \in Requests : Accounted(r)'
      BY <1>4, WorkUntouched, Bystander
    <2>2. HandedOver'
      BY <1>4, WorkUntouched DEF Separate, HandedOver, OnlyOf, Types, ProcessTypeOK
    <2> QED BY <1>4, <2>1, <2>2, WorkUntouched DEF Separate
  <1>5. CASE DropWorkers \/ RefuseSubmissions \/ TerminateRead \/ TerminateForget \/ TerminateKill
    BY <1>4, <1>5 DEF DropWorkers, RefuseSubmissions, TerminateRead, TerminateForget, TerminateKill,
                      StopStep, CloseSlot, Keep, sessionVars, slotVars, runtimeVars
  <1>6. CASE UNCHANGED vars
    BY <1>4, <1>6 DEF vars, processVars, sessionVars, slotVars, runtimeVars
  <1> QED BY <1>2, <1>3, <1>5, <1>6 DEF Next, Finished

LEMMA SeparateInvariance ==
  ASSUME Sheltered
  PROVE  Spec => [](Types /\ Coherent /\ Separate)
  BY InitTyped, StepTyped, InitCoherent, StepCoherent, InitSeparate, StepSeparate, PTL DEF Spec

(* Whatever is in the child that a new request would be given belongs to   *)
(* the owner of the slot, however the sessions before it ended.            *)
THEOREM HandOverRule ==
  ASSUME Sheltered
  PROVE  Spec => []WorkServedIsTheHolders
  <1>1. Separate => WorkServedIsTheHolders
    BY DEF Separate, HandedOver, OnlyOf, WorkServedIsTheHolders, Running
  <1> QED BY <1>1, SeparateInvariance, PTL

(* No session reads an event of another's solve.                           *)
THEOREM EventsAreTheReaders ==
  ASSUME Sheltered
  PROVE  Spec => []EventsBelongToReader
  <1>1. Types /\ Separate => EventsBelongToReader
    <2> SUFFICES ASSUME Types, Separate, NEW r \in Requests, at[r] \in {"consuming", "running"},
                        reads[r] # NoRequest, NEW i \in DOMAIN pipe[reads[r]]
                 PROVE  pipe[reads[r]][i].of \in {r, NoRequest}
      BY DEF EventsBelongToReader
    <2>1. OnlyOf(reads[r], r)
      BY DEF Separate, Accounted, Hearing
    <2>2. pipe[reads[r]][i].of \in Serving(reads[r])
      BY DEF Serving
    <2> QED BY <2>1, <2>2 DEF OnlyOf
  <1> QED BY <1>1, SeparateInvariance, PTL

(* A child is killed only by the owner of the slot, who retires it with    *)
(* its own work in it or replaces it with none, or by a shutdown.          *)
THEOREM KillsHarmNobodyElse ==
  ASSUME Sheltered
  PROVE  Spec => KillsAreEntitled
  <1>1. Types /\ Coherent /\ Separate /\ [Next]_vars
        => [\A c \in alive \ alive' :
              Serving(c) \subseteq {mutex, NoRequest} \/ c \in crashed' \/ stop # "up"]_vars
    <2> SUFFICES ASSUME Types, Coherent, Separate, Next, NEW c \in alive \ alive', stop = "up",
                        c \notin crashed'
                 PROVE  Serving(c) \subseteq {mutex, NoRequest}
      BY DEF vars, processVars, runtimeVars
    <2>1. ASSUME NEW d \in Requests, ChildStep(d) PROVE FALSE
      BY <2>1, WorkTyped DEF ChildStep, Works, Types, ProcessTypeOK
    <2>2. PICK r \in Requests : StartFailed(r) \/ KillInRetire(r)
      BY <2>1, ZenonT(40)
              DEF Next, Finished, SessionStep, Submit, ProcessStep, DropWorkers, RefuseSubmissions,
                  TerminateRead, TerminateForget, TerminateKill, StopStep, Open, RequestCancel,
                  Raise, Finalize, StoreSubmission, StoreStream, SetSubmitted, Listen, BindStream,
                  StreamEOF, ReadEvent, EndStream, Retire, KeepWorker, CloseStream,
                  ReleaseSubmission, Acquire, CheckChild, Spawn, BindStarting, ReadStarting,
                  StartingEnds, TakeStdin, WriteRequest, ReturnStream, Unwind,
                  vars, processVars, runtimeVars
    <2>3. c = child /\ c \in Requests /\ c # NoRequest
      BY <2>2 DEF StartFailed, KillInRetire, Kill, Types, ProcessTypeOK, RuntimeTypeOK
    <2>4. holder = r /\ OnlyOf(c, r)
      BY <2>2, <2>3 DEF StartFailed, KillInRetire, Coherent, Placed, Owning, Separate, HandedOver
    <2>5. CASE StartFailed(r)
      <3>1. r \notin Serving(c)
        BY <2>3, <2>5 DEF StartFailed, Separate, Accounted, Unsent
      <3> QED BY <2>4, <3>1 DEF OnlyOf
    <2>6. CASE KillInRetire(r)
      BY <2>4, <2>6 DEF KillInRetire, RetireEnd, OnlyOf
    <2> QED BY <2>2, <2>5, <2>6
  <1> QED BY <1>1, SeparateInvariance, PTL DEF Spec, KillsAreEntitled
=============================================================================
