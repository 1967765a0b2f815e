-------------------------- MODULE SlotClientsProofs -------------------------
(***************************************************************************)
(* What holds of the submission slot for every set of callers.  The        *)
(* inductive invariant ties the slot's record of the holder to the         *)
(* callers' own view of it, and the wait sets to the callers inside        *)
(* wait(): neither half is inductive alone, because a release is honoured  *)
(* by the record and a waiter is admitted by its place in acquire().       *)
(***************************************************************************)
EXTENDS SlotClients, TLAPS

IInv ==
  /\ TypeOK
  /\ OwnershipExact
  /\ ClosedParksNobody

USE NoRequestAssumption, CallersAssumption

(* Nothing is owned, parked or closed at the start.                        *)
LEMMA InitEstablishes == Init => IInv
  BY DEF Init, SlotInit, IInv, TypeOK, SlotTypeOK, Phases, Calls, Unwinds,
         OwnershipExact, Owns, RetirementIsTheHolders, ClosedParksNobody,
         WaitSetsExact

(* Every call of every caller preserves the agreement between the slot and *)
(* its callers.                                                            *)
LEMMA StepPreserves == IInv /\ [Next]_vars => IInv'
  <1> SUFFICES ASSUME IInv, [Next]_vars PROVE IInv'
    OBVIOUS
  <1> USE DEF IInv, TypeOK, SlotTypeOK, Phases, Calls, Unwinds, OwnershipExact, Owns,
              RetirementIsTheHolders, ClosedParksNobody, WaitSetsExact,
              MutexFree, Goto, Made
  <1>1. ASSUME NEW r \in Requests, Call(r) PROVE IInv'
    BY <1>1 DEF Call, slotVars
  <1>2. ASSUME NEW r \in Requests, Acquire(r) PROVE IInv'
    BY <1>2 DEF Acquire, Turn, Admit
  <1>3. ASSUME NEW r \in Requests, Wait(r) PROVE IInv'
    BY <1>3 DEF Wait, Turn, Park
  <1>4. ASSUME NEW r \in Requests, TurnedAway(r) PROVE IInv'
    BY <1>4 DEF TurnedAway, Turn, RaiseClosed
  <1>5. ASSUME NEW r \in Requests, Interrupt(r) PROVE IInv'
    BY <1>5 DEF Interrupt, LeaveWait
  <1>6. ASSUME NEW r \in Requests, CallRelease(r) PROVE IInv'
    <2>1. PICK c \in unwind[r] \cap {"stream", "backstop"} :
            /\ Made(r, c)
            /\ \/ FreeSlot(r) /\ Goto(r, "returned")
               \/ ReleaseRefused(r) /\ UNCHANGED phase
      BY <1>6 DEF CallRelease
    <2>2. CASE FreeSlot(r) /\ Goto(r, "returned")
      BY <2>1, <2>2 DEF FreeSlot, NotifyOne
    <2>3. CASE ReleaseRefused(r) /\ UNCHANGED phase
      BY <2>1, <2>3 DEF ReleaseRefused, slotVars
    <2> QED BY <2>1, <2>2, <2>3
  <1>7. ASSUME NEW r \in Requests, StartRetire(r) PROVE IInv'
    BY <1>7 DEF StartRetire, RetireBegin
  <1>8. ASSUME NEW r \in Requests, StaleRetire(r) PROVE IInv'
    BY <1>8 DEF StaleRetire, RetireRefused, slotVars
  <1>9. ASSUME NEW r \in Requests, FinishRetire(r) PROVE IInv'
    BY <1>9 DEF FinishRetire, RetireEnd, clientVars
  <1>10. ASSUME NEW r \in Requests, Drop(r) PROVE IInv'
    BY <1>10 DEF Drop, slotVars
  <1>11. ASSUME NEW r \in Requests, Finalize(r) PROVE IInv'
    <2>1. CASE FreeSlot(r) /\ Goto(r, "returned")
      BY <1>11, <2>1 DEF Finalize, FreeSlot, NotifyOne
    <2>2. CASE UNCHANGED <<slotVars, phase>>
      BY <1>11, <2>2 DEF Finalize, slotVars
    <2> QED BY <1>11, <2>1, <2>2 DEF Finalize, ReleaseRefused, GiveUp, slotVars
  <1>12. CASE Close
    BY <1>12 DEF Close, CloseSlot, clientVars
  <1>13. CASE UNCHANGED vars
    BY <1>13 DEF vars, slotVars, clientVars
  <1> QED
    BY <1>1, <1>2, <1>3, <1>4, <1>5, <1>6, <1>7, <1>8, <1>9, <1>10, <1>11,
       <1>12, <1>13 DEF Next, ThreadStep

LEMMA Invariance == Spec => []IInv
  BY InitEstablishes, StepPreserves, PTL DEF Spec

-----------------------------------------------------------------------------
(* Type correctness of the slot and its callers: retire() runs for the     *)
(* holder only, and the wait sets are the callers in wait().               *)
THEOREM SlotTyped == Spec => []TypeOK
  <1>1. IInv => TypeOK
    BY DEF IInv
  <1> QED BY <1>1, Invariance, PTL

(* release() and retire() are honoured only for the holder: the recorded   *)
(* holder is exactly the request that was admitted and has not let go.     *)
THEOREM OwnershipIsExact == Spec => []OwnershipExact
  <1>1. IInv => OwnershipExact
    BY DEF IInv
  <1> QED BY <1>1, Invariance, PTL

(* close() leaves nobody in wait().                                        *)
THEOREM ClosedSlotParksNobody == Spec => []ClosedParksNobody
  <1>1. IInv => ClosedParksNobody
    BY DEF IInv
  <1> QED BY <1>1, Invariance, PTL

(* retire() keeps the mutex for the whole of its action, so nothing changes *)
(* hands while it runs.                                                    *)
THEOREM NothingHandedOverInRetire == Spec => RetireExcludesHandover
  <1>1. IInv /\ [Next]_vars => [mutex # NoRequest => holder' = holder]_vars
    BY DEF Next, vars, slotVars, clientVars, ThreadStep, Call, Acquire, Admit,
           Wait, Park, TurnedAway, RaiseClosed, Interrupt, LeaveWait,
           CallRelease, FreeSlot, ReleaseRefused, StartRetire, RetireBegin,
           StaleRetire, RetireRefused, FinishRetire, RetireEnd, Drop,
           Finalize, GiveUp, Close, CloseSlot, MutexFree
  <1> QED BY <1>1, Invariance, PTL DEF Spec, RetireExcludesHandover

(* A closed slot admits nobody, not even a caller it woke too late.        *)
THEOREM ClosedSlotAdmitsNobody == Spec => NoAdmissionAfterClose
  <1>1. [Next]_vars => [closed => holder' \in {holder, NoRequest}]_vars
    BY DEF Next, vars, slotVars, clientVars, ThreadStep, Call, Acquire, Admit,
           Wait, Park, TurnedAway, RaiseClosed, Interrupt, LeaveWait,
           CallRelease, FreeSlot, ReleaseRefused, StartRetire, RetireBegin,
           StaleRetire, RetireRefused, FinishRetire, RetireEnd, Drop,
           Finalize, GiveUp, Close, CloseSlot
  <1> QED BY <1>1, PTL DEF Spec, NoAdmissionAfterClose

-----------------------------------------------------------------------------
(* A wake-up reaches a caller that is still in acquire(): release() tells  *)
(* one of those that are parked, and only an interrupted caller leaves     *)
(* without taking the slot, parking again or seeing it closed.             *)
LEMMA StepKeepsWakeups ==
  IInv /\ QueuedBehindSomebody /\ [Next]_vars => QueuedBehindSomebody'
  <1> SUFFICES ASSUME IInv, QueuedBehindSomebody, [Next]_vars
               PROVE  QueuedBehindSomebody'
    OBVIOUS
  <1> USE DEF IInv, TypeOK, SlotTypeOK, ClosedParksNobody, WaitSetsExact,
              QueuedBehindSomebody
  <1>1. ASSUME NEW r \in Requests, FreeSlot(r) PROVE QueuedBehindSomebody'
    BY <1>1 DEF FreeSlot, NotifyOne
  <1>2. ASSUME NEW r \in Requests, Acquire(r) PROVE QueuedBehindSomebody'
    BY <1>2 DEF Acquire, Admit
  <1>3. ASSUME NEW r \in Requests, Wait(r) PROVE QueuedBehindSomebody'
    BY <1>3 DEF Wait, Park
  <1>4. ASSUME NEW r \in Requests, TurnedAway(r) PROVE QueuedBehindSomebody'
    BY <1>4 DEF TurnedAway, RaiseClosed
  <1>5. ASSUME NEW r \in Requests, Interrupt(r) PROVE QueuedBehindSomebody'
    BY <1>5 DEF Interrupt, Interrupted, Goto
  <1>6. ASSUME NEW r \in Requests, Call(r) PROVE QueuedBehindSomebody'
    BY <1>6 DEF Call, Goto, Interrupted, slotVars
  <1>7. CASE Close
    BY <1>7 DEF Close, CloseSlot
  <1>8. CASE UNCHANGED <<holder, parked, woken, phase>>
    BY <1>8 DEF Interrupted
  <1> QED
    BY <1>1, <1>2, <1>3, <1>4, <1>5, <1>6, <1>7, <1>8
       DEF Next, vars, slotVars, clientVars, ThreadStep, CallRelease,
           ReleaseRefused, StartRetire, RetireBegin, StaleRetire,
           RetireRefused, FinishRetire, RetireEnd, Drop, Finalize, GiveUp

(* Callers parked in acquire() always have somebody in front of them, and  *)
(* nothing but an exception inside wait() can take that away.              *)
THEOREM QueueNeverStrands == Spec => []QueuedBehindSomebody
  <1>1. Init => QueuedBehindSomebody
    BY DEF Init, SlotInit, QueuedBehindSomebody
  <1> QED BY <1>1, StepKeepsWakeups, Invariance, PTL DEF Spec

-----------------------------------------------------------------------------
(* Every call maps to a step of WorkerOwnership, or to a stutter.          *)
LEMMA StepImplements ==
  IInv /\ [Next]_vars => [Ownership!Next]_Ownership!ownershipVars
  <1> SUFFICES ASSUME IInv, [Next]_vars
               PROVE  [Ownership!Next]_Ownership!ownershipVars
    OBVIOUS
  <1> USE DEF IInv, TypeOK, SlotTypeOK, OwnershipExact, Owns, MutexFree, Goto,
              Standing, Ownership!ownershipVars, RetirementIsTheHolders
  <1>1. ASSUME NEW r \in Requests, Call(r)
        PROVE  Ownership!Queue(r)
    BY <1>1 DEF Call, slotVars, Ownership!Queue, Phases
  <1>2. ASSUME NEW r \in Requests, Acquire(r)
        PROVE  Ownership!Grant(r)
    BY <1>2 DEF Acquire, Turn, Admit, Ownership!Grant, Phases
  <1>3. ASSUME NEW r \in Requests, Wait(r)
        PROVE  UNCHANGED Ownership!ownershipVars
    BY <1>3 DEF Wait, Turn, Park, Phases
  <1>4. ASSUME NEW r \in Requests, TurnedAway(r) \/ Interrupt(r)
        PROVE  Ownership!Leave(r)
    <2>1. Goto(r, "refused") \/ Goto(r, "stopped")
      BY <1>4 DEF TurnedAway, Interrupt
    <2>2. phase[r] \in {"calling", "waiting"} /\ holder # r
      BY <1>4 DEF TurnedAway, Turn, Interrupt, Phases
    <2>3. UNCHANGED <<holder, mutex, closed>>
      BY <1>4 DEF TurnedAway, RaiseClosed, Interrupt, LeaveWait
    <2>4. Standing[r] = "queued"
      BY <2>2
    <2>5. Standing' = [Standing EXCEPT ![r] = "gone"]
      <3>1. CASE Goto(r, "refused")
        BY <2>2, <3>1
      <3>2. CASE Goto(r, "stopped")
        BY <2>2, <3>2
      <3> QED BY <2>1, <3>1, <3>2
    <2> QED BY <2>3, <2>4, <2>5 DEF Ownership!Leave
  <1>5. ASSUME NEW r \in Requests, FreeSlot(r), Goto(r, "returned")
        PROVE  Ownership!GiveBack(r)
    BY <1>5 DEF FreeSlot, Ownership!GiveBack, Phases
  <1>6. ASSUME NEW r \in Requests, StartRetire(r)
        PROVE  Ownership!StartRetiring
    BY <1>6 DEF StartRetire, RetireBegin, Ownership!StartRetiring
  <1>7. ASSUME NEW r \in Requests, FinishRetire(r)
        PROVE  Ownership!FinishRetiring
    BY <1>7 DEF FinishRetire, RetireEnd, clientVars, Ownership!FinishRetiring
  <1>9. ASSUME Close PROVE Ownership!Shut
    BY <1>9 DEF Close, CloseSlot, clientVars, Ownership!Shut
  <1>10. ASSUME UNCHANGED slotVars, UNCHANGED phase
         PROVE  UNCHANGED Ownership!ownershipVars
    BY <1>10 DEF slotVars
  <1>11. ASSUME NEW r \in Requests, CallRelease(r)
         PROVE  Ownership!GiveBack(r) \/ UNCHANGED Ownership!ownershipVars
    BY <1>11, <1>5, <1>10 DEF CallRelease, ReleaseRefused
  <1>12. ASSUME NEW r \in Requests, Finalize(r) \/ Drop(r)
         PROVE  Ownership!GiveBack(r) \/ UNCHANGED Ownership!ownershipVars
    BY <1>12, <1>5, <1>10 DEF Finalize, ReleaseRefused, GiveUp, Drop
  <1> QED
    BY <1>1, <1>2, <1>3, <1>4, <1>6, <1>7, <1>9, <1>10, <1>11, <1>12
       DEF Next, ThreadStep, Ownership!Next, StaleRetire, RetireRefused, vars,
           clientVars

(* The slot, with its mutex, wait sets, stale unwinds and finalizers,      *)
(* implements exclusive ownership of the worker.                           *)
THEOREM SlotImplementsOwnership == Spec => ImplementsOwnership
  <1>1. Init => Ownership!Init
    <2> SUFFICES ASSUME Init PROVE Ownership!Init
      OBVIOUS
    <2>1. \A r \in Requests : phase[r] = "new"
      BY DEF Init
    <2>2. Standing = [r \in Requests |-> "outside"]
      BY <2>1 DEF Standing, Owns
    <2> QED BY <2>2 DEF Init, SlotInit, Ownership!Init
  <1> QED
    BY <1>1, StepImplements, Invariance, PTL
       DEF Spec, ImplementsOwnership, Ownership!Spec
=============================================================================
