---------------------------- MODULE SlotClients -----------------------------
(***************************************************************************)
(* The submission slot under every caller it has.  A request calls         *)
(* acquire() once, on a thread of its own.  Once admitted it owns a        *)
(* SubmissionStream, and its unwind paths call the slot back in an order   *)
(* "nobody controls": the retirement, the stream's close and the backstop  *)
(* release, each at most once, before or after one another and after the   *)
(* slot has been given to somebody else.  A stream may also be dropped     *)
(* before anybody stored it; then its finalizer takes the place of its     *)
(* close, and of everything else if the submission was not stored either.  *)
(***************************************************************************)
EXTENDS SubmissionSlot

CONSTANTS Interruptible,  \* requests whose wait an asynchronous exception may end
          Droppable       \* requests whose stream may be lost unclosed

ASSUME CallersAssumption == Interruptible \cup Droppable \subseteq Requests

VARIABLES phase,   \* where each request is
          unwind   \* the calls its unwind paths have still to make

clientVars == <<phase, unwind>>
vars == <<slotVars, clientVars>>

Unwinds == {"retire", "stream", "backstop"}
Calls == Unwinds \cup {"finalizer"}

Phases == {"new",       \* has not called acquire()
           "calling",   \* inside acquire(), contending for the mutex
           "waiting",   \* inside acquire(), in _changed.wait()
           "owning",    \* admitted, and no release of its own has succeeded
           "returned",  \* gave the slot back
           "refused",   \* acquire() raised SubmissionClosed
           "stopped"}   \* acquire() left by an asynchronous exception

(* While a retirement runs, the request it runs for still owns the worker, *)
(* so nobody is admitted to a condemned one: "the slot never becomes free  *)
(* during the retirement".                                                 *)
RetirementIsTheHolders == mutex # NoRequest => holder = mutex

(* A caller in wait() and a caller in a wait set are the same thing.       *)
WaitSetsExact ==
  /\ \A r \in Requests : phase[r] = "waiting" <=> r \in parked \cup woken
  /\ parked \cap woken = {}

(* The types of the slot's record and of its callers, and what ties the    *)
(* one to the other: mutex names a request only inside that request's own  *)
(* retirement, and the wait sets hold exactly the callers in wait().       *)
TypeOK ==
  /\ SlotTypeOK
  /\ phase \in [Requests -> Phases]
  /\ unwind \in [Requests -> SUBSET Calls]
  /\ RetirementIsTheHolders
  /\ WaitSetsExact

Init ==
  /\ SlotInit
  /\ phase = [r \in Requests |-> "new"]
  /\ unwind = [r \in Requests |-> {}]

Goto(r, p) == phase' = [phase EXCEPT ![r] = p]
Made(r, c) == unwind' = [unwind EXCEPT ![r] = @ \ {c}]

-----------------------------------------------------------------------------
Call(r) ==
  /\ phase[r] = "new"
  /\ Goto(r, "calling")
  /\ UNCHANGED <<slotVars, unwind>>

(* The caller has the mutex: it just asked for it, or wait() returned.     *)
Turn(r) == phase[r] = "calling" \/ (phase[r] = "waiting" /\ r \in woken)

Acquire(r) ==
  /\ Turn(r)
  /\ Admit(r)
  /\ Goto(r, "owning")
  /\ unwind' = [unwind EXCEPT ![r] = Unwinds]

Wait(r) ==
  /\ Turn(r)
  /\ Park(r)
  /\ Goto(r, "waiting")
  /\ UNCHANGED unwind

TurnedAway(r) ==
  /\ Turn(r)
  /\ RaiseClosed(r)
  /\ Goto(r, "refused")
  /\ UNCHANGED unwind

Interrupt(r) ==
  /\ r \in Interruptible
  /\ phase[r] = "waiting"
  /\ LeaveWait(r)
  /\ Goto(r, "stopped")
  /\ UNCHANGED unwind

(* release(submission), from SubmissionStream.close or from the backstop.  *)
CallRelease(r) ==
  \E c \in unwind[r] \cap {"stream", "backstop"} :
    /\ Made(r, c)
    /\ \/ FreeSlot(r) /\ Goto(r, "returned")
       \/ ReleaseRefused(r) /\ UNCHANGED phase

StartRetire(r) ==
  /\ "retire" \in unwind[r]
  /\ RetireBegin(r)
  /\ Made(r, "retire")
  /\ UNCHANGED phase

FinishRetire(r) == RetireEnd(r) /\ UNCHANGED clientVars

StaleRetire(r) ==
  /\ "retire" \in unwind[r]
  /\ RetireRefused(r)
  /\ Made(r, "retire")
  /\ UNCHANGED phase

(* The stream is lost before it is stored, with or without the submission. *)
Drop(r) ==
  /\ r \in Droppable
  /\ phase[r] = "owning"
  /\ unwind[r] = Unwinds
  /\ \E left \in {{}, {"retire", "backstop"}} :
       unwind' = [unwind EXCEPT ![r] = left \cup {"finalizer"}]
  /\ UNCHANGED <<slotVars, phase>>

(* __del__: one best-effort close, on whichever thread the collector took, *)
(* be it the one inside this request's own retirement.                     *)
Finalize(r) ==
  /\ "finalizer" \in unwind[r]
  /\ Made(r, "finalizer")
  /\ \/ FreeSlot(r) /\ Goto(r, "returned")
     \/ ReleaseRefused(r) /\ UNCHANGED phase
     \/ GiveUp /\ UNCHANGED phase

Close == CloseSlot /\ UNCHANGED clientVars

-----------------------------------------------------------------------------
ThreadStep(r) ==
  \/ Acquire(r) \/ Wait(r) \/ TurnedAway(r)
  \/ CallRelease(r) \/ StartRetire(r) \/ StaleRetire(r)

Next ==
  \/ \E r \in Requests :
       Call(r) \/ ThreadStep(r) \/ FinishRetire(r)
         \/ Interrupt(r) \/ Drop(r) \/ Finalize(r)
  \/ Close

Spec == Init /\ [][Next]_vars

(* A thread that can take the mutex eventually does, and a retirement,     *)
(* whose callback waits for the child with a timeout, returns.  Nobody has *)
(* to call acquire() or close(), and the collector may never run.          *)
Fairness ==
  \A r \in Requests : WF_vars(ThreadStep(r)) /\ WF_vars(FinishRetire(r))

FairSpec == Spec /\ Fairness

-----------------------------------------------------------------------------
(* The slot's record of the holder and the callers' own view agree: the    *)
(* request that was admitted and has not given the slot back is exactly    *)
(* the one recorded, whatever stale unwinds ran in between.                *)
Owns(r) == phase[r] = "owning"

OwnershipExact == \A r \in Requests : Owns(r) <=> holder = r

(* A step may not change hands while retire()'s action runs, not even a    *)
(* finalizer that the collector runs on the retiring thread itself.        *)
RetireExcludesHandover == [][mutex # NoRequest => holder' = holder]_vars

(* Nobody is left in wait() once the slot is closed, and nobody goes back. *)
ClosedParksNobody == closed => parked = {}

(* After close() the slot only ever empties: a waiter that was woken late, *)
(* or a caller already contending for the mutex, is not let in.            *)
NoAdmissionAfterClose == [][closed => holder' \in {holder, NoRequest}]_vars

(* "a queued solve is meant to wait for the one in front of it": whenever  *)
(* callers are parked, somebody owns the slot or somebody has been told -  *)
(* or a waiter that had been told was interrupted, and told nobody.        *)
Interrupted == \E r \in Requests : phase[r] = "stopped"

QueuedBehindSomebody ==
  parked # {} => holder # NoRequest \/ woken # {} \/ Interrupted

(* A queued request is eventually answered - admitted or refused - unless  *)
(* a wake-up was lost to an interrupt, or an owner lost its stream and has *)
(* nothing left but a finalizer to give the slot back with.                *)
Lost(r) == Owns(r) /\ unwind[r] \subseteq {"finalizer"}

EveryWaiterAnswered ==
  \A r \in Requests :
    phase[r] = "waiting"
      ~> phase[r] # "waiting" \/ Interrupted \/ \E q \in Requests : Lost(q)

(* close() is the way out of a slot that a lost owner holds for ever.      *)
CloseEndsTheQueue ==
  \A r \in Requests : closed ~> phase[r] \notin {"calling", "waiting"}

-----------------------------------------------------------------------------
(* The mapping to what the slot promises.                                  *)
Standing ==
  [r \in Requests |->
     CASE phase[r] = "new" -> "outside"
       [] phase[r] \in {"calling", "waiting"} -> "queued"
       [] Owns(r) -> "owner"
       [] OTHER -> "gone"]

Ownership == INSTANCE WorkerOwnership
  WITH owner <- holder, standing <- Standing,
       retiring <- mutex # NoRequest, shut <- closed

ImplementsOwnership == Ownership!Spec
=============================================================================
