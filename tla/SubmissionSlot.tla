--------------------------- MODULE SubmissionSlot ---------------------------
(***************************************************************************)
(* The ownership primitive of hornlab_beat_bem/submission.py: one mutex,   *)
(* one recorded holder, a set of threads parked on a condition variable    *)
(* and a terminal "closed" flag.  Every method that runs wholly inside the *)
(* mutex is one action guarded by MutexFree; retire(), which keeps the     *)
(* mutex for as long as its callback runs, is a pair of actions.           *)
(*                                                                         *)
(* A Submission is an identity and nothing else, and a request acquires at *)
(* most one, so a submission is represented by the request it was issued   *)
(* to; the serial number, which only logs read, is left out.               *)
(*                                                                         *)
(* The module holds the operations only: SlotClients drives them with      *)
(* arbitrary callers, ChildWorker with the sessions of worker.py.          *)
(*                                                                         *)
(* An operator under "Mutant" is not the code: it is the operation below   *)
(* it with a mistake somebody could make, and is used only to see that a   *)
(* property notices.                                                       *)
(***************************************************************************)
EXTENDS BeatRequests

VARIABLES holder,   \* _holder: whose submission owns the slot
          closed,   \* _closed: admits nobody from now on
          mutex,    \* the request inside retire(), which keeps the mutex
          parked,   \* callers blocked in _changed.wait()
          woken     \* notified callers that have not yet got the mutex back

slotVars == <<holder, closed, mutex, parked, woken>>

SlotTypeOK ==
  /\ holder \in Requests \cup {NoRequest}
  /\ closed \in BOOLEAN
  /\ mutex \in Requests \cup {NoRequest}
  /\ parked \in SUBSET Requests
  /\ woken \in SUBSET Requests

SlotInit ==
  /\ holder = NoRequest
  /\ closed = FALSE
  /\ mutex = NoRequest
  /\ parked = {}
  /\ woken = {}

MutexFree == mutex = NoRequest

-----------------------------------------------------------------------------
(* acquire(): one turn of its loop, taken with the mutex.  A caller that   *)
(* was woken and finds the slot taken again parks again.                   *)

(* Mutant: acquire() looks at _closed only before its first wait.          *)
AdmitWithoutClosed(r) ==
  /\ MutexFree
  /\ holder = NoRequest
  /\ holder' = r
  /\ woken' = woken \ {r}
  /\ UNCHANGED <<closed, mutex, parked>>

Admit(r) ==
  /\ MutexFree
  /\ ~closed
  /\ holder = NoRequest
  /\ holder' = r
  /\ woken' = woken \ {r}
  /\ UNCHANGED <<closed, mutex, parked>>

Park(r) ==
  /\ MutexFree
  /\ ~closed
  /\ holder # NoRequest
  /\ parked' = parked \cup {r}
  /\ woken' = woken \ {r}
  /\ UNCHANGED <<holder, closed, mutex>>

RaiseClosed(r) ==
  /\ MutexFree
  /\ closed
  /\ woken' = woken \ {r}
  /\ UNCHANGED <<holder, closed, mutex, parked>>

(* An asynchronous exception delivered to a thread blocked in wait(): it   *)
(* leaves acquire() with the mutex released and its waiter forgotten.  A   *)
(* notification it had already consumed is not passed on.                  *)
LeaveWait(r) ==
  /\ MutexFree
  /\ r \in parked \cup woken
  /\ parked' = parked \ {r}
  /\ woken' = woken \ {r}
  /\ UNCHANGED <<holder, closed, mutex>>

-----------------------------------------------------------------------------
(* release(): only the recorded holder frees the slot, and one waiter is   *)
(* notified.  Which one is left open: FIFO order is an accident of the     *)
(* condition variable that no caller relies on.                            *)

NotifyOne ==
  \/ /\ parked = {}
     /\ UNCHANGED <<parked, woken>>
  \/ \E w \in parked :
       /\ parked' = parked \ {w}
       /\ woken' = woken \cup {w}

(* Mutant: a bare lock, which whoever reaches it may release.              *)
FreeSlotByAnyone(r) ==
  /\ MutexFree
  /\ holder # NoRequest
  /\ holder' = NoRequest
  /\ NotifyOne
  /\ UNCHANGED <<closed, mutex>>

(* Mutant: a reentrant mutex, which a finalizer enters during retire().    *)
FreeSlotReentrant(r) ==
  /\ mutex \in {NoRequest, r}
  /\ holder = r
  /\ holder' = NoRequest
  /\ NotifyOne
  /\ UNCHANGED <<closed, mutex>>

(* Mutant: release() without notify().                                     *)
FreeSlotSilently(r) ==
  /\ MutexFree
  /\ holder = r
  /\ holder' = NoRequest
  /\ UNCHANGED <<closed, mutex, parked, woken>>

FreeSlot(r) ==
  /\ MutexFree
  /\ holder = r
  /\ holder' = NoRequest
  /\ NotifyOne
  /\ UNCHANGED <<closed, mutex>>

ReleaseRefused(r) ==
  /\ MutexFree
  /\ holder # r
  /\ UNCHANGED slotVars

Release(r) == FreeSlot(r) \/ ReleaseRefused(r)

(* release() inside best_effort_release(): it never waits for the mutex.   *)
(* Besides the retirement that mutex records, any thread can be inside for *)
(* an instant, so giving up is always a possible outcome.                  *)
GiveUp == UNCHANGED slotVars

-----------------------------------------------------------------------------
(* retire(): refused to anyone but the holder; the action runs with the    *)
(* mutex held and the slot still owned.                                    *)

(* Mutant: retire() for a submission that may have been given back.        *)
RetireBeginByAnyone(r) ==
  /\ MutexFree
  /\ mutex' = r
  /\ UNCHANGED <<holder, closed, parked, woken>>

RetireBegin(r) ==
  /\ MutexFree
  /\ holder = r
  /\ mutex' = r
  /\ UNCHANGED <<holder, closed, parked, woken>>

RetireEnd(r) ==
  /\ mutex = r
  /\ mutex' = NoRequest
  /\ UNCHANGED <<holder, closed, parked, woken>>

RetireRefused(r) ==
  /\ MutexFree
  /\ holder # r
  /\ UNCHANGED slotVars

(* Mutant: close() with notify() for notify_all().                         *)
CloseNotifiesOne ==
  /\ MutexFree
  /\ closed' = TRUE
  /\ NotifyOne
  /\ UNCHANGED <<holder, mutex>>

(* Mutant: close() that tells nobody.                                      *)
CloseSilently ==
  /\ MutexFree
  /\ closed' = TRUE
  /\ UNCHANGED <<holder, mutex, parked, woken>>

(* close(): nobody is admitted any more and everybody is told; the holder  *)
(* keeps the slot.                                                         *)
CloseSlot ==
  /\ MutexFree
  /\ closed' = TRUE
  /\ woken' = woken \cup parked
  /\ parked' = {}
  /\ UNCHANGED <<holder, mutex>>
=============================================================================
