--------------------------- MODULE WorkerOwnership --------------------------
(***************************************************************************)
(* What the submission slot promises, without mutexes, wait sets or        *)
(* unwind paths: a worker has at most one owner; ownership begins by a     *)
(* grant and ends only because the owner gives it back; while the owner    *)
(* retires the worker nothing changes hands; once shut, nobody is granted  *)
(* the worker again, and whoever queues is turned away.                    *)
(***************************************************************************)
CONSTANTS Requests, NoRequest

VARIABLES owner,      \* who may drive the worker
          standing,   \* where each request stands with the worker
          retiring,   \* the owner is stopping the runtime
          shut        \* no further grants

ownershipVars == <<owner, standing, retiring, shut>>

Standings == {"outside", "queued", "owner", "gone"}

OwnershipTypeOK ==
  /\ owner \in Requests \cup {NoRequest}
  /\ standing \in [Requests -> Standings]
  /\ retiring \in BOOLEAN
  /\ shut \in BOOLEAN

Init ==
  /\ owner = NoRequest
  /\ standing = [r \in Requests |-> "outside"]
  /\ retiring = FALSE
  /\ shut = FALSE

Queue(r) ==
  /\ standing[r] = "outside"
  /\ standing' = [standing EXCEPT ![r] = "queued"]
  /\ UNCHANGED <<owner, retiring, shut>>

Grant(r) ==
  /\ standing[r] = "queued"
  /\ owner = NoRequest
  /\ ~shut
  /\ owner' = r
  /\ standing' = [standing EXCEPT ![r] = "owner"]
  /\ UNCHANGED <<retiring, shut>>

(* A queued request leaves: the worker was shut, or its caller gave up.    *)
Leave(r) ==
  /\ standing[r] = "queued"
  /\ standing' = [standing EXCEPT ![r] = "gone"]
  /\ UNCHANGED <<owner, retiring, shut>>

StartRetiring ==
  /\ owner # NoRequest
  /\ ~retiring
  /\ retiring' = TRUE
  /\ UNCHANGED <<owner, standing, shut>>

FinishRetiring ==
  /\ retiring
  /\ retiring' = FALSE
  /\ UNCHANGED <<owner, standing, shut>>

GiveBack(r) ==
  /\ standing[r] = "owner"
  /\ ~retiring
  /\ owner' = NoRequest
  /\ standing' = [standing EXCEPT ![r] = "gone"]
  /\ UNCHANGED <<retiring, shut>>

Shut ==
  /\ ~retiring
  /\ shut' = TRUE
  /\ UNCHANGED <<owner, standing, retiring>>

Next ==
  \/ \E r \in Requests : Queue(r) \/ Grant(r) \/ Leave(r) \/ GiveBack(r)
  \/ StartRetiring
  \/ FinishRetiring
  \/ Shut

Spec == Init /\ [][Next]_ownershipVars
=============================================================================
