--------------------------- MODULE WorkerProcess ----------------------------
(***************************************************************************)
(* BeatWorkerProcess of worker.py: the object that starts one Julia child  *)
(* after another and writes requests to it, as the threads that call its   *)
(* submit() and ensure_started() execute it.  The slot serialises those    *)
(* threads; terminate() goes around it.                                    *)
(*                                                                         *)
(* Operations only: ChildWorker calls them from the sessions of one        *)
(* application, WorkerHost from the connections of a host.  A composing    *)
(* module adds its own places to at, and says what else is unchanged.      *)
(***************************************************************************)
EXTENDS SubmissionSlot, JuliaRuntime

CONSTANTS Warmers,   \* requests that only call ensure_started()
          Failures,  \* a launch may fail, and a child die of itself
          Stubborn   \* a killed child may outlive its kill's timeouts

ASSUME ProcessAssumption ==
  /\ Warmers \subseteq Requests
  /\ {Failures, Stubborn} \subseteq BOOLEAN

VARIABLES child,  \* _process, NoRequest for None
          at,     \* where each request's thread is
          reads   \* the child whose stdin or stdout the thread has at hand

processVars == <<slotVars, runtimeVars, child, at, reads>>

InSubmit == {"admitted", "spawning", "starting", "ready", "writing", "flushed"}
Over == {"done", "raised", "brokenpipe"}
ProcessPlaces ==
  {"new", "calling", "parked", "startfailed", "unwinding", "severed", "returned"}
    \cup InSubmit \cup Over

ProcessTypeOK ==
  /\ SlotTypeOK
  /\ RuntimeTypeOK
  /\ child \in Requests \cup {NoRequest}
  /\ reads \in [Requests -> Requests \cup {NoRequest}]

ProcessInit ==
  /\ SlotInit
  /\ RuntimeInit
  /\ child = NoRequest
  /\ reads = [r \in Requests |-> NoRequest]

Goto(r, place) == at' = [at EXCEPT ![r] = place]
Running == child # NoRequest /\ child \in alive

-----------------------------------------------------------------------------
(* acquire().                                                              *)

Acquire(r) ==
  /\ at[r] = "calling" \/ (at[r] = "parked" /\ r \in woken)
  /\ \/ Admit(r) /\ Goto(r, "admitted")
     \/ Park(r) /\ Goto(r, "parked")
     \/ RaiseClosed(r) /\ Goto(r, "raised")
  /\ UNCHANGED <<runtimeVars, child, reads>>

-----------------------------------------------------------------------------
(* _ensure_started(): reuse the child that is running, or launch one and   *)
(* wait for its "ready".  The launch may fail before there is a child.     *)

(* Mutant: the child is launched without asking whether one is running.    *)
CheckChildNever(r) ==
  /\ at[r] = "admitted"
  /\ Goto(r, "spawning")
  /\ UNCHANGED <<slotVars, runtimeVars, child, reads>>

CheckChild(r) ==
  /\ at[r] = "admitted"
  /\ Goto(r, IF Running THEN "ready" ELSE "spawning")
  /\ UNCHANGED <<slotVars, runtimeVars, child, reads>>

Spawn(r) ==
  /\ at[r] = "spawning"
  /\ \/ /\ child' = r
        /\ alive' = alive \cup {r}
        /\ Goto(r, "starting")
     \/ Failures /\ UNCHANGED <<child, alive>> /\ Goto(r, "unwinding")
  /\ UNCHANGED <<slotVars, reads, booted, crashed, inbox, job, solving,
                 pipe, cancelFiles>>

(* _read_events() looks _process up when its first line is asked for, not  *)
(* when it is called.  Without a child it ends at once.                    *)
Bind(r, place, ended) ==
  /\ reads[r] = NoRequest
  /\ reads' = [reads EXCEPT ![r] = child]
  /\ Goto(r, IF child = NoRequest THEN ended ELSE place)

BindStarting(r) ==
  /\ at[r] = "starting"
  /\ Bind(r, "starting", "startfailed")
  /\ UNCHANGED <<slotVars, runtimeVars, child>>

Read(r) == pipe' = [pipe EXCEPT ![reads[r]] = Tail(@)]
NextLine(r) == Head(pipe[reads[r]])
HasLine(r) == reads[r] # NoRequest /\ pipe[reads[r]] # <<>>
AtEOF(r) == reads[r] # NoRequest /\ reads[r] \notin alive /\ pipe[reads[r]] = <<>>

ReadStarting(r) ==
  /\ at[r] = "starting"
  /\ HasLine(r)
  /\ Read(r)
  /\ Goto(r, IF NextLine(r).kind = "ready" THEN "ready" ELSE "startfailed")
  /\ UNCHANGED <<slotVars, child, reads, alive, booted, crashed, inbox,
                 job, solving, cancelFiles>>

(* The child's end of file: _process is set to None, whatever it is now.   *)
StartingEnds(r) ==
  /\ at[r] = "starting"
  /\ AtEOF(r)
  /\ child' = NoRequest
  /\ Goto(r, "unwinding")
  /\ UNCHANGED <<slotVars, runtimeVars, reads>>

(* _kill_process().  In the thread that owns the slot the look-up and the  *)
(* store of None are one step: nobody else launches a child meanwhile.     *)
(* The wait for the child may time out twice and raise.                    *)
Kill(r) ==
  /\ child' = NoRequest
  /\ \/ alive' = alive \ {child}
     \/ Stubborn /\ UNCHANGED alive

StartFailed(r) ==
  /\ at[r] = "startfailed"
  /\ Kill(r)
  /\ Goto(r, "unwinding")
  /\ UNCHANGED <<slotVars, reads, booted, crashed, inbox, job, solving,
                 pipe, cancelFiles>>

-----------------------------------------------------------------------------
(* submit(): the request line, then the stream.  A warm-up stops short of  *)
(* both and gives the slot back (held()).                                  *)

TakeStdin(r) ==
  /\ at[r] = "ready"
  /\ reads' = [reads EXCEPT ![r] = child]
  /\ Goto(r, IF r \in Warmers \/ child = NoRequest THEN "unwinding" ELSE "writing")
  /\ UNCHANGED <<slotVars, runtimeVars, child>>

(* Writing to a child that has died in the meantime raises BrokenPipeError *)
(* where everything else raises a RuntimeError.                            *)
WriteRequest(r) ==
  /\ at[r] = "writing"
  /\ \/ /\ reads[r] \in alive
        /\ inbox' = [inbox EXCEPT ![reads[r]] = Append(@, r)]
        /\ Goto(r, "flushed")
     \/ /\ reads[r] \notin alive
        /\ Goto(r, "severed")
        /\ UNCHANGED inbox
  /\ reads' = [reads EXCEPT ![r] = NoRequest]
  /\ UNCHANGED <<slotVars, child, alive, booted, crashed, job, solving,
                 pipe, cancelFiles>>

ReturnStream(r) ==
  /\ at[r] = "flushed"
  /\ Goto(r, "returned")
  /\ UNCHANGED <<slotVars, runtimeVars, child, reads>>

(* Mutant: submit() raises with the slot still held.                       *)
UnwindKeepsSlot(r) ==
  /\ at[r] \in {"unwinding", "severed"}
  /\ Goto(r, "raised")
  /\ UNCHANGED <<slotVars, runtimeVars, child, reads>>

(* The except clause of submit(), and the end of held().                   *)
Unwind(r) ==
  /\ at[r] \in {"unwinding", "severed"}
  /\ Release(r)
  /\ Goto(r, IF at[r] = "severed" THEN "brokenpipe" ELSE "raised")
  /\ UNCHANGED <<runtimeVars, child, reads>>

-----------------------------------------------------------------------------
(* The event stream: _iter_events_for_submission() over _read_events().    *)

BindStream(r, place, ended) ==
  /\ at[r] = place
  /\ Bind(r, place, ended)
  /\ UNCHANGED <<slotVars, runtimeVars, child>>

(* The child is gone: _read_events() sets _process to None, whatever it is *)
(* now.  The generator's finally gives the slot back in a step of its own. *)
StreamEOF(r, ended) ==
  /\ AtEOF(r)
  /\ child' = NoRequest
  /\ Goto(r, ended)
  /\ UNCHANGED <<slotVars, runtimeVars, reads>>

ProcessStep(r) ==
  \/ Acquire(r) \/ CheckChild(r) \/ Spawn(r) \/ BindStarting(r)
  \/ ReadStarting(r) \/ StartingEnds(r) \/ StartFailed(r)
  \/ TakeStdin(r) \/ WriteRequest(r) \/ ReturnStream(r) \/ Unwind(r)

ChildStep(c) ==
  /\ RuntimeStep(c) \/ (Failures /\ (BootFails(c) \/ Crash(c)))
  /\ UNCHANGED <<slotVars, child, at, reads>>

(* A job that was started ends, and a child that boots says so.            *)
ChildFairness ==
  \A c \in Requests :
    WF_processVars(RuntimeStep(c) /\ UNCHANGED <<slotVars, child, at, reads>>)

-----------------------------------------------------------------------------
(* The hand-over rule: whatever is in the child a new request would be     *)
(* given - a job, a request line, an unread event - belongs to the request *)
(* that holds the slot.  In particular a free slot means an idle child     *)
(* with nothing left to read.                                              *)
WorkServedIsTheHolders ==
  Running => Serving(child) \subseteq {holder, NoRequest}
=============================================================================
