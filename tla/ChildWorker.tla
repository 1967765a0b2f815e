---------------------------- MODULE ChildWorker -----------------------------
(***************************************************************************)
(* worker.py with HORNLAB_BEAT_PERSISTENT_HOST=0: one cached               *)
(* BeatWorkerProcess, the Julia children it starts one after another, the  *)
(* BeatSolveSessions and warm-ups that drive it, each on a thread of its   *)
(* own, and the shutdown_workers() that takes the worker away.             *)
(*                                                                         *)
(* An exception that the code does not raise itself - a KeyboardInterrupt, *)
(* a timeout signal, a status callback that throws, a caller abandoning    *)
(* events() - may land in a session at any of RaisePoints: the places of a *)
(* session, and "reading", the stream's generator while the session waits  *)
(* in it for its next event.                                               *)
(***************************************************************************)
EXTENDS WorkerProcess

CONSTANTS RaisePoints,  \* where a foreign exception may land
          Stoppable     \* shutdown_workers() may be called

ASSUME WorkerAssumption == Stoppable \in BOOLEAN

VARIABLES claimed,    \* sessions whose _submission is stored
          opened,     \* sessions whose _events is stored
          submitted,  \* sessions whose _submitted is set
          finished,   \* sessions whose _finished is set
          condemning, \* sessions whose _retire_worker is set
          stop,       \* how far shutdown_workers() is
          victim      \* the child shutdown_workers() is killing

sessionVars == <<claimed, opened, submitted, finished, condemning>>
stopVars == <<stop, victim>>
vars == <<processVars, sessionVars, stopVars>>

InSession == {"stored", "bound", "consuming", "running"}
Places == ProcessPlaces \cup InSession
            \cup {"ending", "closing", "killing", "streaming", "backstop",
                  "dropped", "leaked"}

Types ==
  /\ ProcessTypeOK
  /\ at \in [Requests -> Places]
  /\ claimed \cup opened \cup submitted \cup finished \cup condemning \subseteq Requests
  /\ stop \in {"up", "dropped", "refusing", "read", "forgot", "stopped"}
  /\ victim \in Requests \cup {NoRequest}

(* The types, and what ties the sessions to the slot: a session is inside  *)
(* its retirement exactly while it has the slot's mutex, which it only has *)
(* as the owner of the slot.                                               *)
TypeOK ==
  /\ Types
  /\ \A r \in Requests : at[r] = "killing" <=> mutex = r
  /\ mutex # NoRequest => holder = mutex

Init ==
  /\ ProcessInit
  /\ at = [r \in Requests |-> "new"]
  /\ claimed = {} /\ opened = {} /\ submitted = {} /\ finished = {}
  /\ condemning = {}
  /\ stop = "up"
  /\ victim = NoRequest

Keep == UNCHANGED sessionVars

-----------------------------------------------------------------------------
(* get_worker().                                                           *)

Open(r) ==
  /\ at[r] = "new"
  /\ stop = "up"
  /\ Goto(r, "calling")
  /\ Keep /\ UNCHANGED <<slotVars, runtimeVars, stopVars, child, reads>>

(* submit() and ensure_started().  A session whose submit() raises has     *)
(* stored nothing, so its _abort_start() only removes the staged files.    *)
Submit(r) == ProcessStep(r) /\ Keep /\ UNCHANGED stopVars

-----------------------------------------------------------------------------
(* BeatSolveSession.__init__: three stores, in this order, then the events *)
(* up to "initialized".                                                    *)

StoreSubmission(r) ==
  /\ at[r] = "returned"
  /\ claimed' = claimed \cup {r}
  /\ Goto(r, "stored")
  /\ UNCHANGED <<slotVars, runtimeVars, stopVars, child, reads, opened, submitted,
                 finished, condemning>>

StoreStream(r) ==
  /\ at[r] = "stored"
  /\ opened' = opened \cup {r}
  /\ Goto(r, "bound")
  /\ UNCHANGED <<slotVars, runtimeVars, stopVars, child, reads, claimed, submitted,
                 finished, condemning>>

SetSubmitted(r) ==
  /\ at[r] = "bound"
  /\ submitted' = submitted \cup {r}
  /\ Goto(r, "consuming")
  /\ UNCHANGED <<slotVars, runtimeVars, stopVars, child, reads, claimed, opened,
                 finished, condemning>>

Listen(r) ==
  /\ \/ BindStream(r, "consuming", "ending")
     \/ at[r] \in {"consuming", "running"} /\ StreamEOF(r, "ending")
  /\ Keep /\ UNCHANGED stopVars

(* Mutant: only the _submitted flag, stored last, says a job is running.   *)
BeginCloseByFlag(r, ended, failed) ==
  LET abandoned == r \in submitted /\ ~ended IN
  /\ finished' = IF ended THEN finished \cup {r} ELSE finished
  /\ cancelFiles' = IF abandoned THEN cancelFiles \cup {r} ELSE cancelFiles
  /\ condemning' = IF abandoned \/ failed THEN condemning \cup {r} ELSE condemning
  /\ Goto(r, "closing")
  /\ UNCHANGED <<claimed, opened, submitted>>

(* Mutant: an abandoned solve is cancelled and its worker handed on.       *)
BeginCloseOnlyCancels(r, ended, failed) ==
  /\ finished' = IF ended THEN finished \cup {r} ELSE finished
  /\ cancelFiles' = IF ended THEN cancelFiles ELSE cancelFiles \cup {r}
  /\ condemning' = IF failed THEN condemning \cup {r} ELSE condemning
  /\ Goto(r, "closing")
  /\ UNCHANGED <<claimed, opened, submitted>>

(* The head of close() and of _abort_start(), on every way into them: a    *)
(* session that holds a job which has not ended cancels it and condemns    *)
(* the worker.  "failed" condemns it too.                                  *)
BeginClose(r, ended, failed) ==
  LET abandoned == r \in claimed \cup submitted /\ ~ended IN
  /\ finished' = IF ended THEN finished \cup {r} ELSE finished
  /\ cancelFiles' = IF abandoned THEN cancelFiles \cup {r} ELSE cancelFiles
  /\ condemning' = IF abandoned \/ failed THEN condemning \cup {r} ELSE condemning
  /\ Goto(r, "closing")
  /\ UNCHANGED <<claimed, opened, submitted>>

ReadEvent(r) ==
  /\ at[r] \in {"consuming", "running"}
  /\ HasLine(r)
  /\ Read(r)
  /\ LET kind == NextLine(r).kind IN
     IF kind \in Terminal
       THEN BeginClose(r, TRUE, kind = "failed")
       ELSE /\ Goto(r, IF kind = "initialized" THEN "running" ELSE at[r])
            /\ Keep /\ UNCHANGED cancelFiles
  /\ UNCHANGED <<slotVars, stopVars, child, reads, alive, booted, crashed, inbox,
                 job, solving>>

(* The generator's finally gives the slot back before the session hears    *)
(* that the child is gone, or of the exception that landed in it.          *)
EndStream(r) ==
  /\ at[r] = "ending"
  /\ Release(r)
  /\ BeginClose(r, FALSE, FALSE)
  /\ UNCHANGED <<stopVars, child, reads, alive, booted, crashed, inbox, job,
                 solving, pipe>>

(* request_cancel() by the caller, who goes on reading.                    *)
RequestCancel(r) ==
  /\ at[r] = "running"
  /\ r \notin cancelFiles
  /\ cancelFiles' = cancelFiles \cup {r}
  /\ Keep
  /\ UNCHANGED <<slotVars, stopVars, child, at, reads, alive, booted, crashed,
                 inbox, job, solving, pipe>>

-----------------------------------------------------------------------------
(* close() and _abort_start(): retire, close the stream, release, each run *)
(* whatever the one before it did.                                         *)

Retire(r) ==
  /\ at[r] = "closing"
  /\ r \in condemning
  /\ \/ r \in claimed /\ RetireBegin(r) /\ Goto(r, "killing")
     \/ r \in claimed /\ RetireRefused(r) /\ Goto(r, "streaming")
  /\ condemning' = condemning \ {r}
  /\ UNCHANGED <<runtimeVars, stopVars, child, reads, claimed, opened, submitted,
                 finished>>

KeepWorker(r) ==
  /\ at[r] = "closing"
  /\ r \notin condemning \/ r \notin claimed
  /\ Goto(r, "streaming")
  /\ Keep /\ UNCHANGED <<slotVars, runtimeVars, stopVars, child, reads>>

(* Mutant: a kill that raises ends close() there and then.                 *)
KillInRetireRaises(r) ==
  /\ at[r] = "killing"
  /\ Kill(r)
  /\ RetireEnd(r)
  /\ Goto(r, IF child \in alive' THEN "done" ELSE "streaming")
  /\ Keep
  /\ UNCHANGED <<stopVars, reads, booted, crashed, inbox, job, solving, pipe,
                 cancelFiles>>

KillInRetire(r) ==
  /\ at[r] = "killing"
  /\ Kill(r)
  /\ RetireEnd(r)
  /\ Goto(r, "streaming")
  /\ Keep
  /\ UNCHANGED <<stopVars, reads, booted, crashed, inbox, job, solving, pipe,
                 cancelFiles>>

CloseStream(r) ==
  /\ at[r] = "streaming"
  /\ IF r \in opened THEN Release(r) ELSE UNCHANGED slotVars
  /\ Goto(r, "backstop")
  /\ opened' = opened \ {r}
  /\ UNCHANGED <<runtimeVars, stopVars, child, reads, claimed, submitted, finished,
                 condemning>>

ReleaseSubmission(r) ==
  /\ at[r] = "backstop"
  /\ IF r \in claimed THEN Release(r) ELSE UNCHANGED slotVars
  /\ Goto(r, "done")
  /\ claimed' = claimed \ {r}
  /\ UNCHANGED <<runtimeVars, stopVars, child, reads, opened, submitted, finished,
                 condemning>>

-----------------------------------------------------------------------------
(* An exception from outside.  Inside submit() its except clause runs;     *)
(* once a session has stored something, its unwind does; and in between    *)
(* there is only the stream's finalizer.  Where the session waits for an   *)
(* event, the generator unwinds before the session does, and its finally   *)
(* gives the slot back in front of the retirement, as at an end of file.   *)
Raise(r) ==
  /\ \/ /\ at[r] \in RaisePoints \cap InSubmit
        /\ Goto(r, "unwinding")
        /\ Keep /\ UNCHANGED cancelFiles
     \/ /\ at[r] \in RaisePoints \cap {"returned"}
        /\ Goto(r, "dropped")
        /\ Keep /\ UNCHANGED cancelFiles
     \/ /\ at[r] \in RaisePoints \cap InSession
        /\ BeginClose(r, FALSE, FALSE)
     \/ /\ "reading" \in RaisePoints
        /\ at[r] \in {"consuming", "running"}
        /\ Goto(r, "ending")
        /\ Keep /\ UNCHANGED cancelFiles
  /\ UNCHANGED <<slotVars, stopVars, child, reads, alive, booted, crashed, inbox,
                 job, solving, pipe>>

Finalize(r) ==
  /\ at[r] = "dropped"
  /\ \/ FreeSlot(r) /\ Goto(r, "done")
     \/ GiveUp /\ Goto(r, "leaked")
  /\ Keep /\ UNCHANGED <<runtimeVars, stopVars, child, reads>>

-----------------------------------------------------------------------------
(* shutdown_workers(): drop the worker from the cache, close its slot, and *)
(* terminate() it without asking the slot.                                 *)

StopStep(from, to) ==
  /\ stop = from
  /\ stop' = to
  /\ Keep /\ UNCHANGED <<at, reads>>

DropWorkers ==
  /\ Stoppable
  /\ StopStep("up", "dropped")
  /\ UNCHANGED <<slotVars, runtimeVars, child, victim>>

RefuseSubmissions ==
  /\ StopStep("dropped", "refusing")
  /\ CloseSlot
  /\ UNCHANGED <<runtimeVars, child, victim>>

TerminateRead ==
  /\ StopStep("refusing", "read")
  /\ victim' = child
  /\ UNCHANGED <<slotVars, runtimeVars, child>>

TerminateForget ==
  /\ StopStep("read", "forgot")
  /\ child' = NoRequest
  /\ UNCHANGED <<slotVars, runtimeVars, victim>>

TerminateKill ==
  /\ StopStep("forgot", "stopped")
  /\ \/ alive' = alive \ {victim}
     \/ Stubborn /\ UNCHANGED alive
  /\ UNCHANGED <<slotVars, child, victim, booted, crashed, inbox, job, solving,
                 pipe, cancelFiles>>

-----------------------------------------------------------------------------
SessionStep(r) ==
  \/ Submit(r) \/ StoreSubmission(r) \/ StoreStream(r) \/ SetSubmitted(r)
  \/ Listen(r) \/ ReadEvent(r) \/ EndStream(r)
  \/ Retire(r) \/ KeepWorker(r) \/ KillInRetire(r)
  \/ CloseStream(r) \/ ReleaseSubmission(r)

(* Every session is over; one that had not asked for the worker before it  *)
(* was dropped from the cache gets another.                                *)
Finished ==
  /\ \A r \in Requests :
       at[r] \in Over \cup {"leaked"} \/ (at[r] = "new" /\ stop # "up")
  /\ UNCHANGED vars

Next ==
  \/ \E r \in Requests :
       Open(r) \/ SessionStep(r) \/ RequestCancel(r) \/ Raise(r) \/ Finalize(r)
         \/ (ChildStep(r) /\ UNCHANGED <<sessionVars, stopVars>>)
  \/ DropWorkers \/ RefuseSubmissions
  \/ TerminateRead \/ TerminateForget \/ TerminateKill
  \/ Finished

Spec == Init /\ [][Next]_vars

(* Threads run, a job that was started ends and a child that boots says    *)
(* so.  Nobody has to solve, cancel, fail or shut down.                    *)
Fairness == ChildFairness /\ \A r \in Requests : WF_vars(SessionStep(r))

FairSpec == Spec /\ Fairness

-----------------------------------------------------------------------------
(* "the second one's events are the first one's" never happens: what a     *)
(* session is going to read was written for it, or for nobody - a "ready"  *)
(* that a start-up before it did not read, which it skips, or the "failed" *)
(* of a clean-up, which costs it its solve and condemns the worker.        *)
EventsBelongToReader ==
  \A r \in Requests :
    at[r] \in {"consuming", "running"} /\ reads[r] # NoRequest =>
      \A i \in DOMAIN pipe[reads[r]] : pipe[reads[r]][i].of \in {r, NoRequest}

(* A child that is still running is one the worker can reach, so a later   *)
(* request reuses it and a later kill stops it, unless it outlived a kill. *)
NoOrphan == ~Stubborn => alive \subseteq {child}

(* A session's unwind stops no child that works for another request: what  *)
(* is in the child it kills - a job, a request line, an unread event - is  *)
(* its own.  (The mutex names the session inside retire().)                *)
KillsAreEntitled ==
  [][\A c \in alive \ alive' :
       Serving(c) \subseteq {mutex, NoRequest} \/ c \in crashed' \/ stop # "up"]_vars

(* Whoever owns the worker gives it back, however the solve ends - unless  *)
(* its stream was lost before it was stored: no collector has to run, and  *)
(* a finalizer may give up.                                                *)
Lost(r) == at[r] \in {"dropped", "leaked"}

EverySubmissionEnds ==
  holder # NoRequest ~> holder = NoRequest \/ Lost(holder)

(* A queued solve is answered: it is admitted or told that the worker has  *)
(* been stopped, and its thread comes to an end.                           *)
EverySessionEnds ==
  \A r \in Requests :
    at[r] = "calling" ~> at[r] \in Over \/ \E q \in Requests : Lost(q)

(* Threads queued behind a stream that was lost unclosed, and whose        *)
(* finalizer gave up, are told so by shutdown_workers().                   *)
ShutdownEndsTheQueue ==
  closed ~> \A r \in Requests : at[r] \notin {"calling", "parked"}
=============================================================================
