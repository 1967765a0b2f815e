----------------------------- MODULE WorkerHost -----------------------------
(***************************************************************************)
(* worker_host.py: one BeatWorkerProcess - "the engine" - driven by a      *)
(* thread per client connection and by the background warm-ups the host    *)
(* starts itself.  _job_lock serialises the connections; the engine's slot *)
(* additionally keeps out the warm-ups; terminate() asks neither the slot  *)
(* nor the warm-up.                                                        *)
(*                                                                         *)
(* A connection carries one "submit" or "ensure_started" frame and then    *)
(* perhaps a "retire" frame.  Its client may vanish at any time, which the *)
(* host learns only from a send that fails; earlier ones may have been     *)
(* accepted by the kernel.                                                 *)
(***************************************************************************)
EXTENDS WorkerProcess, Naturals, FiniteSets

CONSTANT Background  \* warm-up threads the host may start, each once

ASSUME BackgroundAssumption == Background \subseteq Warmers /\ Background # {}

Connections == Requests \ Background

VARIABLES jobLock,  \* the connection that holds _job_lock
          warm,     \* the warm-up in _warm_thread
          gone,     \* connections that end with the frame being served
          asked,    \* connections whose "retire" frame is being served
          victim    \* the child terminate() has read

hostVars == <<jobLock, warm, gone, asked, victim>>
vars == <<processVars, hostVars>>

Retiring == {"retiring", "terminating", "forgetting", "rewarming"}
Jobs == ProcessPlaces \cup Retiring
          \cup {"finishing", "breaking", "abandoning", "closing", "ending"}

TypeOK ==
  /\ ProcessTypeOK
  /\ at \in [Requests -> Jobs \cup {"queued", "answered"}]
  /\ jobLock \in Connections \cup {NoRequest}
  /\ warm \in Background
  /\ gone \cup asked \subseteq Connections
  /\ victim \in Requests \cup {NoRequest}
  /\ \A r \in Connections : at[r] \notin {"new", "queued", "done", "answered"} <=> jobLock = r

(* serve() starts the first warm-up before it accepts anybody.             *)
Init ==
  /\ ProcessInit
  /\ warm \in Background
  /\ at = [r \in Requests |-> IF r = warm THEN "calling" ELSE "new"]
  /\ jobLock = NoRequest /\ victim = NoRequest
  /\ gone = {} /\ asked = {}

Unstarted == {w \in Background : at[w] = "new"}

(* The bound: a frame that may retire the engine is taken only while there *)
(* is a warm-up left for it and for every other one.                       *)
MayRetire(r) ==
  /\ at[r] \notin {"new", "done", "answered"}
  /\ r \in Warmers => r \in asked

WarmToSpare ==
  Cardinality({r \in Connections : MayRetire(r)}) < Cardinality(Unstarted)

-----------------------------------------------------------------------------
(* _start_background_warm(): nothing while the previous thread is alive,   *)
(* whatever it is still going to achieve.  The thread ends with its call,  *)
(* all of whose exceptions are logged.                                     *)
StartWarm(r, place) ==
  IF at[warm] # "raised"
    THEN Goto(r, place) /\ UNCHANGED warm
    ELSE \E w \in Unstarted :
           /\ warm' = w
           /\ at' = [at EXCEPT ![r] = place, ![w] = "calling"]

-----------------------------------------------------------------------------
(* _submit() and _ensure_started().                                        *)

TakeFrame(r) ==
  /\ at[r] = "new"
  /\ r \in Warmers \/ WarmToSpare
  /\ Goto(r, "queued")
  /\ UNCHANGED <<slotVars, runtimeVars, child, reads, hostVars>>

LockJob(r) ==
  /\ at[r] = "queued"
  /\ jobLock = NoRequest
  /\ jobLock' = r
  /\ Goto(r, "calling")
  /\ UNCHANGED <<slotVars, runtimeVars, child, reads, warm, gone, asked, victim>>

UseEngine(r) ==
  /\ \/ ProcessStep(r)
     \/ BindStream(r, "returned", "breaking")
     \/ at[r] = "returned" /\ StreamEOF(r, "breaking")
  /\ UNCHANGED hostVars

(* One event read from the child and sent to the client; a send that never *)
(* returns is a thread that is not scheduled again (Sending, below).  The  *)
(* generator stays suspended at its yield, with the slot, if the send      *)
(* fails; after a terminal event it is resumed once more and returns the   *)
(* slot.                                                                   *)
Forward(r) ==
  /\ at[r] = "returned"
  /\ HasLine(r)
  /\ Read(r)
  /\ \/ Goto(r, IF NextLine(r).kind \in Terminal THEN "finishing" ELSE "returned")
     \/ Goto(r, "abandoning")
  /\ UNCHANGED <<slotVars, child, reads, alive, booted, crashed, inbox, job,
                 solving, cancelFiles, hostVars>>

(* The same with a "status" or "result" event, which the pipe leaves out.  *)
SendFails(r) ==
  /\ at[r] = "returned"
  /\ reads[r] # NoRequest /\ job[reads[r]] = r
  /\ Goto(r, "abandoning")
  /\ UNCHANGED <<slotVars, runtimeVars, child, reads, hostVars>>

(* The client asks for the end of its solve: BeatSolveSession writes the   *)
(* cancel file itself and goes on reading.                                 *)
RequestCancel(r) ==
  /\ at[r] = "returned"
  /\ r \notin cancelFiles
  /\ cancelFiles' = cancelFiles \cup {r}
  /\ UNCHANGED <<slotVars, child, at, reads, alive, booted, crashed, inbox, job,
                 solving, pipe, hostVars>>

(* The generator's finally, on a normal end and on the child's.            *)
EndStream(r) ==
  /\ \/ at[r] = "finishing" /\ Goto(r, "ending")
     \/ at[r] = "breaking" /\ Goto(r, "raised")
  /\ Release(r)
  /\ UNCHANGED <<runtimeVars, child, reads, hostVars>>

(* Mutant: the host leaves an abandoned job to finish by itself.           *)
AbandonQuietly(r) ==
  /\ at[r] \in {"abandoning", "brokenpipe"}
  /\ cancelFiles' = cancelFiles \cup {r}
  /\ gone' = gone \cup {r}
  /\ Goto(r, "closing")
  /\ UNCHANGED <<slotVars, alive, booted, crashed, inbox, job, solving, pipe,
                 child, reads, jobLock, warm, asked, victim>>

(* except OSError: "the client is gone" - which a broken pipe to the child *)
(* also looks like.  The connection ends with this frame.                  *)
Abandon(r) ==
  /\ at[r] \in {"abandoning", "brokenpipe"}
  /\ cancelFiles' = cancelFiles \cup {r}
  /\ gone' = gone \cup {r}
  /\ Goto(r, "retiring")
  /\ UNCHANGED <<slotVars, alive, booted, crashed, inbox, job, solving, pipe,
                 child, reads, jobLock, warm, asked, victim>>

(* except Exception: the client is told.  ensure_started() ends as a       *)
(* warm-up does, and retires nothing.                                      *)
Report(r) ==
  /\ r \in Connections
  /\ at[r] = "raised"
  /\ Goto(r, IF r \in Warmers THEN "ending" ELSE "retiring")
  /\ UNCHANGED <<slotVars, runtimeVars, child, reads, hostVars>>

-----------------------------------------------------------------------------
(* _retire(): terminate() looks _process up, forgets it and kills it, and  *)
(* a warm-up in the middle of its start-up is not asked.                   *)

ReadProcess(r) ==
  /\ at[r] = "retiring"
  /\ victim' = child
  /\ Goto(r, "terminating")
  /\ UNCHANGED <<slotVars, runtimeVars, child, reads, jobLock, warm, gone, asked>>

ForgetProcess(r) ==
  /\ at[r] = "terminating"
  /\ child' = NoRequest
  /\ Goto(r, "forgetting")
  /\ UNCHANGED <<slotVars, runtimeVars, reads, hostVars>>

(* The kill's timeouts raise out of the connection's thread, past the      *)
(* warm-up: only the stream is still closed.                               *)
KillProcess(r) ==
  /\ at[r] = "forgetting"
  /\ \/ alive' = alive \ {victim} /\ Goto(r, "rewarming") /\ UNCHANGED gone
     \/ /\ Stubborn
        /\ Goto(r, "closing")
        /\ gone' = gone \cup {r}
        /\ UNCHANGED alive
  /\ victim' = NoRequest
  /\ UNCHANGED <<slotVars, booted, crashed, inbox, job, solving, pipe,
                 cancelFiles, child, reads, jobLock, warm, asked>>

Rewarm(r) ==
  /\ at[r] = "rewarming"
  /\ StartWarm(r, "closing")
  /\ UNCHANGED <<slotVars, runtimeVars, child, reads, jobLock, gone, asked, victim>>

(* _close_events() gives the slot back unless it has been; a "retire"      *)
(* frame has no stream to close.                                           *)
CloseEvents(r) ==
  /\ at[r] = "closing"
  /\ IF r \in asked THEN UNCHANGED slotVars ELSE Release(r)
  /\ Goto(r, "ending")
  /\ UNCHANGED <<runtimeVars, child, reads, hostVars>>

EndJobFrame(r) ==
  /\ at[r] = "ending"
  /\ jobLock' = NoRequest
  /\ reads' = [reads EXCEPT ![r] = NoRequest]
  /\ Goto(r, IF r \in asked \cup gone THEN "answered" ELSE "done")
  /\ asked' = asked \ {r}
  /\ gone' = gone \ {r}
  /\ UNCHANGED <<slotVars, runtimeVars, child, warm, victim>>

(* Mutant: a retirement that does not ask whose job is running.            *)
RetireFrameAnyway(r) ==
  /\ at[r] = "done"
  /\ jobLock' = r
  /\ asked' = asked \cup {r}
  /\ Goto(r, "retiring")
  /\ UNCHANGED <<slotVars, runtimeVars, child, reads, warm, gone, victim>>

(* _retire_for_client(): declined while another connection's job runs.     *)
RetireFrame(r) ==
  /\ at[r] = "done"
  /\ \/ /\ jobLock = NoRequest
        /\ WarmToSpare
        /\ jobLock' = r
        /\ asked' = asked \cup {r}
        /\ Goto(r, "retiring")
     \/ /\ jobLock # NoRequest
        /\ Goto(r, "answered")
        /\ UNCHANGED <<jobLock, asked>>
  /\ UNCHANGED <<slotVars, runtimeVars, child, reads, warm, gone, victim>>

-----------------------------------------------------------------------------
HostStep(r) ==
  \/ LockJob(r) \/ UseEngine(r) \/ Forward(r) \/ EndStream(r)
  \/ Abandon(r) \/ Report(r)
  \/ ReadProcess(r) \/ ForgetProcess(r) \/ KillProcess(r) \/ Rewarm(r)
  \/ CloseEvents(r) \/ EndJobFrame(r)

Quiet ==
  /\ \A r \in Connections : at[r] \in {"new", "done", "answered"}
  /\ \A w \in Background : at[w] \in {"new", "raised"}
  /\ UNCHANGED vars

Next ==
  \/ \E r \in Connections :
       TakeFrame(r) \/ RetireFrame(r) \/ SendFails(r) \/ RequestCancel(r)
  \/ \E r \in Requests : HostStep(r) \/ (ChildStep(r) /\ UNCHANGED hostVars)
  \/ Quiet

Spec == Init /\ [][Next]_vars

(* A connection's thread is about to write to its socket - a status, an    *)
(* event, the answer - under _job_lock and without a timeout.  A client    *)
(* that stays connected and does not read may keep it there for ever.      *)
Sending(r) ==
  /\ r \in Connections
  /\ at[r] \in {"admitted", "spawning", "starting", "ready", "returned", "raised"}

(* The host's threads run, except where they write to a client, and so     *)
(* does Julia; clients do as they please.  Frames being finitely many,     *)
(* weak fairness is enough for the job lock.                               *)
Fairness ==
  /\ ChildFairness
  /\ \A r \in Requests : WF_vars(~Sending(r) /\ HostStep(r))

FairSpec == Spec /\ Fairness

-----------------------------------------------------------------------------
(* "Without that, an adopting client would inherit a worker mid-job and    *)
(* read another job's events": what a connection forwards is its own.      *)
EventsBelongToReader ==
  \A r \in Connections :
    at[r] = "returned" /\ reads[r] # NoRequest =>
      \A i \in DOMAIN pipe[reads[r]] : pipe[reads[r]][i].of \in {r, NoRequest}

(* "a request that has already finished must not kill the engine a later   *)
(* one is solving on": what is in a child that is stopped belongs to the   *)
(* connection that stops it.                                               *)
RetireSparesOthers ==
  [][\A c \in alive \ alive' : Serving(c) \subseteq {jobLock, NoRequest} \/ c \in crashed']_vars

(* A queued client is answered, however the clients in front of it end:    *)
(* gone, retired, failed or sharing the engine with a warm-up.  The only   *)
(* thing that keeps it waiting is a client that is connected and does not  *)
(* read.                                                                   *)
EveryFrameAnswered ==
  \A r \in Connections :
    at[r] = "queued" ~> at[r] \in {"done", "answered"}
                          \/ \E q \in Connections : []Sending(q)
=============================================================================
