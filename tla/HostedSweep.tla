----------------------------- MODULE HostedSweep -----------------------------
(***************************************************************************)
(* solve_frequencies() from end to end: the sweeps of one application      *)
(* share a HostedBeatWorker (worker_client.py), whose one connection leads *)
(* to a worker host and, through it, to Julia's frequency loop.            *)
(*                                                                         *)
(* A connection is two byte streams, each a sequence of whole frames.  It  *)
(* is named after the sweep that dialled it, and has a thread of its own   *)
(* in the host.  While shutdown_workers() waits for an answer there are    *)
(* two readers of one socket, and a frame goes to either.                  *)
(*                                                                         *)
(* What other modules are about is coarse here: the slot is its holder,    *)
(* killing and replacing the engine is one step, and so is dialling.       *)
(***************************************************************************)
EXTENDS Naturals, Sequences

CONSTANTS Sweeps,      \* the calls of solve_frequencies()
          None,        \* no sweep, no connection
          Total,       \* how many frequencies each asks for
          Room,        \* a bound: the frames a pipe or socket holds
          Interrupts,  \* where a caller's exception may land
          Faults       \* what may go wrong on the far side

ASSUME HostedAssumption ==
  /\ None \notin Sweeps \cup {"returned", "cancelled", "raised"}
  /\ Total \in Nat \ {0} /\ Room \in Nat \ {0}
  /\ Interrupts \subseteq {"callback", "reading"}
  /\ Faults \subseteq {"engine", "cleanup", "host"}

VARIABLES at,          \* where each sweep is
          outcome,     \* how it is going to end
          got,         \* the results it has kept
          holder,      \* the sweep that owns the worker's slot
          closed,      \* the slot is closed
          connection,  \* HostedBeatWorker._connection
          line,        \* the connection each sweep uses
          shut,        \* connections this process has closed
          stop,        \* how far shutdown_workers() is
          asked,       \* the connection it asks on
          cancelFiles, \* sweeps whose cancel file exists
          up, down,    \* per connection, frames to the host and from it
          serving,     \* what the connection's thread in the host does
          serves,      \* the sweep whose job it has
          alive,       \* the host runs
          inbox, job, done, pipe  \* Julia: stdin, the job, its frequencies, stdout

clientVars == <<at, outcome, got, holder, closed, connection, line, shut, cancelFiles>>
stopVars == <<stop, asked>>
engineVars == <<inbox, job, done, pipe>>
hostVars == <<serving, serves, alive>>
vars == <<clientVars, stopVars, up, down, hostVars, engineVars>>

Over == {"returned", "cancelled", "raised"}
Reading == {"awaiting", "solving"}
Terminal == {"completed", "cancelled", "failed"}

Frame(s, kind, n) == [of |-> s, kind |-> kind, n |-> n]
Frames == [of : Sweeps, kind : Terminal \cup {"initialized", "result", "retired", "shutdown_ok"},
           n : 0 .. Total]
Orders == [op : {"submit", "retire", "shutdown"}, of : Sweeps]

TypeOK ==
  /\ at \in [Sweeps -> Reading \cup Over \cup
               {"idle", "queued", "connecting", "retiring", "hearing", "leaving"}]
  /\ outcome \in [Sweeps -> Over \cup {None}]
  /\ got \in [Sweeps -> Seq(Frames)]
  /\ {holder, connection, asked, job} \subseteq Sweeps \cup {None}
  /\ line \in [Sweeps -> Sweeps \cup {None}]
  /\ closed \in BOOLEAN /\ alive \in BOOLEAN
  /\ shut \cup cancelFiles \subseteq Sweeps
  /\ stop \in {"up", "refusing", "hearing", "stopped"}
  /\ up \in [Sweeps -> Seq(Orders)] /\ down \in [Sweeps -> Seq(Frames)]
  /\ serving \in [Sweeps -> {"reading", "queued", "forwarding", "gone"}]
  /\ serves \in [Sweeps -> Sweeps \cup {None}]
  /\ inbox \in Seq(Sweeps) /\ pipe \in Seq(Frames)
  /\ done \in 0 .. Total

Init ==
  /\ at = [s \in Sweeps |-> "idle"]
  /\ outcome = [s \in Sweeps |-> None]
  /\ got = [s \in Sweeps |-> <<>>]
  /\ holder = None /\ closed = FALSE
  /\ connection = None /\ shut = {} /\ cancelFiles = {}
  /\ line = [s \in Sweeps |-> None]
  /\ stop = "up" /\ asked = None
  /\ up = [c \in Sweeps |-> <<>>] /\ down = [c \in Sweeps |-> <<>>]
  /\ serving = [c \in Sweeps |-> "gone"] /\ serves = [c \in Sweeps |-> None]
  /\ alive = TRUE
  /\ inbox = <<>> /\ pipe = <<>> /\ job = None /\ done = 0

Goto(s, place) == at' = [at EXCEPT ![s] = place]
Send(c, op, s) == up' = [up EXCEPT ![c] = Append(@, [op |-> op, of |-> s])]
Drop(c) == down' = [down EXCEPT ![c] = Tail(@)]

(* What the host can still deliver, and whether it can still be sent to.   *)
Reachable(c) == alive /\ c \notin shut /\ serving[c] # "gone"

(* _close_connection().                                                    *)
HangUp ==
  /\ connection' = None
  /\ shut' = IF connection = None THEN shut ELSE shut \cup {connection}

-----------------------------------------------------------------------------
(* HostedBeatWorker.submit().                                              *)

Call(s) ==
  /\ at[s] = "idle"
  /\ Goto(s, "queued")
  /\ UNCHANGED <<outcome, got, holder, closed, connection, line, shut, cancelFiles,
                 stopVars, up, down, hostVars, engineVars>>

Acquire(s) ==
  /\ at[s] = "queued" /\ holder = None /\ ~closed
  /\ holder' = s
  /\ Goto(s, "connecting")
  /\ UNCHANGED <<outcome, got, closed, connection, line, shut, cancelFiles,
                 stopVars, up, down, hostVars, engineVars>>

Refused(s) ==
  /\ at[s] = "queued" /\ closed
  /\ outcome' = [outcome EXCEPT ![s] = "raised"]
  /\ Goto(s, "leaving")
  /\ UNCHANGED <<got, holder, closed, connection, line, shut, cancelFiles,
                 stopVars, up, down, hostVars, engineVars>>

(* _connect() returns the cached connection unseen; without one it adopts  *)
(* the host, or starts one with a fresh engine.                            *)
Connect(s) ==
  /\ at[s] = "connecting" /\ line[s] = None
  /\ line' = [line EXCEPT ![s] = IF connection # None THEN connection ELSE s]
  /\ connection' = line'[s]
  /\ IF connection # None
     THEN UNCHANGED <<hostVars, engineVars>>
     ELSE /\ serving' = [serving EXCEPT ![s] = "reading"]
          /\ alive' = TRUE
          /\ UNCHANGED <<serves, engineVars>>
  /\ UNCHANGED <<at, outcome, got, holder, closed, shut, cancelFiles, stopVars,
                 up, down>>

(* A send that fails gives the slot back and raises.                       *)
Submit(s) ==
  /\ at[s] = "connecting" /\ line[s] # None
  /\ IF Reachable(line[s])
     THEN /\ Send(line[s], "submit", s)
          /\ Goto(s, "awaiting")
          /\ UNCHANGED outcome
     ELSE /\ outcome' = [outcome EXCEPT ![s] = "raised"]
          /\ Goto(s, "leaving")
          /\ UNCHANGED up
  /\ UNCHANGED <<got, holder, closed, connection, line, shut, cancelFiles, stopVars,
                 down, hostVars, engineVars>>

-----------------------------------------------------------------------------
(* The head of close(): an unfinished solve is cancelled, and its worker   *)
(* condemned; so is a worker that failed.                                  *)
Close(s, how, finished, failed) ==
  /\ outcome' = [outcome EXCEPT ![s] = how]
  /\ Goto(s, IF failed \/ ~finished THEN "retiring" ELSE "leaving")
  /\ IF finished
     THEN UNCHANGED cancelFiles
     ELSE cancelFiles' = cancelFiles \cup {s}

(* _consume_until_initialized().                                           *)
ReadStart(s, frame) ==
  /\ at[s] = "awaiting"
  /\ CASE frame.kind = "initialized" ->
            Goto(s, "solving") /\ UNCHANGED <<outcome, cancelFiles>>
       [] frame.kind \in Terminal -> Close(s, "raised", TRUE, frame.kind = "failed")
       [] OTHER -> UNCHANGED <<at, outcome, cancelFiles>>
  /\ UNCHANGED got

(* The caller's callbacks see each result; they may cancel or raise.       *)
Report(s) ==
  \/ UNCHANGED <<at, outcome, cancelFiles>>
  \/ cancelFiles' = cancelFiles \cup {s} /\ UNCHANGED <<at, outcome>>
  \/ "callback" \in Interrupts /\ Close(s, "raised", FALSE, FALSE)

(* Mutant: the frequency that is echoed is not compared.                   *)
KeepAny(s, frame) ==
  IF Len(got[s]) = Total
  THEN Close(s, "raised", FALSE, FALSE) /\ UNCHANGED got
  ELSE got' = [got EXCEPT ![s] = Append(@, frame)] /\ Report(s)

(* One result: neither too many nor, as far as its frequency tells, out of *)
(* order.                                                                  *)
Keep(s, frame) ==
  IF Len(got[s]) = Total \/ frame.n # Len(got[s]) + 1
  THEN Close(s, "raised", FALSE, FALSE) /\ UNCHANGED got
  ELSE got' = [got EXCEPT ![s] = Append(@, frame)] /\ Report(s)

(* A completion that is short is an error, a cancellation is not.          *)
Finish(s, kind) ==
  /\ Close(s, IF kind = "cancelled" THEN "cancelled"
              ELSE IF kind = "completed" /\ Len(got[s]) = Total THEN "returned"
              ELSE "raised",
           TRUE, kind = "failed")
  /\ UNCHANGED got

ReadSolve(s, frame) ==
  /\ at[s] = "solving"
  /\ CASE frame.kind = "result" -> Keep(s, frame)
       [] frame.kind \in Terminal -> Finish(s, frame.kind)
       [] OTHER -> UNCHANGED <<at, outcome, got, cancelFiles>>

(* A thread that was inside recv() when the socket was closed gets one     *)
(* more frame.                                                             *)
Read(s) ==
  /\ at[s] \in Reading
  /\ down[line[s]] # <<>>
  /\ LET frame == Head(down[line[s]]) IN ReadStart(s, frame) \/ ReadSolve(s, frame)
  /\ Drop(line[s])
  /\ UNCHANGED <<holder, closed, connection, line, shut, stopVars, up, hostVars,
                 engineVars>>

(* The stream's generator ends by an exception: its finally gives the slot *)
(* back before the session's close() can say what it was held for.         *)
StreamRaises(s) ==
  /\ Close(s, "raised", FALSE, FALSE)
  /\ holder' = IF holder = s THEN None ELSE holder
  /\ UNCHANGED <<got, closed, line, stopVars, up, down, hostVars, engineVars>>

HearNothing(s) ==
  /\ at[s] \in Reading
  /\ ~alive \/ serving[line[s]] = "gone"
  /\ down[line[s]] = <<>>
  /\ StreamRaises(s)
  /\ HangUp

(* A socket closed by another thread; or whatever lands in a thread that   *)
(* is waiting for its next frame: an interrupt, or the status callback.    *)
ReadRaises(s) ==
  /\ at[s] \in Reading
  /\ line[s] \in shut \/ "reading" \in Interrupts
  /\ StreamRaises(s)
  /\ UNCHANGED <<connection, shut>>

-----------------------------------------------------------------------------
(* close(): retire() is refused to a session that has lost the slot.       *)

Retire(s) ==
  /\ at[s] = "retiring"
  /\ IF holder = s /\ connection # None /\ Reachable(connection)
     THEN /\ Send(connection, "retire", s)
          /\ line' = [line EXCEPT ![s] = connection]
          /\ Goto(s, "hearing")
          /\ UNCHANGED <<connection, shut>>
     ELSE /\ Goto(s, "leaving")
          /\ IF holder = s THEN HangUp ELSE UNCHANGED <<connection, shut>>
          /\ UNCHANGED <<up, line>>
  /\ UNCHANGED <<outcome, got, holder, closed, cancelFiles, stopVars, down, hostVars,
                 engineVars>>

(* A thread of the host that is reading frames answers within the two      *)
(* seconds that the client waits; one that has a job may not.              *)
Late(c) == ~Reachable(c) \/ serving[c] \in {"queued", "forwarding"}

Hear(s) ==
  /\ at[s] = "hearing"
  /\ \/ /\ down[line[s]] # <<>>
        /\ Drop(line[s])
        /\ IF Head(down[line[s]]).kind = "retired"
           THEN Goto(s, "leaving") /\ HangUp
           ELSE UNCHANGED <<at, connection, shut>>
     \/ /\ Late(line[s])
        /\ Goto(s, "leaving") /\ HangUp
        /\ UNCHANGED down
  /\ UNCHANGED <<outcome, got, holder, closed, line, cancelFiles, stopVars, up,
                 hostVars, engineVars>>

(* Mutant: a sweep that raises leaves its slot to the collector.           *)
LeaveHeld(s) ==
  /\ at[s] = "leaving"
  /\ Goto(s, outcome[s])
  /\ holder' = IF holder = s /\ outcome[s] # "raised" THEN None ELSE holder
  /\ cancelFiles' = cancelFiles \ {s}
  /\ UNCHANGED <<outcome, got, closed, connection, line, shut, stopVars, up, down,
                 hostVars, engineVars>>

(* The slot goes back, if it has not, and the staged files are removed.    *)
Leave(s) ==
  /\ at[s] = "leaving"
  /\ Goto(s, outcome[s])
  /\ holder' = IF holder = s THEN None ELSE holder
  /\ cancelFiles' = cancelFiles \ {s}
  /\ UNCHANGED <<outcome, got, closed, connection, line, shut, stopVars, up, down,
                 hostVars, engineVars>>
-----------------------------------------------------------------------------
(* shutdown_workers(): the slot is closed, and "shutdown" is said on the   *)
(* connection while a sweep may be reading from it; or, to detach, the     *)
(* connection is only closed.                                              *)

StopStep(from, to) == stop = from /\ stop' = to

Refuse ==
  /\ StopStep("up", "refusing")
  /\ closed' = TRUE
  /\ UNCHANGED <<at, outcome, got, holder, connection, line, shut, cancelFiles,
                 asked, up, down, hostVars, engineVars>>

SayShutdown ==
  /\ connection # None /\ Reachable(connection)
  /\ StopStep("refusing", "hearing")
  /\ asked' = connection
  /\ Send(connection, "shutdown", connection)
  /\ UNCHANGED <<clientVars, down, hostVars, engineVars>>

Detach ==
  /\ StopStep("refusing", "stopped")
  /\ HangUp
  /\ UNCHANGED <<at, outcome, got, holder, closed, line, cancelFiles, asked, up,
                 down, hostVars, engineVars>>

HearShutdown ==
  /\ stop = "hearing"
  /\ \/ /\ down[asked] # <<>>
        /\ Drop(asked)
        /\ IF Head(down[asked]).kind = "shutdown_ok"
           THEN StopStep("hearing", "stopped") /\ HangUp
           ELSE UNCHANGED <<stop, connection, shut>>
     \/ /\ Late(asked)
        /\ StopStep("hearing", "stopped") /\ HangUp
        /\ UNCHANGED down
  /\ UNCHANGED <<at, outcome, got, holder, closed, line, cancelFiles, asked, up,
                 hostVars, engineVars>>

-----------------------------------------------------------------------------
(* worker_host.py: one thread per connection, the job lock, the engine.    *)

Free == \A c \in Sweeps : serving[c] # "forwarding"

Serve(c, place, s) ==
  /\ serving' = [serving EXCEPT ![c] = place]
  /\ serves' = [serves EXCEPT ![c] = s]

(* A frame to a client that has hung up is lost, or the send fails.        *)
Deliver(c, frame) ==
  down' = IF c \in shut THEN down ELSE [down EXCEPT ![c] = Append(@, frame)]

ReplaceEngine == inbox' = <<>> /\ job' = None /\ done' = 0 /\ pipe' = <<>>

Ordered(c, op) ==
  /\ alive /\ serving[c] = "reading"
  /\ up[c] # <<>> /\ Head(up[c]).op = op
  /\ Len(down[c]) < Room
  /\ up' = [up EXCEPT ![c] = Tail(@)]

(* A request whose staged file is gone is answered at once.                *)
TakeSubmit(c) ==
  /\ Ordered(c, "submit")
  /\ LET s == Head(up[c]).of IN
     IF at[s] \in Over
     THEN Deliver(c, Frame(s, "failed", 0)) /\ UNCHANGED <<serving, serves>>
     ELSE Serve(c, "queued", s) /\ UNCHANGED down
  /\ UNCHANGED <<clientVars, stopVars, alive, engineVars>>

TakeRetire(c) ==
  /\ Ordered(c, "retire")
  /\ IF Free THEN ReplaceEngine ELSE UNCHANGED engineVars
  /\ Deliver(c, Frame(Head(up[c]).of, "retired", 0))
  /\ UNCHANGED <<clientVars, stopVars, hostVars>>

(* The host process ends with its engine, and so do all its connections.   *)
EndHost ==
  /\ alive' = FALSE
  /\ serving' = [c \in Sweeps |-> "gone"]
  /\ serves' = [c \in Sweeps |-> None]
  /\ ReplaceEngine

TakeShutdown(c) ==
  /\ Ordered(c, "shutdown")
  /\ Deliver(c, Frame(Head(up[c]).of, "shutdown_ok", 0))
  /\ EndHost
  /\ UNCHANGED <<clientVars, stopVars>>

HearHangUp(c) ==
  /\ alive /\ serving[c] = "reading"
  /\ up[c] = <<>> /\ c \in shut
  /\ Serve(c, "gone", None)
  /\ UNCHANGED <<clientVars, stopVars, up, down, alive, engineVars>>

LockJob(c) ==
  /\ serving[c] = "queued" /\ Free
  /\ Len(inbox) < Room
  /\ Serve(c, "forwarding", serves[c])
  /\ inbox' = Append(inbox, serves[c])
  /\ UNCHANGED <<clientVars, stopVars, up, down, alive, job, done, pipe>>

Forward(c) ==
  /\ serving[c] = "forwarding" /\ pipe # <<>>
  /\ Len(down[c]) < Room
  /\ Deliver(c, Head(pipe))
  /\ pipe' = Tail(pipe)
  /\ IF Head(pipe).kind \in Terminal
     THEN Serve(c, "reading", None)
     ELSE UNCHANGED <<serving, serves>>
  /\ UNCHANGED <<clientVars, stopVars, up, alive, inbox, job, done>>

(* The client is gone: its job is cancelled and the engine replaced.       *)
Abandon(c) ==
  /\ serving[c] = "forwarding" /\ pipe # <<>>
  /\ c \in shut
  /\ Serve(c, "gone", None)
  /\ ReplaceEngine
  /\ UNCHANGED <<clientVars, stopVars, up, down, alive>>

(* The engine died: the client is told, and the engine replaced.           *)
EngineDies(c) ==
  /\ "engine" \in Faults
  /\ serving[c] = "forwarding" /\ pipe = <<>>
  /\ Len(down[c]) < Room
  /\ Deliver(c, Frame(serves[c], "failed", 0))
  /\ Serve(c, "reading", None)
  /\ ReplaceEngine
  /\ UNCHANGED <<clientVars, stopVars, up, alive>>

CrashHost ==
  /\ "host" \in Faults /\ alive
  /\ EndHost
  /\ UNCHANGED <<clientVars, stopVars, up, down>>

-----------------------------------------------------------------------------
(* worker_loop() and the frequency loop of solve_request().                *)

Write(frames) ==
  /\ Len(pipe) < Room
  /\ pipe' = pipe \o frames

EndJob == job' = None /\ done' = 0

TakeJob ==
  /\ job = None /\ inbox # <<>>
  /\ inbox' = Tail(inbox)
  /\ \/ /\ at[Head(inbox)] \notin Over
        /\ job' = Head(inbox) /\ done' = 0
        /\ Write(<<Frame(Head(inbox), "initialized", 0)>>)
     \/ /\ at[Head(inbox)] \in Over \/ "engine" \in Faults
        /\ EndJob
        /\ Write(<<Frame(Head(inbox), "failed", 0)>>)
  /\ UNCHANGED <<clientVars, stopVars, up, down, hostVars>>

(* Mutant: one frequency too many.                                         *)
SolveOneMore ==
  /\ job # None /\ done <= Total
  /\ job \notin cancelFiles
  /\ done' = done + 1
  /\ Write(<<Frame(job, "result", done + 1)>>)
  /\ UNCHANGED <<clientVars, stopVars, up, down, hostVars, inbox, job>>

Solve ==
  /\ job # None /\ done < Total
  /\ job \notin cancelFiles
  /\ done' = done + 1
  /\ Write(<<Frame(job, "result", done + 1)>>)
  /\ UNCHANGED <<clientVars, stopVars, up, down, hostVars, inbox, job>>

(* A frequency raises, and worker_loop() says so.                          *)
SolveFails ==
  /\ "engine" \in Faults
  /\ job # None /\ done < Total
  /\ job \notin cancelFiles
  /\ EndJob
  /\ Write(<<Frame(job, "failed", 0)>>)
  /\ UNCHANGED <<clientVars, stopVars, up, down, hostVars, inbox>>

(* The flag is polled before each frequency.  The assembly that runs ahead *)
(* is fetched first and may have failed; releasing the caches comes after, *)
(* and if that fails worker_loop() writes another frame behind.            *)
Cancel ==
  /\ job # None /\ done < Total
  /\ job \in cancelFiles
  /\ EndJob
  /\ LET cancelled == Frame(job, "cancelled", done)
         failed == Frame(job, "failed", 0)
     IN \/ Write(<<cancelled>>)
        \/ "engine" \in Faults /\ Write(<<failed>>)
        \/ "cleanup" \in Faults /\ Write(<<cancelled, failed>>)
  /\ UNCHANGED <<clientVars, stopVars, up, down, hostVars, inbox>>

Complete ==
  /\ job # None /\ done = Total
  /\ EndJob
  /\ \/ Write(<<Frame(job, "completed", done)>>)
     \/ "cleanup" \in Faults /\ Write(<<Frame(job, "failed", 0)>>)
  /\ UNCHANGED <<clientVars, stopVars, up, down, hostVars, inbox>>

-----------------------------------------------------------------------------
SweepStep(s) ==
  \/ Acquire(s) \/ Refused(s) \/ Connect(s) \/ Submit(s) \/ Read(s)
  \/ HearNothing(s) \/ ReadRaises(s) \/ Retire(s) \/ Hear(s) \/ Leave(s)

HostStep(c) ==
  \/ TakeSubmit(c) \/ TakeRetire(c) \/ TakeShutdown(c) \/ HearHangUp(c)
  \/ LockJob(c) \/ Forward(c) \/ Abandon(c)

EngineStep == TakeJob \/ Solve \/ SolveFails \/ Cancel \/ Complete

Stop == Refuse \/ SayShutdown \/ Detach \/ HearShutdown

Next ==
  \/ \E s \in Sweeps : Call(s) \/ SweepStep(s) \/ HostStep(s) \/ EngineDies(s)
  \/ EngineStep \/ Stop \/ CrashHost

Spec == Init /\ [][Next]_vars

(* Threads run, Julia solves, and shutdown_workers() returns.              *)
Fairness ==
  /\ \A s \in Sweeps : WF_vars(SweepStep(s)) /\ WF_vars(HostStep(s))
  /\ WF_vars(EngineStep)

FairSpec == Spec /\ Fairness

-----------------------------------------------------------------------------
(* "a successful solve must return every frequency it was asked for", and  *)
(* the results of nobody else's: whoever else read from the socket, and    *)
(* whatever was left in it or in the engine by the sweeps before.  A short *)
(* sweep is one that was cancelled by its own caller.                      *)
SweepIsHonest ==
  \A s \in Sweeps :
    /\ \A i \in DOMAIN got[s] : got[s][i] = Frame(s, "result", i)
    /\ outcome[s] = "returned" => Len(got[s]) = Total
    /\ outcome[s] = "cancelled" /\ at[s] = "leaving" => s \in cancelFiles

(* A sweep comes to an end, whatever fails on the far side, unless the     *)
(* application is closing the socket it reads from.                        *)
EverySweepEnds ==
  \A s \in Sweeps : at[s] = "queued" ~> at[s] \in Over \/ stop # "up"
=============================================================================
