---------------------------- MODULE JuliaRuntime ----------------------------
(***************************************************************************)
(* The Julia child as BeatWorkerProcess sees it: worker_loop() of          *)
(* BeatEngineDriver.jl reading request lines from stdin and writing event  *)
(* lines to stdout.  A request starts at most one child, so a child is     *)
(* named after the request whose start-up launched it.                     *)
(*                                                                         *)
(* "status" and "result" lines change nothing in either process and are    *)
(* left out; an event carries its kind and the request it answers, which   *)
(* on the wire it does not: no reader below looks at the second field.     *)
(* Two events answer nobody: "ready", and the "failed" of a clean-up whose *)
(* job had been answered before.                                           *)
(***************************************************************************)
EXTENDS BeatRequests, Sequences

CONSTANT Relapses  \* the clean-up behind a "cancelled" line may raise

ASSUME RuntimeAssumption == Relapses \in BOOLEAN

VARIABLES alive,        \* children running in the operating system
          booted,       \* children that have announced "ready"
          crashed,      \* children that died of themselves
          inbox,        \* request lines in each child's stdin
          job,          \* the request each child is solving
          solving,      \* children that are between "initialized" and the end of
                        \* solve_request(), its finally clause included
          pipe,         \* event lines in each child's stdout
          cancelFiles   \* requests whose cancel file exists

runtimeVars == <<alive, booted, crashed, inbox, job, solving, pipe, cancelFiles>>

Terminal == {"completed", "cancelled", "failed"}
Kinds == Terminal \cup {"ready", "initialized"}
Events == [kind : Kinds, of : Requests \cup {NoRequest}]

RuntimeTypeOK ==
  /\ alive \in SUBSET Requests
  /\ booted \in SUBSET Requests
  /\ crashed \in SUBSET Requests
  /\ inbox \in [Requests -> Seq(Requests)]
  /\ job \in [Requests -> Requests \cup {NoRequest}]
  /\ solving \in SUBSET Requests
  /\ pipe \in [Requests -> Seq(Events)]
  /\ cancelFiles \in SUBSET Requests

RuntimeInit ==
  /\ alive = {}
  /\ booted = {}
  /\ crashed = {}
  /\ inbox = [c \in Requests |-> <<>>]
  /\ job = [c \in Requests |-> NoRequest]
  /\ solving = {}
  /\ pipe = [c \in Requests |-> <<>>]
  /\ cancelFiles = {}

Emit(c, kind) ==
  pipe' = [pipe EXCEPT ![c] = Append(@, [kind |-> kind, of |-> job[c]])]

-----------------------------------------------------------------------------
Boot(c) ==
  /\ c \in alive \ booted
  /\ booted' = booted \cup {c}
  /\ Emit(c, "ready")
  /\ UNCHANGED <<alive, crashed, inbox, job, solving, cancelFiles>>

(* fail!(): one "failed" line, then exit.                                  *)
BootFails(c) ==
  /\ c \in alive \ booted
  /\ alive' = alive \ {c}
  /\ crashed' = crashed \cup {c}
  /\ Emit(c, "failed")
  /\ UNCHANGED <<booted, inbox, job, solving, cancelFiles>>

TakeRequest(c) ==
  /\ c \in (alive \cap booted) \ solving
  /\ job[c] = NoRequest
  /\ inbox[c] # <<>>
  /\ job' = [job EXCEPT ![c] = Head(inbox[c])]
  /\ inbox' = [inbox EXCEPT ![c] = Tail(@)]
  /\ UNCHANGED <<alive, booted, crashed, solving, pipe, cancelFiles>>

Initialize(c) ==
  /\ c \in alive \ solving
  /\ job[c] # NoRequest
  /\ solving' = solving \cup {c}
  /\ Emit(c, "initialized")
  /\ UNCHANGED <<alive, booted, crashed, inbox, job, cancelFiles>>

(* The job ends: solve_request() returned, saw the cancel file at a        *)
(* frequency, or threw.  A job that ends by "completed" or "failed" says   *)
(* so behind its clean-up, a cancelled one in front of it.                 *)
EndJob(c) ==
  /\ c \in alive
  /\ job[c] # NoRequest
  /\ \/ c \in solving /\ Emit(c, "completed") /\ solving' = solving \ {c}
     \/ c \in solving /\ job[c] \in cancelFiles /\ Emit(c, "cancelled")
          /\ UNCHANGED solving
     \/ Emit(c, "failed") /\ solving' = solving \ {c}
  /\ job' = [job EXCEPT ![c] = NoRequest]
  /\ UNCHANGED <<alive, booted, crashed, inbox, cancelFiles>>

(* The finally clause of a job that has answered "cancelled".  If it       *)
(* raises, worker_loop() writes a "failed" line, which answers nobody.     *)
CleanUp(c) ==
  /\ c \in alive \cap solving
  /\ job[c] = NoRequest
  /\ \/ UNCHANGED pipe
     \/ Relapses /\ Emit(c, "failed")
  /\ solving' = solving \ {c}
  /\ UNCHANGED <<alive, booted, crashed, inbox, job, cancelFiles>>

Crash(c) ==
  /\ c \in alive
  /\ alive' = alive \ {c}
  /\ crashed' = crashed \cup {c}
  /\ UNCHANGED <<booted, inbox, job, solving, pipe, cancelFiles>>

RuntimeStep(c) ==
  Boot(c) \/ TakeRequest(c) \/ Initialize(c) \/ EndJob(c) \/ CleanUp(c)

(* Everything in a child that concerns request r.                          *)
Serving(c) ==
  {job[c]} \cup {inbox[c][i] : i \in DOMAIN inbox[c]}
           \cup {pipe[c][i].of : i \in DOMAIN pipe[c]}
=============================================================================
