--------------------------- MODULE RuntimeStatus ---------------------------
(***************************************************************************)
(* runtime.py: what a process answers when it is asked whether a backend   *)
(* can run a solve.  The CPU is judged by its record alone                 *)
(* (backend_ready); an accelerator by its hardware, its record while a run *)
(* is in progress, and else by asking Julia.  That takes up to five        *)
(* minutes, and the answer is kept - also that none came in time - for the *)
(* life of the process, or until the process itself provisions.            *)
(*                                                                         *)
(* A reader asks from other threads than the one that provisions: a call   *)
(* may be on its way to Julia or back while a run begins or ends.          *)
(***************************************************************************)
EXTENDS Provisioning, FiniteSets

CONSTANTS Hardware,  \* the accelerators whose hardware the host has
          Metal,     \* the one whose driver is the operating system's
          MaxCalls   \* the bound: a reader's calls to Julia at a time

Gpus == Backends \ {Cpu}

ASSUME StatusAssumption == Hardware \subseteq Gpus /\ MaxCalls \in Nat

OnTheirWay(r) == probes[r] \ Kept

Status(b) == IF ReadState(b) = None THEN "none" ELSE ReadState(b).status

Cached(r, b, julia) == {x \in probes[r] \cap Kept : x.gpu = b /\ x.julia = julia}

InProgress(b) == Status(b) = "in_progress" /\ b # Metal

(* _gpu_backend_status(); "unasked" where it would have to ask Julia.      *)
GpuVerdict(r, b, julia) ==
  IF b \notin Hardware THEN "no-hardware"
  ELSE IF InProgress(b) THEN "provisioning"
  ELSE IF Cached(r, b, julia) = {} THEN "unasked"
  ELSE IF \E x \in Cached(r, b, julia) : x.said = "yes" THEN "ready"
  ELSE "not-functional"

(* _cpu_backend_status(), with the reader's cached fingerprint.            *)
CpuVerdict(r) ==
  IF ReadyFor(ReadState(Cpu), known[r][Cpu]) THEN "ready"
  ELSE IF Status(Cpu) = "in_progress" THEN "provisioning"
  ELSE IF Status(Cpu) = "failed" THEN "failed"
  ELSE "unprovisioned"

(* backend_status()                                                        *)
BackendVerdict(r, b, julia) ==
  IF julia = NoJulia THEN "no-julia"
  ELSE IF b = Cpu THEN CpuVerdict(r)
  ELSE GpuVerdict(r, b, julia)

-----------------------------------------------------------------------------
(* _julia_gpu_functional(): a subprocess, asked of what this process has   *)
(* no answer about.                                                        *)
AskJulia(r, b, julia) ==
  /\ Cardinality(OnTheirWay(r)) < MaxCalls
  /\ julia # NoJulia
  /\ GpuVerdict(r, b, julia) = "unasked"
  /\ probes' = [probes EXCEPT ![r] = @ \cup
       {[gpu |-> b, julia |-> julia, said |-> "pending", kept |-> FALSE]}]
  /\ UNCHANGED <<diskVars, holder, at, run, known>>

Becomes(r, call, calls) ==
  /\ probes' = [probes EXCEPT ![r] = (@ \ {call}) \cup calls]
  /\ UNCHANGED <<diskVars, holder, at, run, known>>

(* What was probed for the present content works, with an intact Julia, if *)
(* it answers in time; what was not may work all the same, instantiated by *)
(* an unfinished run or by the user.                                       *)
JuliaAnswers(r, call) ==
  /\ call.said = "pending"
  /\ \E said \in {"yes", "no", "nothing"} :
       /\ said = "yes" => Runs(call.julia)
       /\ said = "no" => ~Runs(call.julia) \/ <<call.gpu, content>> \notin proved
       /\ Becomes(r, call, {[call EXCEPT !.said = said]})

(* The lru_cache keeps the answer, unless another call's came before it.   *)
StoreAnswer(r, call) ==
  /\ call.said # "pending"
  /\ Becomes(r, call, IF Cached(r, call.gpu, call.julia) = {}
                       THEN {[call EXCEPT !.kept = TRUE]} ELSE {})

Asks(r) ==
  \/ \E julia \in Discovered(TRUE), b \in Gpus : AskJulia(r, b, julia)
  \/ \E call \in OnTheirWay(r) : JuliaAnswers(r, call) \/ StoreAnswer(r, call)

StatusNext == Next \/ \E r \in Readers : Asks(r)

StatusSpec == Init /\ [][StatusNext]_vars

-----------------------------------------------------------------------------
(* A process that has provisioned a backend, and is done with it, denies   *)
(* it.  Where Julia did not answer in time nothing is known of the engine. *)
Denies(r, b, julia) ==
  /\ BackendVerdict(r, b, julia) \notin {"ready", "unasked"}
  /\ \A x \in Cached(r, b, julia) : x.said # "nothing"

Hidden(r, b) ==
  /\ at[r] # "idle" => run[r].backend # b
  /\ ReadyFor(ReadState(b), content)
  /\ \E julia \in Discovered(TRUE) : Denies(r, b, julia)

(* A thread has been told no and has yet to store it.                      *)
OnItsWay(r, b) == \E x \in OnTheirWay(r) : x.gpu = b /\ x.said = "no"

(* "The engine becomes available when it finishes", but for an answer that *)
(* is on its way when the run ends, and is kept from then on: a ready      *)
(* engine is never denied by an answer that was kept from before its run,  *)
(* by the record of the run, by another backend's or by an update of the   *)
(* package.                                                                *)
HiddenByLateAnswersOnly ==
  [][\A r \in Readers, b \in Hardware \cup {Cpu} :
       Hidden(r, b)' => Hidden(r, b) \/ OnItsWay(r, b)]_vars
=============================================================================
