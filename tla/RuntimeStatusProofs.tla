-------------------------- MODULE RuntimeStatusProofs -------------------------
(***************************************************************************)
(* What holds of the records while processes also ask Julia, for every set *)
(* of backends, accelerators and readers: a call in flight over a run, or  *)
(* over the death of its process, leaves the records as sound as           *)
(* ProvisioningProofs finds them.                                          *)
(***************************************************************************)
EXTENDS RuntimeStatus, ProvisioningProofs

USE RecordsAssumption, ProvisioningAssumption, NoneAssumption, StatusAssumption

-----------------------------------------------------------------------------
(* Asking Julia changes what one process remembers, and nothing else; what *)
(* it remembers is calls.                                                  *)
LEMMA AskRemembers ==
  ASSUME Typed, NEW r \in Readers, Asks(r)
  PROVE  /\ probes' \in [Readers -> SUBSET Call]
         /\ UNCHANGED <<records, mirror, tree, content, proved, holder, at, run, known>>
  <1>1. probes \in [Readers -> SUBSET Call]
    BY DEF Typed, TypeOK
  <1>2. ASSUME NEW call \in Call, NEW calls \in SUBSET Call, Becomes(r, call, calls)
        PROVE  /\ probes' \in [Readers -> SUBSET Call]
               /\ UNCHANGED <<records, mirror, tree, content, proved, holder, at, run, known>>
    BY <1>1, <1>2 DEF Becomes, diskVars
  <1>3. CASE \E julia \in Discovered(TRUE), b \in Gpus : AskJulia(r, b, julia)
    <2> PICK julia \in Discovered(TRUE), b \in Gpus : AskJulia(r, b, julia)
      BY <1>3
    <2> DEFINE call == [gpu |-> b, julia |-> julia, said |-> "pending", kept |-> FALSE]
    <2>1. julia \in Julias
      BY DiscoveredIsAJulia DEF Typed, TypeOK
    <2>2. call \in Call
      BY <2>1 DEF Call, Gpus
    <2>3. probes' = [probes EXCEPT ![r] = @ \cup {call}]
      BY DEF AskJulia
    <2> HIDE DEF call
    <2>4. probes' \in [Readers -> SUBSET Call]
      BY <1>1, <2>2, <2>3
    <2> QED BY <2>4 DEF AskJulia, diskVars
  <1>4. CASE \E call \in OnTheirWay(r) : JuliaAnswers(r, call) \/ StoreAnswer(r, call)
    <2> PICK call \in OnTheirWay(r) : JuliaAnswers(r, call) \/ StoreAnswer(r, call)
      BY <1>4
    <2>1. call \in Call
      BY <1>1 DEF OnTheirWay
    <2>2. [call EXCEPT !.kept = TRUE] \in Call
      BY <2>1 DEF Call
    <2>3. ASSUME NEW said \in {"yes", "no", "nothing"}
          PROVE  [call EXCEPT !.said = said] \in Call
      BY <2>1 DEF Call
    <2>4. \E calls \in SUBSET Call : Becomes(r, call, calls)
      <3>1. CASE JuliaAnswers(r, call)
        BY <3>1, <2>3 DEF JuliaAnswers
      <3>2. CASE StoreAnswer(r, call)
        BY <3>2, <2>2 DEF StoreAnswer
      <3> QED BY <3>1, <3>2
    <2> QED BY <1>2, <2>1, <2>4
  <1> QED BY <1>3, <1>4 DEF Asks

LEMMA AskTyped ==
  ASSUME Typed, NEW r \in Readers, Asks(r)
  PROVE  Typed'
  <1>1. /\ probes' \in [Readers -> SUBSET Call]
        /\ UNCHANGED <<records, mirror, tree, content, proved, holder, at, run, known>>
    BY AskRemembers
  <1>2. DiskTypeOK'
    BY <1>1 DEF Typed, TypeOK, DiskTypeOK
  <1> QED BY <1>1, <1>2 DEF Typed, TypeOK

LEMMA AskSound ==
  ASSUME Typed, AllSound, NEW r \in Readers, Asks(r)
  PROVE  AllSound'
  <1>1. UNCHANGED <<records, mirror, content, proved, at, run, known>>
    BY AskRemembers
  <1>2. \A record : Sound(record)' <=> Sound(record)
    BY <1>1 DEF Sound, Vouched
  <1>3. ASSUME NEW p \in Processes, RunSound(p) PROVE RunSound(p)'
    BY <1>1, <1>3 DEF RunSound, Sound, Vouched
  <1> QED BY <1>1, <1>3 DEF AllSound, Sound, Vouched

StatusIInv == Typed /\ AllSound

LEMMA StatusStep == StatusIInv /\ [StatusNext]_vars => StatusIInv'
  <1> SUFFICES ASSUME StatusIInv, [StatusNext]_vars PROVE StatusIInv'
    OBVIOUS
  <1>1. CASE \E r \in Readers : Asks(r)
    BY <1>1, AskTyped, AskSound DEF StatusIInv
  <1>2. CASE [Next]_vars
    BY <1>2, StepTyped, StepSound DEF StatusIInv
  <1> QED BY <1>1, <1>2 DEF StatusNext

LEMMA StatusInvariance == StatusSpec => []StatusIInv
  <1>1. Init => StatusIInv
    BY InitTyped, InitSound DEF StatusIInv
  <1> QED BY <1>1, StatusStep, PTL DEF StatusSpec

(* The records, and the calls that the processes remember or wait for,     *)
(* keep their types.                                                       *)
THEOREM RuntimeStatusTyped == StatusSpec => []TypeOK
  <1>1. StatusIInv => TypeOK
    BY DEF StatusIInv, Typed
  <1> QED BY <1>1, StatusInvariance, PTL

(* A backend that is said to be ready was probed with what is installed    *)
(* now, also while processes ask Julia of accelerators nobody provisioned. *)
THEOREM ReadyIsProvedWhileAsked == StatusSpec => []ReadyMeansProved
  <1>1. StatusIInv => ReadyMeansProved
    BY SoundMeansProved DEF StatusIInv
  <1> QED BY <1>1, StatusInvariance, PTL
=============================================================================
