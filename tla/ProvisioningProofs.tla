------------------------- MODULE ProvisioningProofs -------------------------
(***************************************************************************)
(* What holds of provisioning for every set of backends and processes and  *)
(* every number of package updates, whatever raises or dies.               *)
(***************************************************************************)
EXTENDS Provisioning, TLAPS

USE RecordsAssumption, ProvisioningAssumption, NoneAssumption

(* Beyond TypeOK: a mirror that is being copied is there to be copied.     *)
Typed ==
  /\ TypeOK
  /\ \A p \in Processes : at[p] = "copying" => run[p].legacy # None

LEMMA DiscoveredIsAJulia ==
  ASSUME DiskTypeOK, NEW here \in BOOLEAN
  PROVE  Discovered(here) \subseteq Julias
  <1>1. ASSUME NEW record PROVE RecordedJulia(record) \in Julias
    BY DEF RecordedJulia, Exists, Julias
  <1>2. Provisioned \subseteq Julias
    BY <1>1 DEF Provisioned
  <1> QED BY <1>2 DEF Discovered, Julias

(* A Julia is found, or one has to be downloaded.                          *)
LEMMA ResolveCases ==
  ASSUME DiskTypeOK, NEW p \in Processes, Resolve(p)
  PROVE  \/ \E julia \in Julias : Write(p, "in_progress", julia, "instantiating")
         \/ Go(p, "downloading") /\ UNCHANGED run
  <1>1. PICK found \in Discovered(p \notin Elsewhere) :
          LET kept == RecordedJulia([julia |-> run[p].previous])
              julia == IF found # NoJulia THEN found ELSE kept
          IN IF julia # NoJulia
             THEN Write(p, "in_progress", julia, "instantiating")
             ELSE Go(p, "downloading") /\ UNCHANGED run
    BY DEF Resolve
  <1> DEFINE julia == IF found # NoJulia THEN found
                      ELSE RecordedJulia([julia |-> run[p].previous])
  <1>2. julia \in Julias
    BY DiscoveredIsAJulia DEF RecordedJulia, Exists, Julias
  <1>3. \/ Write(p, "in_progress", julia, "instantiating")
        \/ Go(p, "downloading") /\ UNCHANGED run
    BY <1>1
  <1> QED BY <1>2, <1>3

LEMMA ReadStateTyped ==
  ASSUME DiskTypeOK, NEW b \in Backends
  PROVE  /\ ReadState(b) \in Record \cup {None}
         /\ ReadState(b) # None => ReadState(b).backend = b
  BY DEF DiskTypeOK, ReadState, Record

LEMMA InitTyped == Init => Typed
  <1> SUFFICES ASSUME Init PROVE Typed
    OBVIOUS
  <1>1. DiskTypeOK
    BY DEF Init, DiskInit, DiskTypeOK, Record, Contents, Julias, Trees
  <1> QED BY <1>1 DEF Init, Typed, TypeOK, Places, Contents

(* What a step leaves to show once the disk has its type.                  *)
LEMMA WriteTyped ==
  ASSUME Typed, NEW p \in Processes, at[p] # "idle", DiskTypeOK',
         NEW status \in {"in_progress", "ready", "failed"}, NEW julia \in Julias,
         NEW next \in {"resolving", "leaving"} \cup Using,
         Write(p, status, julia, next), UNCHANGED <<holder, known>>,
         probes' \in [Readers -> SUBSET Call]
  PROVE  Typed'
  <1>1. run[p] \in Run
    BY DEF Typed, TypeOK
  <1>2. [run[p] EXCEPT !.status = status, !.julia = julia, !.legacy = None,
                       !.next = next] \in Run
    BY <1>1 DEF Run
  <1> QED BY <1>1, <1>2 DEF Typed, TypeOK, Write, Go, Places, Writing

(* The fields of a run after a write was begun, and after its mirror was   *)
(* set aside.                                                              *)
LEMMA WriteFields ==
  ASSUME Typed, NEW p \in Processes, at[p] # "idle",
         NEW status, NEW julia, NEW next, Write(p, status, julia, next)
  PROVE  /\ at'[p] = "checking"
         /\ run'[p].status = status /\ run'[p].julia = julia /\ run'[p].next = next
         /\ run'[p].backend = run[p].backend /\ run'[p].legacy = None
  <1>1. run[p] \in Run
    BY DEF Typed, TypeOK
  <1>2. run'[p] = [run[p] EXCEPT !.status = status, !.julia = julia, !.legacy = None,
                                 !.next = next]
    BY DEF Write, Typed, TypeOK
  <1> QED BY <1>1, <1>2 DEF Write, Go, Typed, TypeOK, Run

LEMMA LegacyFields ==
  ASSUME Typed, NEW p \in Processes, run[p] \in Run, NEW x \in Record \cup {None},
         run' = [run EXCEPT ![p].legacy = x]
  PROVE  /\ run' = [run EXCEPT ![p] = run'[p]]
         /\ run'[p] \in Run /\ run'[p].legacy = x
         /\ run'[p].status = run[p].status /\ run'[p].julia = run[p].julia
         /\ run'[p].next = run[p].next /\ run'[p].backend = run[p].backend
  <1>1. run' = [run EXCEPT ![p] = [run[p] EXCEPT !.legacy = x]]
    OBVIOUS
  <1>2. run'[p] = [run[p] EXCEPT !.legacy = x]
    BY DEF Typed, TypeOK
  <1> QED BY <1>1, <1>2 DEF Run

LEMMA LeaveTyped ==
  ASSUME Typed, NEW p \in Processes, DiskTypeOK', Leave(p),
         known' \in [Processes -> [Backends -> Contents]],
         probes' \in [Readers -> SUBSET Call]
  PROVE  Typed'
  BY DEF Typed, TypeOK, Leave, Go, Places

LEMMA GoTyped ==
  ASSUME Typed, NEW p \in Processes, at[p] # "idle", DiskTypeOK',
         NEW place \in Places \ {"idle", "copying"},
         Go(p, place), UNCHANGED <<run, known>>, holder' \in Processes \cup {None},
         probes' \in [Readers -> SUBSET Call]
  PROVE  Typed'
  BY DEF Typed, TypeOK, Go

(* A process remembers only calls to Julia, and forgets some of them.      *)
LEMMA StepRemembers ==
  ASSUME Typed, [Next]_vars
  PROVE  probes' \in [Readers -> SUBSET Call]
  <1>1. ASSUME NEW p, NEW calls, Forgets(p, calls)
        PROVE  probes' \in [Readers -> SUBSET Call]
    BY <1>1 DEF Forgets, Typed, TypeOK
  <1>2. ASSUME UNCHANGED probes PROVE probes' \in [Readers -> SUBSET Call]
    BY <1>2 DEF Typed, TypeOK
  <1>3. ASSUME NEW p \in Processes, Start(p) \/ Step(p) \/ Raise(p) \/ Die(p)
        PROVE  UNCHANGED probes \/ \E calls : Forgets(p, calls)
    BY <1>3 DEF Start, Step, Acquire, ReadAgain, Write3, CheckMirror, CopyMirror,
       WriteRecord, WriteMirror, Resolve, Unpacking, Download, Unpack, RemoveSome,
       RemoveRest, Place, Instantiate, Probe, Return, Raise, LockRaises, WriteRaises,
       CallRaises, RemoveRaises, Die, processVars
  <1>4. CASE Update \/ UNCHANGED vars
    BY <1>2, <1>4 DEF Update, vars, processVars
  <1> QED BY <1>1, <1>2, <1>3, <1>4 DEF Next

LEMMA RecordedTyped ==
  ASSUME Typed, NEW p \in Processes, at[p] # "idle"
  PROVE  Recorded(p) \in Record
  <1>1. run[p] \in Run /\ known \in [Processes -> [Backends -> Contents]]
    BY DEF Typed, TypeOK
  <1> QED BY <1>1 DEF Recorded, Record, Run, Contents

LEMMA StepTyped == Typed /\ [Next]_vars => Typed'
  <1> SUFFICES ASSUME Typed, [Next]_vars PROVE Typed'
    OBVIOUS
  <1>p. probes' \in [Readers -> SUBSET Call]
    BY StepRemembers
  <1> USE <1>p
  <1>0. DiskTypeOK
    BY DEF Typed, TypeOK
  <1> USE DEF diskVars, processVars
  <1>1. CASE Update
    <2>1. content' \in Contents /\ DiskTypeOK'
      BY <1>0, <1>1 DEF Update, DiskTypeOK, Contents, Record
    <2> QED BY <1>1, <2>1 DEF Update, Typed, TypeOK, Contents
  <1>2. ASSUME NEW p \in Processes, Start(p) PROVE Typed'
    <2>1. PICK b \in Backends, force \in BOOLEAN :
            /\ Go(p, "waiting")
            /\ run' = [run EXCEPT ![p] =
                 [backend |-> b, force |-> force, status |-> "in_progress",
                  julia |-> NoJulia, previous |-> NoJulia, legacy |-> None,
                  next |-> "leaving"]]
      BY <1>2 DEF Start
    <2>2. [backend |-> b, force |-> force, status |-> "in_progress",
           julia |-> NoJulia, previous |-> NoJulia, legacy |-> None,
           next |-> "leaving"] \in Run
      BY DEF Run, Julias
    <2>3. DiskTypeOK'
      BY <1>0, <1>2 DEF Start, DiskTypeOK
    <2> QED BY <1>2, <2>1, <2>2, <2>3 DEF Start, Typed, TypeOK, Go, Places
  <1>3. ASSUME NEW p \in Processes, at[p] # "idle", UNCHANGED diskVars PROVE DiskTypeOK'
    BY <1>0, <1>3 DEF DiskTypeOK
  <1>4. ASSUME NEW p \in Processes, at[p] # "idle" PROVE run[p] \in Run
    BY <1>4 DEF Typed, TypeOK
  <1>5. ASSUME NEW p \in Processes, Acquire(p) PROVE Typed'
    BY <1>5, <1>3, GoTyped DEF Acquire, Places
  <1>6. ASSUME NEW p \in Processes, ReadAgain(p) PROVE Typed'
    <2>1. CASE Leave(p)
      BY <1>6, <1>3, <2>1, LeaveTyped DEF ReadAgain, Typed, TypeOK
    <2>2. CASE ~Leave(p)
      <3> DEFINE previous == ReadState(run[p].backend)
                 julia == IF previous = None THEN NoJulia ELSE previous.julia
      <3>1. /\ at[p] = "locked"
            /\ run' = [run EXCEPT ![p] = [@ EXCEPT !.next = "resolving", !.previous = julia]]
            /\ Go(p, "checking")
            /\ UNCHANGED holder
        BY <1>6, <2>2 DEF ReadAgain
      <3>2. run[p] \in Run /\ run[p].backend \in Backends
        BY <1>4, <3>1 DEF Run
      <3>3. julia \in Julias
        BY <1>0, <3>2, ReadStateTyped DEF Record, Julias
      <3> HIDE DEF julia
      <3>4. [run[p] EXCEPT !.next = "resolving", !.previous = julia] \in Run
        BY <3>2, <3>3 DEF Run, Resolving
      <3> QED BY <1>6, <1>3, <3>1, <3>4 DEF ReadAgain, Typed, TypeOK, Go, Places, Writing
    <2> QED BY <2>1, <2>2
  <1>7. ASSUME NEW p \in Processes, CheckMirror(p) PROVE Typed'
    <2>1. run[p] \in Run
      BY <1>7, <1>4 DEF CheckMirror
    <2>2. DiskTypeOK' /\ UNCHANGED <<holder, known>> /\ at[p] = "checking"
      BY <1>7, <1>3 DEF CheckMirror
    <2>3. CASE mirror # None /\ records[mirror.backend] = None
      <3>1. /\ run' = [run EXCEPT ![p] = run'[p]]
            /\ run'[p] \in Run /\ run'[p].legacy # None
        BY <1>7, <1>0, <2>1, <2>3, LegacyFields DEF CheckMirror, DiskTypeOK
      <3>2. Go(p, "copying")
        BY <1>7, <2>3 DEF CheckMirror
      <3>3. run' \in [Processes -> Run \cup {None}] /\ \A q \in Processes : q # p => run'[q] = run[q]
        BY <3>1 DEF Typed, TypeOK
      <3> QED BY <2>2, <3>1, <3>2, <3>3 DEF Typed, TypeOK, Go, Places, Writing
    <2>4. CASE ~(mirror # None /\ records[mirror.backend] = None)
      <3>1. Go(p, "recording") /\ UNCHANGED <<diskVars, holder, run, known, probes>>
        BY <1>7, <2>4 DEF CheckMirror
      <3> QED BY <1>7, <2>2, <3>1, GoTyped DEF CheckMirror, Typed, TypeOK, Places, Writing
    <2> QED BY <2>3, <2>4
  <1>8. ASSUME NEW p \in Processes, CopyMirror(p) PROVE Typed'
    <2>1. run[p] \in Run /\ run[p].legacy \in Record
      BY <1>8, <1>4 DEF CopyMirror, Typed, TypeOK, Run
    <2>2. DiskTypeOK'
      BY <1>8, <1>0, <2>1 DEF CopyMirror, DiskTypeOK, Record
    <2>3. [run[p] EXCEPT !.legacy = None] \in Run
      BY <2>1 DEF Run
    <2> QED BY <1>8, <2>2, <2>3 DEF CopyMirror, Typed, TypeOK, Go, Places, Writing
  <1>9. ASSUME NEW p \in Processes, at[p] # "idle" PROVE Recorded(p) \in Record
    BY <1>9, RecordedTyped
  <1>10. ASSUME NEW p \in Processes, WriteRecord(p) PROVE Typed'
    <2>1. Recorded(p) \in Record /\ Recorded(p).backend = run[p].backend
      BY <1>9, <1>10 DEF WriteRecord, Recorded
    <2>2. DiskTypeOK'
      BY <1>10, <1>0, <2>1 DEF WriteRecord, DiskTypeOK, Record
    <2> QED BY <1>10, <2>2, GoTyped DEF WriteRecord, Places, Writing, Typed, TypeOK
  <1>11. ASSUME NEW p \in Processes, WriteMirror(p) PROVE Typed'
    <2>1. Recorded(p) \in Record
      BY <1>9, <1>11 DEF WriteMirror
    <2>2. DiskTypeOK'
      BY <1>11, <1>0, <2>1 DEF WriteMirror, DiskTypeOK
    <2>3. run[p].next \in Places \ {"idle", "copying"}
      BY <1>11, <1>4 DEF WriteMirror, Run, Places, Resolving, Using, Writing
    <2> QED BY <1>11, <2>2, <2>3, GoTyped DEF WriteMirror, Typed, TypeOK
  <1>12. ASSUME NEW p \in Processes, Resolve(p) PROVE Typed'
    <2>1. CASE \E julia \in Julias : Write(p, "in_progress", julia, "instantiating")
      BY <1>12, <1>3, <2>1, WriteTyped DEF Resolve, Using
    <2>2. CASE Go(p, "downloading") /\ UNCHANGED run
      BY <1>12, <1>3, <2>2, GoTyped DEF Resolve, Places, Resolving, Typed, TypeOK
    <2> QED BY <1>0, <1>12, <2>1, <2>2, ResolveCases
  <1>13. ASSUME NEW p \in Processes, Download(p) \/ Unpack(p) PROVE Typed'
    BY <1>13, <1>3, GoTyped DEF Download, Unpack, Places, Resolving, Typed, TypeOK
  <1>14. ASSUME NEW p \in Processes, RemoveSome(p) PROVE Typed'
    BY <1>14, <1>0 DEF RemoveSome, DiskTypeOK, Trees, Typed, TypeOK
  <1>15. ASSUME NEW p \in Processes, RemoveRest(p) PROVE Typed'
    <2>1. DiskTypeOK'
      BY <1>15, <1>0 DEF RemoveRest, DiskTypeOK, Trees
    <2> QED BY <1>15, <2>1, GoTyped DEF RemoveRest, Places, Resolving, Typed, TypeOK
  <1>16. ASSUME NEW p \in Processes, Place(p) PROVE Typed'
    <2>1. DiskTypeOK'
      BY <1>16, <1>0 DEF Place, DiskTypeOK, Trees
    <2> QED BY <1>16, <2>1, WriteTyped DEF Place, Julias, Using
  <1>17. ASSUME NEW p \in Processes, at[p] # "idle", UNCHANGED known, Fail(p),
               UNCHANGED <<holder, diskVars>>
         PROVE Typed'
    <2>1. run[p].julia \in Julias
      BY <1>4, <1>17 DEF Run
    <2> QED BY <1>3, <1>17, <2>1, WriteTyped DEF Fail
  <1>18. ASSUME NEW p \in Processes, Instantiate(p) PROVE Typed'
    <2>1. run[p].julia \in Julias
      BY <1>4, <1>18 DEF Instantiate, Run
    <2>2. CASE Write(p, "in_progress", run[p].julia, "probing")
      BY <1>3, <1>18, <2>1, <2>2, WriteTyped DEF Instantiate, Using
    <2> QED BY <1>17, <1>18, <2>2 DEF Instantiate
  <1>19. ASSUME NEW p \in Processes, Probe(p) PROVE Typed'
    <2>1. run[p] \in Run /\ run[p].julia \in Julias /\ run[p].backend \in Backends
      BY <1>4, <1>19 DEF Probe, Run
    <2>2. CASE Write(p, "ready", run[p].julia, "leaving") /\ ~Fail(p)
      <3>1. DiskTypeOK'
        BY <1>0, <1>19, <2>1, <2>2 DEF Probe, DiskTypeOK
      <3> QED BY <1>19, <2>1, <2>2, <3>1, WriteTyped DEF Probe
    <2>3. CASE Fail(p)
      <3>1. DiskTypeOK'
        BY <1>0, <1>19, <2>1, <2>3 DEF Probe, DiskTypeOK
      <3> QED BY <1>19, <2>1, <2>3, <3>1, WriteTyped DEF Probe, Fail
    <2> QED BY <1>19, <2>2, <2>3 DEF Probe
  <1>20. ASSUME NEW p \in Processes, Return(p) PROVE Typed'
    BY <1>20, <1>3, LeaveTyped DEF Return, Typed, TypeOK
  <1>21. ASSUME NEW p \in Processes, LockRaises(p) PROVE Typed'
    BY <1>21, <1>3, WriteTyped DEF LockRaises, Julias
  <1>22. ASSUME NEW p \in Processes, WriteRaises(p) PROVE Typed'
    <2>1. at[p] # "idle"
      BY <1>22 DEF WriteRaises, Writing
    <2>2. CASE Leave(p)
      BY <1>22, <1>3, <2>1, <2>2, LeaveTyped DEF WriteRaises, Typed, TypeOK
    <2> QED BY <1>17, <1>22, <2>1, <2>2 DEF WriteRaises
  <1>23. ASSUME NEW p \in Processes, CallRaises(p) \/ RemoveRaises(p) PROVE Typed'
    <2>1. at[p] # "idle"
      BY <1>23 DEF CallRaises, RemoveRaises, Resolving, Using
    <2> QED BY <1>17, <1>23, <2>1 DEF CallRaises, RemoveRaises
  <1>24. ASSUME NEW p \in Processes, Die(p) PROVE Typed'
    <2>1. DiskTypeOK'
      BY <1>0, <1>24 DEF Die, DiskTypeOK
    <2>2. known' \in [Processes -> [Backends -> Contents]]
      BY <1>0, <1>24 DEF Die, Typed, TypeOK, DiskTypeOK
    <2> QED BY <1>24, <2>1, <2>2, LeaveTyped DEF Die
  <1>25. CASE UNCHANGED vars
    BY <1>0, <1>25 DEF vars, Typed, TypeOK, DiskTypeOK
  <1> QED
    BY <1>1, <1>2, <1>5, <1>6, <1>7, <1>8, <1>10, <1>11, <1>12, <1>13, <1>14,
       <1>15, <1>16, <1>18, <1>19, <1>20, <1>21, <1>22, <1>23, <1>24, <1>25
    DEF Next, Step, Write3, Unpacking, Raise

LEMMA TypeInvariance == Spec => []Typed
  BY InitTyped, StepTyped, PTL DEF Spec

(* Type correctness of the runtime directory and of the runs on it.        *)
THEOREM ProvisioningTyped == Spec => []TypeOK
  <1>1. Typed => TypeOK
    BY DEF Typed
  <1> QED BY <1>1, TypeInvariance, PTL

-----------------------------------------------------------------------------
(* The part of a run that the kernel's lock is for.  A write belongs to it *)
(* unless it is the last one, which a run that could not lock does too.    *)
NeedsLock(p) ==
  \/ at[p] \in {"locked"} \cup Resolving \cup Using
  \/ at[p] \in Writing /\ run[p].next # "leaving"

Locked == \A p \in Processes : NeedsLock(p) => holder = p

LEMMA InitLocked == Init => Locked
  BY DEF Init, Locked, NeedsLock, Resolving, Using, Writing

(* A step of one process leaves the others where they are.                 *)
LEMMA OthersStay ==
  ASSUME Typed, NEW p \in Processes, NEW q \in Processes, q # p,
         Start(p) \/ Step(p) \/ Raise(p) \/ Die(p)
  PROVE  at'[q] = at[q] /\ run'[q] = run[q] /\ known'[q] = known[q]
  <1> USE DEF Typed, TypeOK, Go
  <1>1. CASE Start(p)
    BY <1>1 DEF Start
  <1>2. CASE Acquire(p) \/ WriteRecord(p) \/ WriteMirror(p)
    BY <1>2 DEF Acquire, WriteRecord, WriteMirror
  <1>3. CASE CheckMirror(p) \/ CopyMirror(p)
    BY <1>3 DEF CheckMirror, CopyMirror
  <1>4. CASE ReadAgain(p) \/ Resolve(p)
    BY <1>4 DEF ReadAgain, Resolve, Leave, Write
  <1>5. CASE Return(p) \/ Die(p)
    BY <1>5 DEF Return, Die, Leave
  <1>6. CASE Download(p) \/ Unpack(p) \/ RemoveSome(p) \/ RemoveRest(p)
    BY <1>6 DEF Download, Unpack, RemoveSome, RemoveRest, processVars
  <1>7. CASE Place(p) \/ Instantiate(p) \/ Probe(p)
    BY <1>7 DEF Place, Instantiate, Probe, Fail, Write
  <1>8. CASE Raise(p)
    BY <1>8 DEF Raise, LockRaises, WriteRaises, CallRaises, RemoveRaises, Leave, Fail, Write
  <1> QED BY <1>1, <1>2, <1>3, <1>4, <1>5, <1>6, <1>7, <1>8 DEF Step, Write3, Unpacking

(* The lock changes hands at its acquisition and at the end of a run.      *)
LEMMA HandOver ==
  ASSUME Typed, NEW p \in Processes, Start(p) \/ Step(p) \/ Raise(p) \/ Die(p)
  PROVE  \/ holder' = holder
         \/ holder = None /\ holder' = p
         \/ Leave(p) /\ holder' \in {holder, None} /\ (holder' = None => holder \in {p, None})
  <1>1. CASE Start(p) \/ Raise(p) \/ Die(p)
    BY <1>1 DEF Start, Raise, LockRaises, WriteRaises, CallRaises, RemoveRaises, Die, Leave
  <1>2. CASE Acquire(p) \/ ReadAgain(p) \/ Write3(p) \/ Resolve(p) \/ Return(p)
    BY <1>2 DEF Acquire, ReadAgain, Write3, CheckMirror, CopyMirror, WriteRecord,
                WriteMirror, Resolve, Return, Leave
  <1>3. CASE Unpacking(p) \/ Instantiate(p) \/ Probe(p)
    BY <1>3 DEF Unpacking, Download, Unpack, RemoveSome, RemoveRest, Place,
                Instantiate, Probe, processVars
  <1> QED BY <1>1, <1>2, <1>3 DEF Step

(* Only Acquire takes a process into the part that needs the lock.         *)
LEMMA Entry ==
  ASSUME Typed, NEW p \in Processes, Start(p) \/ Step(p) \/ Raise(p) \/ Die(p),
         NeedsLock(p)'
  PROVE  (NeedsLock(p) /\ holder' = holder) \/ holder' = p
  <1> USE DEF Typed, TypeOK, NeedsLock, Go, Resolving, Using, Writing, Places, Run, Leave
  <1>1. CASE Start(p)
    BY <1>1 DEF Start
  <1>2. CASE Acquire(p) \/ WriteRecord(p) \/ WriteMirror(p)
    BY <1>2 DEF Acquire, WriteRecord, WriteMirror
  <1>3. CASE CheckMirror(p) \/ CopyMirror(p)
    <2>1. run[p] \in Run /\ at[p] \in Writing /\ holder' = holder
      BY <1>3 DEF CheckMirror, CopyMirror
    <2>2. mirror \in Record \cup {None}
      BY DEF DiskTypeOK
    <2>3. run'[p].next = run[p].next
      BY <1>3, <2>1, <2>2, LegacyFields DEF CheckMirror, CopyMirror
    <2>4. at'[p] \in Writing
      BY <1>3 DEF CheckMirror, CopyMirror
    <2> QED BY <2>1, <2>3, <2>4
  <1>5. CASE ReadAgain(p)
    BY <1>5 DEF ReadAgain
  <1>6. CASE Resolve(p)
    BY <1>6 DEF Resolve
  <1>7. CASE Return(p) \/ Die(p)
    <2>1. at'[p] = "idle"
      BY <1>7 DEF Return, Die
    <2> QED BY <2>1
  <1>8. CASE Unpacking(p)
    BY <1>8 DEF Unpacking, Download, Unpack, RemoveSome, RemoveRest, Place, processVars
  <1>9. CASE Instantiate(p) \/ Probe(p)
    BY <1>9 DEF Instantiate, Probe
  <1>10. CASE LockRaises(p) \/ CallRaises(p) \/ RemoveRaises(p)
    BY <1>10, WriteFields DEF LockRaises, CallRaises, RemoveRaises, Fail
  <1>11. CASE WriteRaises(p)
    BY <1>11, WriteFields DEF WriteRaises, Fail
  <1> QED BY <1>1, <1>2, <1>3, <1>5, <1>6, <1>7, <1>8, <1>9, <1>10, <1>11
          DEF Step, Write3, Raise

LEMMA StepLocked == Typed /\ Locked /\ [Next]_vars => Locked'
  <1> SUFFICES ASSUME Typed, Locked, [Next]_vars, NEW q \in Processes, NeedsLock(q)'
               PROVE  holder' = q
    BY DEF Locked
  <1>1. CASE Update \/ UNCHANGED vars
    BY <1>1 DEF Update, vars, processVars, Locked, NeedsLock
  <1>2. ASSUME NEW p \in Processes, Start(p) \/ Step(p) \/ Raise(p) \/ Die(p)
        PROVE  holder' = q
    <2>1. CASE p = q
      BY <1>2, <2>1, Entry DEF Locked
    <2>2. CASE p # q
      <3>1. holder = q
        BY <1>2, <2>2, OthersStay DEF Locked, NeedsLock
      <3> QED BY <1>2, <2>2, <3>1, HandOver
    <2> QED BY <2>1, <2>2
  <1> QED BY <1>1, <1>2 DEF Next

LEMMA LockInvariance == Spec => [](Typed /\ Locked)
  BY InitTyped, StepTyped, InitLocked, StepLocked, PTL DEF Spec

(* While a run has Pkg or the probe running, nobody touches the unpacked   *)
(* Julia: whoever could is in the part that needs the lock, and so is the  *)
(* run.                                                                    *)
THEOREM NobodyElseTouchesTheTree == Spec => TreeInUseUntouched
  <1>1. Typed /\ Locked /\ [Next]_vars
        => [\A p \in Processes : at[p] \in Using /\ at'[p] = at[p] => tree' = tree]_vars
    <2> SUFFICES ASSUME Typed, Locked, [Next]_vars, NEW p \in Processes,
                        at[p] \in Using, at'[p] = at[p], tree' # tree
                 PROVE  FALSE
      OBVIOUS
    <2>1. PICK q \in Processes : RemoveSome(q) \/ RemoveRest(q) \/ Place(q)
      BY DEF Next, vars, diskVars, Update, Start, Step, Raise, Die, Acquire, ReadAgain,
             Write3, CheckMirror, CopyMirror, WriteRecord, WriteMirror, Resolve,
             Unpacking, Download, Unpack, Instantiate, Probe, Return, LockRaises,
             WriteRaises, CallRaises, RemoveRaises
    <2>2. at[q] \in Resolving
      BY <2>1 DEF RemoveSome, RemoveRest, Place, Resolving
    <2>3. p = q
      BY <2>2 DEF Locked, NeedsLock
    <2> QED BY <2>2, <2>3 DEF Resolving, Using
  <1> QED BY <1>1, LockInvariance, PTL DEF Spec, TreeInUseUntouched

-----------------------------------------------------------------------------
(* What is known of a record that says ready: its fingerprint is not from  *)
(* the future, and if it is the present one the probe was of just that.    *)
Vouched(b, fingerprint) ==
  /\ fingerprint <= content
  /\ fingerprint = content => <<b, content>> \in proved

Sound(record) ==
  record # None /\ record.status = "ready" => Vouched(record.backend, record.fingerprint)

RunSound(p) ==
  /\ Sound(run[p].legacy)
  /\ run[p].status = "ready" => Vouched(run[p].backend, known[p][run[p].backend])

AllSound ==
  /\ \A p \in Processes, b \in Backends : known[p][b] <= content
  /\ \A b \in Backends : Sound(records[b])
  /\ Sound(mirror)
  /\ \A p \in Processes : at[p] # "idle" => RunSound(p)

LEMMA InitSound == Init => AllSound
  <1> SUFFICES ASSUME Init PROVE AllSound
    OBVIOUS
  <1>1. Sound(mirror)
    BY DEF Init, DiskInit, Sound, Vouched, Record
  <1> QED BY <1>1 DEF Init, DiskInit, AllSound, Sound

(* Contents only grow, and what was probed stays probed.                   *)
LEMMA Monotone ==
  ASSUME Typed, [Next]_vars
  PROVE  /\ content' \in Nat /\ content \in Nat /\ content' >= content
         /\ content' = content => proved \subseteq proved'
         /\ content' # content => Update
  <1>1. CASE Update
    BY <1>1 DEF Update, Typed, TypeOK, DiskTypeOK, Contents
  <1>2. CASE UNCHANGED vars
    BY <1>2 DEF vars, diskVars, Typed, TypeOK, DiskTypeOK, Contents
  <1>3. CASE \E p \in Processes : Start(p) \/ Step(p) \/ Raise(p) \/ Die(p)
    <2>1. content' = content /\ proved \subseteq proved'
      BY <1>3 DEF diskVars, Start, Step, Raise, Die, Acquire, ReadAgain,
             Write3, CheckMirror, CopyMirror, WriteRecord, WriteMirror, Resolve,
             Unpacking, Download, Unpack, RemoveSome, RemoveRest, Place, Instantiate,
             Probe, Return, LockRaises, WriteRaises, CallRaises, RemoveRaises
    <2> QED BY <2>1 DEF Typed, TypeOK, DiskTypeOK, Contents
  <1> QED BY <1>1, <1>2, <1>3 DEF Next

LEMMA StillVouched ==
  ASSUME Typed, [Next]_vars, NEW b \in Backends, NEW f \in Contents \cup {0}, Vouched(b, f)
  PROVE  Vouched(b, f)'
  BY Monotone DEF Vouched, Contents

LEMMA StillSound ==
  ASSUME Typed, [Next]_vars, NEW record \in Record \cup {None}, Sound(record)
  PROVE  Sound(record)'
  BY StillVouched DEF Sound, Record

(* What one step of a run does to the run, as far as soundness can tell:   *)
(* nothing, or it turns "ready" by a probe, or away from it.               *)
LEMMA RunStep ==
  ASSUME Typed, NEW p \in Processes, Step(p) \/ Raise(p) \/ Die(p), at'[p] # "idle",
         at[p] # "idle"
  PROVE  /\ run'[p].backend = run[p].backend
         /\ known'[p][run[p].backend] = known[p][run[p].backend]
         /\ run'[p].legacy \in {run[p].legacy, mirror, None}
         /\ \/ run'[p].status = run[p].status
            \/ run'[p].status \in {"in_progress", "failed"}
            \/ run'[p].status = "ready" /\ <<run[p].backend, content>> \in proved'
  <1> USE DEF Leave, Go
  <1>0. run[p] \in Run /\ DiskTypeOK /\ mirror \in Record \cup {None}
    BY DEF Typed, TypeOK, DiskTypeOK
  <1>1. CASE Acquire(p) \/ WriteRecord(p) \/ WriteMirror(p) \/ Download(p) \/ Unpack(p)
             \/ RemoveSome(p) \/ RemoveRest(p)
    BY <1>1 DEF Acquire, WriteRecord, WriteMirror, Download, Unpack, RemoveSome,
                RemoveRest, processVars
  <1>2. CASE CheckMirror(p) \/ CopyMirror(p)
    BY <1>0, <1>2, LegacyFields DEF CheckMirror, CopyMirror
  <1>3. CASE ReadAgain(p)
    <2>1. CASE Leave(p)
      BY <2>1 DEF Typed, TypeOK
    <2>2. CASE ~Leave(p)
      <3> DEFINE previous == ReadState(run[p].backend)
                 julia == IF previous = None THEN NoJulia ELSE previous.julia
      <3>1. run'[p] = [run[p] EXCEPT !.next = "resolving", !.previous = julia]
        BY <1>3, <2>2 DEF ReadAgain, Typed, TypeOK
      <3> HIDE DEF julia
      <3> QED BY <1>0, <1>3, <3>1 DEF ReadAgain, Run
    <2> QED BY <2>1, <2>2
  <1>4. CASE Resolve(p)
    <2>1. CASE \E julia \in Julias : Write(p, "in_progress", julia, "instantiating")
      BY <1>4, <2>1, WriteFields DEF Resolve
    <2>2. CASE Go(p, "downloading") /\ UNCHANGED run
      BY <1>4, <2>2 DEF Resolve
    <2> QED BY <1>0, <1>4, <2>1, <2>2, ResolveCases
  <1>5. CASE Place(p) \/ Instantiate(p) \/ Probe(p)
    BY <1>5, WriteFields DEF Place, Instantiate, Probe, Fail
  <1>6. CASE Return(p) \/ Die(p)
    <2>1. Leave(p)
      BY <1>6 DEF Return, Die
    <2> QED BY ONLY <2>1, Typed, p \in Processes, at'[p] # "idle" DEF Leave, Go, Typed, TypeOK
  <1>7. CASE LockRaises(p) \/ CallRaises(p) \/ RemoveRaises(p)
    BY <1>7, WriteFields DEF LockRaises, CallRaises, RemoveRaises, Fail
  <1>8. CASE WriteRaises(p)
    BY <1>8, WriteFields DEF WriteRaises, Fail, Typed, TypeOK
  <1> QED BY <1>1, <1>2, <1>3, <1>4, <1>5, <1>6, <1>7, <1>8
          DEF Step, Write3, Unpacking, Raise

(* Who changes what.                                                       *)
LEMMA Changes ==
  ASSUME [Next]_vars
  PROVE  /\ records' # records => \E p \in Processes : CopyMirror(p) \/ WriteRecord(p)
         /\ mirror' # mirror => \E p \in Processes : WriteMirror(p)
         /\ known' # known => Update \/ \E p \in Processes : Die(p)
         /\ tree' # tree => \E p \in Processes : RemoveSome(p) \/ RemoveRest(p) \/ Place(p)
  BY ZenonT(40)
     DEF Next, vars, diskVars, processVars, Update, Start, Step, Raise, Acquire, ReadAgain,
         Write3, CheckMirror, CopyMirror, WriteRecord, WriteMirror, Resolve, Die,
         Unpacking, Download, Unpack, RemoveSome, RemoveRest, Place, Instantiate,
         Probe, Return, LockRaises, WriteRaises, CallRaises, RemoveRaises

LEMMA StepSound == Typed /\ AllSound /\ [Next]_vars => AllSound'
  <1> SUFFICES ASSUME Typed, AllSound, [Next]_vars PROVE AllSound'
    OBVIOUS
  <1>0. /\ records \in [Backends -> Record \cup {None}] /\ mirror \in Record \cup {None}
        /\ \A p \in Processes : at[p] # "idle" => run[p] \in Run
        /\ known \in [Processes -> [Backends -> Contents]] /\ content \in Contents
    BY DEF Typed, TypeOK, DiskTypeOK
  <1>1. \A p \in Processes, b \in Backends : known'[p][b] <= content'
    <2>1. CASE UNCHANGED known
      BY <1>0, <2>1, Monotone DEF AllSound, Contents
    <2>2. CASE Update
      BY <1>0, <2>2 DEF Update, Contents
    <2>3. CASE \E p \in Processes : Die(p)
      BY <1>0, <2>3 DEF Die, diskVars, AllSound, Contents
    <2> QED BY <2>1, <2>2, <2>3, Changes
  <1>2. ASSUME NEW p \in Processes, at[p] # "idle" PROVE Sound(Recorded(p)) /\ Sound(run[p].legacy)
    BY <1>2 DEF AllSound, RunSound, Sound, Recorded
  <1>3. ASSUME NEW p \in Processes, at[p] # "idle" PROVE Recorded(p) \in Record
    BY <1>3, RecordedTyped
  <1>4. ASSUME NEW b \in Backends PROVE Sound(records[b])'
    <2>1. CASE UNCHANGED records
      BY <1>0, <2>1, StillSound DEF AllSound
    <2>2. ASSUME NEW p \in Processes, CopyMirror(p) PROVE Sound(records[b])'
      <3>1. run[p].legacy \in Record /\ Sound(run[p].legacy)
        BY <1>0, <1>2, <2>2 DEF CopyMirror, Typed, TypeOK, Run
      <3>2. records'[b] \in {records[b], run[p].legacy}
        BY <1>0, <2>2 DEF CopyMirror
      <3> QED BY <1>0, <3>1, <3>2, StillSound DEF AllSound
    <2>3. ASSUME NEW p \in Processes, WriteRecord(p) PROVE Sound(records[b])'
      <3>1. Recorded(p) \in Record /\ Sound(Recorded(p))
        BY <1>2, <1>3, <2>3 DEF WriteRecord
      <3>2. records'[b] \in {records[b], Recorded(p)}
        BY <1>0, <2>3 DEF WriteRecord
      <3> QED BY <1>0, <3>1, <3>2, StillSound DEF AllSound
    <2> QED BY <2>1, <2>2, <2>3, Changes
  <1>5. Sound(mirror)'
    <2>1. CASE UNCHANGED mirror
      BY <1>0, <2>1, StillSound DEF AllSound
    <2>2. ASSUME NEW p \in Processes, WriteMirror(p) PROVE Sound(mirror)'
      <3>1. Recorded(p) \in Record /\ Sound(Recorded(p)) /\ mirror' = Recorded(p)
        BY <1>2, <1>3, <2>2 DEF WriteMirror
      <3> QED BY <3>1, StillSound
    <2> QED BY <2>1, <2>2, Changes
  <1>6. ASSUME NEW q \in Processes, at'[q] # "idle" PROVE RunSound(q)'
    <2>1. ASSUME at[q] # "idle", run'[q] = run[q],
                 known'[q][run[q].backend] = known[q][run[q].backend]
          PROVE  RunSound(q)'
      <3>1. /\ run[q].legacy \in Record \cup {None} /\ run[q].backend \in Backends
            /\ known[q][run[q].backend] \in Contents
        BY <1>0, <2>1 DEF Run
      <3> QED BY <2>1, <3>1, StillSound, StillVouched DEF AllSound, RunSound
    <2>2. CASE UNCHANGED vars
      BY <1>6, <2>1, <2>2 DEF vars, processVars
    <2>3. CASE Update
      <3>1. at[q] # "idle" /\ run'[q] = run[q] /\ run[q].backend \in Backends
        BY <1>0, <1>6, <2>3 DEF Update, Run
      <3> QED BY <2>1, <2>3, <3>1 DEF Update
    <2>4. ASSUME NEW p \in Processes, Start(p) \/ Step(p) \/ Raise(p) \/ Die(p), p # q
          PROVE  RunSound(q)'
      <3>1. at'[q] = at[q] /\ run'[q] = run[q] /\ known'[q] = known[q]
        BY <2>4, OthersStay
      <3> QED BY <1>6, <2>1, <3>1
    <2>5. CASE Start(q)
      BY <1>0, <1>6, <2>5 DEF Start, RunSound, Sound, Typed, TypeOK
    <2>6. CASE (Step(q) \/ Raise(q) \/ Die(q)) /\ at[q] = "idle"
      BY <1>6, <2>6 DEF Step, Raise, Die, Acquire, ReadAgain, Write3, CheckMirror,
         CopyMirror, WriteRecord, WriteMirror, Resolve, Unpacking, Download, Unpack,
         RemoveSome, RemoveRest, Place, Instantiate, Probe, Return, LockRaises,
         WriteRaises, CallRaises, RemoveRaises, Leave, Go, Typed, TypeOK, Writing,
         Resolving, Using
    <2>7. CASE (Step(q) \/ Raise(q) \/ Die(q)) /\ at[q] # "idle"
      <3> DEFINE b == run[q].backend
      <3>1. run[q] \in Run /\ b \in Backends /\ run[q].legacy \in Record \cup {None}
            /\ known[q][b] \in Contents
        BY <1>0, <2>7 DEF Run
      <3>2. PICK l \in Record \cup {None} : l = run'[q].legacy /\ Sound(l)
        BY <1>0, <1>2, <1>6, <2>7, <3>1, RunStep DEF Sound, AllSound
      <3>3. Sound(run[q].legacy)'
        BY <3>2, StillSound DEF Sound
      <3>4. run'[q].backend = b /\ known'[q][b] = known[q][b]
        BY <1>6, <2>7, RunStep
      <3>5. ASSUME run'[q].status = "ready" PROVE Vouched(b, known[q][b])'
        <4>1. known[q][b] <= content /\ known[q][b] \in Nat
          BY <3>1 DEF AllSound, Contents
        <4>2. CASE run[q].status = "ready"
          <5>1. PICK f \in Contents : f = known[q][b] /\ Vouched(b, f)
            BY <2>7, <3>1, <4>2 DEF AllSound, RunSound
          <5> QED BY <3>1, <3>4, <5>1, StillVouched DEF Vouched
        <4>3. CASE <<b, content>> \in proved'
          BY <3>4, <4>1, <4>3, Monotone DEF Vouched
        <4> QED BY <1>6, <2>7, <3>5, <4>2, <4>3, RunStep
      <3> QED BY <3>3, <3>4, <3>5 DEF RunSound
    <2> QED BY <2>2, <2>3, <2>4, <2>5, <2>6, <2>7 DEF Next
  <1> QED BY <1>1, <1>4, <1>5, <1>6 DEF AllSound

LEMMA SoundInvariance == Spec => [](Typed /\ AllSound)
  BY InitTyped, StepTyped, InitSound, StepSound, PTL DEF Spec

LEMMA SoundMeansProved == Typed /\ AllSound => ReadyMeansProved
  <1> SUFFICES ASSUME Typed, AllSound, NEW b \in Backends, ReadyFor(ReadState(b), content)
               PROVE  <<b, content>> \in proved
    BY DEF ReadyMeansProved
  <1>1. ReadState(b).backend = b /\ Sound(ReadState(b))
    BY ReadStateTyped DEF Typed, TypeOK, AllSound, ReadState, ReadyFor
  <1> QED BY <1>1 DEF ReadyFor, Sound, Vouched

(* A record that says ready for what is installed now was written after a  *)
(* probe of just that, whoever else writes the mirror or updates the       *)
(* package, and whether or not the lock could be had.                      *)
THEOREM ReadyIsProved == Spec => []ReadyMeansProved
  BY SoundMeansProved, SoundInvariance, PTL

-----------------------------------------------------------------------------
(* Where the lock can always be taken and every process uses the directory *)
(* that discover_julia() looks at, no readiness is lost.  Only one process *)
(* is then past the wait for the lock (Alone), and of that one it is known *)
(* that a mirror it overwrites has been copied (Spared, Copied), that its  *)
(* own record is there when it writes the mirror (Entered), that a "ready" *)
(* it is about to record is of an intact Julia (Checked), and that while   *)
(* it replaces the unpacked one no ready record names that (Unnamed).      *)
Undisturbed == "lock" \notin Faults /\ Elsewhere = {}

Alone == \A p \in Processes : at[p] \notin {"idle", "waiting"} => holder = p

Spared(p) ==
  at[p] \in {"recording", "mirroring"} => mirror = None \/ records[mirror.backend] # None

Copied(p) ==
  at[p] = "copying" => /\ mirror # None /\ run[p].legacy = mirror
                       /\ records[mirror.backend] = None

Entered(p) == at[p] = "mirroring" => records[run[p].backend] # None

Checked(p) ==
  at[p] # "idle" /\ run[p].status = "ready"
    => /\ at[p] \in Writing \cup {"leaving"} /\ run[p].next = "leaving"
       /\ Runs(run[p].julia)

Replacing == {"downloading", "unpacking", "clearing", "placing"}

Unnamed(p) ==
  at[p] \in Replacing =>
    \A b \in Backends :
      LET record == ReadState(b)
      IN record # None /\ record.status = "ready" => record.julia # "portable"

Own(p) == Spared(p) /\ Copied(p) /\ Entered(p) /\ Checked(p) /\ Unnamed(p)

Careful == Alone /\ NamedJuliaIntact /\ \A p \in Processes : Own(p)

LEMMA InitCareful == Init => Careful
  <1> SUFFICES ASSUME Init PROVE Careful
    OBVIOUS
  <1>1. NamedJuliaIntact
    BY DEF Init, DiskInit, NamedJuliaIntact, ReadState, Runs
  <1> QED BY <1>1 DEF Init, Careful, Alone, Own, Spared, Copied, Entered, Checked, Unnamed,
                      Replacing

LEMMA StepAlone ==
  ASSUME Undisturbed, Typed, Alone, [Next]_vars
  PROVE  Alone'
  <1> SUFFICES ASSUME NEW q \in Processes, at'[q] \notin {"idle", "waiting"}
               PROVE  holder' = q
    BY DEF Alone
  <1>1. CASE Update \/ UNCHANGED vars
    BY <1>1 DEF Update, vars, processVars, Alone
  <1>2. ASSUME NEW p \in Processes, Start(p) \/ Step(p) \/ Raise(p) \/ Die(p)
        PROVE  holder' = q
    <2>1. CASE p # q
      BY <1>2, <2>1, OthersStay, HandOver DEF Alone
    <2>2. CASE p = q
      <3>1. CASE at[q] \in {"idle", "waiting"}
        <4>1. Acquire(q)
          BY <1>2, <2>2, <3>1 DEF Undisturbed, Typed, TypeOK, Start, Go, Step, Raise, Die,
             Leave, ReadAgain, Write3, CheckMirror, CopyMirror, WriteRecord, WriteMirror,
             Resolve, Unpacking, Download, Unpack, RemoveSome, RemoveRest, Place,
             Instantiate, Probe, Return, LockRaises, WriteRaises, CallRaises,
             RemoveRaises, Resolving, Using, Writing
        <4> QED BY <4>1 DEF Acquire
      <3>2. CASE holder = q
        <4>1. ~Leave(q)
          BY DEF Leave, Go, Typed, TypeOK
        <4> QED BY <1>2, <2>2, <3>2, <4>1, HandOver
      <3> QED BY <3>1, <3>2 DEF Alone
    <2> QED BY <2>1, <2>2
  <1> QED BY <1>1, <1>2 DEF Next

(* Whoever is outside the lock leaves the directory alone.                 *)
LEMMA OutsideTouchesNothing ==
  ASSUME Undisturbed, NEW p \in Processes, at[p] \in {"idle", "waiting"},
         Start(p) \/ Step(p) \/ Raise(p) \/ Die(p)
  PROVE  UNCHANGED diskVars
  BY DEF Undisturbed, diskVars, Start, Step, Raise, Die, Acquire, ReadAgain, Write3,
         CheckMirror, CopyMirror, WriteRecord, WriteMirror, Resolve, Unpacking, Download,
         Unpack, RemoveSome, RemoveRest, Place, Instantiate, Probe, Return, LockRaises,
         WriteRaises, CallRaises, RemoveRaises, Resolving, Using, Writing, processVars

LEMMA OthersCareful ==
  ASSUME Undisturbed, Typed, Careful, NEW p \in Processes, NEW q \in Processes, p # q,
         Start(p) \/ Step(p) \/ Raise(p) \/ Die(p)
  PROVE  Own(q)'
  <1>1. at'[q] = at[q] /\ run'[q] = run[q]
    BY OthersStay
  <1>2. CASE at[q] \in {"idle", "waiting"}
    BY <1>1, <1>2 DEF Careful, Own, Spared, Copied, Entered, Checked, Unnamed, Replacing,
       Writing
  <1>3. CASE at[q] \notin {"idle", "waiting"}
    <2>1. at[p] \in {"idle", "waiting"}
      BY <1>3 DEF Careful, Alone
    <2>2. UNCHANGED diskVars
      BY <2>1, OutsideTouchesNothing
    <2> QED BY <1>1, <2>2 DEF Careful, Own, Spared, Copied, Entered, Checked, Unnamed,
               ReadState, Runs, diskVars
  <1> QED BY <1>2, <1>3

LEMMA WriteOwn ==
  ASSUME Typed, NEW p \in Processes, at[p] # "idle", NEW status, NEW julia, NEW next,
         Write(p, status, julia, next),
         status # "ready" \/ (next = "leaving" /\ Runs(julia)')
  PROVE  Own(p)'
  BY WriteFields DEF Own, Spared, Copied, Entered, Checked, Unnamed, Replacing, Writing, Runs

LEMMA FailOwn ==
  ASSUME Typed, NEW p \in Processes, at[p] # "idle", Fail(p)
  PROVE  Own(p)'
  BY WriteOwn DEF Fail

LEMMA LeaveOwn ==
  ASSUME Typed, NEW p \in Processes, Leave(p)
  PROVE  Own(p)'
  BY DEF Leave, Go, Typed, TypeOK, Own, Spared, Copied, Entered, Checked, Unnamed, Replacing

(* Of the steps only WriteRecord changes what a backend's record says, and *)
(* none what a ready one can be used for.                                  *)
LEMMA OnlyRecordsSettle ==
  ASSUME Undisturbed, Typed, Careful, NEW p \in Processes,
         Start(p) \/ Step(p) \/ Raise(p) \/ Die(p), ~WriteRecord(p), NEW b \in Backends
  PROVE  /\ ReadState(b)' = ReadState(b)
         /\ ReadState(b) # None /\ ReadState(b).status = "ready"
            => (Exists(ReadState(b).julia)' <=> Exists(ReadState(b).julia))
  <1>0. DiskTypeOK /\ Own(p)
    BY DEF Typed, TypeOK, Careful
  <1>1. CASE CopyMirror(p)
    <2>1. run[p].legacy = mirror /\ mirror # None /\ records[mirror.backend] = None
          /\ mirror.backend \in Backends
      BY <1>0, <1>1 DEF CopyMirror, Own, Copied, DiskTypeOK, Record
    <2>2. mirror' = mirror /\ tree' = tree /\ records' = [records EXCEPT ![mirror.backend] = mirror]
      BY <1>1, <2>1 DEF CopyMirror
    <2> QED BY <1>0, <2>1, <2>2 DEF ReadState, Exists, DiskTypeOK
  <1>2. CASE WriteMirror(p)
    <2>1. /\ records[run[p].backend] # None
          /\ mirror = None \/ records[mirror.backend] # None
      BY <1>0, <1>2 DEF WriteMirror, Own, Spared, Entered
    <2>2. mirror'.backend = run[p].backend /\ records' = records /\ tree' = tree
      BY <1>2 DEF WriteMirror, Recorded
    <2> QED BY <1>0, <2>1, <2>2 DEF ReadState, Exists, DiskTypeOK
  <1>3. CASE RemoveSome(p) \/ RemoveRest(p) \/ Place(p)
    <2>1. UNCHANGED <<records, mirror>> /\ Unnamed(p) /\ at[p] \in Replacing
      BY <1>0, <1>3 DEF RemoveSome, RemoveRest, Place, Own, Replacing
    <2> QED BY <2>1 DEF Unnamed, ReadState, Exists
  <1>4. CASE UNCHANGED <<records, mirror, tree>>
    BY <1>4 DEF ReadState, Exists
  <1> QED
    BY <1>1, <1>2, <1>3, <1>4 DEF diskVars, Start, Step, Raise, Die, Acquire, ReadAgain,
       Write3, CheckMirror, Resolve, Unpacking, Download, Unpack, Instantiate, Probe,
       Return, LockRaises, WriteRaises, CallRaises, RemoveRaises

(* A download is begun when no ready record names a Julia that is there.   *)
LEMMA NobodyNamesIt ==
  ASSUME Undisturbed, Typed, NamedJuliaIntact, NEW p \in Processes, Resolve(p),
         at'[p] = "downloading"
  PROVE  Unnamed(p)'
  <1>1. NoJulia \in Discovered(TRUE)
    <2>1. PICK found \in Discovered(p \notin Elsewhere) :
            LET kept == RecordedJulia([julia |-> run[p].previous])
                julia == IF found # NoJulia THEN found ELSE kept
            IN IF julia # NoJulia
               THEN Write(p, "in_progress", julia, "instantiating")
               ELSE Go(p, "downloading") /\ UNCHANGED run
      BY DEF Resolve
    <2>2. \A status, julia, next : ~Write(p, status, julia, next)
      BY DEF Write, Go, Typed, TypeOK
    <2>3. found = NoJulia
      BY <2>1, <2>2
    <2> QED BY <2>3 DEF Undisturbed
  <1>2. Provisioned = {}
    BY <1>1 DEF Discovered, Provisioned
  <1>3. ASSUME NEW b \in Backends, ReadState(b) # None, ReadState(b).status = "ready",
               ReadState(b).julia = "portable"
        PROVE  FALSE
    <2>1. tree = "whole"
      BY <1>3 DEF NamedJuliaIntact, Runs
    <2>2. RecordedJulia(ReadState(b)) = "portable"
      BY <1>3, <2>1 DEF RecordedJulia, Exists
    <2>3. "portable" \in Provisioned
      BY <1>3, <2>2 DEF Provisioned
    <2> QED BY <1>2, <2>3
  <1>4. \A b \in Backends : ReadState(b)' = ReadState(b)
    BY DEF Resolve, diskVars, ReadState
  <1> QED BY <1>3, <1>4 DEF Unnamed

LEMMA StepOwn ==
  ASSUME Undisturbed, Typed, Careful, NEW p \in Processes,
         Start(p) \/ Step(p) \/ Raise(p) \/ Die(p)
  PROVE  Own(p)'
  <1>0. DiskTypeOK /\ Own(p) /\ (at[p] # "idle" => run[p] \in Run)
    BY DEF Typed, TypeOK, Careful
  <1> USE DEF Go
  <1>1. CASE Start(p)
    BY <1>1 DEF Start, Typed, TypeOK, Own, Spared, Copied, Entered, Checked, Unnamed, Replacing
  <1>2. CASE Acquire(p)
    BY <1>0, <1>2 DEF Acquire, Typed, TypeOK, Own, Spared, Copied, Entered, Checked,
       Unnamed, Replacing, Writing
  <1>3. CASE ReadAgain(p)
    <2>1. CASE Leave(p)
      BY <2>1, LeaveOwn
    <2>2. CASE ~Leave(p)
      <3> DEFINE previous == ReadState(run[p].backend)
                 julia == IF previous = None THEN NoJulia ELSE previous.julia
      <3>1. /\ run'[p] = [run[p] EXCEPT !.next = "resolving", !.previous = julia]
            /\ at[p] = "locked" /\ at'[p] = "checking"
        BY <1>3, <2>2 DEF ReadAgain, Typed, TypeOK
      <3> HIDE DEF julia
      <3>2. run'[p].status = run[p].status
        BY <1>0, <3>1 DEF Run
      <3> QED BY <1>0, <3>1, <3>2 DEF Own, Spared, Copied, Entered, Checked, Unnamed,
                 Replacing, Writing
    <2> QED BY <2>1, <2>2
  <1>4. CASE CheckMirror(p)
    <2>1. UNCHANGED diskVars /\ at[p] = "checking"
      BY <1>4 DEF CheckMirror
    <2>2. CASE mirror # None /\ records[mirror.backend] = None
      <3>1. at'[p] = "copying"
        BY <1>4, <2>2 DEF CheckMirror, Typed, TypeOK
      <3>2. /\ run'[p].legacy = mirror /\ run'[p].status = run[p].status
            /\ run'[p].next = run[p].next /\ run'[p].julia = run[p].julia
        BY <1>0, <1>4, <2>1, <2>2, LegacyFields DEF CheckMirror, DiskTypeOK
      <3> QED BY <1>0, <2>1, <2>2, <3>1, <3>2 DEF Own, Spared, Copied, Entered, Checked,
                 Unnamed, Replacing, Writing, Runs, diskVars
    <2>3. CASE ~(mirror # None /\ records[mirror.backend] = None)
      <3>1. at'[p] = "recording" /\ run' = run
        BY <1>4, <2>3 DEF CheckMirror, Typed, TypeOK
      <3> QED BY <1>0, <2>1, <2>3, <3>1 DEF Own, Spared, Copied, Entered, Checked,
                 Unnamed, Replacing, Writing, Runs, diskVars
    <2> QED BY <2>2, <2>3
  <1>5. CASE CopyMirror(p)
    <2>1. /\ at[p] = "copying" /\ at'[p] = "recording" /\ UNCHANGED <<mirror, tree>>
          /\ records' = [records EXCEPT ![run[p].legacy.backend] = run[p].legacy]
      BY <1>5 DEF CopyMirror, Typed, TypeOK
    <2>2. mirror # None /\ run[p].legacy = mirror /\ mirror.backend \in Backends
      BY <1>0, <2>1 DEF Own, Copied, DiskTypeOK, Record
    <2>3. records'[mirror.backend] # None
      BY <1>0, <2>1, <2>2 DEF DiskTypeOK
    <2>4. /\ run'[p].status = run[p].status /\ run'[p].next = run[p].next
          /\ run'[p].julia = run[p].julia
      BY <1>0, <1>5, <2>1, LegacyFields DEF CopyMirror
    <2> QED BY <1>0, <2>1, <2>3, <2>4 DEF Own, Spared, Copied, Entered, Checked, Unnamed,
               Replacing, Writing, Runs
  <1>6. CASE WriteRecord(p)
    <2>1. /\ at[p] = "recording" /\ at'[p] = "mirroring" /\ UNCHANGED <<mirror, tree, run>>
          /\ records' = [records EXCEPT ![run[p].backend] = Recorded(p)]
      BY <1>6 DEF WriteRecord, Typed, TypeOK
    <2>2. Recorded(p) # None /\ run[p].backend \in Backends
      BY <1>0, <2>1 DEF Recorded, Run, Record, Typed, TypeOK, Contents
    <2>3. /\ records'[run[p].backend] # None
          /\ mirror # None => records'[mirror.backend] # None
      BY <1>0, <2>1, <2>2 DEF DiskTypeOK, Own, Spared, Record
    <2> QED BY <1>0, <2>1, <2>3 DEF Own, Spared, Copied, Entered, Checked, Unnamed,
               Replacing, Writing, Runs
  <1>7. CASE WriteMirror(p)
    <2>1. /\ at[p] = "mirroring" /\ at'[p] = run[p].next /\ UNCHANGED <<tree, run>>
      BY <1>7 DEF WriteMirror, Typed, TypeOK
    <2>2. run[p].next \in {"resolving", "leaving"} \cup Using
      BY <1>0, <2>1 DEF Run
    <2> QED BY <1>0, <2>1, <2>2 DEF Own, Spared, Copied, Entered, Checked, Unnamed,
               Replacing, Writing, Runs, Using
  <1>8. CASE Resolve(p)
    <2>1. CASE Go(p, "downloading") /\ UNCHANGED run
      <3>1. at[p] = "resolving" /\ at'[p] = "downloading" /\ run' = run
        BY <1>8, <2>1 DEF Resolve, Typed, TypeOK
      <3>2. Unnamed(p)'
        BY <1>8, <3>1, NobodyNamesIt DEF Careful
      <3> QED BY <1>0, <3>1, <3>2 DEF Own, Spared, Copied, Entered, Checked, Writing
    <2>2. CASE \E julia \in Julias : Write(p, "in_progress", julia, "instantiating")
      BY <1>8, <2>2, WriteOwn DEF Resolve
    <2> QED BY <1>0, <1>8, <2>1, <2>2, ResolveCases
  <1>9. CASE Download(p) \/ Unpack(p) \/ RemoveSome(p) \/ RemoveRest(p)
    <2>1. at[p] \in Replacing /\ at'[p] \in Replacing /\ run' = run
      BY <1>9 DEF Download, Unpack, RemoveSome, RemoveRest, Replacing, processVars, Typed, TypeOK
    <2>2. ~WriteRecord(p)
      BY <2>1 DEF WriteRecord, Replacing
    <2>3. \A b \in Backends : ReadState(b)' = ReadState(b)
      BY <2>2, OnlyRecordsSettle
    <2>4. Unnamed(p)'
      BY <1>0, <2>1, <2>3 DEF Own, Unnamed
    <2> QED BY <1>0, <2>1, <2>4 DEF Own, Spared, Copied, Entered, Checked, Replacing, Writing
  <1>10. CASE Place(p)
    BY <1>10, WriteOwn DEF Place
  <1>11. CASE Instantiate(p)
    BY <1>11, WriteOwn, FailOwn DEF Instantiate
  <1>12. CASE Probe(p)
    <2>1. CASE Fail(p)
      BY <1>12, <2>1, FailOwn DEF Probe
    <2>2. CASE ~Fail(p)
      <3>1. PICK julia : julia = run[p].julia
        OBVIOUS
      <3>2. Write(p, "ready", julia, "leaving") /\ Runs(julia) /\ tree' = tree /\ at[p] # "idle"
        BY <1>12, <2>2, <3>1 DEF Probe
      <3>3. Runs(julia)'
        BY <3>2 DEF Runs
      <3> QED BY <3>2, <3>3, WriteOwn
    <2> QED BY <2>1, <2>2
  <1>13. CASE Return(p) \/ Die(p)
    BY <1>13, LeaveOwn DEF Return, Die
  <1>14. CASE Raise(p)
    BY <1>14, LeaveOwn, FailOwn DEF Raise, LockRaises, WriteRaises, CallRaises, RemoveRaises,
       Undisturbed, Writing, Resolving, Using
  <1> QED BY <1>1, <1>2, <1>3, <1>4, <1>5, <1>6, <1>7, <1>8, <1>9, <1>10, <1>11, <1>12,
             <1>13, <1>14 DEF Step, Write3, Unpacking

(* The record that is written of a run is intact if it says ready.         *)
LEMMA StepIntact ==
  ASSUME Undisturbed, Typed, Careful, NEW p \in Processes,
         Start(p) \/ Step(p) \/ Raise(p) \/ Die(p)
  PROVE  NamedJuliaIntact'
  <1> SUFFICES ASSUME NEW b \in Backends, ReadState(b)' # None,
                      ReadState(b)'.status = "ready"
               PROVE  Runs(ReadState(b).julia)'
    BY DEF NamedJuliaIntact
  <1>0. DiskTypeOK /\ Own(p) /\ (at[p] # "idle" => run[p] \in Run)
    BY DEF Typed, TypeOK, Careful
  <1>1. CASE WriteRecord(p)
    <2>1. /\ at[p] = "recording" /\ UNCHANGED <<mirror, tree>>
          /\ records' = [records EXCEPT ![run[p].backend] = Recorded(p)]
      BY <1>1 DEF WriteRecord
    <2>2. CASE b = run[p].backend
      <3>1. Recorded(p) # None
        BY <1>0, <2>1 DEF Recorded, Run, Record, Typed, TypeOK, Contents
      <3>2. ReadState(b)' = Recorded(p)
        BY <1>0, <2>1, <2>2, <3>1 DEF ReadState, DiskTypeOK
      <3>3. run[p].status = "ready" => Runs(run[p].julia)
        BY <1>0, <2>1 DEF Own, Checked
      <3> QED BY <2>1, <3>2, <3>3 DEF Recorded, Runs
    <2>3. CASE b # run[p].backend
      <3>1. ReadState(b)' = ReadState(b)
        BY <1>0, <2>1, <2>3 DEF ReadState, DiskTypeOK
      <3> QED BY <2>1, <3>1 DEF Careful, NamedJuliaIntact, Runs
    <2> QED BY <2>2, <2>3
  <1>2. CASE ~WriteRecord(p)
    <2>1. ReadState(b)' = ReadState(b)
      BY <1>2, OnlyRecordsSettle
    <2>2. Runs(ReadState(b).julia)
      BY <2>1 DEF Careful, NamedJuliaIntact
    <2>3. CASE ReadState(b).julia # "portable"
      BY <2>1, <2>3 DEF Runs
    <2>4. CASE ReadState(b).julia = "portable"
      <3>1. ~(RemoveSome(p) \/ RemoveRest(p) \/ Place(p))
        BY <1>0, <2>1, <2>4 DEF RemoveSome, RemoveRest, Place, Own, Unnamed, Replacing
      <3>2. tree' = tree
        BY <3>1 DEF diskVars, Start, Step, Raise, Die, Acquire, ReadAgain, Write3,
           CheckMirror, CopyMirror, WriteRecord, WriteMirror, Resolve, Unpacking,
           Download, Unpack, Instantiate, Probe, Return, LockRaises, WriteRaises,
           CallRaises, RemoveRaises
      <3> QED BY <2>1, <2>2, <3>2 DEF Runs
    <2> QED BY <2>3, <2>4
  <1> QED BY <1>1, <1>2

LEMMA StepCareful ==
  ASSUME Undisturbed
  PROVE  Typed /\ Careful /\ [Next]_vars => Careful'
  <1> SUFFICES ASSUME Typed, Careful, [Next]_vars PROVE Careful'
    OBVIOUS
  <1>1. Alone'
    BY StepAlone DEF Careful
  <1>2. CASE Update \/ UNCHANGED vars
    <2>1. UNCHANGED <<records, mirror, tree, at, run>>
      BY <1>2 DEF Update, vars, diskVars, processVars
    <2> QED BY <1>1, <2>1 DEF Careful, NamedJuliaIntact, Own, Spared, Copied, Entered,
               Checked, Unnamed, ReadState, Runs
  <1>3. ASSUME NEW p \in Processes, Start(p) \/ Step(p) \/ Raise(p) \/ Die(p) PROVE Careful'
    BY <1>1, <1>3, StepIntact, StepOwn, OthersCareful DEF Careful
  <1> QED BY <1>2, <1>3 DEF Next

LEMMA CareInvariance ==
  ASSUME Undisturbed
  PROVE  Spec => [](Typed /\ AllSound /\ Careful)
  BY InitTyped, StepTyped, InitSound, StepSound, InitCareful, StepCareful, PTL DEF Spec

(* No run takes the Julia of a ready record away, not even for the moment  *)
(* of an unpack or for ever by dying in one.                               *)
THEOREM NamedJuliaStaysIntact ==
  ASSUME Undisturbed
  PROVE  Spec => []NamedJuliaIntact
  <1>1. Careful => NamedJuliaIntact
    BY DEF Careful
  <1> QED BY <1>1, CareInvariance, PTL

-----------------------------------------------------------------------------
(* Readiness is what the abstract specification allows.                    *)
Permitted(b) ==
  /\ Readiness(b) \in Contents \cup {0} /\ Readiness(b) <= content
  /\ Readiness(b) = content => <<b, content>> \in proved

AllPermitted == \A b \in Backends : Permitted(b)

LEMMA ReadinessPermitted == Typed /\ AllSound => AllPermitted
  <1> SUFFICES ASSUME Typed, AllSound, NEW b \in Backends PROVE Permitted(b)
    BY DEF AllPermitted
  <1>1. /\ ReadState(b) \in Record \cup {None} /\ Sound(ReadState(b))
        /\ ReadState(b) # None => ReadState(b).backend = b
    BY ReadStateTyped DEF Typed, TypeOK, AllSound, ReadState
  <1>2. content \in Contents
    BY DEF Typed, TypeOK, DiskTypeOK
  <1>3. CASE Readiness(b) = 0
    BY <1>2, <1>3 DEF Permitted, Contents
  <1>4. CASE Readiness(b) # 0
    <2>1. /\ ReadState(b) # None /\ ReadState(b).status = "ready"
          /\ Readiness(b) = ReadState(b).fingerprint
      BY <1>4 DEF Readiness, ReadyFor
    <2> QED BY <1>1, <2>1 DEF Permitted, Sound, Vouched, Record
  <1> QED BY <1>3, <1>4

LEMMA PermittedNext == Typed' /\ AllSound' => AllPermitted'
  BY ReadinessPermitted, PTL

LEMMA ReadinessStays ==
  ASSUME NEW b \in Backends, ReadState(b)' = ReadState(b),
         ReadState(b) # None /\ ReadState(b).status = "ready"
           => (Exists(ReadState(b).julia)' <=> Exists(ReadState(b).julia))
  PROVE  Readiness(b)' = Readiness(b)
  BY DEF Readiness, ReadyFor, RecordedJulia

(* The runs that are under way, when one of them goes on or ends.          *)
LEMMA RunGoesOn ==
  ASSUME Typed, NEW p \in Processes, at[p] # "idle", at'[p] # "idle",
         Start(p) \/ Step(p) \/ Raise(p) \/ Die(p)
  PROVE  UnderWay' = UnderWay
  <1>1. ~Start(p)
    BY DEF Start
  <1>2. \A q \in Processes : at'[q] # "idle" <=> at[q] # "idle"
    BY OthersStay
  <1>3. \A q \in Processes : at[q] # "idle" => run'[q].backend = run[q].backend
    BY <1>1, OthersStay, RunStep
  <1> QED BY <1>2, <1>3 DEF UnderWay

LEMMA RunEnds ==
  ASSUME Typed, NEW p \in Processes, at[p] # "idle", at'[p] = "idle",
         Start(p) \/ Step(p) \/ Raise(p) \/ Die(p)
  PROVE  UnderWay' \in {UnderWay, UnderWay \ {run[p].backend}}
  <1>1. \A q \in Processes \ {p} : at'[q] = at[q] /\ run'[q] = run[q]
    BY OthersStay
  <1>2. CASE \E q \in Processes \ {p} : at[q] # "idle" /\ run[q].backend = run[p].backend
    BY <1>1, <1>2 DEF UnderWay
  <1>3. CASE ~ \E q \in Processes \ {p} : at[q] # "idle" /\ run[q].backend = run[p].backend
    BY <1>1, <1>3 DEF UnderWay
  <1> QED BY <1>2, <1>3

LEMMA StepImplementsReadiness ==
  ASSUME Undisturbed
  PROVE  Typed /\ AllSound /\ Careful /\ [Next]_vars /\ AllSound' /\ Typed'
         => [Promised!Next]_Promised!vars
  <1> SUFFICES ASSUME Typed, AllSound, Careful, [Next]_vars, AllSound', Typed'
               PROVE  [Promised!Next]_Promised!vars
    OBVIOUS
  <1> USE DEF Promised!vars
  <1>1. CASE UNCHANGED vars
    BY <1>1 DEF vars, diskVars, processVars, ReadyNow, UnderWay, Readiness, ReadState,
       ReadyFor, RecordedJulia, Exists
  <1>2. CASE Update
    <2>1. UNCHANGED <<records, mirror, tree, proved, at, run>> /\ content' = content + 1
      BY <1>2 DEF Update
    <2>2. UNCHANGED <<ReadyNow, UnderWay>>
      BY <2>1 DEF ReadyNow, UnderWay, Readiness, ReadState, ReadyFor, RecordedJulia, Exists
    <2>3. ASSUME NEW b \in Backends PROVE ReadyNow[b] # content'
      <3>1. Readiness(b) <= content /\ Readiness(b) \in Nat /\ content \in Nat
        <4>1. Permitted(b) /\ content \in Contents
          BY ReadinessPermitted DEF AllPermitted, Typed, TypeOK, DiskTypeOK
        <4> QED BY <4>1 DEF Permitted, Contents
      <3> QED BY <2>1, <3>1 DEF ReadyNow
    <2> QED BY <2>1, <2>2, <2>3 DEF Promised!Update, Promised!Next
  <1>3. ASSUME NEW p \in Processes, Start(p) \/ Step(p) \/ Raise(p) \/ Die(p)
        PROVE  [Promised!Next]_Promised!vars
    <2>1. ASSUME ~WriteRecord(p) PROVE ReadyNow' = ReadyNow
      BY <1>3, <2>1, OnlyRecordsSettle, ReadinessStays DEF ReadyNow
    <2>2. content' = content
      BY <1>3 DEF diskVars, Start, Step, Raise, Die, Acquire, ReadAgain, Write3,
         CheckMirror, CopyMirror, WriteRecord, WriteMirror, Resolve, Unpacking, Download,
         Unpack, RemoveSome, RemoveRest, Place, Instantiate, Probe, Return, LockRaises,
         WriteRaises, CallRaises, RemoveRaises
    <2>3. ASSUME ~Probe(p) PROVE proved' = proved
      BY <1>3, <2>3 DEF diskVars, Start, Step, Raise, Die, Acquire, ReadAgain, Write3,
         CheckMirror, CopyMirror, WriteRecord, WriteMirror, Resolve, Unpacking, Download,
         Unpack, RemoveSome, RemoveRest, Place, Instantiate, Return, LockRaises,
         WriteRaises, CallRaises, RemoveRaises
    <2>4. at[p] # "idle" => run[p] \in Run /\ run[p].backend \in Backends
                            /\ run[p].backend \in UnderWay
      BY DEF Typed, TypeOK, Run, UnderWay
    <2>5. CASE Start(p)
      <3>1. PICK b \in Backends : run'[p].backend = b /\ at'[p] = "waiting" /\ at[p] = "idle"
        BY <2>5 DEF Start, Go, Typed, TypeOK
      <3>2. \A q \in Processes \ {p} : at'[q] = at[q] /\ run'[q] = run[q]
        BY <1>3, OthersStay
      <3>3. UnderWay' = UnderWay \cup {b}
        BY <3>1, <3>2 DEF UnderWay
      <3>4. ~WriteRecord(p) /\ ~Probe(p)
        BY <3>1 DEF WriteRecord, Probe
      <3> QED BY <2>1, <2>2, <2>3, <3>3, <3>4 DEF Promised!Begin, Promised!Next
    <2>6. CASE at[p] # "idle" /\ at'[p] = "idle"
      <3>1. ~WriteRecord(p) /\ ~Probe(p)
        BY <2>6 DEF WriteRecord, Probe, Fail, Write, Go, Typed, TypeOK
      <3> QED BY <1>3, <2>1, <2>2, <2>3, <2>4, <2>6, <3>1, RunEnds
              DEF Promised!End, Promised!Next
    <2>7. CASE at[p] # "idle" /\ at'[p] # "idle" /\ WriteRecord(p)
      <3>0. PICK b \in Backends : b = run[p].backend /\ b \in UnderWay
        BY <2>4, <2>7
      <3>1. UnderWay' = UnderWay /\ proved' = proved
        BY <1>3, <2>7, RunGoesOn DEF WriteRecord
      <3>2. \A a \in Backends \ {b} : Readiness(a)' = Readiness(a)
        BY <2>7, <3>0 DEF WriteRecord, Typed, TypeOK, DiskTypeOK, Readiness, ReadState, ReadyFor,
           RecordedJulia, Exists
      <3>3. ReadyNow' = [ReadyNow EXCEPT ![b] = Readiness(b)']
        BY <3>1, <3>2 DEF ReadyNow
      <3>4. PICK c \in Contents \cup {0} : c = Readiness(b)' /\ (c = content => <<b, c>> \in proved)
        <4>1. /\ Readiness(b)' \in Contents \cup {0}
              /\ Readiness(b)' = content => <<b, content>> \in proved
          BY <2>2, <3>1, PermittedNext DEF AllPermitted, Permitted
        <4> QED BY <4>1
      <3>5. c \in 0 .. MaxContent
        BY DEF Contents
      <3> QED BY <2>2, <3>0, <3>1, <3>3, <3>4, <3>5 DEF Promised!Settle, Promised!May, Promised!Next
    <2>8. CASE at[p] # "idle" /\ at'[p] # "idle" /\ ~WriteRecord(p)
      <3>1. UnderWay' = UnderWay /\ ReadyNow' = ReadyNow
        BY <1>3, <2>1, <2>8, RunGoesOn
      <3>2. CASE Probe(p) /\ proved' # proved
        BY <2>2, <2>4, <2>8, <3>1, <3>2 DEF Probe, Promised!Prove, Promised!Next
      <3> QED BY <2>2, <2>3, <3>1, <3>2
    <2>9. CASE at[p] = "idle" /\ ~Start(p)
      <3>1. UNCHANGED proved /\ at'[p] = "idle" /\ ~WriteRecord(p)
        BY <1>3, <2>9
           DEF diskVars, Step, Raise, Die, Acquire, ReadAgain, Write3, CheckMirror,
           CopyMirror, WriteRecord, WriteMirror, Resolve, Unpacking, Download, Unpack,
           RemoveSome, RemoveRest, Place, Instantiate, Probe, Return, LockRaises,
           WriteRaises, CallRaises, RemoveRaises, Leave, Go, Typed, TypeOK, Writing,
           Resolving, Using
      <3>2. \A q \in Processes \ {p} : at'[q] = at[q] /\ run'[q] = run[q]
        BY <1>3, OthersStay
      <3>3. UnderWay' = UnderWay
        BY <2>9, <3>1, <3>2 DEF UnderWay
      <3> QED BY <2>1, <2>2, <3>1, <3>3
    <2> QED BY <2>5, <2>6, <2>7, <2>8, <2>9 DEF Start
  <1> QED BY <1>1, <1>2, <1>3 DEF Next

(* The upgrade from one record to one per backend, the mirror and the      *)
(* order of the writes lose no backend's readiness and invent none: the    *)
(* files and the lock implement the abstract readiness.                    *)
THEOREM ProvisioningImplementsReadiness ==
  ASSUME Undisturbed
  PROVE  Spec => ImplementsReadiness
  <1>1. Init => Promised!Init
    <2> SUFFICES ASSUME Init PROVE Promised!Init
      OBVIOUS
    <2>1. AllPermitted /\ content = 1
      BY InitTyped, InitSound, ReadinessPermitted DEF Init, DiskInit
    <2>2. UnderWay = {}
      BY DEF Init, UnderWay
    <2>3. ASSUME NEW b \in Backends
          PROVE  ReadyNow[b] \in {0, 1} /\ (ReadyNow[b] = content => <<b, content>> \in proved)
      BY <2>1 DEF ReadyNow, AllPermitted, Permitted, Contents
    <2>4. proved \subseteq Backends \X {1}
      BY DEF Init, DiskInit
    <2> QED BY <2>1, <2>2, <2>3, <2>4 DEF Promised!Init, Promised!May, ReadyNow
  <1> QED
    BY <1>1, StepImplementsReadiness, CareInvariance, PTL
       DEF Spec, ImplementsReadiness, Promised!Spec

-----------------------------------------------------------------------------
(* Why there is one Julia: a run that has found one found that of the      *)
(* ready records, if there was any, and a run that downloads one found     *)
(* none that names a Julia.                                                *)
Agreed(p) ==
  /\ at[p] \in {"waiting", "locked"} => run[p].julia = NoJulia
  /\ at[p] # "idle" /\ run[p].julia # NoJulia => Provisioned \subseteq {run[p].julia}
  /\ at[p] \in Replacing => Provisioned = {}

Agreement == OneJulia /\ \A p \in Processes : Agreed(p)

LEMMA InitAgreement == Init => Agreement
  <1> SUFFICES ASSUME Init PROVE Agreement
    OBVIOUS
  <1>1. OneJulia
    BY DEF Init, DiskInit, OneJulia, Provisioned, ReadState
  <1> QED BY <1>1 DEF Init, Agreement, Agreed, Replacing

(* Only the record of a run that became ready adds a Julia.                *)
LEMMA ProvisionedStays ==
  ASSUME Undisturbed, Typed, Careful, NEW p \in Processes,
         Start(p) \/ Step(p) \/ Raise(p) \/ Die(p), ~WriteRecord(p)
  PROVE  Provisioned' = Provisioned
  <1>1. ASSUME NEW b \in Backends
        PROVE  /\ ReadState(b)' = ReadState(b)
               /\ ReadState(b) # None /\ ReadState(b).status = "ready"
                  => RecordedJulia(ReadState(b))' = RecordedJulia(ReadState(b))
    BY OnlyRecordsSettle DEF RecordedJulia
  <1> QED BY <1>1 DEF Provisioned

LEMMA ProvisionedAdds ==
  ASSUME Typed, NEW p \in Processes, WriteRecord(p)
  PROVE  /\ run' = run
         /\ Provisioned' \subseteq Provisioned \cup ({run[p].julia} \ {NoJulia})
  <1>1. ASSUME NEW b \in Backends, b # run[p].backend
        PROVE  /\ ReadState(b)' = ReadState(b)
               /\ RecordedJulia(ReadState(b))' = RecordedJulia(ReadState(b))
    BY <1>1 DEF WriteRecord, ReadState, RecordedJulia, Exists, Typed, TypeOK, DiskTypeOK
  <1>2. PICK b \in Backends : b = run[p].backend
    BY DEF WriteRecord, Typed, TypeOK, Run
  <1>3. RecordedJulia(ReadState(b))' \in {run[p].julia, NoJulia}
    <2>1. Recorded(p) # None
      BY DEF WriteRecord, Recorded, Run, Record, Typed, TypeOK, Contents
    <2>2. ReadState(b)' = Recorded(p)
      BY <1>2, <2>1 DEF WriteRecord, ReadState, Typed, TypeOK, DiskTypeOK
    <2> QED BY <2>2 DEF RecordedJulia, Recorded
  <1> QED BY <1>1, <1>2, <1>3 DEF Provisioned, WriteRecord

(* A run resolves to the Julia of the ready records, if they name one.     *)
LEMMA ResolvesToTheirs ==
  ASSUME Undisturbed, Typed, OneJulia, NEW p \in Processes, Resolve(p)
  PROVE  \/ \E julia \in Julias : /\ Write(p, "in_progress", julia, "instantiating")
                                  /\ Provisioned \subseteq {julia}
         \/ Go(p, "downloading") /\ UNCHANGED run /\ Provisioned = {}
  <1>1. PICK found \in Discovered(TRUE) :
          LET kept == RecordedJulia([julia |-> run[p].previous])
              julia == IF found # NoJulia THEN found ELSE kept
          IN IF julia # NoJulia
             THEN Write(p, "in_progress", julia, "instantiating")
             ELSE Go(p, "downloading") /\ UNCHANGED run
    BY DEF Resolve, Undisturbed
  <1> DEFINE julia == IF found # NoJulia THEN found
                      ELSE RecordedJulia([julia |-> run[p].previous])
  <1>2. found \in Julias /\ julia \in Julias
    BY DiscoveredIsAJulia DEF RecordedJulia, Exists, Julias, Typed, TypeOK
  <1>3. Provisioned # {} => found \in Provisioned /\ found # NoJulia
    BY DEF Discovered, Provisioned
  <1>4. Provisioned \subseteq {julia}
    BY <1>3 DEF OneJulia
  <1>5. \/ Write(p, "in_progress", julia, "instantiating")
        \/ Go(p, "downloading") /\ UNCHANGED run /\ found = NoJulia
    BY <1>1
  <1> QED BY <1>2, <1>3, <1>4, <1>5

LEMMA StepAgreed ==
  ASSUME Undisturbed, Typed, Careful, Agreement, NEW p \in Processes,
         Start(p) \/ Step(p) \/ Raise(p) \/ Die(p)
  PROVE  Agreed(p)'
  <1>0. Agreed(p) /\ (at[p] # "idle" => run[p] \in Run)
    BY DEF Agreement, Typed, TypeOK
  <1> USE DEF Go
  <1>1. CASE Start(p)
    BY <1>1 DEF Start, Typed, TypeOK, Agreed, Replacing
  <1>2. ASSUME Leave(p) PROVE Agreed(p)'
    BY <1>2 DEF Leave, Typed, TypeOK, Agreed, Replacing
  <1>3. ASSUME at[p] # "idle", NEW status, NEW julia, NEW next, Write(p, status, julia, next),
               Provisioned' \subseteq {julia} \/ julia = NoJulia
        PROVE  Agreed(p)'
    BY <1>3, WriteFields DEF Agreed, Replacing
  <1>4. ASSUME Fail(p), at[p] # "idle", ~WriteRecord(p) PROVE Agreed(p)'
    <2>1. PICK julia : julia = run[p].julia
      OBVIOUS
    <2>2. Provisioned' \subseteq {julia} \/ julia = NoJulia
      BY <1>0, <1>4, <2>1, ProvisionedStays DEF Agreed
    <2> QED BY <1>3, <1>4, <2>1, <2>2 DEF Fail
  <1>5. ASSUME at[p] # "idle", at'[p] \notin {"idle", "waiting"}, ~WriteRecord(p),
               at[p] \in Replacing \/ at'[p] \notin Replacing,
               run'[p].julia = run[p].julia, at'[p] = "locked" => at[p] \in {"waiting", "locked"}
        PROVE  Agreed(p)'
    BY <1>0, <1>5, ProvisionedStays DEF Agreed
  <1>6. CASE Acquire(p)
    BY <1>5, <1>6 DEF Acquire, WriteRecord, Replacing, Typed, TypeOK
  <1>7. CASE ReadAgain(p) /\ ~Leave(p)
    <2> DEFINE previous == ReadState(run[p].backend)
               julia == IF previous = None THEN NoJulia ELSE previous.julia
    <2>1. /\ run'[p] = [run[p] EXCEPT !.next = "resolving", !.previous = julia]
          /\ at[p] = "locked" /\ at'[p] = "checking"
      BY <1>7 DEF ReadAgain, Typed, TypeOK
    <2> HIDE DEF julia
    <2>2. run'[p].julia = run[p].julia
      BY <1>0, <2>1 DEF Run
    <2> QED BY <1>5, <2>1, <2>2 DEF WriteRecord, Replacing
  <1>8. CASE CheckMirror(p) \/ CopyMirror(p)
    <2>1. run'[p].julia = run[p].julia /\ at[p] \in {"checking", "copying"}
      BY <1>0, <1>8, LegacyFields DEF CheckMirror, CopyMirror, Typed, TypeOK, DiskTypeOK
    <2>2. at'[p] \in {"copying", "recording"}
      BY <1>8 DEF CheckMirror, CopyMirror, Typed, TypeOK
    <2> QED BY <1>5, <2>1, <2>2 DEF WriteRecord, Replacing
  <1>9. CASE WriteRecord(p)
    <2>1. at[p] = "recording" /\ at'[p] = "mirroring"
      BY <1>9 DEF WriteRecord, Typed, TypeOK
    <2> QED BY <1>0, <1>9, <2>1, ProvisionedAdds DEF Agreed, Replacing
  <1>10. CASE WriteMirror(p)
    <2>1. at[p] = "mirroring" /\ at'[p] = run[p].next /\ run' = run
      BY <1>10 DEF WriteMirror, Typed, TypeOK
    <2>2. run[p].next \in {"resolving", "leaving"} \cup Using
      BY <1>0, <2>1 DEF Run
    <2> QED BY <1>5, <2>1, <2>2 DEF WriteRecord, Replacing, Using
  <1>11. CASE Resolve(p)
    <2>1. Provisioned' = Provisioned
      BY <1>11, ProvisionedStays DEF Resolve, WriteRecord
    <2>2. CASE Go(p, "downloading") /\ UNCHANGED run /\ Provisioned = {}
      BY <2>1, <2>2 DEF Agreed, Typed, TypeOK
    <2> QED BY <1>3, <1>11, <2>1, <2>2, ResolvesToTheirs DEF Agreement, Resolve
  <1>12. CASE Download(p) \/ Unpack(p) \/ RemoveSome(p) \/ RemoveRest(p)
    <2>1. at[p] \in Replacing /\ at'[p] \in Replacing /\ run' = run
      BY <1>12 DEF Download, Unpack, RemoveSome, RemoveRest, Replacing, processVars, Typed, TypeOK
    <2> QED BY <1>5, <2>1 DEF WriteRecord, Replacing
  <1>13. CASE Place(p)
    <2>1. Provisioned' = {}
      BY <1>0, <1>13, ProvisionedStays DEF Place, WriteRecord, Agreed, Replacing
    <2> QED BY <1>3, <1>13, <2>1 DEF Place
  <1>14. CASE Instantiate(p) \/ Probe(p)
    <2>1. PICK julia : julia = run[p].julia
      OBVIOUS
    <2>2. ~WriteRecord(p) /\ at[p] # "idle"
      BY <1>14 DEF Instantiate, Probe, WriteRecord
    <2>3. Provisioned' \subseteq {julia} \/ julia = NoJulia
      BY <1>0, <2>1, <2>2, ProvisionedStays DEF Agreed
    <2> QED BY <1>3, <1>4, <1>14, <2>1, <2>2, <2>3 DEF Instantiate, Probe
  <1>15. CASE Return(p) \/ Die(p)
    BY <1>2, <1>15 DEF Return, Die
  <1>16. CASE Raise(p)
    <2>1. CASE Leave(p)
      BY <1>2, <2>1
    <2>2. CASE ~Leave(p)
      <3>1. Fail(p) /\ at[p] # "idle" /\ at'[p] = "checking"
        BY <1>16, <2>2 DEF Raise, LockRaises, WriteRaises, CallRaises, RemoveRaises,
           Undisturbed, Writing, Resolving, Using, Fail, Write, Typed, TypeOK
      <3>2. ~WriteRecord(p)
        BY <3>1 DEF WriteRecord, Typed, TypeOK
      <3> QED BY <1>4, <3>1, <3>2
    <2> QED BY <2>1, <2>2
  <1> QED BY <1>1, <1>2, <1>6, <1>7, <1>8, <1>9, <1>10, <1>11, <1>12, <1>13, <1>14,
             <1>15, <1>16 DEF Step, Write3, Unpacking

LEMMA StepAgreement ==
  ASSUME Undisturbed
  PROVE  Typed /\ Careful /\ Agreement /\ [Next]_vars => Agreement'
  <1> SUFFICES ASSUME Typed, Careful, Agreement, [Next]_vars PROVE Agreement'
    OBVIOUS
  <1>1. CASE Update \/ UNCHANGED vars
    <2>1. UNCHANGED <<records, mirror, tree, at, run>>
      BY <1>1 DEF Update, vars, diskVars, processVars
    <2>2. Provisioned' = Provisioned
      BY <2>1 DEF Provisioned, ReadState, RecordedJulia, Exists
    <2> QED BY <2>1, <2>2 DEF Agreement, Agreed, OneJulia
  <1>2. ASSUME NEW p \in Processes, Start(p) \/ Step(p) \/ Raise(p) \/ Die(p)
        PROVE  Agreement'
    <2>1. ASSUME NEW q \in Processes, q # p PROVE Agreed(q)'
      <3>1. at'[q] = at[q] /\ run'[q] = run[q]
        BY <1>2, <2>1, OthersStay
      <3>2. CASE at[q] \in {"idle", "waiting"}
        BY <3>1, <3>2 DEF Agreement, Agreed, Replacing
      <3>3. CASE at[q] \notin {"idle", "waiting"}
        <4>1. at[p] \in {"idle", "waiting"}
          BY <2>1, <3>3 DEF Careful, Alone
        <4>2. Provisioned' = Provisioned
          BY <1>2, <4>1, ProvisionedStays DEF WriteRecord
        <4> QED BY <3>1, <4>2 DEF Agreement, Agreed
      <3> QED BY <3>2, <3>3
    <2>2. OneJulia'
      <3>1. CASE WriteRecord(p)
        <4>1. Agreed(p) /\ at[p] # "idle"
          BY <3>1 DEF Agreement, WriteRecord
        <4> QED BY <3>1, <4>1, ProvisionedAdds DEF Agreement, Agreed, OneJulia
      <3>2. CASE ~WriteRecord(p)
        BY <1>2, <3>2, ProvisionedStays DEF Agreement, OneJulia
      <3> QED BY <3>1, <3>2
    <2> QED BY <1>2, <2>1, <2>2, StepAgreed DEF Agreement
  <1> QED BY <1>1, <1>2 DEF Next

(* All ready backends name one Julia: the one discover_julia() gives to a  *)
(* solve is the one each of them was probed with.                          *)
THEOREM ReadyBackendsShareAJulia ==
  ASSUME Undisturbed
  PROVE  Spec => []OneJulia
  <1>1. Agreement => OneJulia
    BY DEF Agreement
  <1> QED BY <1>1, InitTyped, StepTyped, InitCareful, StepCareful, InitAgreement,
             StepAgreement, PTL DEF Spec
=============================================================================
