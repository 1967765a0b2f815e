---------------------------- MODULE Provisioning ----------------------------
(***************************************************************************)
(* provision_gpu() and provision_cpu() of provision.py, run by processes   *)
(* that share one runtime directory.  The two differ in the hardware gate  *)
(* (a run that is skipped changes nothing) and in what the probe computes; *)
(* both read the record, take the directory's kernel lock, read it again,  *)
(* record "in_progress", resolve a Julia, instantiate, probe, and record   *)
(* "ready" or, after any exception, "failed".                              *)
(*                                                                         *)
(* A process may die between any two steps; the kernel then releases its   *)
(* lock.  Every write of the records is three file operations, each of     *)
(* which may raise.  Calls out of the process - the download, Pkg, the     *)
(* probe - succeed or raise.                                               *)
(***************************************************************************)
EXTENDS ProvisionRecords

CONSTANTS Processes,  \* the processes that provision
          Elsewhere,  \* of these, those with a --dir that is not the default
          Readers,    \* of these, those that also ask what BEAT can run
          Cpu,        \* the backend that provision_cpu() is for
          Faults      \* what may raise: subset of {"lock", "write", "call", "remove"}

ASSUME ProvisioningAssumption ==
  /\ None \notin Processes
  /\ Elsewhere \subseteq Processes
  /\ Readers \subseteq Processes
  /\ Faults \subseteq {"lock", "write", "call", "remove"}

VARIABLES holder,  \* the process that holds provision.lock
          at,      \* where each process is
          run,     \* the locals of its run
          known,   \* known[p][b]: the content p takes b's project to have
          probes   \* a reader's calls to Julia, and the answers it keeps (RuntimeStatus)

processVars == <<holder, at, run, known, probes>>
vars == <<diskVars, processVars>>

(* The places of a run; those of Writing are inside _write_state(), which  *)
(* goes on at run[p].next.                                                 *)
Writing == {"checking", "copying", "recording", "mirroring"}
Resolving == {"resolving", "downloading", "unpacking", "clearing", "placing"}
Using == {"instantiating", "probing"}
Places == Writing \cup Resolving \cup Using
            \cup {"idle", "waiting", "locked", "leaving"}

Run == [backend : Backends, force : BOOLEAN,
        status : {"in_progress", "ready", "failed"}, julia : Julias,
        previous : Julias, legacy : Record \cup {None},
        next : {"resolving", "leaving"} \cup Using]

(* A question to Julia about a backend's accelerator: whether Julia is at  *)
(* it or has said that it is functional(), that it is not, or nothing      *)
(* before its time was up; and whether the answer is in the cache yet.     *)
Call == [gpu : Backends, julia : Julias, said : {"pending", "yes", "no", "nothing"},
         kept : BOOLEAN]
Kept == {x \in Call : x.kept}

ASSUME NoneAssumption == None \notin Record /\ None \notin Run

TypeOK ==
  /\ DiskTypeOK
  /\ holder \in Processes \cup {None}
  /\ at \in [Processes -> Places]
  /\ run \in [Processes -> Run \cup {None}]
  /\ known \in [Processes -> [Backends -> Contents]]
  /\ probes \in [Readers -> SUBSET Call]
  /\ \A p \in Processes : at[p] = "idle" <=> run[p] = None

Init ==
  /\ DiskInit
  /\ holder = None
  /\ at = [p \in Processes |-> "idle"]
  /\ run = [p \in Processes |-> None]
  /\ known = [p \in Processes |-> [b \in Backends |-> 1]]
  /\ probes = [r \in Readers |-> {}]

Go(p, place) == at' = [at EXCEPT ![p] = place]

(* Begin a write of the run's record; the run goes on at next.             *)
Write(p, status, julia, next) ==
  /\ run' = [run EXCEPT ![p] = [@ EXCEPT !.status = status, !.julia = julia,
                                        !.legacy = None, !.next = next]]
  /\ Go(p, "checking")

(* The exception handler: record "failed", with the Julia the run had.     *)
Fail(p) == Write(p, "failed", run[p].julia, "leaving")

(* The return, or an exception nobody catches: the lock is given back on   *)
(* the way out by whoever has it.                                          *)
Leave(p) ==
  /\ Go(p, "idle")
  /\ run' = [run EXCEPT ![p] = None]
  /\ holder' = IF holder = p THEN None ELSE holder

-----------------------------------------------------------------------------
(* The call, up to the lock: the record is read without the lock, and one  *)
(* that is ready ends the call there.                                      *)
Start(p) ==
  /\ at[p] = "idle"
  /\ \E b \in Backends, force \in BOOLEAN :
       /\ force \/ ~ReadyFor(ReadState(b), known[p][b])
       /\ Go(p, "waiting")
       /\ run' = [run EXCEPT ![p] =
            [backend |-> b, force |-> force, status |-> "in_progress",
             julia |-> NoJulia, previous |-> NoJulia, legacy |-> None,
             next |-> "leaving"]]
  /\ UNCHANGED <<diskVars, holder, known, probes>>

(* Mutant: the lock file was unlinked under its holder.                    *)
AcquireUnlinked(p) ==
  /\ at[p] = "waiting"
  /\ holder' = p
  /\ Go(p, "locked")
  /\ UNCHANGED <<diskVars, run, known, probes>>

(* One poll of the lock that finds it free.                                *)
Acquire(p) ==
  /\ at[p] = "waiting" /\ holder = None
  /\ holder' = p
  /\ Go(p, "locked")
  /\ UNCHANGED <<diskVars, run, known, probes>>

(* An OSError that is not contention: the run is recorded as failed, with  *)
(* no lock held, and returned.                                             *)
LockRaises(p) ==
  /\ "lock" \in Faults
  /\ at[p] = "waiting"
  /\ Write(p, "failed", NoJulia, "leaving")
  /\ UNCHANGED <<diskVars, holder, known, probes>>

(* Asked again under the lock.  previous is kept for its Julia; the first  *)
(* record of the run names none.                                           *)
ReadAgain(p) ==
  LET previous == ReadState(run[p].backend)
  IN /\ at[p] = "locked"
     /\ IF ~run[p].force /\ ReadyFor(previous, known[p][run[p].backend])
        THEN Leave(p)
        ELSE /\ run' = [run EXCEPT ![p] = [@ EXCEPT !.next = "resolving",
                          !.previous = IF previous = None THEN NoJulia ELSE previous.julia]]
             /\ Go(p, "checking")
             /\ UNCHANGED holder
     /\ UNCHANGED <<diskVars, known, probes>>

-----------------------------------------------------------------------------
(* Mutant: the mirror is overwritten unseen.                               *)
CheckMirrorNot(p) ==
  /\ at[p] = "checking"
  /\ Go(p, "recording")
  /\ UNCHANGED <<diskVars, holder, run, known, probes>>

(* _write_state().  A mirror about a backend that has no record of its own *)
(* is about to be overwritten: it is copied first.                         *)
CheckMirror(p) ==
  /\ at[p] = "checking"
  /\ IF mirror # None /\ records[mirror.backend] = None
     THEN Go(p, "copying") /\ run' = [run EXCEPT ![p].legacy = mirror]
     ELSE Go(p, "recording") /\ UNCHANGED run
  /\ UNCHANGED <<diskVars, holder, known, probes>>

(* Mutant: it is copied to the record of the run's own backend.            *)
CopyMirrorHere(p) ==
  /\ at[p] = "copying"
  /\ records' = [records EXCEPT ![run[p].backend] = run[p].legacy]
  /\ run' = [run EXCEPT ![p].legacy = None]
  /\ Go(p, "recording")
  /\ UNCHANGED <<mirror, tree, content, proved, holder, known, probes>>

CopyMirror(p) ==
  /\ at[p] = "copying"
  /\ records' = [records EXCEPT ![run[p].legacy.backend] = run[p].legacy]
  /\ run' = [run EXCEPT ![p].legacy = None]
  /\ Go(p, "recording")
  /\ UNCHANGED <<mirror, tree, content, proved, holder, known, probes>>

(* Mutant: the fingerprint is taken when it is written.                    *)
RecordedNow(p) ==
  [backend |-> run[p].backend, status |-> run[p].status,
   fingerprint |-> content, julia |-> run[p].julia]

Recorded(p) ==
  [backend |-> run[p].backend, status |-> run[p].status,
   fingerprint |-> known[p][run[p].backend], julia |-> run[p].julia]

WriteRecord(p) ==
  /\ at[p] = "recording"
  /\ records' = [records EXCEPT ![run[p].backend] = Recorded(p)]
  /\ Go(p, "mirroring")
  /\ UNCHANGED <<mirror, tree, content, proved, holder, run, known, probes>>

WriteMirror(p) ==
  /\ at[p] = "mirroring"
  /\ mirror' = Recorded(p)
  /\ Go(p, run[p].next)
  /\ UNCHANGED <<records, tree, content, proved, holder, run, known, probes>>

(* Mutant: an exception that nobody catches leaves with the lock.          *)
WriteRaisesHolding(p) ==
  /\ "write" \in Faults
  /\ at[p] \in Writing
  /\ IF run[p].next = "resolving" \/ run[p].status = "failed"
     THEN Go(p, "idle") /\ run' = [run EXCEPT ![p] = None]
     ELSE Fail(p)
  /\ UNCHANGED <<diskVars, holder, known, probes>>

(* A write that raises.  The first one is outside the try clause, and the  *)
(* one of the handler has no handler of its own: both leave the call; that *)
(* of a run without the lock is suppressed, and leaves it too.             *)
WriteRaises(p) ==
  /\ "write" \in Faults
  /\ at[p] \in Writing
  /\ IF run[p].next = "resolving" \/ run[p].status = "failed"
     THEN Leave(p)
     ELSE Fail(p) /\ UNCHANGED holder
  /\ UNCHANGED <<diskVars, known, probes>>

-----------------------------------------------------------------------------
(* _ensure_julia(): what discover_julia() finds, else what the previous    *)
(* record names if it is still there, else a download.                     *)
Resolve(p) ==
  /\ at[p] = "resolving"
  /\ \E found \in Discovered(p \notin Elsewhere) :
       LET kept == RecordedJulia([julia |-> run[p].previous])
           julia == IF found # NoJulia THEN found ELSE kept
       IN IF julia # NoJulia
          THEN Write(p, "in_progress", julia, "instantiating")
          ELSE Go(p, "downloading") /\ UNCHANGED run
  /\ UNCHANGED <<diskVars, holder, known, probes>>

(* The archive is written to a scratch name, verified and renamed, and     *)
(* unpacked into a directory of this run.                                  *)
Download(p) ==
  /\ at[p] = "downloading"
  /\ Go(p, "unpacking")
  /\ UNCHANGED <<diskVars, holder, run, known, probes>>

Unpack(p) ==
  /\ at[p] = "unpacking"
  /\ Go(p, IF tree = "absent" THEN "placing" ELSE "clearing")
  /\ UNCHANGED <<diskVars, holder, run, known, probes>>

(* rmtree(): file by file, in no particular order.                         *)
RemoveSome(p) ==
  /\ at[p] = "clearing"
  /\ \/ tree = "whole" /\ tree' \in {"gutted", "headless"}
     \/ tree = "gutted" /\ tree' = "headless"
  /\ UNCHANGED <<records, mirror, content, proved, processVars>>

RemoveRest(p) ==
  /\ at[p] = "clearing" /\ tree # "whole"
  /\ tree' = "absent"
  /\ Go(p, "placing")
  /\ UNCHANGED <<records, mirror, content, proved, holder, run, known, probes>>

(* The unpacked directory is renamed into place.                           *)
Place(p) ==
  /\ at[p] = "placing"
  /\ tree' = "whole"
  /\ Write(p, "in_progress", "portable", "instantiating")
  /\ UNCHANGED <<records, mirror, content, proved, holder, known, probes>>

Runs(julia) == julia = "portable" => tree = "whole"

Instantiate(p) ==
  /\ at[p] = "instantiating"
  /\ IF Runs(run[p].julia) THEN Write(p, "in_progress", run[p].julia, "probing") ELSE Fail(p)
  /\ UNCHANGED <<diskVars, holder, known, probes>>

Probe(p) ==
  /\ at[p] = "probing"
  /\ IF Runs(run[p].julia)
     THEN /\ proved' = proved \cup {<<run[p].backend, content>>}
          /\ Write(p, "ready", run[p].julia, "leaving")
     ELSE Fail(p) /\ UNCHANGED proved
  /\ UNCHANGED <<records, mirror, tree, content, holder, known, probes>>

(* What Julia answered p is kept for the life of the process, unless it is *)
(* cleared.                                                                *)
Forgets(p, calls) ==
  probes' = [r \in Readers |-> IF r = p THEN probes[r] \ calls ELSE probes[r]]

(* Mutant: only a run that failed makes the process ask again.             *)
ClearsProbesOnFailure(p) == run[p].status = "failed" /\ run[p].backend # Cpu

(* The end of a GPU run that became ready clears what its process cached,  *)
(* but not what it is still asking.                                        *)
ClearsProbes(p) == run[p].status = "ready" /\ run[p].backend # Cpu

Return(p) ==
  /\ at[p] = "leaving"
  /\ Leave(p)
  /\ Forgets(p, IF ClearsProbes(p) THEN Kept ELSE {})
  /\ UNCHANGED <<diskVars, known>>

(* The network, the disk, Pkg or the probe: any step of the try clause.    *)
CallRaises(p) ==
  /\ "call" \in Faults
  /\ at[p] \in (Resolving \ {"clearing"}) \cup Using
  /\ Fail(p)
  /\ UNCHANGED <<diskVars, holder, known, probes>>

(* A file of the tree is in use, or is not ours to delete.                 *)
RemoveRaises(p) ==
  /\ "remove" \in Faults
  /\ at[p] = "clearing"
  /\ Fail(p)
  /\ UNCHANGED <<diskVars, holder, known, probes>>

(* The process dies, or ends, and is started again.                        *)
Die(p) ==
  /\ Leave(p)
  /\ known' = [known EXCEPT ![p] = [b \in Backends |-> content]]
  /\ Forgets(p, Call)
  /\ UNCHANGED diskVars

(* The package is updated in place.  package_fingerprint() is cached for   *)
(* the life of a process and may have been asked for any project before: a *)
(* process that has, or is in a run for it, keeps the old one.             *)
Update ==
  /\ content < MaxContent
  /\ content' = content + 1
  /\ known' \in [Processes -> [Backends -> 1 .. content + 1]]
  /\ \A p \in Processes, b \in Backends :
       \/ known'[p][b] = known[p][b]
       \/ /\ known[p][b] = content /\ known'[p][b] = content'
          /\ at[p] # "idle" => run[p].backend # b
  /\ UNCHANGED <<records, mirror, tree, proved, holder, at, run, probes>>

-----------------------------------------------------------------------------
Write3(p) == CheckMirror(p) \/ CopyMirror(p) \/ WriteRecord(p) \/ WriteMirror(p)
Unpacking(p) == Download(p) \/ Unpack(p) \/ RemoveSome(p) \/ RemoveRest(p) \/ Place(p)

Step(p) ==
  \/ Acquire(p) \/ ReadAgain(p) \/ Write3(p) \/ Resolve(p) \/ Unpacking(p)
  \/ Instantiate(p) \/ Probe(p) \/ Return(p)

Raise(p) == LockRaises(p) \/ WriteRaises(p) \/ CallRaises(p) \/ RemoveRaises(p)

Next == Update \/ \E p \in Processes : Start(p) \/ Step(p) \/ Raise(p) \/ Die(p)

Spec == Init /\ [][Next]_vars

-----------------------------------------------------------------------------
(* Each step of a run is taken; a call out of the process comes back.      *)
FairSpec == Spec /\ \A p \in Processes : WF_vars(Step(p))

-----------------------------------------------------------------------------
(* "Two provisionings racing there can delete a Julia the other is         *)
(* executing, so the whole run holds the kernel's advisory lock": while a  *)
(* run has Pkg or the probe running, nobody touches the unpacked Julia.    *)
TreeInUseUntouched ==
  [][\A p \in Processes : at[p] \in Using /\ at'[p] = at[p] => tree' = tree]_vars

(* A resumed run works with a Julia that was "successfully unpacked",      *)
(* whatever interrupted the runs before it.                                *)
JuliaInUseIntact ==
  \A p \in Processes : at[p] \in Using => Runs(run[p].julia)

(* "Asking for one never un-provisions another": no run takes the Julia of *)
(* a ready record away, not even for the moment of an unpack or for ever   *)
(* by dying in one.                                                        *)
NamedJuliaIntact ==
  \A b \in Backends :
    LET record == ReadState(b)
    IN record # None /\ record.status = "ready" => Runs(record.julia)

(* A record that says ready for what is installed now was written after a  *)
(* probe of just that, though the fingerprint was taken long before and    *)
(* the package may have been updated meanwhile.                            *)
ReadyMeansProved ==
  \A b \in Backends : ReadyFor(ReadState(b), content) => <<b, content>> \in proved

(* All ready backends name one Julia: the one discover_julia() gives to a  *)
(* solve is the one each of them was probed with.                          *)
OneJulia == \A i, j \in Provisioned : i = j

(* Whatever raises in a run, and wherever, the lock is given back.         *)
LockPassesOn == \A p \in Processes : holder = p ~> holder # p

(* The abstract readiness, as the records on disk and the runs show it.    *)
Readiness(b) ==
  LET record == ReadState(b)
  IN IF record # None /\ ReadyFor(record, record.fingerprint)
     THEN record.fingerprint ELSE 0

ReadyNow == [b \in Backends |-> Readiness(b)]
UnderWay == {run[p].backend : p \in {q \in Processes : at[q] # "idle"}}

Promised == INSTANCE BackendReadiness WITH ready <- ReadyNow, running <- UnderWay

(* The upgrade from one record to one per backend, the mirror and the      *)
(* order of the writes lose no backend's readiness and invent none.        *)
ImplementsReadiness == Promised!Spec
=============================================================================
