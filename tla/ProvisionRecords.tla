-------------------------- MODULE ProvisionRecords --------------------------
(***************************************************************************)
(* The runtime directory that provision.py keeps on disk and what its      *)
(* readers make of it.                                                     *)
(*                                                                         *)
(* A record says of one backend how far its provisioning came, of which    *)
(* package content, and with which Julia.  state-<backend>.json is the     *)
(* authority; state.json is a mirror of the newest record, and the only    *)
(* record there is where the directory was provisioned before there was    *)
(* one file per backend.  A Julia is one of                                *)
(*   "portable"  the unpacked current release in this directory,           *)
(*   "old"       an unpacked earlier release in it,                        *)
(*   "external"  an installation of the user's, found on PATH.             *)
(***************************************************************************)
EXTENDS Naturals

CONSTANTS Backends,    \* the backends provisioned here
          None,        \* no record, no process
          NoJulia,     \* no Julia executable
          HostJulia,   \* TRUE: there is a Julia on PATH
          MaxContent   \* a bound: the contents the package ever has

ASSUME RecordsAssumption ==
  /\ None \notin Backends
  /\ NoJulia \notin {"portable", "old", "external"}
  /\ HostJulia \in BOOLEAN
  /\ MaxContent \in Nat \ {0}

VARIABLES records,  \* records[b]: what state-<b>.json says
          mirror,   \* what state.json says
          tree,     \* the unpacked Julia of the current release
          content,  \* the package's content, which its fingerprint identifies
          proved    \* history: <<b, c>> once content c was probed for b

diskVars == <<records, mirror, tree, content, proved>>

Contents == 1 .. MaxContent
Julias == {"portable", "old", "external", NoJulia}

(* Fingerprint 0 is that of a record from before records had one.          *)
Record == [backend : Backends, status : {"in_progress", "ready", "failed"},
           fingerprint : Contents \cup {0}, julia : Julias]

(* A tree being deleted has its executable for a while, or its libraries.  *)
Trees == {"absent", "whole", "gutted", "headless"}

DiskTypeOK ==
  /\ records \in [Backends -> Record \cup {None}]
  /\ \A b \in Backends : records[b] # None => records[b].backend = b
  /\ mirror \in Record \cup {None}
  /\ tree \in Trees
  /\ content \in Contents
  /\ proved \subseteq Backends \X Contents

(* read_state(backend=b): the backend's own record, else a mirror that is  *)
(* about the same backend.                                                 *)
ReadState(b) ==
  IF records[b] # None THEN records[b]
  ELSE IF mirror # None /\ mirror.backend = b THEN mirror ELSE None

Exists(julia) ==
  \/ julia \in {"old", "external"}
  \/ julia = "portable" /\ tree \in {"whole", "gutted"}

(* What a record still names: an executable that is there and is not an    *)
(* earlier release of ours.                                                *)
RecordedJulia(record) ==
  IF record # None /\ Exists(record.julia) /\ record.julia # "old"
  THEN record.julia ELSE NoJulia

(* The backend of a record read for b is b, so this is the rest of it.     *)
ReadyFor(record, fingerprint) ==
  /\ record # None
  /\ record.status = "ready"
  /\ record.fingerprint = fingerprint
  /\ RecordedJulia(record) # NoJulia

(* Mutant: the newest record is the only one asked.                        *)
ProvisionedNewest ==
  {RecordedJulia(mirror) : x \in {y \in {mirror} : y # None /\ y.status = "ready"}}
  \ {NoJulia}

(* The Julia of any ready record.                                          *)
Provisioned ==
  {RecordedJulia(ReadState(b)) :
     b \in {x \in Backends : ReadState(x) # None /\ ReadState(x).status = "ready"}}
  \ {NoJulia}

(* Mutant: the Julia on PATH goes before the provisioned one.              *)
DiscoveredOnPath(here) ==
  IF HostJulia THEN {"external"}
  ELSE IF here /\ Provisioned # {} THEN Provisioned ELSE {NoJulia}

(* discover_julia() looks at the default directory; a process that was     *)
(* given another one does not find what is in this.                        *)
Discovered(here) ==
  IF here /\ Provisioned # {} THEN Provisioned
  ELSE {IF HostJulia THEN "external" ELSE NoJulia}

(* A fresh directory, or one provisioned for one backend by an earlier     *)
(* version of the package: with or without a fingerprint, with this        *)
(* release of Julia or an earlier one.                                     *)
DiskInit ==
  /\ content = 1
  /\ records = [b \in Backends |-> None]
  /\ \/ mirror = None /\ tree = "absent" /\ proved = {}
     \/ \E b \in Backends, c \in {0, 1}, j \in {"portable", "old"} :
          /\ mirror = [backend |-> b, status |-> "ready", fingerprint |-> c, julia |-> j]
          /\ tree = IF j = "portable" THEN "whole" ELSE "absent"
          /\ proved = IF c = 1 THEN {<<b, 1>>} ELSE {}
=============================================================================
