-------------------------- MODULE BackendReadiness --------------------------
(***************************************************************************)
(* What provision.py promises of readiness, whatever files and locks it is *)
(* kept with: each backend has an answer of its own, which only a run for  *)
(* that backend changes; and a backend that is ready for the content the   *)
(* package has now was probed with that content.                           *)
(***************************************************************************)
EXTENDS Naturals

CONSTANTS Backends, MaxContent

VARIABLES content,  \* the package's content
          proved,   \* <<b, c>>: content c was probed for b
          ready,    \* ready[b]: the content b is ready for; 0: not ready
          running   \* the backends a run is under way for

vars == <<content, proved, ready, running>>

May(b, c) == c = content => <<b, c>> \in proved

Init ==
  /\ content = 1
  /\ proved \subseteq Backends \X {1}
  /\ ready \in [Backends -> {0, 1}]
  /\ \A b \in Backends : May(b, ready[b])
  /\ running = {}

Begin(b) ==
  /\ running' = running \cup {b}
  /\ UNCHANGED <<content, proved, ready>>

Prove(b) ==
  /\ b \in running
  /\ proved' = proved \cup {<<b, content>>}
  /\ UNCHANGED <<content, ready, running>>

Settle(b) ==
  /\ b \in running
  /\ \E c \in 0 .. MaxContent : May(b, c) /\ ready' = [ready EXCEPT ![b] = c]
  /\ UNCHANGED <<content, proved, running>>

End(b) ==
  /\ running' = running \ {b}
  /\ UNCHANGED <<content, proved, ready>>

(* An update makes no backend ready that was not.                          *)
Update ==
  /\ content' = content + 1
  /\ \A b \in Backends : ready[b] # content'
  /\ UNCHANGED <<proved, ready, running>>

Next ==
  \/ Update
  \/ \E b \in Backends : Begin(b) \/ Prove(b) \/ Settle(b) \/ End(b)

Spec == Init /\ [][Next]_vars
=============================================================================
