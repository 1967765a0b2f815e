------------------------- MODULE HostRegistryProofs -------------------------
(***************************************************************************)
(* What holds of the registry directory for every set of applications and  *)
(* of hosts.  The files say nothing by themselves - anybody may remove     *)
(* them - so the invariant ties each of them to the process it names and   *)
(* to what the client under the spawn lock is about to do to it.           *)
(***************************************************************************)
EXTENDS HostRegistry, FiniteSetTheorems, TLAPS

USE RegistryAssumption

-----------------------------------------------------------------------------
(* Types, and where a client has a connection: it never dials with one.    *)
HostPlaces == {"unborn", "serving", "deciding", "gone"} \cup Starting \cup Leaving
ClientPlaces == {"idle", "dead"} \cup Calling
Unpaired == {"dialing", "greeting", "waiting"} \cup Locked

Typed ==
  /\ TypeOK
  /\ \A c \in Clients : /\ at[c] \in Unpaired => c \notin connected
                        /\ c \in connected => line[c] = seen[c]

LEMMA TypeParts ==
  ASSUME TypeOK
  PROVE  /\ unix \in Sockets /\ unix \in BOOLEAN
         /\ record \in Hosts \cup {None} /\ path \in Hosts \cup {None}
         /\ lock \in Clients \cup {None}
         /\ host \in [Hosts -> HostPlaces] /\ attached \in [Hosts -> SUBSET Clients]
         /\ recycled \subseteq Hosts
         /\ at \in [Clients -> ClientPlaces]
         /\ seen \in [Clients -> Hosts \cup {None}] /\ line \in [Clients -> Hosts \cup {None}]
         /\ launched \in [Clients -> Hosts \cup {None}]
         /\ connected \subseteq Clients /\ retried \subseteq Clients
         /\ \A c \in Clients : lock = c <=> at[c] \in Locked
  BY DEF TypeOK, HostPlaces, ClientPlaces

LEMMA InitTyped == Init => Typed
  <1> SUFFICES ASSUME Init PROVE Typed
    OBVIOUS
  <1>1. TypeOK
    BY DEF Init, TypeOK, Locked
  <1> QED BY <1>1 DEF Init, Typed

LEMMA StepTyped == Typed /\ [Next]_vars => Typed'
  <1> SUFFICES ASSUME Typed, [Next]_vars PROVE Typed'
    OBVIOUS
  <1>0. /\ unix \in Sockets /\ unix \in BOOLEAN
        /\ record \in Hosts \cup {None} /\ path \in Hosts \cup {None}
        /\ lock \in Clients \cup {None}
        /\ host \in [Hosts -> HostPlaces] /\ attached \in [Hosts -> SUBSET Clients]
        /\ recycled \subseteq Hosts
        /\ at \in [Clients -> ClientPlaces]
        /\ seen \in [Clients -> Hosts \cup {None}] /\ line \in [Clients -> Hosts \cup {None}]
        /\ launched \in [Clients -> Hosts \cup {None}]
        /\ connected \subseteq Clients /\ retried \subseteq Clients
        /\ \A c \in Clients : lock = c <=> at[c] \in Locked
    BY TypeParts DEF Typed
  <1>1. \A c \in Clients : /\ at[c] \in Unpaired => c \notin connected
                           /\ c \in connected => line[c] = seen[c]
    BY DEF Typed
  <1> DEFINE Agreed == \A c \in Clients : /\ at[c] \in Unpaired => c \notin connected
                                          /\ c \in connected => line[c] = seen[c]
  <1> USE <1>0 DEF Goto, registry, hostVars, callVars, Unpaired, Locked, ClientPlaces, Calling
  <1>2. ASSUME NEW c \in Clients, Call(c) \/ LockTimesOut(c) PROVE Typed'
    <2>1. LiveRecord \in Hosts \cup {None}
      BY DEF LiveRecord
    <2>2. Agreed'
      BY <1>1, <1>2 DEF Call, LockTimesOut
    <2>3. CASE Call(c)
      <3>1. /\ at' \in [Clients -> ClientPlaces] /\ seen' \in [Clients -> Hosts \cup {None}]
            /\ \A d \in Clients : lock = d <=> at'[d] \in Locked
        BY <2>1, <2>3 DEF Call
      <3> QED BY <2>2, <2>3, <3>1 DEF Call, Typed, TypeOK, HostPlaces
    <2>4. CASE LockTimesOut(c)
      BY <2>2, <2>4 DEF LockTimesOut, Typed, TypeOK, HostPlaces
    <2> QED BY <1>2, <2>3, <2>4
  <1>3. ASSUME NEW c \in Clients, Dial(c) \/ GreetingLost(c) PROVE Typed'
    <2>1. Target(c) \in Hosts \cup {None}
      BY DEF Target
    <2>2. Agreed'
      BY <1>1, <1>3 DEF Dial, GreetingLost, HandshakeFails
    <2>3. /\ at' \in [Clients -> ClientPlaces] /\ line' \in [Clients -> Hosts \cup {None}]
          /\ \A d \in Clients : lock = d <=> at'[d] \in Locked
      BY <1>3, <2>1 DEF Dial, GreetingLost, HandshakeFails
    <2>4. UNCHANGED <<registry, lock, hostVars, seen, connected, retried, launched>>
      BY <1>3 DEF Dial, GreetingLost
    <2> QED BY <2>2, <2>3, <2>4 DEF Typed, TypeOK, HostPlaces
  <1>4. ASSUME NEW c \in Clients, Greet(c) PROVE Typed'
    <2>1. Agreed'
      BY <1>1, <1>4 DEF Greet, HandshakeFails
    <2>2. attached' \in [Hosts -> SUBSET Clients]
      BY <1>4 DEF Greet
    <2> QED BY <1>4, <2>1, <2>2 DEF Greet, HandshakeFails, Typed, TypeOK, HostPlaces
  <1>5. ASSUME NEW c \in Clients, Lock(c) \/ LookAgain(c) PROVE Typed'
    <2>1. Agreed'
      BY <1>1, <1>5 DEF Lock, LookAgain, Return
    <2>2. /\ at' \in [Clients -> ClientPlaces] /\ lock' \in Clients \cup {None}
          /\ \A d \in Clients : lock' = d <=> at'[d] \in Locked
      BY <1>5 DEF Lock, LookAgain, Return
    <2>3. /\ UNCHANGED <<registry, hostVars, line, connected, launched>>
          /\ seen' \in [Clients -> Hosts \cup {None}] /\ retried' \subseteq Clients
      BY <1>5 DEF Lock, LookAgain, Return
    <2> QED BY <2>1, <2>2, <2>3 DEF Typed, TypeOK, HostPlaces
  <1>6. ASSUME NEW h, NEW p, Become(h, p), h \in Hosts => p \in HostPlaces
        PROVE  host' \in [Hosts -> HostPlaces]
    <2>1. host' = [g \in Hosts |-> IF g = h THEN p ELSE host[g]]
      BY <1>6 DEF Become
    <2> QED BY <1>6, <2>1
  <1>7. ASSUME NEW c \in Clients, SignalStale(c) PROVE Typed'
    <2>1. Agreed'
      BY <1>1, <1>7 DEF SignalStale
    <2>2. host' \in [Hosts -> HostPlaces]
      <3>1. \A h \in Hosts : Signalled(h) \in HostPlaces
        BY DEF Signalled, HostPlaces, Leaving
      <3> QED BY <1>6, <1>7, <3>1 DEF SignalStale
    <2> QED BY <1>7, <2>1, <2>2 DEF SignalStale, Typed, TypeOK, HostPlaces
  <1>8. ASSUME NEW c \in Clients, UnlinkStale(c) PROVE Typed'
    <2>1. Agreed'
      BY <1>1, <1>8 DEF UnlinkStale
    <2> QED BY <1>8, <2>1 DEF UnlinkStale, Typed, TypeOK, HostPlaces
  <1>9. ASSUME NEW c \in Clients, Launch(c) PROVE Typed'
    <2>1. Agreed'
      BY <1>1, <1>9 DEF Launch
    <2>2. host' \in [Hosts -> HostPlaces] /\ launched' \in [Clients -> Hosts \cup {None}]
      BY <1>6, <1>9 DEF Launch, HostPlaces, Starting
    <2> QED BY <1>9, <2>1, <2>2 DEF Launch, Typed, TypeOK, HostPlaces
  <1>10. ASSUME NEW c \in Clients, Poll(c) PROVE Typed'
    <2>1. Agreed'
      BY <1>1, <1>10 DEF Poll, Return
    <2> QED BY <1>10, <2>1 DEF Poll, Return, Typed, TypeOK, HostPlaces
  <1>11. ASSUME NEW c \in Clients, Send(c) \/ Receive(c) \/ CloseConnection(c) PROVE Typed'
    <2>1. Agreed'
      BY <1>1, <1>11 DEF Send, Receive, CloseConnection, Disconnect
    <2>2. /\ at' \in [Clients -> ClientPlaces] /\ line' \in [Clients -> Hosts \cup {None}]
          /\ connected' \subseteq Clients /\ \A d \in Clients : lock = d <=> at'[d] \in Locked
      BY <1>11 DEF Send, Receive, CloseConnection, Disconnect
    <2>3. UNCHANGED <<registry, lock, hostVars, seen, retried, launched>>
      BY <1>11 DEF Send, Receive, CloseConnection
    <2> QED BY <2>1, <2>2, <2>3 DEF Typed, TypeOK, HostPlaces
  <1>12. ASSUME NEW c \in Clients, Shutdown(c) PROVE Typed'
    <2>1. Agreed'
      BY <1>1, <1>12 DEF Shutdown, Disconnect
    <2>2. host' \in [Hosts -> HostPlaces]
      <3>1. PICK p : Become(line[c], p) /\ (line[c] \in Hosts => p \in HostPlaces)
        BY <1>12 DEF Shutdown, HostPlaces, Leaving
      <3> QED BY <1>6, <3>1
    <2> QED BY <1>12, <2>1, <2>2 DEF Shutdown, Disconnect, Typed, TypeOK, HostPlaces
  <1>13. ASSUME NEW c \in Clients, Die(c) PROVE Typed'
    <2>1. Agreed'
      BY <1>1, <1>13 DEF Die, Disconnect
    <2> QED BY <1>13, <2>1 DEF Die, Disconnect, Typed, TypeOK, HostPlaces
  <1>14. ASSUME NEW h \in Hosts, HostStep(h) \/ (Crash(h) /\ UNCHANGED <<unix, lock, callVars>>)
         PROVE  Typed'
    <2>1. Agreed' /\ UNCHANGED <<unix, lock, callVars>>
      BY <1>1, <1>14 DEF HostStep
    <2>2. host' \in [Hosts -> HostPlaces]
      <3>1. CASE HangUp(h)
        BY <3>1 DEF HangUp
      <3>2. CASE ~HangUp(h)
        <4>1. PICK p \in HostPlaces : Become(h, p)
          BY <1>14, <3>2 DEF HostStep, Crash, Probe, Unlink, BindSocket, Listen, Publish, Serve,
                             IdleCheck, IdleStop, RemoveRecord, CleanUp, Exit, Advance,
                             HostPlaces, Starting, Leaving
        <4> QED BY <1>6, <4>1
      <3> QED BY <3>1, <3>2
    <2>3. /\ record' \in Hosts \cup {None} /\ path' \in Hosts \cup {None} /\ recycled' \subseteq Hosts
          /\ attached' \in [Hosts -> SUBSET Clients]
      <3>1. UNCHANGED attached \/ \E A \in SUBSET Clients : attached' = [attached EXCEPT ![h] = A]
        BY <1>14 DEF HostStep, Crash, Probe, Unlink, BindSocket, Listen, Publish, Serve, HangUp,
                     IdleCheck, IdleStop, RemoveRecord, CleanUp, Exit
      <3>2. record' \in {record, h, None} /\ path' \in {path, h, None}
        BY <1>14 DEF HostStep, Crash, Probe, Unlink, BindSocket, Listen, Publish, Serve, HangUp,
                     IdleCheck, IdleStop, RemoveRecord, CleanUp, Exit
      <3>3. recycled' \in {recycled, recycled \cup {h}}
        BY <1>14 DEF HostStep, Crash, Probe, Unlink, BindSocket, Listen, Publish, Serve, HangUp,
                     IdleCheck, IdleStop, RemoveRecord, CleanUp, Exit
      <3> QED BY <3>1, <3>2, <3>3
    <2> QED BY <2>1, <2>2, <2>3 DEF Typed, TypeOK, HostPlaces
  <1>15. CASE UNCHANGED vars
    <2>1. Agreed'
      BY <1>1, <1>15 DEF vars
    <2> QED BY <1>15, <2>1 DEF vars, Typed, TypeOK, HostPlaces
  <1> QED BY <1>2, <1>3, <1>4, <1>5, <1>7, <1>8, <1>9, <1>10, <1>11, <1>12, <1>13, <1>14, <1>15
          DEF Next, ClientStep, Finished

LEMMA TypeInvariance == Spec => []Typed
  BY InitTyped, StepTyped, PTL DEF Spec

(* The files, the lock, the hosts and the clients keep their types; the    *)
(* spawn lock is held by the client that is inside it, and by no other.    *)
THEOREM HostRegistryTyped == Spec => []TypeOK
  <1>1. Typed => TypeOK
    BY DEF Typed
  <1> QED BY <1>1, TypeInvariance, PTL

(* Whatever crashes, dies, stops or times out: the host that a client      *)
(* sends its solves to is the one whose record it checked, though the      *)
(* socket is found by its name and anybody may have bound that.            *)
THEOREM ClientsUseTheRecordedHost == Spec => []AdoptedAsRecorded
  <1>1. Typed => AdoptedAsRecorded
    BY TypeParts DEF Typed, AdoptedAsRecorded
  <1> QED BY <1>1, TypeInvariance, PTL

-----------------------------------------------------------------------------
(* Hosts crash and their pids are used again, but no call times out, no    *)
(* application dies, and no host stops by itself or on request.            *)
Undisturbed == Events \subseteq {"crash", "recycle"}

NobodyRuns == \A h \in Hosts : ~Running(h)
Heralded == {"published", "serving", "gone"}

(* A host that runs is alone; a client waits for it until its record is    *)
(* written; and its files are its own from the step that makes them.       *)
HostPlaced(h) ==
  /\ host[h] \notin {"deciding"} \cup Leaving
  /\ host[h] \in {"launched", "unlinking", "binding"} => record = None /\ path = None
  /\ host[h] \in {"bound", "listening"} => record = None
  /\ host[h] \in {"bound", "listening", "published", "serving"} => (unix => path = h)
  /\ host[h] \in {"published", "serving"} => record = h
  /\ Running(h) => \/ host[h] \in {"published", "serving"}
                   \/ \E c \in Clients : at[c] = "polling" /\ launched[c] = h
  /\ \A g \in Hosts : Running(g) /\ Running(h) => g = h

(* The client under the spawn lock clears files and launches only when no  *)
(* host runs: the record it failed with names one that is gone.            *)
ClientPlaced(c) ==
  /\ at[c] \in {"clearing", "signalled", "unlinked", "removed", "launching"} => NobodyRuns
  /\ at[c] \in {"removed", "launching"} => record = None
  /\ at[c] = "launching" => path = None
  /\ at[c] = "polling" => /\ launched[c] \in Hosts
                          /\ \A h \in Hosts : Running(h) => h = launched[c]
  /\ seen[c] # None => host[seen[c]] \in Heralded
  /\ at[c] \in {"dialing", "greeting"} => seen[c] # None
  /\ at[c] = "greeting" => /\ line[c] \in Hosts
                           /\ line[c] = seen[c] \/ host[seen[c]] = "gone"
  /\ at[c] \in {"waiting", "looking"} /\ seen[c] # None => host[seen[c]] = "gone"

Placed ==
  /\ \A h \in Hosts : HostPlaced(h)
  /\ \A c \in Clients : ClientPlaced(c)
  /\ record # None => host[record] \in Heralded

LEMMA InitPlaced == Init => Placed
  BY DEF Init, Placed, HostPlaced, ClientPlaced, NobodyRuns, Running, Heralded, Leaving

(* A host changes by its own next step or by a crash.                      *)
LEMMA HostSteps ==
  ASSUME Undisturbed, Typed, Placed, NEW h \in Hosts,
         HostStep(h) \/ (Crash(h) /\ UNCHANGED <<unix, lock, callVars>>)
  PROVE  Placed'
  <1>0. /\ host \in [Hosts -> HostPlaces] /\ unix \in BOOLEAN
        /\ record \in Hosts \cup {None} /\ path \in Hosts \cup {None}
        /\ seen \in [Clients -> Hosts \cup {None}]
        /\ UNCHANGED <<unix, lock, at, seen, line, launched>>
    BY TypeParts DEF Typed, HostStep, callVars
  <1> USE <1>0 DEF Running
  <1>1. /\ HostPlaced(h) /\ Running(h)
        /\ \A g \in Hosts : HostPlaced(g) /\ (Running(g) => g = h)
    <2>1. Running(h)
      BY DEF HostStep, Crash, Probe, Unlink, BindSocket, Listen, Publish, Serve, HangUp, IdleCheck,
             IdleStop, RemoveRecord, CleanUp, Exit, Advance
    <2> QED BY <2>1 DEF Placed, HostPlaced
  <1>2. ASSUME NEW p \in HostPlaces \ {"unborn"}, Become(h, p),
               host[h] \in Heralded => p \in Heralded,
               HostPlaced(h)', record' = record \/ (record' = h /\ p = "published")
        PROVE  Placed'
    <2>1. host' = [host EXCEPT ![h] = p] /\ \A g \in Hosts : Running(g)' => g = h
      BY <1>1, <1>2 DEF Become
    <2>2. ASSUME NEW g \in Hosts PROVE HostPlaced(g)'
      BY <1>1, <1>2, <2>1 DEF HostPlaced, Leaving
    <2>3. ASSUME NEW c \in Clients PROVE ClientPlaced(c)'
      <3>1. ClientPlaced(c) /\ at'[c] = at[c] /\ seen'[c] = seen[c] /\ line'[c] = line[c]
            /\ launched'[c] = launched[c]
        BY DEF Placed
      <3>2. \A g \in Hosts : (host[g] \in Heralded => host'[g] \in Heralded)
                             /\ (host[g] = "gone" => host'[g] = "gone")
        BY <1>1, <1>2, <2>1
      <3>3. at[c] \notin {"clearing", "signalled", "unlinked", "removed", "launching"}
        BY <1>1, <3>1 DEF ClientPlaced, NobodyRuns
      <3> QED BY <1>1, <2>1, <3>1, <3>2, <3>3 DEF ClientPlaced
    <2>4. record' # None => host'[record'] \in Heralded
      BY <1>2, <2>1 DEF Placed, Heralded
    <2> QED BY <2>2, <2>3, <2>4 DEF Placed
  <1>3. CASE Probe(h) \/ Unlink(h) \/ BindSocket(h) \/ Listen(h)
    <2>1. PICK p \in {"listening", "unlinking", "binding", "bound", "gone"} :
            Become(h, p) /\ host[h] \notin Heralded /\ record' = record
      BY <1>3 DEF Probe, Unlink, BindSocket, Listen, Advance, Heralded, registry
    <2>2. HostPlaced(h)'
      <3>1. CASE Probe(h)
        BY <1>1, <3>1 DEF Probe, Advance, Become, HostPlaced, Leaving, registry
      <3>2. CASE Unlink(h)
        BY <1>1, <3>2 DEF Unlink, Advance, Become, HostPlaced, Leaving
      <3>3. CASE BindSocket(h)
        BY <1>1, <3>3 DEF BindSocket, Advance, Become, HostPlaced, Leaving
      <3>4. CASE Listen(h)
        BY <1>1, <3>4 DEF Listen, Advance, Become, HostPlaced, Leaving, registry
      <3> QED BY <1>3, <3>1, <3>2, <3>3, <3>4
    <2> QED BY <1>2, <2>1, <2>2 DEF HostPlaces, Starting
  <1>4. CASE Publish(h) \/ Serve(h)
    <2>1. PICK p \in {"published", "serving"} :
            Become(h, p) /\ (record' = record \/ (record' = h /\ p = "published"))
      BY <1>4 DEF Publish, Serve, Advance, registry
    <2>2. HostPlaced(h)'
      BY <1>1, <1>4 DEF Publish, Serve, Advance, Become, HostPlaced, Leaving, registry
    <2> QED BY <1>2, <2>1, <2>2 DEF HostPlaces, Starting, Heralded
  <1>5. CASE Crash(h)
    <2>1. Become(h, "gone") /\ UNCHANGED registry
      BY <1>5 DEF Crash
    <2>2. HostPlaced(h)'
      BY <1>1, <2>1 DEF Become, HostPlaced, Leaving, registry
    <2> QED BY <1>2, <2>1, <2>2 DEF HostPlaces, Heralded, registry
  <1>6. CASE HangUp(h)
    <2>1. UNCHANGED <<host, record, path>>
      BY <1>6 DEF HangUp, registry
    <2> QED BY <2>1 DEF Placed, HostPlaced, ClientPlaced, NobodyRuns
  <1>7. ~(IdleCheck(h) \/ IdleStop(h) \/ RemoveRecord(h) \/ CleanUp(h) \/ Exit(h))
    BY <1>1 DEF Undisturbed, IdleCheck, IdleStop, RemoveRecord, CleanUp, Exit, Advance, HostPlaced,
                Leaving
  <1> QED BY <1>3, <1>4, <1>5, <1>6, <1>7 DEF HostStep

(* A client changes the files and the hosts only under the spawn lock;     *)
(* outside it, it can but learn that the host it wanted is gone.           *)
LEMMA ClientMoves ==
  ASSUME Undisturbed, Typed, Placed, NEW c \in Clients,
         \/ Call(c) \/ Dial(c) \/ Greet(c) \/ GreetingLost(c) \/ Lock(c)
         \/ Send(c) \/ Receive(c) \/ CloseConnection(c)
  PROVE  Placed'
  <1>0. /\ host \in [Hosts -> HostPlaces] /\ unix \in BOOLEAN
        /\ record \in Hosts \cup {None} /\ path \in Hosts \cup {None}
        /\ at \in [Clients -> ClientPlaces]
        /\ seen \in [Clients -> Hosts \cup {None}] /\ line \in [Clients -> Hosts \cup {None}]
    BY TypeParts DEF Typed
  <1> USE <1>0 DEF Goto, Running
  <1>1. /\ \A h \in Hosts : HostPlaced(h)
        /\ ClientPlaced(c)
        /\ record # None => host[record] \in Heralded
    BY DEF Placed
  <1>2. UNCHANGED <<unix, record, path, host, launched>>
    BY DEF Call, Dial, Greet, GreetingLost, Lock, Send, Receive, CloseConnection, registry, hostVars
  <1>3. \A d \in Clients \ {c} : at'[d] = at[d] /\ seen'[d] = seen[d] /\ line'[d] = line[d]
    BY DEF Call, Dial, Greet, GreetingLost, Lock, Send, Receive, CloseConnection, Disconnect,
           HandshakeFails
  <1>4. at[c] # "polling" /\ at'[c] # "polling"
    BY DEF Call, Dial, Greet, GreetingLost, Lock, Send, Receive, CloseConnection, HandshakeFails
  <1>5. ASSUME NEW h \in Hosts PROVE HostPlaced(h)'
    BY <1>1, <1>2, <1>3, <1>4 DEF HostPlaced
  <1>6. ASSUME NEW d \in Clients \ {c} PROVE ClientPlaced(d)'
    BY <1>2, <1>3 DEF Placed, ClientPlaced, NobodyRuns
  <1>7. ASSUME NEW h \in Hosts, Running(h) PROVE host[h] # "gone" /\ ~HungUp(h)
    BY <1>1, <1>7 DEF HungUp, HostPlaced
  <1>8. ClientPlaced(c)'
    <2>1. CASE Call(c)
      <3>1. LiveRecord \in {record, None}
        BY DEF LiveRecord
      <3>2. CASE c \in connected
        BY <1>1, <1>2, <2>1, <3>2 DEF Call, ClientPlaced
      <3>3. CASE c \notin connected
        BY <1>1, <1>2, <2>1, <3>1, <3>3 DEF Call, ClientPlaced
      <3> QED BY <3>2, <3>3
    <2>2. CASE Dial(c)
      <3>1. /\ seen[c] \in Hosts /\ host[seen[c]] \in Heralded
            /\ UNCHANGED <<seen, host>>
        BY <1>1, <1>2, <2>2 DEF Dial, ClientPlaced
      <3>2. CASE Target(c) # None /\ host[Target(c)] \in Accepting
        <4>1. Target(c) \in Hosts /\ Running(Target(c))
          BY <3>2 DEF Target, Accepting
        <4>2. host[seen[c]] = "gone" \/ seen[c] = Target(c)
          BY <1>1, <3>1, <4>1 DEF HostPlaced, Heralded
        <4>3. at' = [at EXCEPT ![c] = "greeting"] /\ line' = [line EXCEPT ![c] = Target(c)]
          BY <2>2, <3>2 DEF Dial
        <4> QED BY <1>2, <3>1, <4>1, <4>2, <4>3 DEF ClientPlaced
      <3>3. CASE ~(Target(c) # None /\ host[Target(c)] \in Accepting)
        <4>1. at' = [at EXCEPT ![c] = "waiting"] \/ at' = [at EXCEPT ![c] = "idle"]
          BY <2>2, <3>3 DEF Dial, HandshakeFails
        <4>2. host[seen[c]] = "gone"
          <5>1. host[seen[c]] \in {"published", "serving"} => Target(c) = seen[c]
            BY <1>1, <3>1 DEF HostPlaced, Target
          <5> QED BY <3>1, <3>3, <5>1 DEF Accepting, Heralded
        <4> QED BY <1>2, <3>1, <4>1, <4>2 DEF ClientPlaced
      <3> QED BY <3>2, <3>3
    <2>3. CASE Greet(c) \/ GreetingLost(c)
      <3>1. /\ at[c] = "greeting" /\ seen[c] \in Hosts /\ host[seen[c]] \in Heralded
            /\ line[c] \in Hosts /\ (line[c] = seen[c] \/ host[seen[c]] = "gone")
            /\ UNCHANGED seen
        BY <1>1, <2>3 DEF Greet, GreetingLost, ClientPlaced
      <3>2. \/ at' = [at EXCEPT ![c] = "sending"]
            \/ at' = [at EXCEPT ![c] = "idle"]
            \/ at' = [at EXCEPT ![c] = "waiting"] /\ (line[c] # seen[c] \/ HungUp(line[c]))
        BY <2>3 DEF Greet, GreetingLost, HandshakeFails, Undisturbed
      <3>3. HungUp(line[c]) => host[line[c]] = "gone"
        BY <1>1, <3>1 DEF HungUp, HostPlaced
      <3> QED BY <1>2, <3>1, <3>2, <3>3 DEF ClientPlaced
    <2>4. CASE Lock(c)
      BY <1>1, <1>2, <2>4 DEF Lock, ClientPlaced
    <2>5. CASE Send(c) \/ Receive(c) \/ CloseConnection(c)
      <3>1. at'[c] \in {"receiving", "idle"} /\ UNCHANGED seen
        BY <2>5 DEF Send, Receive, CloseConnection
      <3> QED BY <1>1, <1>2, <3>1 DEF ClientPlaced
    <2> QED BY <2>1, <2>2, <2>3, <2>4, <2>5
  <1> QED BY <1>1, <1>2, <1>5, <1>6, <1>8 DEF Placed

(* Under the spawn lock.  A record that names no host but the one that the *)
(* client failed with leaves no host to run: whoever started one has       *)
(* waited, under the same lock, until its record was there.                *)
LEMMA LockedMoves ==
  ASSUME Undisturbed, Typed, Placed, NEW c \in Clients,
         LookAgain(c) \/ SignalStale(c) \/ UnlinkStale(c) \/ Launch(c) \/ Poll(c)
  PROVE  Placed'
  <1>0. /\ host \in [Hosts -> HostPlaces] /\ unix \in BOOLEAN
        /\ record \in Hosts \cup {None} /\ path \in Hosts \cup {None}
        /\ at \in [Clients -> ClientPlaces]
        /\ seen \in [Clients -> Hosts \cup {None}] /\ launched \in [Clients -> Hosts \cup {None}]
    BY TypeParts DEF Typed
  <1> USE <1>0 DEF Goto, Running
  <1>1. /\ \A h \in Hosts : HostPlaced(h)
        /\ ClientPlaced(c)
        /\ record # None => host[record] \in Heralded
    BY DEF Placed
  <1>2. /\ at[c] \in Locked
        /\ \A d \in Clients \ {c} : at[d] \notin Locked /\ ClientPlaced(d)
    BY TypeParts DEF Placed, Typed, LookAgain, SignalStale, UnlinkStale, Launch, Poll, Locked
  <1>3. /\ UNCHANGED <<unix, line>>
        /\ \A d \in Clients \ {c} : at'[d] = at[d] /\ seen'[d] = seen[d]
    BY DEF LookAgain, SignalStale, UnlinkStale, Launch, Poll, Return, registry
  <1>4. ASSUME NEW d \in Clients \ {c},
               \A h \in Hosts : host[h] \in Heralded => host'[h] = host[h]
        PROVE  ClientPlaced(d)'
    <2>1. at'[d] = at[d] /\ seen'[d] = seen[d] /\ line'[d] = line[d]
      BY <1>3
    <2>2. at[d] \notin Locked /\ ClientPlaced(d)
      BY <1>2
    <2>3. seen[d] # None => host'[seen[d]] = host[seen[d]]
      BY <1>4, <2>2 DEF ClientPlaced
    <2> QED BY <2>1, <2>2, <2>3 DEF ClientPlaced, Locked
  <1>5. CASE LookAgain(c)
    <2>1. UNCHANGED <<record, path, host, launched>>
      BY <1>5 DEF LookAgain, registry, hostVars
    <2>2. ASSUME NEW h \in Hosts PROVE HostPlaced(h)'
      BY <1>1, <1>2, <1>3, <1>5, <2>1 DEF HostPlaced, LookAgain, Return
    <2>3. ClientPlaced(c)'
      <3>1. CASE LiveRecord \notin {None, seen[c]}
        <4>1. LiveRecord = record /\ record \in Hosts
          BY <3>1 DEF LiveRecord
        <4>2. at' = [at EXCEPT ![c] = "dialing"] /\ seen' = [seen EXCEPT ![c] = record]
          BY <1>5, <3>1 DEF LookAgain, Return
        <4> QED BY <1>1, <2>1, <4>1, <4>2 DEF ClientPlaced
      <3>2. CASE LiveRecord \in {None, seen[c]}
        <4>1. at' = [at EXCEPT ![c] = "clearing"] /\ seen' = seen /\ at[c] = "looking"
          BY <1>5, <3>2 DEF LookAgain
        <4>2. ASSUME NEW h \in Hosts, Running(h) PROVE FALSE
          <5>1. \A d \in Clients : at[d] # "polling"
            BY <1>2, <4>1 DEF Locked
          <5>2. record = h
            BY <1>1, <4>2, <5>1 DEF HostPlaced
          <5>3. LiveRecord = h
            BY <4>2, <5>2 DEF LiveRecord, PidAlive
          <5> QED BY <1>1, <3>2, <4>1, <4>2, <5>3 DEF ClientPlaced
        <4> QED BY <1>1, <2>1, <4>1, <4>2 DEF ClientPlaced, NobodyRuns
      <3> QED BY <3>1, <3>2
    <2> QED BY <1>1, <1>4, <2>1, <2>2, <2>3 DEF Placed
  <1>6. CASE SignalStale(c)
    <2>1. NobodyRuns
      BY <1>1, <1>6 DEF SignalStale, ClientPlaced
    <2>2. UNCHANGED <<record, path, host, launched, seen>>
      <3>1. record # None => Signalled(record) = host[record]
        BY <2>1 DEF NobodyRuns, Signalled, Starting
      <3> QED BY <1>6, <3>1 DEF SignalStale, Become, registry
    <2>3. ASSUME NEW h \in Hosts PROVE HostPlaced(h)'
      BY <1>1, <2>1, <2>2, <1>3 DEF HostPlaced, NobodyRuns
    <2>4. ClientPlaced(c)'
      BY <1>1, <1>6, <2>1, <2>2 DEF SignalStale, ClientPlaced, NobodyRuns
    <2> QED BY <1>1, <1>4, <2>2, <2>3, <2>4 DEF Placed
  <1>7. CASE UnlinkStale(c)
    <2>1. NobodyRuns
      BY <1>1, <1>7 DEF UnlinkStale, ClientPlaced
    <2>2. UNCHANGED <<host, launched, seen>> /\ record' \in {record, None}
      BY <1>7 DEF UnlinkStale, hostVars
    <2>3. ASSUME NEW h \in Hosts PROVE HostPlaced(h)'
      BY <1>1, <2>1, <2>2 DEF HostPlaced, NobodyRuns
    <2>4. ClientPlaced(c)'
      BY <1>1, <1>7, <2>1, <2>2 DEF UnlinkStale, ClientPlaced, NobodyRuns
    <2> QED BY <1>1, <1>4, <2>2, <2>3, <2>4 DEF Placed
  <1>8. CASE Launch(c)
    <2>1. NobodyRuns /\ record = None /\ path = None
      BY <1>1, <1>8 DEF Launch, ClientPlaced
    <2>2. PICK n \in Hosts : /\ host[n] = "unborn" /\ host' = [host EXCEPT ![n] = "launched"]
                             /\ launched' = [launched EXCEPT ![c] = n]
      BY <1>8 DEF Launch, Become
    <2>3. at' = [at EXCEPT ![c] = "polling"] /\ UNCHANGED <<record, path, seen>>
      BY <1>8 DEF Launch, registry
    <2>4. ASSUME NEW h \in Hosts PROVE HostPlaced(h)'
      BY <1>1, <2>1, <2>2, <2>3, <2>4 DEF HostPlaced, NobodyRuns, Leaving
    <2>5. \A h \in Hosts : host[h] \in Heralded => host'[h] = host[h]
      BY <2>2 DEF Heralded
    <2>6. ClientPlaced(c)'
      BY <1>1, <2>1, <2>2, <2>3, <2>5 DEF ClientPlaced, NobodyRuns
    <2> QED BY <1>4, <2>1, <2>3, <2>4, <2>5, <2>6 DEF Placed
  <1>9. CASE Poll(c)
    <2>1. /\ UNCHANGED <<record, path, host>> /\ launched' = [launched EXCEPT ![c] = None]
          /\ at[c] = "polling"
      BY <1>9 DEF Poll, registry, hostVars
    <2>2. launched[c] \in Hosts /\ \A h \in Hosts : Running(h) => h = launched[c]
      BY <1>1, <2>1 DEF ClientPlaced
    <2>3. ASSUME NEW h \in Hosts, Running(h) PROVE host[h] \in {"published", "serving"}
      <3>1. h = launched[c]
        BY <2>2, <2>3
      <3>2. CASE LiveRecord # None
        BY <1>1, <2>3, <3>1, <3>2 DEF LiveRecord, HostPlaced, HostPlaces, Starting, Leaving
      <3>3. CASE LiveRecord = None
        BY <1>9, <2>3, <3>1, <3>3 DEF Poll, Undisturbed
      <3> QED BY <3>2, <3>3
    <2>4. ASSUME NEW h \in Hosts PROVE HostPlaced(h)'
      BY <1>1, <1>3, <2>1, <2>3 DEF HostPlaced
    <2>5. ClientPlaced(c)'
      <3>1. CASE LiveRecord # None
        <4>1. at' = [at EXCEPT ![c] = "dialing"] /\ seen' = [seen EXCEPT ![c] = record]
          BY <1>9, <3>1 DEF Poll, Return
        <4> QED BY <1>1, <2>1, <3>1, <4>1 DEF ClientPlaced, LiveRecord
      <3>2. CASE LiveRecord = None
        <4>1. at' = [at EXCEPT ![c] = "idle"] /\ seen' = seen
          BY <1>9, <3>2 DEF Poll
        <4> QED BY <1>1, <2>1, <4>1 DEF ClientPlaced
      <3> QED BY <3>1, <3>2
    <2> QED BY <1>1, <1>4, <2>1, <2>4, <2>5 DEF Placed
  <1> QED BY <1>5, <1>6, <1>7, <1>8, <1>9

LEMMA StepPlaced ==
  ASSUME Undisturbed
  PROVE  Typed /\ Placed /\ [Next]_vars => Placed'
  <1> SUFFICES ASSUME Typed, Placed, [Next]_vars PROVE Placed'
    OBVIOUS
  <1>1. ASSUME NEW c \in Clients, ClientStep(c) \/ Call(c) \/ CloseConnection(c) PROVE Placed'
    BY <1>1, ClientMoves, LockedMoves DEF ClientStep
  <1>2. \A c \in Clients : ~(LockTimesOut(c) \/ Shutdown(c) \/ Die(c))
    BY DEF Undisturbed, LockTimesOut, Shutdown, Die
  <1>3. ASSUME NEW h \in Hosts, HostStep(h) \/ (Crash(h) /\ UNCHANGED <<unix, lock, callVars>>)
        PROVE  Placed'
    BY <1>3, HostSteps
  <1>4. CASE UNCHANGED vars
    BY <1>4 DEF vars, registry, hostVars, callVars, Placed, HostPlaced, ClientPlaced, NobodyRuns,
                Running
  <1> QED BY <1>1, <1>2, <1>3, <1>4 DEF Next, Finished

LEMMA PlacedInvariance ==
  ASSUME Undisturbed
  PROVE  Spec => [](Typed /\ Placed)
  BY InitTyped, StepTyped, InitPlaced, StepPlaced, PTL DEF Spec

(* A host that serves is found through its record and its socket, though   *)
(* clients that failed with an earlier one are clearing up behind it.      *)
THEOREM ServingHostsAreFound ==
  ASSUME Undisturbed
  PROVE  Spec => []ServingHostIsFound
  <1>1. Placed => ServingHostIsFound
    BY DEF Placed, HostPlaced, ServingHostIsFound
  <1> QED BY <1>1, PlacedInvariance, PTL

(* One host runs for the key, however many clients start one at once and   *)
(* however many of the hosts crash.                                        *)
THEOREM OneHostRuns ==
  ASSUME Undisturbed
  PROVE  Spec => []OneHostPerKey
  <1>1. Placed => OneHostPerKey
    <2> SUFFICES ASSUME Placed PROVE Cardinality({h \in Hosts : Running(h)}) <= 1
      BY DEF OneHostPerKey
    <2>1. \A g, h \in Hosts : Running(g) /\ Running(h) => g = h
      BY DEF Placed, HostPlaced
    <2>2. CASE \E h \in Hosts : Running(h)
      <3>1. PICK h \in Hosts : Running(h)
        BY <2>2
      <3>2. {g \in Hosts : Running(g)} = {h}
        BY <2>1, <3>1
      <3> QED BY <3>2, FS_Singleton
    <2>3. CASE ~\E h \in Hosts : Running(h)
      <3>1. {g \in Hosts : Running(g)} = {}
        BY <2>3
      <3> QED BY <3>1, FS_EmptySet
    <2> QED BY <2>2, <2>3
  <1> QED BY <1>1, PlacedInvariance, PTL

(* The signal meant for a stale host, sent to the pid of a record that     *)
(* anybody may have replaced in the meantime, ends no host that serves.    *)
THEOREM ServingHostsAreSpared ==
  ASSUME Undisturbed
  PROVE  Spec => ServingHostIsSpared
  <1>1. Typed /\ Placed /\ [Next]_vars
        => [\A h \in Hosts : host[h] = "serving" => host'[h] \in {"serving", "deciding", "gone"}]_vars
    <2> SUFFICES ASSUME Typed, Placed, Next, NEW h \in Hosts, host[h] = "serving"
                 PROVE  host'[h] \in {"serving", "deciding", "gone"}
      BY DEF vars, hostVars
    <2>0. host \in [Hosts -> HostPlaces] /\ Running(h)
      BY TypeParts DEF Typed, Running
    <2>1. ASSUME NEW c \in Clients, SignalStale(c) PROVE FALSE
      BY <2>0, <2>1 DEF SignalStale, Placed, ClientPlaced, NobodyRuns
    <2>2. ASSUME NEW c \in Clients, Launch(c) PROVE host'[h] = host[h]
      BY <2>0, <2>2 DEF Launch, Become
    <2>3. ASSUME NEW g \in Hosts, HostStep(g) \/ Crash(g)
          PROVE  host'[h] \in {"serving", "deciding", "gone"}
      BY <2>0, <2>3 DEF HostStep, Crash, Probe, Unlink, BindSocket, Listen, Publish, Serve, HangUp,
                        IdleCheck, IdleStop, RemoveRecord, CleanUp, Exit, Advance, Become
    <2>4. CASE UNCHANGED host
      BY <2>4
    <2> QED BY <2>1, <2>2, <2>3, <2>4
            DEF Next, ClientStep, Finished, Call, Dial, Greet, GreetingLost, Lock, LookAgain,
                UnlinkStale, Poll, Send, Receive, LockTimesOut, CloseConnection, Shutdown, Die,
                Undisturbed, vars, hostVars
  <1> QED BY <1>1, PlacedInvariance, PTL DEF Spec, ServingHostIsSpared
=============================================================================
