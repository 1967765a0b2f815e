---------------------------- MODULE HostRegistry ----------------------------
(***************************************************************************)
(* How an application finds, or starts, the host process that owns the     *)
(* Julia runtime of one worker key: worker_client.py's _connect() and      *)
(* _spawn_host(), worker_host.py's bind(), serve(), idle monitor and       *)
(* shutdown(), and between them the files of the registry directory - the  *)
(* record <id>.json, the socket <id>.sock and the spawn lock <id>.lock -   *)
(* which every process changes on its own.                                 *)
(*                                                                         *)
(* A record names a pid, a token and an endpoint; all three are fresh for  *)
(* every host, so a record is the host that wrote it.  What the host does  *)
(* with the jobs it is sent belongs to its worker, not to this module.     *)
(***************************************************************************)
EXTENDS Naturals, FiniteSets

CONSTANTS Clients,  \* HostedBeatWorkers, one per application
          Hosts,    \* the host processes that can be started, in order
          None,     \* no record, no socket file, no lock holder, no peer
          Sockets,  \* TRUE: a Unix socket in the directory, FALSE: a TCP port
          Events    \* what may go wrong

ASSUME RegistryAssumption ==
  /\ Hosts \subseteq Nat
  /\ None \notin Clients \cup Hosts
  /\ Sockets \subseteq BOOLEAN
  /\ Events \subseteq {"crash", "recycle", "death", "stop", "timeout", "idle"}

VARIABLES unix,      \* the transport of this key, one of Sockets
          record,    \* the host named by <id>.json
          path,      \* the host whose socket <id>.sock is
          lock,      \* the client that holds the spawn lock
          host,      \* where each host process is
          attached,  \* the clients each host counts as connected
          recycled,  \* hosts that are gone and whose pid is another process
          at,        \* where each client's call is
          seen,      \* the record each client read last
          line,      \* the host at the other end of each client's socket
          connected, \* clients whose _connection is set
          retried,   \* clients that have been through _spawn_host()
          launched   \* the host each client started

registry == <<unix, record, path>>
hostVars == <<host, attached, recycled>>
callVars == <<at, seen, line, connected, retried, launched>>
vars == <<registry, lock, hostVars, callVars>>

Starting == {"launched", "unlinking", "binding", "bound", "listening", "published"}
Accepting == {"listening", "published", "serving", "deciding"}
Leaving == {"stopping", "unrecorded", "cleaned"}
Locked == {"looking", "clearing", "signalled", "unlinked", "removed",
           "launching", "polling"}
Calling == {"dialing", "greeting", "waiting", "sending", "receiving"} \cup Locked

TypeOK ==
  /\ unix \in Sockets
  /\ {record, path} \subseteq Hosts \cup {None}
  /\ lock \in Clients \cup {None}
  /\ host \in [Hosts -> {"unborn", "serving", "deciding", "gone"} \cup Starting \cup Leaving]
  /\ attached \in [Hosts -> SUBSET Clients]
  /\ recycled \subseteq Hosts
  /\ at \in [Clients -> {"idle", "dead"} \cup Calling]
  /\ {seen, line, launched} \subseteq [Clients -> Hosts \cup {None}]
  /\ connected \cup retried \subseteq Clients
  /\ \A c \in Clients : lock = c <=> at[c] \in Locked

(* endpoint_for() chooses by platform, environment and the path's length.  *)
Init ==
  /\ unix \in Sockets
  /\ record = None /\ path = None /\ lock = None
  /\ host = [h \in Hosts |-> "unborn"]
  /\ attached = [h \in Hosts |-> {}]
  /\ recycled = {}
  /\ at = [c \in Clients |-> "idle"]
  /\ seen = [c \in Clients |-> None]
  /\ line = [c \in Clients |-> None]
  /\ launched = [c \in Clients |-> None]
  /\ connected = {} /\ retried = {}

Running(h) == host[h] \notin {"unborn", "gone"}
HungUp(h) == host[h] \in Leaving \cup {"gone"}
PidAlive(h) == Running(h) \/ h \in recycled

Goto(c, place) == at' = [at EXCEPT ![c] = place]
Become(h, state) == host' = [host EXCEPT ![h] = state]

-----------------------------------------------------------------------------
(* _connect(): the cached connection, or the host the record names, or a   *)
(* new one.                                                                *)

LiveRecord == IF record # None /\ PidAlive(record) THEN record ELSE None

(* The model's bound: a call that may have to launch a host starts only     *)
(* while there is one left for everyone who may.                           *)
MayLaunch == {"dialing", "greeting", "waiting"} \cup (Locked \ {"polling"})

HostToSpare ==
  Cardinality({c \in Clients : at[c] \in MayLaunch})
    < Cardinality({h \in Hosts : host[h] = "unborn"})

Call(c) ==
  /\ at[c] = "idle"
  /\ c \in connected \/ HostToSpare
  /\ IF c \in connected
       THEN Goto(c, "sending") /\ UNCHANGED seen
       ELSE /\ seen' = [seen EXCEPT ![c] = LiveRecord]
            /\ Goto(c, IF LiveRecord = None THEN "waiting" ELSE "dialing")
  /\ retried' = retried \ {c}
  /\ UNCHANGED <<registry, lock, hostVars, line, connected, launched>>

(* A failed handshake with a record that was found sends the client to     *)
(* _spawn_host(); one with the record _spawn_host() returned is raised.    *)
HandshakeFails(c) ==
  /\ Goto(c, IF c \in retried THEN "idle" ELSE "waiting")
  /\ line' = [line EXCEPT ![c] = None]

(* The socket that answers is found by its name in the directory, whoever  *)
(* has bound it; a port is the recorded host's own.                        *)
Target(c) == IF unix THEN path ELSE seen[c]

Dial(c) ==
  /\ at[c] = "dialing"
  /\ IF Target(c) # None /\ host[Target(c)] \in Accepting
       THEN Goto(c, "greeting") /\ line' = [line EXCEPT ![c] = Target(c)]
       ELSE HandshakeFails(c)
  /\ UNCHANGED <<registry, lock, hostVars, seen, connected, retried, launched>>

(* Mutant: the host greets whoever calls, without looking at the token.    *)
GreetAnyone(c) ==
  LET h == line[c] IN
  /\ at[c] = "greeting"
  /\ host[h] \in {"serving", "deciding"} \cup Leaving
  /\ attached' = [attached EXCEPT ![h] = @ \cup {c}]
  /\ connected' = connected \cup {c}
  /\ Goto(c, "sending")
  /\ UNCHANGED <<registry, lock, host, recycled, seen, line, retried, launched>>

(* The host's side of the handshake: the token the client read must be its *)
(* own.  A thread that has accepted a connection answers it even when the  *)
(* host has begun to stop.                                                 *)
Greet(c) ==
  LET h == line[c] IN
  /\ at[c] = "greeting"
  /\ host[h] \in {"serving", "deciding"} \cup Leaving
  /\ \/ /\ seen[c] = h
        /\ attached' = [attached EXCEPT ![h] = @ \cup {c}]
        /\ connected' = connected \cup {c}
        /\ Goto(c, "sending")
        /\ UNCHANGED line
     \/ /\ seen[c] # h
        /\ HandshakeFails(c)
        /\ UNCHANGED <<attached, connected>>
  /\ UNCHANGED <<registry, lock, host, recycled, seen, retried, launched>>

GreetingLost(c) ==
  /\ at[c] = "greeting"
  /\ HungUp(line[c]) \/ "timeout" \in Events
  /\ HandshakeFails(c)
  /\ UNCHANGED <<registry, lock, hostVars, seen, connected, retried, launched>>

-----------------------------------------------------------------------------
(* _spawn_host(), under the spawn lock.                                    *)

Lock(c) ==
  /\ at[c] = "waiting"
  /\ lock = None
  /\ lock' = c
  /\ Goto(c, "looking")
  /\ UNCHANGED <<registry, hostVars, seen, line, connected, retried, launched>>

LockTimesOut(c) ==
  /\ "timeout" \in Events
  /\ at[c] = "waiting"
  /\ Goto(c, "idle")
  /\ UNCHANGED <<registry, lock, hostVars, seen, line, connected, retried, launched>>

(* Mutant: the look-up's early return leaves the lock taken.               *)
ReturnLocked(c) ==
  /\ seen' = [seen EXCEPT ![c] = record]
  /\ retried' = retried \cup {c}
  /\ Goto(c, "dialing")
  /\ UNCHANGED lock

Return(c) ==
  /\ seen' = [seen EXCEPT ![c] = record]
  /\ retried' = retried \cup {c}
  /\ lock' = None
  /\ Goto(c, "dialing")

(* Mutant: the record is not read again under the lock.                    *)
LookOnce(c) ==
  /\ at[c] = "looking"
  /\ Goto(c, "clearing")
  /\ UNCHANGED <<registry, lock, hostVars, seen, line, connected, retried, launched>>

(* Somebody else may have published a host meanwhile; only the record that *)
(* failed is cleared.                                                      *)
LookAgain(c) ==
  /\ at[c] = "looking"
  /\ \/ /\ LiveRecord \notin {None, seen[c]}
        /\ Return(c)
     \/ /\ LiveRecord \in {None, seen[c]}
        /\ Goto(c, "clearing")
        /\ UNCHANGED <<seen, retried, lock>>
  /\ UNCHANGED <<registry, hostVars, line, connected, launched>>

(* SIGTERM: the handler of a serving host only asks for a stop; before it  *)
(* is installed the signal kills.  A recycled pid takes it for the host.   *)
Signalled(h) ==
  CASE host[h] \in Starting -> "gone"
    [] host[h] \in {"serving", "deciding"} -> "stopping"
    [] OTHER -> host[h]

(* _clear_stale_entry(), one file at a time.                               *)
SignalStale(c) ==
  /\ at[c] = "clearing"
  /\ IF record = None
       THEN Goto(c, "unlinked") /\ UNCHANGED host
       ELSE Goto(c, "signalled") /\ Become(record, Signalled(record))
  /\ UNCHANGED <<registry, lock, attached, recycled, seen, line, connected, retried, launched>>

UnlinkStale(c) ==
  /\ \/ /\ at[c] = "signalled"
        /\ path' = None
        /\ Goto(c, "unlinked")
        /\ UNCHANGED record
     \/ /\ at[c] = "unlinked"
        /\ record' = None
        /\ Goto(c, "removed")
        /\ UNCHANGED path
     \/ /\ at[c] = "removed"
        /\ path' = None
        /\ Goto(c, "launching")
        /\ UNCHANGED record
  /\ UNCHANGED <<unix, lock, hostVars, seen, line, connected, retried, launched>>

Launch(c) ==
  /\ at[c] = "launching"
  /\ \E h \in Hosts :
       /\ host[h] = "unborn"
       /\ \A g \in Hosts : host[g] = "unborn" => h <= g
       /\ Become(h, "launched")
       /\ launched' = [launched EXCEPT ![c] = h]
  /\ Goto(c, "polling")
  /\ UNCHANGED <<registry, lock, attached, recycled, seen, line, connected, retried>>

Poll(c) ==
  /\ at[c] = "polling"
  /\ \/ /\ LiveRecord # None
        /\ Return(c)
     \/ /\ LiveRecord = None
        /\ host[launched[c]] = "gone" \/ "timeout" \in Events
        /\ lock' = None
        /\ Goto(c, "idle")
        /\ UNCHANGED <<seen, retried>>
  /\ launched' = [launched EXCEPT ![c] = None]
  /\ UNCHANGED <<registry, hostVars, line, connected>>

-----------------------------------------------------------------------------
(* A request on the connection.  The peer's end of file drops it; an error *)
(* from send or receive does not.  TCP takes a first send to a peer that   *)
(* has hung up.                                                            *)

Send(c) ==
  /\ at[c] = "sending"
  /\ \/ (Running(line[c]) \/ ~unix) /\ Goto(c, "receiving")
     \/ HungUp(line[c]) /\ Goto(c, "idle")
  /\ UNCHANGED <<registry, lock, hostVars, seen, line, connected, retried, launched>>

Disconnect(c) ==
  /\ connected' = connected \ {c}
  /\ line' = [line EXCEPT ![c] = None]

Receive(c) ==
  /\ at[c] = "receiving"
  /\ Goto(c, "idle")
  /\ \/ UNCHANGED <<connected, line>>
     \/ HungUp(line[c]) /\ Disconnect(c)
  /\ UNCHANGED <<registry, lock, hostVars, seen, retried, launched>>

(* detach(), and the end of terminate().                                   *)
CloseConnection(c) ==
  /\ at[c] = "idle"
  /\ c \in connected
  /\ Disconnect(c)
  /\ UNCHANGED <<registry, lock, hostVars, at, seen, retried, launched>>

(* shutdown(): the host is asked to stop, whoever else is connected to it. *)
Shutdown(c) ==
  /\ "stop" \in Events
  /\ at[c] = "idle"
  /\ c \in connected
  /\ Become(line[c], IF host[line[c]] \in {"serving", "deciding"}
                       THEN "stopping" ELSE host[line[c]])
  /\ Disconnect(c)
  /\ UNCHANGED <<registry, lock, attached, recycled, at, seen, retried, launched>>

(* Mutant: a lock file that outlives the process that made it.             *)
DieLocked(c) ==
  /\ "death" \in Events
  /\ at[c] # "dead"
  /\ Goto(c, "dead")
  /\ Disconnect(c)
  /\ seen' = [seen EXCEPT ![c] = None]
  /\ launched' = [launched EXCEPT ![c] = None]
  /\ retried' = retried \ {c}
  /\ UNCHANGED <<registry, lock, hostVars>>

(* The application is killed: the kernel closes its socket and drops its   *)
(* lock, and the host it was starting lives on.                            *)
Die(c) ==
  /\ "death" \in Events
  /\ at[c] # "dead"
  /\ Goto(c, "dead")
  /\ lock' = IF lock = c THEN None ELSE lock
  /\ Disconnect(c)
  /\ seen' = [seen EXCEPT ![c] = None]
  /\ launched' = [launched EXCEPT ![c] = None]
  /\ retried' = retried \ {c}
  /\ UNCHANGED <<registry, hostVars>>

ClientStep(c) ==
  \/ Dial(c) \/ Greet(c) \/ GreetingLost(c)
  \/ Lock(c) \/ LookAgain(c)
  \/ SignalStale(c) \/ UnlinkStale(c) \/ Launch(c) \/ Poll(c)
  \/ Send(c) \/ Receive(c)

-----------------------------------------------------------------------------
(* bind(): a socket file that nobody answers is removed, a bound one wins. *)

Advance(h, from, to) == host[h] = from /\ Become(h, to)

Probe(h) ==
  /\ Advance(h, "launched", IF ~unix THEN "listening"
                            ELSE IF path # None /\ host[path] \notin Accepting
                            THEN "unlinking" ELSE "binding")
  /\ UNCHANGED <<registry, attached, recycled>>

Unlink(h) ==
  /\ Advance(h, "unlinking", "binding")
  /\ path' = None
  /\ UNCHANGED <<record, attached, recycled>>

BindSocket(h) ==
  /\ Advance(h, "binding", IF path = None THEN "bound" ELSE "gone")
  /\ path' = IF path = None THEN h ELSE path
  /\ UNCHANGED <<record, attached, recycled>>

Listen(h) ==
  /\ Advance(h, "bound", "listening")
  /\ UNCHANGED <<registry, attached, recycled>>

Publish(h) ==
  /\ Advance(h, "listening", "published")
  /\ record' = h
  /\ UNCHANGED <<path, attached, recycled>>

Serve(h) ==
  /\ Advance(h, "published", "serving")
  /\ UNCHANGED <<registry, attached, recycled>>

(* Mutant: _serve_connection() ends without its count.                     *)
HangUpUncounted(h) ==
  /\ Running(h)
  /\ \E c \in attached[h] : c \notin connected \/ line[c] # h
  /\ UNCHANGED <<registry, hostVars>>

HangUp(h) ==
  /\ Running(h)
  /\ \E c \in attached[h] :
       /\ c \notin connected \/ line[c] # h
       /\ attached' = [attached EXCEPT ![h] = @ \ {c}]
  /\ UNCHANGED <<registry, host, recycled>>

(* The idle monitor reads the count under the state lock, and sets         *)
(* _stopping after it has let it go.                                       *)
IdleCheck(h) ==
  /\ "idle" \in Events
  /\ attached[h] = {}
  /\ Advance(h, "serving", "deciding")
  /\ UNCHANGED <<registry, attached, recycled>>

IdleStop(h) ==
  /\ Advance(h, "deciding", "stopping")
  /\ UNCHANGED <<registry, attached, recycled>>

(* shutdown(): the record and the socket of the key are removed by name,   *)
(* not under the spawn lock, whoever's they are by now.                    *)
RemoveRecord(h) ==
  /\ Advance(h, "stopping", "unrecorded")
  /\ record' = None
  /\ UNCHANGED <<path, attached, recycled>>

CleanUp(h) ==
  /\ Advance(h, "unrecorded", "cleaned")
  /\ path' = IF unix THEN None ELSE path
  /\ UNCHANGED <<record, attached, recycled>>

Exit(h) ==
  /\ Advance(h, "cleaned", "gone")
  /\ attached' = [attached EXCEPT ![h] = {}]
  /\ UNCHANGED <<registry, recycled>>

Crash(h) ==
  /\ "crash" \in Events
  /\ Running(h)
  /\ Become(h, "gone")
  /\ attached' = [attached EXCEPT ![h] = {}]
  /\ recycled' \in {recycled} \cup
       (IF "recycle" \in Events THEN {recycled \cup {h}} ELSE {})
  /\ UNCHANGED registry

HostStep(h) ==
  /\ \/ Probe(h) \/ Unlink(h) \/ BindSocket(h) \/ Listen(h) \/ Publish(h) \/ Serve(h)
     \/ HangUp(h) \/ IdleCheck(h) \/ IdleStop(h)
     \/ RemoveRecord(h) \/ CleanUp(h) \/ Exit(h)
  /\ UNCHANGED <<unix, lock, callVars>>

-----------------------------------------------------------------------------
(* Nobody is in a call and nobody can start one.                           *)
Finished ==
  /\ \A c \in Clients : at[c] = "dead" \/ (at[c] = "idle" /\ ~HostToSpare)
  /\ UNCHANGED vars

Next ==
  \/ \E c \in Clients :
       Call(c) \/ ClientStep(c) \/ LockTimesOut(c)
         \/ CloseConnection(c) \/ Shutdown(c) \/ Die(c)
  \/ \E h \in Hosts : HostStep(h) \/ (Crash(h) /\ UNCHANGED <<unix, lock, callVars>>)
  \/ Finished

Spec == Init /\ [][Next]_vars

(* Processes run, and an idle host's timeout passes.  Nobody has to call,  *)
(* hang up, shut down or fail, and the lock's deadline does not help: a    *)
(* client polls for the lock and takes it when it is free often enough.    *)
Fairness ==
  /\ \A c \in Clients : WF_vars(ClientStep(c)) /\ SF_vars(Lock(c))
  /\ \A h \in Hosts : WF_vars(HostStep(h))

FairSpec == Spec /\ Fairness

-----------------------------------------------------------------------------
(* "a client that is mid-spawn does not have its fresh socket deleted": a  *)
(* host that serves can be found, through its record and its socket.       *)
ServingHostIsFound ==
  \A h \in Hosts : host[h] = "serving" => record = h /\ (unix => path = h)

(* However many applications start at once, one host runs for the key.     *)
OneHostPerKey == Cardinality({h \in Hosts : Running(h)}) <= 1

(* Clearing a stale record never stops a host that somebody is using or    *)
(* could adopt: only a crash or its own idleness ends a serving host.      *)
ServingHostIsSpared ==
  [][\A h \in Hosts : host[h] = "serving" => host'[h] \in {"serving", "deciding", "gone"}]_vars

(* The host a client drives is the one whose record it checked.            *)
AdoptedAsRecorded == \A c \in connected : line[c] = seen[c]

(* Every call comes back, whatever dies around it.                         *)
EveryCallReturns ==
  \A c \in Clients : at[c] \in Calling ~> at[c] \in {"idle", "dead"}

(* "an idle host retires itself, so orphans cannot accumulate": a host     *)
(* that nobody is connected to ends, also one that cannot be found.        *)
OrphansRetire ==
  \A h \in Hosts :
    Running(h) ~> ~Running(h) \/ \E c \in Clients : line[c] = h
=============================================================================
