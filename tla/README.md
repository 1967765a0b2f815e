# A verification project for hornlab-beat-bem

`hornlab_beat_bem` solves boundary-element problems in Julia on behalf of a
Python application. The numerics are one long-running Julia process; everything
around it exists to hand that process from one request to the next, to stop it
when a request is abandoned, and to let it outlive the application that started
it. That hand-over - several threads, several processes, a child that can die
at any moment - and the installation of the runtime it needs are what this
project models, checks with TLC and proves with TLAPS. `PROJECT.json` lists every
run, mutant, finding, hazard and theorem and maps each definition to the lines it
was translated from.

## 1. The system

| part (under `src/hornlab_beat_bem/`) | state it keeps | operations | who it talks to |
|---|---|---|---|
| submission slot, `submission.py` | the holder, `_closed`, a condition variable | `acquire`, `release`, `best_effort_release`, `retire`, `close`; `SubmissionStream.close` and its finalizer | every worker class owns one |
| worker process, `worker.py` | `_process`, its slot | `submit`, `ensure_started`, `retire`, `terminate`, the event stream | Julia through stdin and stdout; sessions and hosts call it |
| solve session, `worker.py` | `_submission`, `_events`, `_submitted`, `_finished`, `_retire_worker` | construction up to "initialized", `events`, `request_cancel`, `close` and its unwind | one worker, through the three calls of the slot |
| worker cache, `worker.py` | `_WORKERS` | `get_worker`, `warm_up`, `shutdown_workers`, `detach_workers` | creates and drops workers |
| Julia worker loop, `julia/BeatEngineDriver.jl` | the job, the cancel flag, the pending assembly | `worker_loop`, `solve_request`, the frequency loop | reads request lines, writes event lines, polls the cancel file |
| worker host, `worker_host.py` | connections, `_job_lock`, `_warm_thread`, `_stopping`, the engine | `bind`, `serve`, `_greet`, `_submit`, `_ensure_started`, `_retire_for_client`, idle monitor, `shutdown` | clients on a socket; one worker process |
| hosted worker, `worker_client.py` | `_connection`, its slot | `_connect`, `_spawn_host`, `submit`, `terminate`, `retire`, `shutdown`, `detach` | registry files, a host |
| registry, `worker_registry.py` | files `<id>.json`, `<id>.sock`, `<id>.lock` | `write_key_file`, `remove_key_file`, `listen`, `connect`, `SpawnLock`, `pid_alive` | shared by all processes of a user |
| sweep, `sweep.py` | results by frequency | `solve_frequencies`: count, order, callbacks, terminal events | a session, and through it the worker |
| provisioning, `provision.py` | `state-<backend>.json`, the mirror `state.json`, `provision.lock`, one unpacked Julia | `provision_gpu`, `provision_cpu`, `backend_ready`, `provisioned_julia` | Julia's package manager; other processes with the same directory |
| selection, `runtime.py` | caches of the fingerprint and of Julia's answers | `discover_julia`, `backend_status`, `beat_engine_status` | the records of provisioning; Julia |
| capabilities, `capabilities.py` | none | what each backend supports | - |
| configuration, meshes, results | none | validation and conversion | - |
| Julia solvers and GPU kernels | arrays | assembly and dense solves | - |

What makes each of them correct, as far as it has state, and is hard to test:

* **slot** - who owns the worker is exact whatever stale release, finalizer or
  retirement arrives late; a retirement and a hand-over exclude each other; no
  queued caller is left behind.
* **worker process and session** - no request is handed a child that is still
  working for another, reads another's events, or has its child killed by
  another's unwind; no child is lost while it runs; the worker always comes
  back, however a session ends. (The first holds with exceptions; section 3.)
* **Julia loop** - a request is answered by one terminal event, also on
  cancellation. A clean-up that raises behind a "cancelled" writes a second one,
  which answers nobody, and everybody who reads next has to cope with it.
* **registry and hosted worker** - one host per key; a host that serves can be
  found; a stale record never costs a healthy host; a client drives the host
  whose record it checked; every call returns whatever dies.
* **host** - connections take turns; a job whose client vanished is not left in
  the engine; a retirement hits its own engine only; orphans end.
* **sweep** - a result that is returned is the sweep's own, complete unless its
  caller cancelled it, and in the order asked for, whatever earlier sweeps left
  in the sockets and pipes in between; every sweep ends.
* **provisioning** - no run touches a Julia that another one executes or that a
  ready record names; a ready record was proved for what is installed now; each
  backend's readiness is changed by that backend's runs only, across crashes,
  raising writes and the migration of an older record; the lock comes back.
* **selection** - all ready records agree on one Julia; an answer kept from
  before a run does not outlive that run in the process that provisions. (One
  that is still on its way does; section 3.)

## 2. The modules

```
BeatRequests                      identities
  |- SubmissionSlot               operations of the slot
  |    |- SlotClients             the slot under arbitrary callers  --refines--> WorkerOwnership
  |    |    `- SlotClientsProofs  TLAPS
  |
  |- JuliaRuntime                 operations of the children
  `- WorkerProcess                (SubmissionSlot + JuliaRuntime) operations of BeatWorkerProcess
       |- WorkerProcessProofs     TLAPS: lemmas on the slot, the pipes and the children
       |- ChildWorker             sessions and shutdown_workers() on one in-process worker
       |    `- ChildWorkerProofs  TLAPS (with WorkerProcessProofs)
       `- WorkerHost              connections and warm-ups on one host's engine
            |- WorkerHostProofs   TLAPS (with WorkerProcessProofs)
            `- MCWorkerHost       symmetry
HostRegistry                      applications, hosts and the files between them
  `- HostRegistryProofs           TLAPS
HostedSweep                       a sweep from end to end over a worker host
  `- HostedSweepProofs            TLAPS
ProvisionRecords                  the runtime directory and its readers
  `- Provisioning                 runs of provision.py        --refines--> BackendReadiness
       |- ProvisioningProofs      TLAPS
       `- RuntimeStatus           what a process answers meanwhile
            `- RuntimeStatusProofs  TLAPS (with ProvisioningProofs)
```

An operator under a comment that begins "Mutant:" is not the code: it is the
operation after it with a plausible mistake, and no specification uses it. Each
property of a passing run is violated when one of them takes the operation's
place.

### SubmissionSlot, SlotClients, WorkerOwnership

`holder`, `closed`, `mutex`, `parked` and `woken` are `_holder`, `_closed`, the
condition variable's lock while `retire()` keeps it, and the waiters before and
after their notification. A method that runs wholly inside the lock is one
action; `retire()`, which calls out with the lock held, is two. `acquire()` is
one turn of its loop (`Admit`, `Park`, `RaiseClosed`). `best_effort_release` may
always give up (`GiveUp`), since any thread may hold the lock for an instant.

`SlotClients` calls these as the callers may: each request acquires once, and
then its retirement, its stream's close and its backstop release come in any
order, each at most once, also after the slot has been handed on. A stream may
be dropped before it was stored, with or without the submission; then a
finalizer runs on any thread, also the retiring one. A waiter may be interrupted.
`WorkerOwnership` says what this amounts to without locks and wait sets, and
`ImplementsOwnership` maps one to the other.

### JuliaRuntime and WorkerProcess

A request launches at most one child, so children are named after requests.
`inbox`, `job`, `solving` and `pipe` are each child's stdin, current request,
"initialized" state and stdout; `alive` is the operating system's view.
`status` and `result` lines change no state and are left out. Each event
carries the request it answers, which the wire does not; only properties look
at it. A job says "completed" or "failed" behind its clean-up and "cancelled" in
front of it (`EndJob`, `CleanUp`); where `Relapses` holds, the clean-up behind a
"cancelled" may raise, and the loop writes a "failed" that answers nobody.

`WorkerProcess` follows a thread through `submit()`: `Acquire`, `CheckChild`
(`_ensure_started`'s test), `Spawn`, `BindStarting`/`ReadStarting` (the wait for
"ready", where `_read_events` looks `_process` up lazily), `TakeStdin`,
`WriteRequest`, `ReturnStream`, and the `except` clause in `Unwind`. A place in
`at` stands between two statements at which another thread can interfere. Code
that only the slot's owner runs is coarser: `Kill` is one step there, and three
in `terminate()`, which asks nobody. `Failures` lets launches fail and children
die; `Stubborn` lets a killed child outlive both timeouts of `_kill_process`,
which then raises.

### ChildWorker

The in-process configuration (`HORNLAB_BEAT_PERSISTENT_HOST=0`). A session
performs its three stores (`StoreSubmission`, `StoreStream`, `SetSubmitted`) one
by one, reads events, and unwinds through `BeginClose`, `Retire`/`KeepWorker`,
`KillInRetire`, `CloseStream`, `ReleaseSubmission`, as `close()` and
`_abort_start()` do. `Raise` lands an exception at any of `RaisePoints`: in
`submit()`, whose except clause runs; between its return and the first store
("returned"), where only a finalizer is left; in the session's own code, whose
unwind runs; or in the stream's generator while the session waits for an event
("reading"), whose `finally` frees the slot before the session's unwind runs.
`ChildSafety` leaves out three places - "flushed", "returned" and "reading" - where
the slot is freed with the job running; section 3 says what happens there.
`ChildLiveness` has the last two: every session still ends, and the worker comes
back. `DropWorkers` ... `TerminateKill` are
`shutdown_workers()`, statement by statement where another thread can see it.

### HostRegistry

`record`, `path` and `lock` are the three files of a key; a record's pid, token
and endpoint are fresh for every host, so a record *is* a host. `at` walks a
client through `_connect` and `_spawn_host` (look-up, dial, greeting, spawn
lock, second look-up, the three removals of `_clear_stale_entry`, launch, poll,
request); `host` walks a host through probe, unlink, bind, listen, publish,
serve, the idle monitor's decision, and the removals of `shutdown()`. The
variable `unix` is the kind of endpoint the platform has, chosen at the start
from `Sockets`: on a Unix socket dialling reaches whoever has bound the name, a
TCP port belongs to its host. SIGTERM kills a host before its handlers are installed and asks it
to stop afterwards. A dead client's `flock` is dropped by the kernel. `Events`
selects what may go wrong: `crash` (of a host), `recycle` (its pid becomes
another process), `death` (of an application), `stop` (`shutdown()`), `timeout`
(handshake, lock, launch) and `idle`.

### WorkerHost

One engine (`WorkerProcess`), a thread per connection, `_job_lock`, and the
warm-ups in `_warm_thread`, which take the engine's slot but not the job lock.
A connection sends one `submit` or `ensure_started` and then perhaps `retire`.
A client that vanishes shows as a failing send, which may come late: `Forward`
and `SendFails`. One that stays connected and does not read blocks the send, which
has no timeout: the steps in which a connection's thread writes (`Sending`) are
under no fairness. `RequestCancel` is the client's own write of the cancel file.
`Abandon` and `Report` are the two `except` clauses, followed
by `terminate()` in three steps, the re-warm (nothing while the previous thread
lives) and the close of the stream. A broken pipe *to the child* is an OSError
as well, so it takes the abandoned client's branch (`severed`, `brokenpipe`).

### HostedSweep

`solve_frequencies()` over a `HostedBeatWorker`, the host's connection threads
and Julia's frequency loop. A connection is two sequences of frames, `up` and
`down`, of at most `Room` frames, so that a writer can be held up by a reader;
`pipe` is Julia's stdout with the same bound. `at` walks a sweep through the
slot, `_connect`, the frames up to "initialized" (`ReadStart`), the event loop
(`ReadSolve`, `Keep`, `Finish`) and `close()`: `Close` cancels and condemns an
unfinished solve, `Retire`/`Hear` say "retire" and wait two seconds for the
answer, `Leave` gives the slot back and removes the staged files. `HangUp` drops
whatever connection the worker has by then. `Refuse`, `SayShutdown`/`HearShutdown`
and `Detach` are `shutdown_workers()` in another thread, which reads from the
same socket: a frame goes to either reader, as recv() has it.

A frame carries the sweep whose job wrote it, which the wire does not; the code's
guards look at its kind and its frequency only. `Late` is the one timing
assumption: a host thread that is reading frames answers within the client's two
seconds, one that has a job may not. Connecting, replacing the engine and the
slot itself are one step each, being the subject of `HostRegistry`, `WorkerHost`
and `SlotClients`.

### ProvisionRecords, Provisioning, BackendReadiness

`records[b]` and `mirror` are `state-<b>.json` and `state.json`, `tree` is the
unpacked current release - whole, or being deleted with its executable or its
libraries already gone - `holder` is the process with the kernel lock. `content`
stands for what `package_fingerprint()` hashes, `known[p][b]` for what process
`p` has cached of it, `proved` is a history of what was probed. The directory
starts empty, or with one record of an earlier version: with or without a
fingerprint, with this release of Julia or an older one.

A run is `provision_gpu()` or `provision_cpu()`; the two do the same to the
directory. Its places are the code's: the unlocked read (`Start`), the lock, the
read under it, then a write before every step. `_write_state()` is four actions,
`CheckMirror`, `CopyMirror` (the migration), `WriteRecord`, `WriteMirror`, each
of which may raise (`WriteRaises`) outside the try clause, inside it or in its
own handler. Deleting a tree takes several steps. `Die` ends a process anywhere;
`Update` changes the package under everybody. A record written atomically is
one action because the code renames it into place.

`BackendReadiness` is what a caller relies on: one answer per backend, changed
only by a run for it, and ready for the present content only after a probe of
it. The mapping takes `ready[b]` to the fingerprint `b`'s record would be
accepted for, and `running` to the backends of the runs.

### RuntimeStatus

Adds to `Provisioning` what a process makes of the records when it is asked from
other threads than the one that provisions: `BackendVerdict` is
`backend_status()`. It reads `probes`, a part of a process's state in
`Provisioning`: its calls of `_julia_gpu_functional()`, those the `lru_cache` has
`kept` and those on their way. A GPU run that ends ready clears what is kept in its
own process, and a restart clears all. A call that finds no answer takes minutes,
so it is three steps: `AskJulia` launches the subprocess, `JuliaAnswers` is its
answer - or none, when it could not run or timed out - and `StoreAnswer` is the
cache keeping it, whatever happened to the records and to the cache meanwhile.
Julia's answer is free where nothing is known: what has been probed for the present
content works with an intact Julia, what has not may or may not. What
`beat_engine_status()` makes of the verdicts is a function of them and is left out.

## 3. The runs

Deadlock is checked in every run but `Provision`, `Status`, `Sweep` and the two
violations, where runs and sweeps may all be over; in the others a state in
which everybody is done has an explicit stuttering step (`Finished`, `Quiet`).

| run | question | bounds | distinct states |
|---|---|---|---|
| `Slot` | exact ownership, queue, close, refinement | 3 callers, all interruptible and droppable: a stale caller, an owner and a queued one | 15 thousand |
| `ChildSafety` | hand-over, events, orphans, kills | 2 sessions, exceptions at 9 places, launches that fail, crashes, failed jobs and clean-ups | 176 thousand |
| `ChildLiveness` | the slot comes back, sessions end, shutdown empties the queue | 2 sessions, exceptions before the first store and inside the stream's generator, kills that raise, `shutdown_workers()` at any moment | 301 thousand |
| `HostCrash` | one host, found, spared | 3 clients, 3 hosts, both kinds of endpoint, crashes with recycled pids | 1.0 million |
| `HostFault` | the driven host is the checked one; calls return, orphans end | 2 clients, 2 hosts, Unix sockets, crashes, deaths, idleness, stops and time-outs | 80 thousand |
| `ServerSafety` | events and retirements between connections | 2 connections, 2 warm-ups, every failure but that of a clean-up | 3.6 million |
| `ServerLiveness` | every frame is answered, unless a client does not read | a `submit` and an `ensure_started`, 2 warm-ups, kills that raise | 112 thousand |
| `Provision` | Julia in use and Julia named, refinement, the lock | 2 processes, 2 backends, one content; writes, calls and deletions that raise, deaths at every step | 340 thousand |
| `Status` | one Julia, proved records, a finished run is hidden by late answers only | 1 process that provisions, with 1 call to Julia at a time (`MaxCalls`); 2 backends, 2 contents; a Julia on PATH; locks that raise | 3.8 million |
| `Sweep` | honest and complete results, every sweep ends | 2 sweeps of 2 frequencies, 2 frames per pipe; failing callbacks, engines, hosts and cleanups; stop or detach at any moment | 363 thousand |

Two sessions suffice for a hand-over and its stale unwinds; the third caller of
`Slot`, and the warm-ups of `ServerSafety` behind two connections, tell
"somebody else" from "the next one". Every request acts once, which is what
makes the models finite: a request that comes again is another request.
`HostToSpare` and `WarmToSpare` start a call or take a frame only while enough
hosts or warm-ups are left for everybody who may need one, so no behaviour ends
because the model ran out in the middle of a call. `ChildLiveness` and
`ServerLiveness` leave out failing launches, which only shorten a request;
`ChildSafety` and `ServerSafety` have them.

Three hosts in `HostCrash` are a stale one, its replacement and a wrong third.
Two in `HostFault` bound liveness: a client whose call may need another host
does not start it when none is left.

Two frequencies let a result be missing, repeated or out of order; two frames
per pipe leave one behind a terminal frame and still hold a writer up. The
second sweep finds whatever the first left in the connection, the engine and the
slot. In `Provision` two processes contend for the lock and two backends for the
tree, the mirror and the Julia each other names; a third of either repeats them,
and the theorems of section 4 hold for any number. `Status` has the update
of the package that `Provision` leaves out: its questions are about one process's
view, and one process that provisions and asks has all of its caches. With one
call at a time `StoreAnswer` never finds another call's answer in the cache; two
calls hold as well, and take longer than a run should.

Two runs are expected to fail: each states what a comment of the repository
says, and TLC shows how the code comes to break it.

| run | what happens |
|---|---|
| `SweepInterrupted` | an exception while a sweep waits for its next frame frees the slot before `close()` can retire the worker; the next sweep reads the interrupted job's frames from the same connection |
| `ProvisionTorn` | a deletion that fails half way leaves `bin/julia` without its libraries; another backend's older record still names it, and every later run for that backend takes it for a Julia "it successfully unpacked" |

Two more behaviours are part of the passing models and worth knowing:

* `QueuedBehindSomebody` and `EveryWaiterAnswered` carry the exception
  `Interrupted`. `release()` notifies one waiter; if an exception is delivered
  to that waiter before it takes the slot, it leaves `acquire()` and tells
  nobody, and the callers behind it wait beside a free slot until somebody else
  acquires and releases. Without the exception TLC shows exactly that behaviour.
* `_idle_for()` lets the count of connections go before `_idle_monitor()` sets
  `_stopping`, and `_greet()` may count a client in between. `IdleCheck` and
  `IdleStop` are therefore two actions, and a host may stop under a client it
  has just greeted; the client's call still returns (`EveryCallReturns`).

The modules show more disagreements with a comment or docstring than a project
of this size keeps runs for. They bound what the properties above promise:

* *Exceptions that free the slot with the job running.* In process it is as in
  `SweepInterrupted`: one that lands in the stream's generator while a session waits
  for an event frees the slot (`worker.py:365-367`) before `close()` or
  `_abort_start()` can retire the worker. `retire()` is then refused, and the next
  session is admitted to the child mid-job, though `worker.py:553-556` says that
  abandoning the iterator terminates the worker "rather than handing a mid-job
  process to the next request". Between the flush of the request line and the
  return of `submit()` its except clause does the same (`worker.py:212-232`), and
  from there to the first store the stream's finalizer may (`worker.py:649-651` calls
  that "the one window neither store covers"). Adding `"reading"`, `"flushed"` or
  `"returned"` to `RaisePoints` of `ChildSafety` shows each of them, as a violation of
  `EventsBelongToReader` (for `"returned"` without the check for deadlock, which a
  queue behind a lost submission is).
* *A clean-up that raises.* Most releases in the `finally` clause behind a
  "cancelled" line are not guarded (`BeatEngineDriver.jl:1752-1788`), and what they
  raise `worker_loop()` writes as a "failed" line that nobody is reading for. A
  session in process and a sweep condemn the worker that says "failed". The host
  does not (`worker_host.py:388-389`): it forwards the line as the end of the next
  connection's solve and lets go of the job lock with that job in the engine. Unless
  that client's "retire" comes before another connection has the lock, that one
  forwards the job's events, although `worker_host.py:29-30` rules out that "an adopting client would inherit a
  worker mid-job and read another job's events". With `Relapses` TRUE, `Failures`
  FALSE and a third connection `ServerSafety` shows it; its own run, and the
  theorems about it, assume clean-ups that do not raise.
* *A client that does not read.* `_serve_connection()` removes the timeout of the
  socket (`worker_host.py:234`), and `_submit()` sends every event under
  `_job_lock` (`worker_host.py:388-389`). A client that stays connected and reads
  nothing fills the socket and keeps every other connection waiting for as long as
  it likes; `EveryFrameAnswered` excepts it.
* *A launch under a stop.* A request admitted before `shutdown_workers()` may
  launch its child after `terminate()` has looked for one (`worker.py:291-316`);
  that child survives, though `worker.py:498` says the default stops everything.
* *A host removes its replacement's files.* `shutdown()` of a host removes record
  and socket by name and without the spawn lock (`worker_host.py:157-159`). A
  host that idles out while a client replaces it can take the files its
  replacement has just published; `HostCrash` therefore has no `idle`.
* *A dead connection is kept.* `_connect()` returns the cached connection unseen
  (`worker_client.py:318`); when its host has crashed between two requests,
  `send_frame()` raises and nothing on that path drops it, so later sweeps fail
  too (they do end: `EverySweepEnds`).
* *No replacement.* A retirement that meets a warm-up in progress kills the child
  that warm-up relies on and starts no other (`worker_host.py:192-194`).
* *Two readers.* While `shutdown_workers()` waits for its answer, a sweep blocked
  on the same socket may take it, and the sweep's last frame may go to the other
  reader. `EverySweepEnds` therefore excepts an application that is stopping.
  In the same way a `shutdown` said during a solve is read by the host only
  after the job's frames, and the client may have hung up by then.
* *Records without a lock.* `_lock_failure_state()` writes its record without the
  lock, so a process on a filesystem without advisory locks can copy a mirror
  that has become stale over a newer record (`provision.py:493-494`).
* *Two directories, one Julia.* A run with `--dir` does not find the Julia of the
  ready records in its own directory (`discover_julia()` reads the default one);
  with `--force` after an upgrade it may unpack over a Julia another record names.
* *A late answer of Julia.* The end of a run clears the cache of
  `_julia_gpu_functional()` (`provision.py:985`), but not a call that another thread
  began before. Its "no" is stored behind the clearing, and the process that has
  just provisioned the backend denies it for the rest of its life, where
  `runtime.py:301-302` says that the engine "becomes available when it finishes".
  `HiddenByLateAnswersOnly` excepts such an answer (`OnItsWay`) and excludes every
  other reason; without the exception TLC shows this one.
* *A cached answer of another process.* `_julia_gpu_functional()` is forgotten by
  the process that provisions and kept by every other one, as documented.

### Fairness

Every fairness condition is a thread or a process that can go on doing so: weak
fairness on each session, call, connection and host step, and on the child's own
steps (a job ends, a boot says so), because the numerics terminate. Nobody is
obliged to call, cancel, crash, hang up or shut down, and no finalizer is
obliged to run. The steps in which the host writes to a client's socket are not
fair at all: nobody obliges a client to read. Strong fairness appears once, on taking the spawn lock, which a
client polls for every 20 ms while others take and drop it. Idle hosts time out
eventually. In `Provisioning` every step of a run is weakly fair, since downloads
and Julia come back or raise; taking the lock is too, which `LockPassesOn` does
not use. In `HostedSweep` so are each sweep, each connection thread and Julia;
`shutdown_workers()`, callbacks and every failure are free to happen or not.

## 4. What is proved

`SlotClientsProofs` proves for every set of requests, interruptible or not,
droppable or not, from `NoRequestAssumption` and `CallersAssumption` alone:

* `SlotTyped` (with it: only the holder is in `retire()`, and the wait sets are the
  callers that wait), `OwnershipIsExact`, `ClosedSlotParksNobody` - invariants;
* `NothingHandedOverInRetire`, `ClosedSlotAdmitsNobody` - action properties;
* `QueueNeverStrands` - parked callers always have an owner in front of them, or
  a notified caller among them, unless an interrupted waiter took the
  notification with it;
* `SlotImplementsOwnership` - every step of the slot with its lock, wait sets
  and unwind paths is a step or a stutter of `WorkerOwnership`.

Ownership is not inductive by itself. The inductive invariant `IInv` adds that
the lock is held in `retire()` only for the holder, that wait sets and the
callers' own view of waiting agree and are disjoint (otherwise a woken caller
could be admitted twice), and that a closed slot parks nobody. `StepPreserves`
has one step per action and the theorems follow from `Invariance`;
`QueueNeverStrands` is inductive relative to `IInv` (`StepKeepsWakeups`): every step that
frees the slot or takes a notification away leaves one of its alternatives.

`ProvisioningProofs` proves for every set of backends and processes, any number
of contents, and from `RecordsAssumption`, `ProvisioningAssumption` and
`NoneAssumption`:

* `ProvisioningTyped` - type correctness;
* `NobodyElseTouchesTheTree` - while a run has Pkg or the probe running, nobody
  deletes or replaces the unpacked Julia. `Locked` is inductive: a run at a
  place that needs the lock is its holder, since `Leave` alone gives it back;
* `ReadyIsProved` - whatever is ready for the present content was probed for it.
  The inductive invariant `AllSound` says of every record, mirror, legacy copy
  and run that it is from no future content and, if it claims to be ready for the
  present one, proved; an update makes every earlier claim stale.

These three hold whatever raises. Three more are stated under `Undisturbed`,
that the directory can be locked and that every run uses it
(`"lock" \notin Faults`, `Elsewhere = {}`); without it they fail, as section 3
says under "Records without a lock" and "Two directories":

* `NamedJuliaStaysIntact` - the Julia of a ready record is whole. By itself it is
  not inductive; `Careful` adds that only the lock's holder is past the wait for
  the lock (`Alone`), that a mirror it overwrites has been copied and its own
  record is there first (`Copied`, `Spared`, `Entered`), that a "ready" it is about
  to record is of a whole Julia (`Checked`), and that while it replaces the
  unpacked Julia no ready record names that (`Unnamed`);
* `ProvisioningImplementsReadiness` - every step of the records, mirror and runs
  is a step or a stutter of `BackendReadiness`; `StepImplementsReadiness` has one
  case per action and `OnlyRecordsSettle` does the writes;
* `ReadyBackendsShareAJulia` - by `Agreement`: a run works with the Julia the
  ready records name, if any do, and nobody else writes meanwhile.

### The worker process in its two surroundings

`WorkerProcessProofs` has the lemmas both proofs below stand on: what a step of a
child, a read and a write do to types, to who is served by a child (`Serving`), to
the shape of a child's output (`Once`, `Settled`, `Told`: one job's events at a
time, a terminal event last).

`ChildWorkerProofs`, for every set of requests and background callers, wherever
`RaisePoints` lets exceptions land:

* `ChildWorkerTyped` - type correctness;
* `NoChildIsOrphaned` - under `~Stoppable`, that nobody calls `shutdown_workers()`
  (section 3, "A launch under a stop", is what happens otherwise). The inductive
  invariant `Coherent` places every session: an owner is the slot's holder, a
  session that has not launched has no child, and the stream it reads is the
  worker's child's or nobody's;
* `HandOverRule`, `EventsAreTheReaders` and the action property
  `KillsHarmNobodyElse` - under `Sheltered`, that no exception lands between the
  flush of a request and the store of its submission, nor inside the stream's
  generator (section 3, "Exceptions that free the slot"). They allow for clean-ups
  that raise, since a session that reads "failed" condemns the worker. What
  is in the child a new request would get belongs to the slot's owner; no session
  reads another's event; nobody kills a child with another's work in it.
  `Separate` is inductive: for each place of a session, which children may have
  its work (`Accounted`), and that the worker's child has the holder's only
  (`HandedOver`), on top of `Coherent` and of the shape of the children's output.

`WorkerHostProofs`, for every set of connections and warm-ups:

* `WorkerHostTyped` - type correctness, with `Roles`: a warm-up never writes. It
  holds whatever fails; the two below are under `~Relapses`, that no clean-up
  raises behind a "cancelled" (section 3, "A clean-up that raises");
* `ClientsGetTheirOwnEvents` - what a connection forwards is its own solve's;
* `RetirementsHarmNobodyElse` - a child is stopped with nothing in it but the work
  of the connection that stops it, even while a warm-up owns the slot.

The invariant is again `Coherent` and `Separate`, but here the job lock, not the
slot, separates the jobs, so `HandedOver` speaks of the connections whose work is
in the engine's child and that listen to it or are about to terminate it.

### Hosts and their files

`HostRegistryProofs`, for every set of clients and hosts and either kind of
endpoint:

* `HostRegistryTyped`, and `ClientsUseTheRecordedHost` - a client drives the host
  whose record it checked. Both hold whatever fails;
* `ServingHostsAreFound`, `OneHostRuns` and the action property
  `ServingHostsAreSpared` - under `Undisturbed`, that hosts crash and their pids
  are recycled, but nothing times out, stops or idles. A host that stops by itself
  can remove its replacement's files, and a client that gives up waiting launches
  a second host; section 3 says so, and the liveness run `HostFault` covers what
  is left to promise then. `Placed` is inductive: where each host's files stand at
  each of its steps, and that from the second look-up on, the client with the
  spawn lock knows that no host runs.

### What a process answers

`RuntimeStatusProofs` extends the invariants of `ProvisioningProofs` to processes
whose other threads ask, for every set of accelerators and readers and any number
of calls:

* `RuntimeStatusTyped`, and `ReadyIsProvedWhileAsked` - as above, unconditional: a
  call in flight over a run, or over the death of its process, leaves the records
  as sound as they were.

### A sweep from end to end

`HostedSweepProofs`, for every set of sweeps, number of frequencies and size of
the pipes:

* `HostedSweepTyped` - type correctness, whatever fails; the invariant `Typed` adds
  what a sweep has by its place (a line once it reads, an outcome once it closes);
* `ResultsAreTheSweepsOwn` - `SweepIsHonest` under `Uninterrupted`, that no exception
  lands in a sweep while it waits for a frame (`SweepInterrupted`, section 3, is what
  happens otherwise); callbacks may raise and cancel, the engine and the host may
  die, and the application may stop the worker at any point.

The argument follows a request from the slot to the engine and its frames back:

* `Attached` - whose the slot, the connections and the threads of the host are: the
  worker's connection is the owner's until the application stops;
* `Orderly` - one sweep at most is `Ahead`, with its request in its connection or in
  a queued thread: the slot's owner, or the last of a worker that is closed;
* `Shaped`, `Calm` - an open worker's connection is in one of four states while a
  sweep reads, and `Clean` when the next one gets it;
* `Engaged` - the engine has one job, never that of a sweep that is ahead. What an
  earlier job leaves is at most a "failed" at the front of the output (`Cancel`
  with a failing cleanup writes one). A sweep that takes it for its own raises, and
  until it has had the engine replaced it is `Misled`: the one case in which a job
  is in the engine while no thread forwards and the worker stays open;
* `Listens` - the frames in a reading sweep's connection are its own, or such as it
  raises on or reads past. The thread that reads for `shutdown_workers()` only takes
  frames away, and a gap shows in the frequencies that `Keep` compares;
* `Cancelled` - a "cancelled" is under way only for a sweep with a cancel file.

`Honest` follows frame by frame (`ReadHonest`).

### How the proofs were found, and what stays with TLC

Every strengthening was checked with TLC on an instance of its run before it was
proved; the type invariants of the runs were restated where they had been too weak
to reason with. No module declares a RECURSIVE operator.

Only model-checked: liveness under fairness and anything about ENABLED, which the
installed backends do not do; and `HiddenByLateAnswersOnly`, the action property of
`Status`. Every other safety property of a passing run is a theorem, under the
hypotheses named above, which the constants of its run satisfy; section 3
says what happens without them.

## 5. What is not modelled

* The one-shot worker, the staging of request files, environment and command
  lines of the child: no shared state that another thread changes. The removal
  of the staged files is `Leave` of `HostedSweep`.
* The host's teardown of its engine inside `shutdown()` is one step of
  `HostedSweep`; `ChildLiveness` has the same two calls, statement by statement,
  for the in-process worker.
* A host whose pid is recycled *by a process of the same user that then dies of
  the signal*: `_clear_stale_entry` sends it, and what happens to a stranger is
  outside the model's state.
* Truncated and oversized frames, the handshake's ping: they end in the same
  exceptions as a closed socket.
* Of a sweep: arrays, planes, unit conversions and the validation of the request,
  which raise before a worker is asked for or count as a failing callback. Of the
  frequency loop: which assembly runs ahead and which GPU cache holds it; the
  order of their releases is the libraries' business, that they may raise is
  modelled.
* Of provisioning: what a checksum, `Pkg.instantiate()` or a probe computes - they
  succeed or raise; the comparison of the recorded project path, which changes
  only when the package moves; messages and the lock-holder file, which nothing
  decides on. Hardware detection is a constant.
* `beat_engine_status()`, which picks one of the verdicts of `backend_status()`: a
  function of them, with no state.
* `HORNLAB_BEAT_FORCE_CPU` and `HORNLAB_BEAT_JULIA`, which put a constant answer
  in front of the records.
* `capabilities.py`, configuration, meshes, result containers: tables, validation
  and conversion of single values, no state. Julia solvers and GPU kernels:
  floating-point numerics, out of a model checker's reach.

## 6. Plan

The project keeps to a dozen runs: a further question joins one of them.

1. *(done)* slot, its clients and contract, with proofs; the in-process worker;
   registry and host discovery; the host's engine.
2. *(done)* the hosted sweep from end to end; provisioning with its contract and
   proofs; what a process answers about its runtime.
3. The engine's teardown by a stopping host, in `WorkerHost`, statement by
   statement; idle hosts in the hosted sweep.
4. *(done)* type correctness of every component, and every safety property the
   passing runs check.
5. That `HostedSweep` implements what the other modules say of its coarse parts: the
   slot of `WorkerOwnership`, the one engine of `WorkerHost`.
