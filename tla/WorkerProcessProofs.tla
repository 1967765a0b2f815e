------------------------- MODULE WorkerProcessProofs -------------------------
(***************************************************************************)
(* Facts about one BeatWorkerProcess and its Julia children that hold for  *)
(* whoever drives it: the types that its operations keep, and how the work *)
(* in a child - its job, its request lines, its unread events - changes.   *)
(***************************************************************************)
EXTENDS WorkerProcess, Naturals, TLAPS

USE NoRequestAssumption, RuntimeAssumption, ProcessAssumption

(* What a sequence holds.                                                  *)
LEMMA AppendHolds ==
  ASSUME NEW S, NEW s \in Seq(S), NEW e \in S
  PROVE  /\ Append(s, e) \in Seq(S)
         /\ DOMAIN Append(s, e) = 1 .. Len(s) + 1
         /\ DOMAIN s = 1 .. Len(s) /\ Len(s) \in Nat
         /\ \A i \in DOMAIN s : Append(s, e)[i] = s[i]
         /\ Append(s, e)[Len(s) + 1] = e
  OBVIOUS

LEMMA TailHolds ==
  ASSUME NEW S, NEW s \in Seq(S), s # <<>>
  PROVE  /\ Tail(s) \in Seq(S) /\ Head(s) \in S
         /\ 1 \in DOMAIN s /\ Head(s) = s[1]
         /\ DOMAIN s \subseteq Nat /\ DOMAIN Tail(s) \subseteq Nat \ {0}
         /\ \A i \in DOMAIN Tail(s) : i + 1 \in DOMAIN s /\ Tail(s)[i] = s[i + 1]
  OBVIOUS

(* What a child has is of requests, or of nobody.                          *)
LEMMA ServesTyped ==
  ASSUME RuntimeTypeOK, NEW c \in Requests
  PROVE  Serving(c) \subseteq Requests \cup {NoRequest}
  <1>1. job[c] \in Requests \cup {NoRequest} /\ inbox[c] \in Seq(Requests) /\ pipe[c] \in Seq(Events)
    BY DEF RuntimeTypeOK
  <1>2. \A i \in DOMAIN inbox[c] : inbox[c][i] \in Requests
    BY <1>1
  <1>3. \A i \in DOMAIN pipe[c] : pipe[c][i] \in Events
    BY <1>1
  <1> QED BY <1>1, <1>2, <1>3 DEF Serving, Events

-----------------------------------------------------------------------------
(* A child has a request once, and what it says last of a request that it  *)
(* has not failed is that it is done with it.                              *)
Once(c) ==
  /\ \A i, j \in DOMAIN inbox[c] : inbox[c][i] = inbox[c][j] => i = j
  /\ \A i \in DOMAIN inbox[c] : inbox[c][i] # job[c]

LastOf(c, i, r) ==
  /\ r # NoRequest /\ r # job[c]
  /\ \A j \in DOMAIN inbox[c] : inbox[c][j] # r
  /\ \A j \in DOMAIN pipe[c] : j > i => pipe[c][j].of # r

Settled(c) ==
  \A i \in DOMAIN pipe[c] :
    pipe[c][i].kind \in {"completed", "cancelled"} => LastOf(c, i, pipe[c][i].of)

(* At the start no child has any work.                                     *)
LEMMA InitRuntime ==
  ASSUME RuntimeInit
  PROVE  /\ RuntimeTypeOK
         /\ \A c \in Requests : Serving(c) = {NoRequest} /\ Once(c) /\ Settled(c)
  BY DEF RuntimeInit, RuntimeTypeOK, Serving, Once, Settled

(* One event more in a child's stdout.                                     *)
LEMMA Emitted ==
  ASSUME RuntimeTypeOK, NEW c \in Requests, NEW kind \in Kinds, Emit(c, kind)
  PROVE  /\ pipe' \in [Requests -> Seq(Events)]
         /\ \A d \in Requests \ {c} : pipe'[d] = pipe[d]
         /\ Len(pipe[c]) \in Nat
         /\ DOMAIN pipe[c] = 1 .. Len(pipe[c])
         /\ DOMAIN pipe'[c] = 1 .. Len(pipe[c]) + 1
         /\ \A i \in 1 .. Len(pipe[c]) : pipe'[c][i] = pipe[c][i]
         /\ pipe'[c][Len(pipe[c]) + 1] = [kind |-> kind, of |-> job[c]]
  <1>1. [kind |-> kind, of |-> job[c]] \in Events
    BY DEF RuntimeTypeOK, Events
  <1>2. pipe[c] \in Seq(Events) /\ pipe'[c] = Append(pipe[c], [kind |-> kind, of |-> job[c]])
    BY DEF Emit, RuntimeTypeOK
  <1>3. \A d \in Requests \ {c} : pipe'[d] = pipe[d]
    BY DEF Emit, RuntimeTypeOK
  <1> QED BY <1>1, <1>2, <1>3, AppendHolds DEF Emit, RuntimeTypeOK

(* A child that works on what it has gets no work by it.                   *)
Works(c) == RuntimeStep(c) \/ BootFails(c) \/ Crash(c)

LEMMA WorkTyped ==
  ASSUME RuntimeTypeOK, NEW c \in Requests, Works(c)
  PROVE  /\ RuntimeTypeOK'
         /\ alive' \subseteq alive /\ alive \ alive' \subseteq crashed'
  <1> USE DEF RuntimeTypeOK
  <1>1. CASE Boot(c) \/ BootFails(c) \/ Initialize(c)
    BY <1>1, Emitted DEF Boot, BootFails, Initialize, Kinds, Terminal
  <1>2. CASE TakeRequest(c)
    BY <1>2, TailHolds DEF TakeRequest
  <1>3. CASE EndJob(c)
    BY <1>3, Emitted DEF EndJob, Kinds, Terminal
  <1>4. CASE Crash(c)
    BY <1>4 DEF Crash
  <1>5. CASE CleanUp(c)
    BY <1>5, Emitted DEF CleanUp, Kinds, Terminal
  <1> QED BY <1>1, <1>2, <1>3, <1>4, <1>5 DEF Works, RuntimeStep

LEMMA WorkServes ==
  ASSUME RuntimeTypeOK, NEW c \in Requests, Works(c), NEW d \in Requests
  PROVE  Serving(d)' \subseteq Serving(d) \cup {NoRequest}
  <1> SUFFICES ASSUME NEW r, r \in Serving(d)', r # NoRequest PROVE r \in Serving(d)
    OBVIOUS
  <1>1. ASSUME NEW kind \in Kinds, Emit(c, kind), job' \in {job, [job EXCEPT ![c] = NoRequest]},
               UNCHANGED inbox
        PROVE  r \in Serving(d)
    <2>1. job'[d] \in {job[d], NoRequest}
      BY <1>1 DEF RuntimeTypeOK
    <2>2. ASSUME NEW i \in DOMAIN pipe'[d], r = pipe'[d][i].of
          PROVE  r = job[d] \/ \E j \in DOMAIN pipe[d] : r = pipe[d][j].of
      <3> DEFINE n == Len(pipe[c])
      <3>0. /\ \A e \in Requests \ {c} : pipe'[e] = pipe[e]
            /\ n \in Nat
            /\ DOMAIN pipe[c] = 1 .. n
            /\ DOMAIN pipe'[c] = 1 .. n + 1
            /\ \A k \in 1 .. n : pipe'[c][k] = pipe[c][k]
            /\ pipe'[c][n + 1] = [kind |-> kind, of |-> job[c]]
        BY <1>1, Emitted
      <3>1. pipe'[c][n + 1].of = job[c]
        BY <3>0
      <3>2. CASE d # c
        BY <2>2, <3>0, <3>2
      <3>3. CASE d = c /\ i = n + 1
        BY <2>2, <3>1, <3>3
      <3>4. CASE d = c /\ i \in 1 .. n
        BY <2>2, <3>0, <3>4
      <3>5. i \in 1 .. n \/ i = n + 1 \/ d # c
        BY <2>2, <3>0
      <3> QED BY <3>2, <3>3, <3>4, <3>5
    <2>3. \/ r = job[d] \/ \E i \in DOMAIN inbox[d] : r = inbox[d][i]
          \/ \E i \in DOMAIN pipe[d] : r = pipe[d][i].of
      <3>1. \/ r = job'[d] \/ \E i \in DOMAIN inbox'[d] : r = inbox'[d][i]
            \/ \E i \in DOMAIN pipe'[d] : r = pipe'[d][i].of
        BY DEF Serving
      <3> QED BY <1>1, <2>1, <2>2, <3>1
    <2> QED BY <2>3 DEF Serving
  <1>2. CASE Boot(c) \/ BootFails(c) \/ Initialize(c)
    BY <1>1, <1>2 DEF Boot, BootFails, Initialize, Kinds, Terminal
  <1>3. CASE EndJob(c)
    BY <1>1, <1>3 DEF EndJob, Kinds, Terminal
  <1>4. CASE TakeRequest(c)
    <2>1. /\ inbox[c] \in Seq(Requests) /\ inbox[c] # <<>>
          /\ inbox'[c] = Tail(inbox[c]) /\ job'[c] = Head(inbox[c])
          /\ d # c => inbox'[d] = inbox[d] /\ job'[d] = job[d]
          /\ pipe' = pipe
      BY <1>4 DEF TakeRequest, RuntimeTypeOK
    <2>2. \/ r = job'[d] \/ \E i \in DOMAIN inbox'[d] : r = inbox'[d][i]
          \/ \E i \in DOMAIN pipe'[d] : r = pipe'[d][i].of
      BY DEF Serving
    <2>3. \/ r = job[d] \/ \E i \in DOMAIN inbox[d] : r = inbox[d][i]
          \/ \E i \in DOMAIN pipe[d] : r = pipe[d][i].of
      <3>1. CASE d = c
        <4>1. ASSUME NEW i \in DOMAIN inbox'[c] PROVE i + 1 \in DOMAIN inbox[c] /\ inbox'[c][i] = inbox[c][i + 1]
          BY <2>1, <4>1, TailHolds
        <4>2. 1 \in DOMAIN inbox[c] /\ job'[c] = inbox[c][1]
          BY <2>1, TailHolds
        <4> QED BY <2>1, <2>2, <3>1, <4>1, <4>2
      <3> QED BY <2>1, <2>2, <3>1
    <2> QED BY <2>3 DEF Serving
  <1>5. CASE Crash(c)
    BY <1>5 DEF Crash, Serving
  <1>6. CASE CleanUp(c)
    <2>1. CASE UNCHANGED pipe
      BY <1>6, <2>1 DEF CleanUp, Serving
    <2>2. CASE Emit(c, "failed")
      BY <1>1, <1>6, <2>2 DEF CleanUp, Kinds, Terminal
    <2> QED BY <1>6, <2>1, <2>2 DEF CleanUp
  <1> QED BY <1>2, <1>3, <1>4, <1>5, <1>6 DEF Works, RuntimeStep

(* A child that says something of its job keeps its requests apart, and    *)
(* says that it is done with one when it is.                               *)
LEMMA EmitSettles ==
  ASSUME RuntimeTypeOK, NEW c \in Requests, NEW kind \in Kinds, Emit(c, kind),
         NEW d \in Requests, Once(d) /\ Settled(d), UNCHANGED inbox,
         \/ UNCHANGED job /\ kind \notin {"completed", "cancelled"}
         \/ job[c] # NoRequest /\ job' = [job EXCEPT ![c] = NoRequest]
  PROVE  Once(d)' /\ Settled(d)'
  <1>1. job'[d] \in {job[d], NoRequest}
    BY DEF RuntimeTypeOK
  <1>2. \A i \in DOMAIN inbox[d] : inbox[d][i] \in Requests
    BY DEF RuntimeTypeOK
  <1>3. Once(d)'
    BY <1>1, <1>2 DEF Once
  <1>4. CASE d # c
    <2>1. pipe'[d] = pipe[d] /\ inbox'[d] = inbox[d]
      BY <1>4, Emitted
    <2> QED BY <1>1, <1>3, <2>1 DEF Settled, LastOf
  <1>5. CASE d = c
    <2> DEFINE n == Len(pipe[c])
    <2>0. /\ n \in Nat
          /\ DOMAIN pipe[c] = 1 .. n
          /\ DOMAIN pipe'[c] = 1 .. n + 1
          /\ \A k \in 1 .. n : pipe'[c][k] = pipe[c][k]
          /\ pipe'[c][n + 1] = [kind |-> kind, of |-> job[c]]
      BY Emitted
    <2>1. pipe'[c][n + 1].kind = kind /\ pipe'[c][n + 1].of = job[c]
      BY <2>0
    <2> HIDE DEF n
    <2>2. ASSUME NEW i \in DOMAIN pipe'[c], pipe'[c][i].kind \in {"completed", "cancelled"}
          PROVE  LastOf(c, i, pipe[c][i].of)'
      <3>1. CASE i = n + 1
        <4>1. job[c] # NoRequest /\ job'[c] = NoRequest
          BY <2>1, <2>2, <3>1 DEF RuntimeTypeOK
        <4>2. \A j \in DOMAIN inbox'[c] : inbox'[c][j] # job[c]
          BY <1>5 DEF Once
        <4>3. \A j \in DOMAIN pipe'[c] : ~(j > i)
          BY <2>0, <3>1
        <4> QED BY <2>1, <3>1, <4>1, <4>2, <4>3 DEF LastOf
      <3>2. CASE i \in 1 .. n
        <4> DEFINE r == pipe[c][i].of
        <4>1. LastOf(c, i, r) /\ pipe'[c][i].of = r
          BY <1>5, <2>0, <2>2, <3>2 DEF Settled
        <4> HIDE DEF r
        <4>2. \A j \in DOMAIN pipe'[c] : j > i => pipe'[c][j].of # r
          <5>1. \A j \in 1 .. n : j > i => pipe'[c][j].of # r
            BY <2>0, <4>1 DEF LastOf
          <5>2. pipe'[c][n + 1].of # r
            BY <2>1, <4>1 DEF LastOf
          <5> QED BY <2>0, <5>1, <5>2
        <4> QED BY <1>1, <1>5, <4>1, <4>2 DEF LastOf
      <3> QED BY <2>0, <2>2, <3>1, <3>2
    <2> QED BY <1>3, <1>5, <2>2 DEF Settled
  <1> QED BY <1>4, <1>5

LEMMA WorkSettles ==
  ASSUME RuntimeTypeOK, NEW c \in Requests, Works(c),
         NEW d \in Requests, Once(d) /\ Settled(d)
  PROVE  Once(d)' /\ Settled(d)'
  <1>1. CASE Boot(c) \/ BootFails(c) \/ Initialize(c)
    BY <1>1, EmitSettles DEF Boot, BootFails, Initialize, Kinds, Terminal
  <1>2. CASE EndJob(c)
    BY <1>2, EmitSettles DEF EndJob, Kinds, Terminal
  <1>3. CASE TakeRequest(c)
    <2>1. /\ inbox[c] \in Seq(Requests) /\ inbox[c] # <<>>
          /\ inbox'[c] = Tail(inbox[c]) /\ job'[c] = Head(inbox[c])
          /\ d # c => inbox'[d] = inbox[d] /\ job'[d] = job[d]
          /\ pipe' = pipe
      BY <1>3 DEF TakeRequest, RuntimeTypeOK
    <2>2. CASE d # c
      BY <2>1, <2>2 DEF Once, Settled, LastOf
    <2>3. CASE d = c
      <3>1. /\ 1 \in DOMAIN inbox[c] /\ job'[c] = inbox[c][1]
            /\ DOMAIN inbox'[c] \subseteq Nat \ {0}
            /\ \A i \in DOMAIN inbox'[c] : i + 1 \in DOMAIN inbox[c] /\ inbox'[c][i] = inbox[c][i + 1]
        BY <2>1, TailHolds
      <3>2. Once(c)'
        <4>1. ASSUME NEW i \in DOMAIN inbox'[c], NEW j \in DOMAIN inbox'[c],
                     inbox'[c][i] = inbox'[c][j]
              PROVE  i = j
          <5>1. i + 1 = j + 1
            BY <2>3, <3>1, <4>1 DEF Once
          <5> QED BY <3>1, <5>1
        <4>2. ASSUME NEW i \in DOMAIN inbox'[c] PROVE inbox'[c][i] # job'[c]
          <5>1. i + 1 # 1
            BY <3>1
          <5> QED BY <2>3, <3>1, <5>1 DEF Once
        <4> QED BY <4>1, <4>2 DEF Once
      <3>3. Settled(c)'
        <4>1. ASSUME NEW i \in DOMAIN pipe[c], NEW r, LastOf(c, i, r) PROVE LastOf(c, i, r)'
          BY <2>1, <3>1, <4>1 DEF LastOf
        <4> QED BY <2>1, <2>3, <4>1 DEF Settled
      <3> QED BY <2>3, <3>2, <3>3
    <2> QED BY <2>2, <2>3
  <1>4. CASE Crash(c) \/ (CleanUp(c) /\ UNCHANGED pipe)
    BY <1>4 DEF Crash, CleanUp, Once, Settled, LastOf
  <1>5. CASE CleanUp(c) /\ Emit(c, "failed")
    BY <1>5, EmitSettles DEF CleanUp, Kinds, Terminal
  <1> QED BY <1>1, <1>2, <1>3, <1>4, <1>5 DEF Works, RuntimeStep, CleanUp

(* What a child says of its boot: it is "ready" when it has booted, before *)
(* it takes a job, and a failure is either the last it says of a request   *)
(* or nobody's, from a child that never boots.                             *)
EndsAll(c, i) ==
  \/ LastOf(c, i, pipe[c][i].of)
  \/ pipe[c][i].of = NoRequest /\ c \in crashed \ booted

Told(c) ==
  /\ job[c] # NoRequest => c \in booted
  /\ \A i \in DOMAIN pipe[c] :
       /\ pipe[c][i].kind = "ready" => c \in booted
       /\ pipe[c][i].kind = "failed" => EndsAll(c, i)

LEMMA EmitTells ==
  ASSUME RuntimeTypeOK, NEW c \in Requests, NEW kind \in Kinds, Emit(c, kind),
         NEW d \in Requests, Once(d) /\ Told(d), UNCHANGED inbox,
         crashed \subseteq crashed', booted \subseteq booted',
         d \in crashed \ booted => d \notin booted',
         kind = "ready" => c \in booted',
         \/ UNCHANGED job /\ kind \notin Terminal
         \/ UNCHANGED job /\ job[c] = NoRequest /\ c \in crashed' \ booted'
         \/ job[c] # NoRequest /\ job' = [job EXCEPT ![c] = NoRequest]
  PROVE  Told(d)'
  <1>1. job'[d] \in {job[d], NoRequest}
    BY DEF RuntimeTypeOK
  <1>2. ASSUME NEW i \in DOMAIN pipe[d], NEW q, LastOf(d, i, q),
               \A j \in DOMAIN pipe'[d] : j > i => pipe'[d][j].of # q
        PROVE  LastOf(d, i, q)'
    BY <1>1, <1>2 DEF LastOf
  <1>3. CASE d # c
    <2>1. pipe'[d] = pipe[d]
      BY <1>3, Emitted
    <2>2. ASSUME NEW i \in DOMAIN pipe[d], EndsAll(d, i) PROVE EndsAll(d, i)'
      <3>1. CASE LastOf(d, i, pipe[d][i].of)
        <4>1. \A j \in DOMAIN pipe'[d] : j > i => pipe'[d][j].of # pipe[d][i].of
          BY <2>1, <3>1 DEF LastOf
        <4> QED BY <1>2, <2>1, <3>1, <4>1 DEF EndsAll
      <3> QED BY <2>1, <2>2, <3>1 DEF EndsAll
    <2> QED BY <1>1, <2>1, <2>2 DEF Told
  <1>4. CASE d = c
    <2> PICK n : n = Len(pipe[c])
      OBVIOUS
    <2>0. /\ n \in Nat
          /\ DOMAIN pipe[c] = 1 .. n
          /\ DOMAIN pipe'[c] = 1 .. n + 1
          /\ \A k \in 1 .. n : pipe'[c][k] = pipe[c][k]
          /\ pipe'[c][n + 1] = [kind |-> kind, of |-> job[c]]
      BY Emitted
    <2>1. pipe'[c][n + 1].kind = kind /\ pipe'[c][n + 1].of = job[c]
      BY <2>0
    <2>2. ASSUME NEW i \in 1 .. n, EndsAll(c, i) PROVE EndsAll(c, i)'
      <3> PICK q : q = pipe[c][i].of
        OBVIOUS
      <3>1. CASE LastOf(c, i, q)
        <4>1. \A j \in 1 .. n : j > i => pipe'[c][j].of # q
          BY <2>0, <3>1 DEF LastOf
        <4>2. pipe'[c][n + 1].of # q
          BY <2>1, <3>1 DEF LastOf
        <4>3. \A j \in DOMAIN pipe'[c] : j > i => pipe'[c][j].of # q
          <5>1. \A j \in DOMAIN pipe'[c] : j \in 1 .. n \/ j = n + 1
            BY <2>0
          <5> QED BY <4>1, <4>2, <5>1
        <4>4. LastOf(c, i, q)'
          BY <1>2, <1>4, <2>0, <3>1, <4>3
        <4> QED BY <2>0, <4>4 DEF EndsAll, LastOf
      <3>2. CASE q = NoRequest /\ c \in crashed \ booted
        BY <1>4, <2>0, <3>2 DEF EndsAll
      <3> QED BY <2>2, <3>1, <3>2 DEF EndsAll
    <2>3. ASSUME kind = "failed" PROVE EndsAll(c, n + 1)'
      <3>1. CASE job[c] = NoRequest /\ c \in crashed' \ booted'
        BY <2>1, <3>1 DEF EndsAll
      <3>2. CASE job[c] # NoRequest /\ job' = [job EXCEPT ![c] = NoRequest]
        <4>1. job'[c] = NoRequest
          BY <3>2 DEF RuntimeTypeOK
        <4>2. \A j \in DOMAIN inbox'[c] : inbox'[c][j] # job[c]
          BY <1>4 DEF Once
        <4>3. \A j \in DOMAIN pipe'[c] : ~(j > n + 1)
          BY <2>0
        <4> QED BY <2>1, <3>2, <4>1, <4>2, <4>3 DEF EndsAll, LastOf
      <3> QED BY <2>3, <3>1, <3>2 DEF Terminal
    <2>4. job'[c] # NoRequest => c \in booted'
      BY <1>1, <1>4 DEF Told
    <2>5. ASSUME NEW i \in 1 .. n
          PROVE  /\ pipe'[c][i].kind = "ready" => c \in booted'
                 /\ pipe'[c][i].kind = "failed" => EndsAll(c, i)'
      BY <1>4, <2>0, <2>2 DEF Told
    <2>6. /\ pipe'[c][n + 1].kind = "ready" => c \in booted'
          /\ pipe'[c][n + 1].kind = "failed" => EndsAll(c, n + 1)'
      BY <2>1, <2>3
    <2>7. \A i \in DOMAIN pipe'[c] : i \in 1 .. n \/ i = n + 1
      BY <2>0
    <2> QED BY <1>4, <2>4, <2>5, <2>6, <2>7 DEF Told
  <1> QED BY <1>3, <1>4

LEMMA WorkTells ==
  ASSUME ~Relapses, RuntimeTypeOK, NEW c \in Requests, Works(c), c \notin alive \cap crashed,
         Told(c), NEW d \in Requests, Once(d) /\ Told(d)
  PROVE  Told(d)'
  <1>1. CASE Boot(c)
    BY <1>1, EmitTells DEF Boot, Kinds, Terminal, RuntimeTypeOK
  <1>2. CASE BootFails(c)
    <2>1. job[c] = NoRequest
      BY <1>2 DEF BootFails, Told
    <2> QED BY <1>2, <2>1, EmitTells DEF BootFails, Kinds, Terminal, RuntimeTypeOK
  <1>3. CASE Initialize(c)
    BY <1>3, EmitTells DEF Initialize, Kinds, Terminal
  <1>4. CASE EndJob(c)
    <2>1. PICK kind \in Terminal : Emit(c, kind)
      BY <1>4 DEF EndJob, Terminal
    <2>2. /\ UNCHANGED <<inbox, booted, crashed>> /\ kind \in Kinds \ {"ready"}
          /\ job[c] # NoRequest /\ job' = [job EXCEPT ![c] = NoRequest]
      BY <1>4 DEF EndJob, Kinds, Terminal
    <2> QED BY <2>1, <2>2, EmitTells
  <1>5. CASE TakeRequest(c)
    <2>1. /\ inbox[c] \in Seq(Requests) /\ inbox[c] # <<>>
          /\ inbox'[c] = Tail(inbox[c]) /\ job'[c] = Head(inbox[c])
          /\ d # c => inbox'[d] = inbox[d] /\ job'[d] = job[d]
          /\ UNCHANGED <<pipe, booted, crashed>> /\ c \in booted
      BY <1>5 DEF TakeRequest, RuntimeTypeOK
    <2>2. /\ 1 \in DOMAIN inbox[c] /\ job'[c] = inbox[c][1]
          /\ \A i \in DOMAIN inbox'[c] : i + 1 \in DOMAIN inbox[c] /\ inbox'[c][i] = inbox[c][i + 1]
      BY <2>1, TailHolds
    <2>3. ASSUME NEW i \in DOMAIN pipe[d], NEW q, LastOf(d, i, q) PROVE LastOf(d, i, q)'
      <3>1. CASE d = c
        BY <2>1, <2>2, <2>3, <3>1 DEF LastOf
      <3>2. CASE d # c
        BY <2>1, <2>3, <3>2 DEF LastOf
      <3> QED BY <3>1, <3>2
    <2>4. \A i \in DOMAIN pipe[d] : EndsAll(d, i) => EndsAll(d, i)'
      BY <2>1, <2>3 DEF EndsAll
    <2> QED BY <2>1, <2>4 DEF Told
  <1>6. CASE Crash(c)
    <2>1. \A i \in DOMAIN pipe[d] : EndsAll(d, i) => EndsAll(d, i)'
      BY <1>6 DEF Crash, EndsAll, LastOf
    <2> QED BY <1>6, <2>1 DEF Crash, Told
  <1>7. CASE CleanUp(c)
    BY <1>7 DEF CleanUp, Told, EndsAll, LastOf
  <1> QED BY <1>1, <1>2, <1>3, <1>4, <1>5, <1>6, <1>7 DEF Works, RuntimeStep

-----------------------------------------------------------------------------
(* A reader takes the first line out of the stdout of the child it reads.  *)
LEMMA Taken ==
  ASSUME RuntimeTypeOK, NEW r \in Requests, NEW c \in Requests, reads[r] = c,
         HasLine(r), Read(r)
  PROVE  /\ pipe' \in [Requests -> Seq(Events)]
         /\ \A d \in Requests \ {c} : pipe'[d] = pipe[d]
         /\ 1 \in DOMAIN pipe[c] /\ NextLine(r) = pipe[c][1]
         /\ DOMAIN pipe[c] \subseteq Nat
         /\ DOMAIN pipe'[c] \subseteq Nat \ {0}
         /\ \A i \in DOMAIN pipe'[c] : i + 1 \in DOMAIN pipe[c] /\ pipe'[c][i] = pipe[c][i + 1]
  <1>1. pipe[c] \in Seq(Events) /\ pipe[c] # <<>>
    BY DEF RuntimeTypeOK, HasLine
  <1>2. pipe' \in [Requests -> Seq(Events)]
    BY <1>1, TailHolds DEF RuntimeTypeOK, Read
  <1>3. pipe'[c] = Tail(pipe[c]) /\ \A d \in Requests \ {c} : pipe'[d] = pipe[d]
    BY DEF RuntimeTypeOK, Read
  <1> QED BY <1>1, <1>2, <1>3, TailHolds DEF NextLine

(* It leaves no work in the child that was not there before it.            *)
LEMMA ReadServes ==
  ASSUME RuntimeTypeOK, NEW r \in Requests, NEW c \in Requests, reads[r] = c,
         HasLine(r), Read(r), UNCHANGED <<inbox, job>>, NEW d \in Requests
  PROVE  Serving(d)' \subseteq Serving(d)
  <1> SUFFICES ASSUME NEW q, q \in Serving(d)' PROVE q \in Serving(d)
    OBVIOUS
  <1>1. \/ q = job[d] \/ \E i \in DOMAIN inbox[d] : q = inbox[d][i]
        \/ \E i \in DOMAIN pipe'[d] : q = pipe'[d][i].of
    BY DEF Serving
  <1>2. \/ q = job[d] \/ \E i \in DOMAIN inbox[d] : q = inbox[d][i]
        \/ \E i \in DOMAIN pipe[d] : q = pipe[d][i].of
    <2>1. CASE d = c
      <3>1. \A i \in DOMAIN pipe'[c] : i + 1 \in DOMAIN pipe[c] /\ pipe'[c][i] = pipe[c][i + 1]
        BY Taken
      <3> QED BY <1>1, <2>1, <3>1
    <2>2. CASE d # c
      <3>1. pipe'[d] = pipe[d]
        BY <2>2, Taken
      <3> QED BY <1>1, <3>1
    <2> QED BY <2>1, <2>2
  <1> QED BY <1>2 DEF Serving

LEMMA ReadSettles ==
  ASSUME RuntimeTypeOK, NEW r \in Requests, NEW c \in Requests, reads[r] = c,
         HasLine(r), Read(r), UNCHANGED <<inbox, job>>,
         NEW d \in Requests, Once(d) /\ Settled(d)
  PROVE  Once(d)' /\ Settled(d)'
  <1>1. Once(d)'
    BY DEF Once
  <1>2. CASE d # c
    <2>1. pipe'[d] = pipe[d]
      BY <1>2, Taken
    <2> QED BY <1>1, <2>1 DEF Settled, LastOf
  <1>3. CASE d = c
    <2>1. /\ DOMAIN pipe'[c] \subseteq Nat
          /\ \A i \in DOMAIN pipe'[c] : i + 1 \in DOMAIN pipe[c] /\ pipe'[c][i] = pipe[c][i + 1]
      BY Taken
    <2>2. ASSUME NEW i \in DOMAIN pipe'[c], NEW q, LastOf(c, i + 1, q)
          PROVE  LastOf(c, i, q)'
      <3>1. ASSUME NEW j \in DOMAIN pipe'[c], j > i PROVE pipe'[c][j].of # q
        <4>1. j + 1 > i + 1 /\ j + 1 \in DOMAIN pipe[c] /\ pipe'[c][j] = pipe[c][j + 1]
          BY <2>1, <3>1
        <4> QED BY <2>2, <4>1 DEF LastOf
      <3> QED BY <2>2, <3>1 DEF LastOf
    <2> QED BY <1>1, <1>3, <2>1, <2>2 DEF Settled
  <1> QED BY <1>2, <1>3

(* The last line of a request leaves nothing of it behind it.              *)
LEMMA TakesLast ==
  ASSUME RuntimeTypeOK, NEW r \in Requests, NEW c \in Requests, reads[r] = c,
         HasLine(r), Read(r), UNCHANGED <<inbox, job>>, LastOf(c, 1, NextLine(r).of)
  PROVE  NextLine(r).of # NoRequest /\ NextLine(r).of \notin Serving(c)'
  <1>1. /\ DOMAIN pipe'[c] \subseteq Nat \ {0}
        /\ \A i \in DOMAIN pipe'[c] : i + 1 \in DOMAIN pipe[c] /\ pipe'[c][i] = pipe[c][i + 1]
    BY Taken
  <1> DEFINE q == NextLine(r).of
  <1>2. LastOf(c, 1, q)
    OBVIOUS
  <1> HIDE DEF q
  <1>3. ASSUME NEW i \in DOMAIN pipe'[c] PROVE pipe'[c][i].of # q
    <2>1. i + 1 > 1
      BY <1>1
    <2> QED BY <1>1, <1>2, <2>1 DEF LastOf
  <1>4. q # NoRequest /\ q # job'[c] /\ \A i \in DOMAIN inbox'[c] : inbox'[c][i] # q
    BY <1>2 DEF LastOf
  <1>5. q \notin Serving(c)'
    BY <1>3, <1>4 DEF Serving
  <1> QED BY <1>4, <1>5 DEF q

(* The line that says that a job is done is the last of its request.       *)
LEMMA ReadsLast ==
  ASSUME RuntimeTypeOK, NEW r \in Requests, NEW c \in Requests, reads[r] = c,
         HasLine(r), Read(r), UNCHANGED <<inbox, job>>, Settled(c),
         NextLine(r).kind \in {"completed", "cancelled"}
  PROVE  NextLine(r).of # NoRequest /\ NextLine(r).of \notin Serving(c)'
  <1>1. 1 \in DOMAIN pipe[c] /\ NextLine(r) = pipe[c][1]
    BY Taken
  <1>2. LastOf(c, 1, NextLine(r).of)
    BY <1>1 DEF Settled
  <1> QED BY <1>2, TakesLast

LEMMA ReadTells ==
  ASSUME RuntimeTypeOK, NEW r \in Requests, NEW c \in Requests, reads[r] = c,
         HasLine(r), Read(r), UNCHANGED <<inbox, job, booted, crashed>>,
         NEW d \in Requests, Told(d)
  PROVE  Told(d)'
  <1>1. CASE d # c
    <2>1. pipe'[d] = pipe[d]
      BY <1>1, Taken
    <2> QED BY <2>1 DEF Told, EndsAll, LastOf
  <1>2. CASE d = c
    <2>1. /\ DOMAIN pipe'[c] \subseteq Nat
          /\ \A i \in DOMAIN pipe'[c] : i + 1 \in DOMAIN pipe[c] /\ pipe'[c][i] = pipe[c][i + 1]
      BY Taken
    <2>2. ASSUME NEW i \in DOMAIN pipe'[c], NEW q, LastOf(c, i + 1, q)
          PROVE  LastOf(c, i, q)'
      <3>1. ASSUME NEW j \in DOMAIN pipe'[c], j > i PROVE pipe'[c][j].of # q
        <4>1. j + 1 > i + 1 /\ j + 1 \in DOMAIN pipe[c] /\ pipe'[c][j] = pipe[c][j + 1]
          BY <2>1, <3>1
        <4> QED BY <2>2, <4>1 DEF LastOf
      <3> QED BY <2>2, <3>1 DEF LastOf
    <2>3. ASSUME NEW i \in DOMAIN pipe'[c], EndsAll(c, i + 1) PROVE EndsAll(c, i)'
      BY <2>1, <2>2, <2>3 DEF EndsAll
    <2> QED BY <1>2, <2>1, <2>3 DEF Told
  <1> QED BY <1>1, <1>2

(* So is any terminal line, once the child has booted.                     *)
LEMMA ReadsEnd ==
  ASSUME RuntimeTypeOK, NEW r \in Requests, NEW c \in Requests, reads[r] = c,
         HasLine(r), Read(r), UNCHANGED <<inbox, job>>,
         Settled(c) /\ Told(c), c \in booted,
         NextLine(r).kind \in Terminal
  PROVE  NextLine(r).of # NoRequest /\ NextLine(r).of \notin Serving(c)'
  <1>1. 1 \in DOMAIN pipe[c] /\ NextLine(r) = pipe[c][1]
    BY Taken
  <1>2. LastOf(c, 1, NextLine(r).of)
    BY <1>1 DEF Settled, Told, EndsAll, Terminal
  <1> QED BY <1>2, TakesLast

-----------------------------------------------------------------------------
(* A request line adds its request to the work of the child it is written  *)
(* to, once when the child had nothing of it.                              *)
LEMMA WriteTyped ==
  ASSUME RuntimeTypeOK, NEW r \in Requests, NEW c \in Requests,
         inbox' = [inbox EXCEPT ![c] = Append(@, r)]
  PROVE  /\ inbox' \in [Requests -> Seq(Requests)]
         /\ \A d \in Requests \ {c} : inbox'[d] = inbox[d]
         /\ Len(inbox[c]) \in Nat
         /\ DOMAIN inbox[c] = 1 .. Len(inbox[c])
         /\ DOMAIN inbox'[c] = 1 .. Len(inbox[c]) + 1
         /\ \A i \in 1 .. Len(inbox[c]) : inbox'[c][i] = inbox[c][i]
         /\ inbox'[c][Len(inbox[c]) + 1] = r
  <1>1. inbox[c] \in Seq(Requests) /\ inbox'[c] = Append(inbox[c], r)
    BY DEF RuntimeTypeOK
  <1>2. \A d \in Requests \ {c} : inbox'[d] = inbox[d]
    BY DEF RuntimeTypeOK
  <1>3. Append(inbox[c], r) \in Seq(Requests)
    BY <1>1
  <1>4. inbox' \in [Requests -> Seq(Requests)]
    BY <1>3 DEF RuntimeTypeOK
  <1> QED BY <1>1, <1>2, <1>4, AppendHolds

LEMMA WriteServes ==
  ASSUME RuntimeTypeOK, NEW r \in Requests, NEW c \in Requests,
         inbox' = [inbox EXCEPT ![c] = Append(@, r)], UNCHANGED <<job, pipe>>,
         NEW d \in Requests
  PROVE  /\ d # c => Serving(d)' = Serving(d)
         /\ Serving(d)' \subseteq Serving(d) \cup {r}
  <1> DEFINE n == Len(inbox[c])
  <1>1. /\ \A e \in Requests \ {c} : inbox'[e] = inbox[e]
        /\ n \in Nat
        /\ DOMAIN inbox[c] = 1 .. n
        /\ DOMAIN inbox'[c] = 1 .. n + 1
        /\ \A i \in 1 .. n : inbox'[c][i] = inbox[c][i]
        /\ inbox'[c][n + 1] = r
    BY WriteTyped
  <1> HIDE DEF n
  <1>2. CASE d # c
    <2>1. inbox'[d] = inbox[d]
      BY <1>1, <1>2
    <2> QED BY <1>2, <2>1 DEF Serving
  <1>3. CASE d = c
    <2> SUFFICES ASSUME NEW q, q \in Serving(c)', q # r PROVE q \in Serving(c)
      BY <1>3
    <2>1. \/ q = job[c] \/ \E i \in DOMAIN inbox'[c] : q = inbox'[c][i]
          \/ \E i \in DOMAIN pipe[c] : q = pipe[c][i].of
      BY DEF Serving
    <2>2. \/ q = job[c] \/ \E i \in DOMAIN inbox[c] : q = inbox[c][i]
          \/ \E i \in DOMAIN pipe[c] : q = pipe[c][i].of
      BY <1>1, <2>1
    <2> QED BY <2>2 DEF Serving
  <1> QED BY <1>2, <1>3

LEMMA WriteSettles ==
  ASSUME RuntimeTypeOK, NEW r \in Requests, NEW c \in Requests,
         inbox' = [inbox EXCEPT ![c] = Append(@, r)], UNCHANGED <<job, pipe>>,
         r \notin Serving(c), NEW d \in Requests, Once(d) /\ Settled(d)
  PROVE  Once(d)' /\ Settled(d)'
  <1> DEFINE n == Len(inbox[c])
  <1>1. /\ \A e \in Requests \ {c} : inbox'[e] = inbox[e]
        /\ n \in Nat
        /\ DOMAIN inbox[c] = 1 .. n
        /\ DOMAIN inbox'[c] = 1 .. n + 1
        /\ \A i \in 1 .. n : inbox'[c][i] = inbox[c][i]
        /\ inbox'[c][n + 1] = r
    BY WriteTyped
  <1> HIDE DEF n
  <1>2. CASE d # c
    <2>1. inbox'[d] = inbox[d] /\ job'[d] = job[d] /\ pipe'[d] = pipe[d]
      BY <1>1, <1>2
    <2>2. Once(d)'
      BY <2>1 DEF Once
    <2>3. Settled(d)'
      BY <2>1 DEF Settled, LastOf
    <2> QED BY <2>2, <2>3
  <1>3. CASE d = c
    <2>1. /\ r # job[c]
          /\ \A i \in DOMAIN inbox[c] : inbox[c][i] # r
          /\ \A i \in DOMAIN pipe[c] : pipe[c][i].of # r
      BY DEF Serving
    <2>2. \A i \in DOMAIN inbox'[c] : inbox'[c][i] # job[c]
      BY <1>1, <1>3, <2>1 DEF Once
    <2>3. \A i, j \in DOMAIN inbox'[c] : inbox'[c][i] = inbox'[c][j] => i = j
      <3>1. \A i, j \in 1 .. n : inbox'[c][i] = inbox'[c][j] => i = j
        BY <1>1, <1>3 DEF Once
      <3>2. \A i \in 1 .. n : inbox'[c][i] # r
        BY <1>1, <2>1
      <3>3. \A i \in DOMAIN inbox'[c] : i \in 1 .. n \/ i = n + 1
        BY <1>1
      <3> QED BY <1>1, <3>1, <3>2, <3>3
    <2>4. ASSUME NEW i \in DOMAIN pipe[c], NEW q, q = pipe[c][i].of, LastOf(c, i, q)
          PROVE  LastOf(c, i, q)'
      <3>1. \A j \in DOMAIN inbox'[c] : inbox'[c][j] # q
        BY <1>1, <2>1, <2>4 DEF LastOf
      <3> QED BY <2>4, <3>1 DEF LastOf
    <2> QED BY <1>3, <2>2, <2>3, <2>4 DEF Once, Settled
  <1> QED BY <1>2, <1>3

LEMMA WriteTells ==
  ASSUME RuntimeTypeOK, NEW r \in Requests, NEW c \in Requests,
         inbox' = [inbox EXCEPT ![c] = Append(@, r)], UNCHANGED <<job, pipe, booted, crashed>>,
         r \notin Serving(c), NEW d \in Requests, Told(d)
  PROVE  Told(d)'
  <1> DEFINE n == Len(inbox[c])
  <1>1. /\ \A e \in Requests \ {c} : inbox'[e] = inbox[e]
        /\ n \in Nat
        /\ DOMAIN inbox[c] = 1 .. n
        /\ DOMAIN inbox'[c] = 1 .. n + 1
        /\ \A i \in 1 .. n : inbox'[c][i] = inbox[c][i]
        /\ inbox'[c][n + 1] = r
    BY WriteTyped
  <1> HIDE DEF n
  <1>2. ASSUME NEW i \in DOMAIN pipe[d], LastOf(d, i, pipe[d][i].of)
        PROVE  LastOf(d, i, pipe[d][i].of)'
    <2>1. \A j \in DOMAIN inbox'[d] : inbox'[d][j] # pipe[d][i].of
      <3>1. CASE d # c
        BY <1>1, <1>2, <3>1 DEF LastOf
      <3>2. CASE d = c
        <4>1. pipe[c][i].of # r
          BY <1>2, <3>2 DEF Serving
        <4> QED BY <1>1, <1>2, <3>2, <4>1 DEF LastOf
      <3> QED BY <3>1, <3>2
    <2> QED BY <1>2, <2>1 DEF LastOf
  <1>3. \A i \in DOMAIN pipe[d] : EndsAll(d, i) => EndsAll(d, i)'
    BY <1>2 DEF EndsAll
  <1> QED BY <1>3 DEF Told

-----------------------------------------------------------------------------
(* The operations of the slot keep its types.                              *)
LEMMA SlotTyped ==
  ASSUME SlotTypeOK, NEW r \in Requests,
         \/ Admit(r) \/ Park(r) \/ RaiseClosed(r) \/ Release(r)
         \/ RetireBegin(r) \/ RetireEnd(r) \/ RetireRefused(r)
         \/ UNCHANGED slotVars
  PROVE  SlotTypeOK'
  <1> USE DEF SlotTypeOK
  <1>1. CASE FreeSlot(r)
    BY <1>1 DEF FreeSlot, NotifyOne
  <1>2. CASE ReleaseRefused(r) \/ UNCHANGED slotVars
    BY <1>2 DEF ReleaseRefused, slotVars
  <1>3. CASE Admit(r) \/ Park(r) \/ RaiseClosed(r)
    BY <1>3 DEF Admit, Park, RaiseClosed
  <1>4. CASE RetireBegin(r) \/ RetireEnd(r) \/ RetireRefused(r)
    BY <1>4 DEF RetireBegin, RetireEnd, RetireRefused, slotVars
  <1> QED BY <1>1, <1>2, <1>3, <1>4 DEF Release

LEMMA ClosingTyped ==
  ASSUME SlotTypeOK, CloseSlot \/ UNCHANGED slotVars
  PROVE  SlotTypeOK'
  BY DEF SlotTypeOK, CloseSlot, slotVars

LEMMA InitProcess == ProcessInit => ProcessTypeOK
  BY InitRuntime DEF ProcessInit, ProcessTypeOK, SlotInit, SlotTypeOK

(* So do submit() and ensure_started(), and the child of its own accord.   *)
LEMMA ProcessTyped ==
  ASSUME ProcessTypeOK, NEW P, ProcessPlaces \subseteq P, at \in [Requests -> P],
         NEW r \in Requests, ProcessStep(r)
  PROVE  ProcessTypeOK' /\ at' \in [Requests -> P]
  <1>1. ASSUME NEW place \in ProcessPlaces, Goto(r, place) PROVE at' \in [Requests -> P]
    BY <1>1 DEF Goto
  <1>2. UNCHANGED runtimeVars => RuntimeTypeOK'
    BY DEF ProcessTypeOK, RuntimeTypeOK, runtimeVars
  <1>3. UNCHANGED slotVars => SlotTypeOK'
    BY ClosingTyped DEF ProcessTypeOK
  <1> USE DEF ProcessPlaces, InSubmit, Over
  <1>4. CASE Acquire(r)
    BY <1>1, <1>2, <1>4, SlotTyped DEF Acquire, ProcessTypeOK
  <1>5. CASE CheckChild(r) \/ ReturnStream(r)
    BY <1>1, <1>2, <1>3, <1>5 DEF CheckChild, ReturnStream, ProcessTypeOK
  <1>6. CASE Spawn(r)
    BY <1>1, <1>3, <1>6 DEF Spawn, ProcessTypeOK, RuntimeTypeOK
  <1>7. CASE BindStarting(r) \/ TakeStdin(r)
    BY <1>1, <1>2, <1>3, <1>7 DEF BindStarting, TakeStdin, Bind, ProcessTypeOK
  <1>8. CASE ReadStarting(r)
    <2>1. reads[r] \in Requests
      BY <1>8 DEF ReadStarting, HasLine, ProcessTypeOK
    <2>2. pipe' \in [Requests -> Seq(Events)]
      BY <1>8, <2>1, Taken DEF ReadStarting, ProcessTypeOK
    <2> QED BY <1>1, <1>3, <1>8, <2>2 DEF ReadStarting, ProcessTypeOK, RuntimeTypeOK
  <1>9. CASE StartingEnds(r)
    BY <1>1, <1>2, <1>3, <1>9 DEF StartingEnds, ProcessTypeOK
  <1>10. CASE StartFailed(r)
    BY <1>1, <1>3, <1>10 DEF StartFailed, Kill, ProcessTypeOK, RuntimeTypeOK
  <1>11. CASE WriteRequest(r)
    <2>1. inbox' \in [Requests -> Seq(Requests)]
      <3>1. CASE UNCHANGED inbox
        BY <3>1 DEF ProcessTypeOK, RuntimeTypeOK
      <3>2. CASE reads[r] \in alive /\ inbox' = [inbox EXCEPT ![reads[r]] = Append(@, r)]
        <4>1. reads[r] \in Requests
          BY <3>2 DEF ProcessTypeOK, RuntimeTypeOK
        <4> QED BY <3>2, <4>1, WriteTyped DEF ProcessTypeOK
      <3> QED BY <1>11, <3>1, <3>2 DEF WriteRequest
    <2> QED BY <1>1, <1>3, <1>11, <2>1 DEF WriteRequest, ProcessTypeOK, RuntimeTypeOK
  <1>12. CASE Unwind(r)
    BY <1>1, <1>2, <1>12, SlotTyped DEF Unwind, ProcessTypeOK
  <1> QED BY <1>4, <1>5, <1>6, <1>7, <1>8, <1>9, <1>10, <1>11, <1>12 DEF ProcessStep

LEMMA ChildTyped ==
  ASSUME ProcessTypeOK, NEW c \in Requests, ChildStep(c)
  PROVE  ProcessTypeOK'
  <1>1. Works(c) /\ UNCHANGED <<slotVars, child, at, reads>>
    BY DEF ChildStep, Works
  <1>2. RuntimeTypeOK' /\ SlotTypeOK'
    BY <1>1, WorkTyped, SlotTyped DEF ProcessTypeOK
  <1> QED BY <1>1, <1>2 DEF ProcessTypeOK
=============================================================================
