--------------------------- MODULE Scheduler_proofs ---------------------------
(***************************************************************************)
(* Proofs about Scheduler, for any number of workers, requests and tokens  *)
(* and any capacity of the queue: who owns a request, what it is answered  *)
(* with, what stop reaches, that no wakeup is lost, and that the scheduler *)
(* implements RequestService.  All rest on who owns a request (OwnInv).    *)
(***************************************************************************)
EXTENDS Scheduler, FiniteSetTheorems, TLAPS

-----------------------------------------------------------------------------
(* Types. *)

LEMMA ConstantFacts ==
  /\ Blocking \subseteq Request /\ NoRequest \notin Request
  /\ MaxQueue \in Nat /\ MaxTokens \in Nat
  /\ IsFiniteSet(Worker) /\ Worker # {} /\ IsFiniteSet(Request)
BY SchedulerAssumption DEF SchedulerAssumption

LEMMA QueuedFacts ==
  ASSUME queue \in Seq(Request)
  PROVE  /\ Queued \subseteq Request
         /\ queue = <<>> => Queued = {}
         /\ queue # <<>> => Head(queue) \in Queued /\ Head(queue) \in Request
BY DEF Queued

\* A worker has a request exactly while it works.
Employed == \A w \in Worker : Working(w) <=> wreq[w] \in Request

-----------------------------------------------------------------------------
(* What a step inside run_request leaves alone. *)

CallSteps(w) == Generates(w) \/ Writes(w)

LEMMA CallFrame ==
  ASSUME NEW w \in Worker, CallSteps(w)
  PROVE  /\ UNCHANGED <<queue, running, stopping, wreq, finished, reason, sink, hpc, alive, stpc>>
         /\ wpc[w] \in CallPc \ {"fin"}
         /\ \E b \in CallPc : wpc' = [wpc EXCEPT ![w] = b]
         /\ cancel' = cancel \/ cancel' = [cancel EXCEPT ![wreq[w]] = TRUE]
         /\ \A r \in Request : r # wreq[w] /\ TypeOK =>
              ntok'[r] = ntok[r] /\ held'[r] = held[r] /\ text'[r] = text[r]
         /\ \A v \in Worker : v # w /\ TypeOK => outbox'[v] = outbox[v]
<1> USE DEF qVars, reqVars, hVars, CallPc, TypeOK
<1>1. CASE TokenPasses(w)
  BY <1>1 DEF TokenPasses
<1>2. CASE Token_cb(w)
  BY <1>2 DEF Token_cb
<1>3. CASE TokenCancelled(w)
  BY <1>3 DEF TokenCancelled
<1>4. CASE SinkAccepts(w)
  BY <1>4 DEF SinkAccepts
<1>5. CASE SinkWrites(w)
  BY <1>5 DEF SinkWrites
<1>6. CASE SinkRefuses(w)
  BY <1>6 DEF SinkRefuses, Refuse
<1>7. CASE GenReturns(w)
  BY <1>7 DEF GenReturns
<1>8. CASE Flush(w)
  BY <1>8 DEF Flush
<1>9. CASE WriteReturns(w)
  BY <1>9 DEF WriteReturns
<1>10. CASE WriteFails(w)
  BY <1>10 DEF WriteFails, Refuse
<1>11. CASE TailReturns(w)
  BY <1>11 DEF TailReturns
<1>12. QED
  BY <1>1, <1>2, <1>3, <1>4, <1>5, <1>6, <1>7, <1>8, <1>9, <1>10, <1>11
  DEF CallSteps, Generates, Writes

\* The steps of a worker, by what they do to the queue and the requests.
LEMMA WorkCases ==
  ASSUME NEW w \in Worker, Works(w) \/ SpuriousWake(w)
  PROVE  \/ Sleep(w) \/ SpuriousWake(w) \/ Drain(w) \/ Pop(w) \/ CallSteps(w) \/ Finish(w)
         \/ Erase(w)
BY DEF Works, Runs, CallSteps

-----------------------------------------------------------------------------

LEMMA TypeInit == Init => TypeOK /\ Employed
<1>1. SUFFICES ASSUME Init PROVE TypeOK /\ Employed
  OBVIOUS
<1>2. /\ queue \in Seq(Request) /\ running \subseteq Request /\ stopping \in BOOLEAN
      /\ wpc \in [Worker -> WPc] /\ wreq \in [Worker -> Request \cup {NoRequest}]
      /\ rc \in [Worker -> {0, 1}]
  <2>1. queue = <<>> /\ <<>> \in Seq(Request)
    BY <1>1 DEF Init
  <2>2. running \subseteq Request /\ stopping \in BOOLEAN
    BY <1>1 DEF Init
  <2>3. wpc \in [Worker -> WPc] /\ wreq \in [Worker -> Request \cup {NoRequest}]
    BY <1>1 DEF Init, WPc
  <2>4. rc \in [Worker -> {0, 1}]
    BY <1>1 DEF Init
  <2>5. QED
    BY <2>1, <2>2, <2>3, <2>4
<1>7. outbox \in [Worker -> SUBSET Token]
  BY <1>1 DEF Init
<1>3. /\ cancel \in [Request -> BOOLEAN] /\ finished \in [Request -> BOOLEAN]
      /\ reason \in [Request -> Reason] /\ ntok \in [Request -> 0 .. MaxTokens]
      /\ held \in [Request -> SUBSET Token] /\ text \in [Request -> SUBSET Token]
      /\ sink \in [Request -> BOOLEAN]
      /\ \A r \in Request : finished[r] <=> reason[r] # "none"
  BY <1>1, ConstantFacts DEF Init, Reason
<1>4. hpc \in [Request -> HPc] /\ alive \in [Request -> BOOLEAN] /\ stpc = "idle"
  BY <1>1 DEF Init, HPc
<1>5. Employed
  BY <1>1, ConstantFacts DEF Init, Employed, Working, InCall, CallPc
<1>6. QED
  BY <1>2, <1>3, <1>4, <1>5, <1>7 DEF TypeOK

LEMMA TypeHandler ==
  ASSUME TypeOK, Employed, NEW r \in Request, Handles(r) \/ ClientLeaves(r)
  PROVE  TypeOK' /\ Employed'
<1>1. CASE BeginStream(r) \/ SetSink(r) \/ Answer(r) \/ Reply(r)
  <2>1. UNCHANGED <<wpc, wreq>> /\ hpc' \in [Request -> HPc] /\ sink' \in [Request -> BOOLEAN]
    BY <1>1 DEF TypeOK, BeginStream, SetSink, Answer, Reply, wVars, reqVars, HPc
  <2>2. TypeOK'
    BY <1>1, <2>1 DEF TypeOK, BeginStream, SetSink, Answer, Reply, qVars, wVars, reqVars
  <2>3. QED
    BY <2>1, <2>2 DEF Employed, Working, InCall, CallPc
<1>2. CASE Submit(r)
  <2>1. queue \in Seq(Request) /\ Append(queue, r) \in Seq(Request)
    BY DEF TypeOK
  <2>2. hpc' \in [Request -> HPc]
    BY <1>2 DEF TypeOK, Submit, HPc
  <2>3. UNCHANGED <<wpc, wreq>> /\ hpc' \in [Request -> HPc] /\ queue' \in Seq(Request)
    BY <1>2, <2>1, <2>2 DEF Submit, wVars
  <2>4. TypeOK'
    BY <1>2, <2>3 DEF TypeOK, Submit, wVars, reqVars
  <2>5. QED
    BY <2>3, <2>4 DEF Employed, Working, InCall, CallPc
<1>3. CASE NotifyOne(r)
  <2>1. \/ wpc' = wpc
        \/ \E w \in Worker : wpc[w] = "sleep" /\ wpc' = [wpc EXCEPT ![w] = "ready"]
    BY <1>3 DEF NotifyOne, Sleepers
  <2>2. wpc' \in [Worker -> WPc] /\ \A w \in Worker : Working(w)' <=> Working(w)
    BY <2>1 DEF TypeOK, Working, InCall, CallPc, WPc
  <2>3. hpc' \in [Request -> HPc]
    BY <1>3 DEF TypeOK, NotifyOne, HPc
  <2>4. /\ wpc' \in [Worker -> WPc] /\ \A w \in Worker : Working(w)' <=> Working(w)
        /\ hpc' \in [Request -> HPc]
    BY <2>2, <2>3
  <2>5. QED
    BY <1>3, <2>4 DEF TypeOK, Employed, NotifyOne, qVars, reqVars
<1>4. CASE ClientLeaves(r) \/ Poll(r)
  BY <1>4 DEF TypeOK, Employed, Working, InCall, CallPc, ClientLeaves, Poll, qVars, wVars, reqVars,
     hVars
<1>5. QED
  BY <1>1, <1>2, <1>3, <1>4 DEF Handles

\* The callback that has passed the check has a token left to count.
Room == \A w \in Worker : wpc[w] = "tok" => ntok[wreq[w]] < MaxTokens

LEMMA TypeCall ==
  ASSUME TypeOK, Employed, Room, NEW w \in Worker, CallSteps(w)
  PROVE  /\ wreq[w] \in Request
         /\ rc' \in [Worker -> {0, 1}] /\ outbox' \in [Worker -> SUBSET Token]
         /\ cancel' \in [Request -> BOOLEAN] /\ ntok' \in [Request -> 0 .. MaxTokens]
         /\ held' \in [Request -> SUBSET Token] /\ text' \in [Request -> SUBSET Token]
<1>1. wreq[w] \in Request
  BY CallFrame DEF Employed, Working, InCall, CallPc
<1>2. /\ outbox[w] \subseteq Token /\ held[wreq[w]] \subseteq Token
      /\ text[wreq[w]] \subseteq Token
  BY <1>1 DEF TypeOK
<1>3. cancel' \in [Request -> BOOLEAN]
  BY <1>1, CallFrame DEF TypeOK
<1>4. CASE Token_cb(w)
  <2>1. ntok[wreq[w]] + 1 \in Token /\ ntok[wreq[w]] + 1 \in 0 .. MaxTokens
    BY <1>1, <1>4, ConstantFacts DEF TypeOK, Room, Token_cb, Token
  <2>2. PICK h \in SUBSET Token, o \in SUBSET Token :
          held' = [held EXCEPT ![wreq[w]] = h] /\ outbox' = [outbox EXCEPT ![w] = o]
    <3>1. PICK h \in {{}, {ntok[wreq[w]] + 1}, held[wreq[w]] \cup {ntok[wreq[w]] + 1}} :
            /\ held' = [held EXCEPT ![wreq[w]] = h]
            /\ outbox' = [outbox EXCEPT ![w] = (held[wreq[w]] \cup {ntok[wreq[w]] + 1}) \ h]
      BY <1>4 DEF Token_cb
    <3>2. h \in SUBSET Token /\ (held[wreq[w]] \cup {ntok[wreq[w]] + 1}) \ h \in SUBSET Token
      BY <1>2, <2>1
    <3>3. QED
      BY <3>1, <3>2
  <2>3. ntok' = [ntok EXCEPT ![wreq[w]] = ntok[wreq[w]] + 1] /\ UNCHANGED <<rc, text>>
    BY <1>4 DEF Token_cb
  <2>4. QED
    BY <1>1, <1>3, <2>1, <2>2, <2>3 DEF TypeOK
<1>5. CASE TokenPasses(w) \/ TokenCancelled(w) \/ SinkWrites(w) \/ GenReturns(w)
  BY <1>1, <1>5 DEF TypeOK, TokenPasses, TokenCancelled, SinkWrites, GenReturns, reqVars
<1>6. CASE SinkAccepts(w) \/ WriteReturns(w)
  <2>1. /\ UNCHANGED <<rc, cancel, ntok, held>> /\ outbox' = [outbox EXCEPT ![w] = {}]
        /\ \/ text' = text
           \/ text' = [text EXCEPT ![wreq[w]] = text[wreq[w]] \cup outbox[w]]
    BY <1>6 DEF SinkAccepts, WriteReturns
  <2>2. text[wreq[w]] \cup outbox[w] \in SUBSET Token
    BY <1>2
  <2>3. text' \in [Request -> SUBSET Token]
    BY <1>1, <2>1, <2>2 DEF TypeOK
  <2>4. QED
    BY <1>1, <2>1, <2>3 DEF TypeOK
<1>7. CASE SinkRefuses(w)
  BY <1>1, <1>2, <1>3, <1>7 DEF TypeOK, SinkRefuses, Refuse
<1>8. CASE WriteFails(w)
  BY <1>1, <1>3, <1>8 DEF TypeOK, WriteFails, Refuse
<1>9. CASE Flush(w) \/ TailReturns(w)
  <2>1. /\ UNCHANGED <<rc, cancel, ntok, held, outbox>>
        /\ \/ text' = text
           \/ text' = [text EXCEPT ![wreq[w]] = text[wreq[w]] \cup held[wreq[w]]]
    BY <1>9 DEF Flush, TailReturns
  <2>2. text[wreq[w]] \cup held[wreq[w]] \in SUBSET Token
    BY <1>2
  <2>3. text' \in [Request -> SUBSET Token]
    BY <1>1, <2>1, <2>2 DEF TypeOK
  <2>4. QED
    BY <1>1, <2>1, <2>3 DEF TypeOK
<1>10. QED
  BY <1>4, <1>5, <1>6, <1>7, <1>8, <1>9 DEF CallSteps, Generates, Writes

LEMMA TypeWorker ==
  ASSUME TypeOK, Employed, Room, NEW w \in Worker, Works(w) \/ SpuriousWake(w)
  PROVE  TypeOK' /\ Employed'
<1>1. CASE Sleep(w) \/ SpuriousWake(w)
  <2>1. wpc' \in [Worker -> WPc]
    BY <1>1 DEF TypeOK, Sleep, SpuriousWake, WPc
  <2>2. UNCHANGED <<qVars, wreq, rc, outbox, reqVars, hVars, stpc>>
    BY <1>1 DEF Sleep, SpuriousWake
  <2>3. TypeOK'
    BY <2>1, <2>2 DEF TypeOK, qVars, reqVars, hVars
  <2>4. Employed'
    BY <1>1 DEF TypeOK, Employed, Working, InCall, CallPc, Sleep, SpuriousWake
  <2>5. QED
    BY <2>3, <2>4
<1>2. CASE Drain(w)
  <2>1. Queued \subseteq Request
    BY QueuedFacts DEF TypeOK
  <2>2. /\ finished' \in [Request -> BOOLEAN] /\ reason' \in [Request -> Reason]
        /\ \A r \in Request : finished'[r] <=> reason'[r] # "none"
    BY <1>2 DEF TypeOK, Drain, Reason
  <2>3. QED
    BY <1>2, <2>2 DEF TypeOK, Employed, Working, InCall, CallPc, Drain, hVars, WPc
<1>3. CASE Pop(w)
  <2>1. /\ Taken(queue).r = Head(queue) /\ Taken(queue).rest = Tail(queue)
        /\ Head(queue) \in Request /\ Tail(queue) \in Seq(Request)
    BY <1>3, QueuedFacts DEF TypeOK, Pop, Taken
  <2>2. QED
    BY <1>3, <2>1 DEF TypeOK, Employed, Working, InCall, CallPc, Pop, reqVars, hVars, WPc
<1>4. CASE CallSteps(w)
  <2>1. wpc' \in [Worker -> WPc]
    BY <1>4, CallFrame DEF TypeOK, WPc, CallPc
  <2>2. Employed'
    <3>1. PICK b \in CallPc : wpc' = [wpc EXCEPT ![w] = b]
      BY <1>4, CallFrame
    <3>2. wpc[w] \in CallPc /\ wreq' = wreq
      BY <1>4, CallFrame
    <3>3. \A v \in Worker : Working(v)' <=> Working(v)
      BY <3>1, <3>2 DEF TypeOK, Working, InCall
    <3>4. QED
      BY <3>2, <3>3 DEF Employed
  <2>3. UNCHANGED <<queue, running, stopping, wreq, finished, reason, sink, hpc, alive, stpc>>
    BY <1>4, CallFrame
  <2>4. /\ rc' \in [Worker -> {0, 1}] /\ outbox' \in [Worker -> SUBSET Token]
        /\ cancel' \in [Request -> BOOLEAN] /\ ntok' \in [Request -> 0 .. MaxTokens]
        /\ held' \in [Request -> SUBSET Token] /\ text' \in [Request -> SUBSET Token]
    BY <1>4, TypeCall
  <2>5. TypeOK'
    BY <2>1, <2>3, <2>4 DEF TypeOK
  <2>6. QED
    BY <2>2, <2>5
<1>8. CASE Finish(w)
  <2>1. wreq[w] \in Request /\ ReasonOf(w) \in Reason \ {"none"}
    BY <1>8 DEF TypeOK, Employed, Working, InCall, CallPc, Finish, ReasonOf, Reason
  <2>2. QED
    BY <1>8, <2>1 DEF TypeOK, Employed, Working, InCall, CallPc, Finish, qVars, hVars, WPc
<1>9. CASE Erase(w)
  BY <1>9, ConstantFacts DEF TypeOK, Employed, Working, InCall, CallPc, Erase, reqVars, hVars, WPc
<1>10. QED
  BY <1>1, <1>2, <1>3, <1>4, <1>8, <1>9, WorkCases

LEMMA TypeStop ==
  ASSUME TypeOK, Employed, Stops
  PROVE  TypeOK' /\ Employed'
<1>1. CASE StopBegin
  BY <1>1 DEF TypeOK, Employed, Working, InCall, CallPc, StopBegin, wVars, hVars
<1>2. CASE StopNotify
  BY <1>2 DEF TypeOK, Employed, Working, InCall, CallPc, StopNotify, WakeAll, qVars, reqVars,
     hVars, WPc
<1>3. CASE StopJoined
  BY <1>3 DEF TypeOK, Employed, Working, InCall, CallPc, StopJoined, qVars, wVars, reqVars, hVars
<1>4. QED
  BY <1>1, <1>2, <1>3 DEF Stops

LEMMA TypeStep == TypeOK /\ Employed /\ Room /\ [Next]_vars => TypeOK' /\ Employed'
<1>1. SUFFICES ASSUME TypeOK, Employed, Room, [Next]_vars PROVE TypeOK' /\ Employed'
  OBVIOUS
<1>2. CASE UNCHANGED vars
  BY <1>1, <1>2 DEF TypeOK, Employed, Working, InCall, CallPc, vars, qVars, wVars, reqVars, hVars
<1>3. CASE Next
  BY <1>1, <1>3, TypeHandler, TypeWorker, TypeStop DEF Next
<1>4. QED
  BY <1>1, <1>2, <1>3

-----------------------------------------------------------------------------
(* Owners: who has which request. *)

Once == \A i, j \in 1 .. Len(queue) : queue[i] = queue[j] => i = j

Owners ==
  /\ running = {wreq[w] : w \in {v \in Worker : Working(v)}}
  /\ Queued \cap running = {}
  /\ \A v, w \in Worker : Working(v) /\ Working(w) /\ wreq[v] = wreq[w] => v = w
  /\ \A r \in Queued \cup running : Admitted(r)
  /\ \A r \in Queued : ~finished[r]
  /\ \A w \in Worker : Working(w) => (finished[wreq[w]] <=> wpc[w] = "erase")
  /\ \A r \in Request : Admitted(r) /\ ~finished[r] => r \in Queued \cup running
  /\ \A r \in Request : finished[r] => Admitted(r)
  /\ \A r \in Request : hpc[r] \in {"answer", "done"} => finished[r]

OwnInv == TypeOK /\ Employed /\ Room /\ Once /\ Owners

LEMMA OwnInit == Init => Once /\ Owners
<1>1. SUFFICES ASSUME Init PROVE Once /\ Owners
  OBVIOUS
<1>2. queue = <<>> /\ Queued = {} /\ running = {} /\ \A w \in Worker : ~Working(w)
  BY <1>1 DEF Init, Queued, Working, InCall, CallPc
<1>3. \A r \in Request : ~Admitted(r) /\ ~finished[r] /\ hpc[r] \notin {"answer", "done"}
  BY <1>1 DEF Init, Admitted
<1>4. QED
  BY <1>2, <1>3 DEF Once, Owners

\* A step that moves no request from one owner to another.
LEMMA OwnersStay ==
  ASSUME OwnInv, UNCHANGED <<queue, running, wreq, finished>>,
         \A w \in Worker : Working(w)' <=> Working(w),
         \A w \in Worker : wpc'[w] = "erase" <=> wpc[w] = "erase",
         \A r \in Request : Admitted(r)' <=> Admitted(r),
         \A r \in Request : hpc'[r] \in {"answer", "done"} => finished[r]
  PROVE  Once' /\ Owners'
<1>1. Queued' = Queued /\ Queued \subseteq Request /\ running \subseteq Request
  BY QueuedFacts DEF Queued, OwnInv, TypeOK
<1>2. {wreq'[w] : w \in {v \in Worker : Working(v)'}} = {wreq[w] : w \in {v \in Worker : Working(v)}}
  OBVIOUS
<1>3. QED
  BY <1>1, <1>2 DEF OwnInv, Once, Owners

LEMMA AppendQueue ==
  ASSUME queue \in Seq(Request), NEW r \in Request, queue' = Append(queue, r), Once, r \notin Queued
  PROVE  Once' /\ Queued' = Queued \cup {r}
<1>1. /\ Len(queue') = Len(queue) + 1 /\ Len(queue) \in Nat
      /\ queue'[Len(queue) + 1] = r
      /\ \A i \in 1 .. Len(queue) : queue'[i] = queue[i]
  OBVIOUS
<1>2. Queued' = Queued \cup {r}
  BY <1>1 DEF Queued
<1>3. \A i \in 1 .. Len(queue) : queue[i] # r
  BY DEF Queued
<1>4. Once'
  BY <1>1, <1>3 DEF Once
<1>5. QED
  BY <1>2, <1>4

LEMMA PopQueue ==
  ASSUME queue \in Seq(Request), queue # <<>>, queue' = Tail(queue), Once
  PROVE  /\ Once' /\ Queued' = Queued \ {Head(queue)}
         /\ Head(queue) \in Queued /\ Head(queue) \in Request
<1>1. /\ Len(queue) \in Nat /\ Len(queue) > 0 /\ Len(queue') = Len(queue) - 1
      /\ \A i \in 1 .. Len(queue') : queue'[i] = queue[i + 1]
      /\ Head(queue) = queue[1]
  OBVIOUS
<1>2. Once'
  BY <1>1 DEF Once
<1>3. \A i \in 1 .. Len(queue) : queue[i] = queue[1] => i = 1
  BY <1>1 DEF Once
<1>4. ASSUME NEW x \in Queued, x # queue[1] PROVE x \in Queued'
  <2>1. PICK i \in 1 .. Len(queue) : queue[i] = x
    BY DEF Queued
  <2>2. i - 1 \in 1 .. Len(queue') /\ queue'[i - 1] = x
    BY <1>1, <1>4, <2>1
  <2>3. QED
    BY <2>2 DEF Queued
<1>5. ASSUME NEW x \in Queued' PROVE x \in Queued /\ x # queue[1]
  <2>1. PICK i \in 1 .. Len(queue') : queue'[i] = x
    BY <1>5 DEF Queued
  <2>2. i + 1 \in 1 .. Len(queue) /\ queue[i + 1] = x
    BY <1>1, <2>1
  <2>3. QED
    BY <1>3, <2>2 DEF Queued
<1>6. Head(queue) \in Queued /\ Head(queue) \in Request
  BY QueuedFacts
<1>7. QED
  BY <1>1, <1>2, <1>4, <1>5, <1>6

LEMMA OwnHandler ==
  ASSUME OwnInv, NEW r \in Request, Handles(r) \/ ClientLeaves(r)
  PROVE  Once' /\ Owners'
<1>1. CASE \/ BeginStream(r) \/ SetSink(r) \/ Answer(r) \/ Reply(r) \/ ClientLeaves(r)
           \/ Poll(r)
  <2>1. UNCHANGED <<queue, running, wreq, finished, wpc>>
    BY <1>1 DEF BeginStream, SetSink, Answer, Reply, ClientLeaves, Poll, qVars, wVars, reqVars
  <2>2. \A q \in Request : (Admitted(q)' <=> Admitted(q)) /\ (hpc'[q] \in {"answer", "done"} => finished[q])
    BY <1>1 DEF BeginStream, SetSink, Answer, MayReply, Reply, ClientLeaves, Poll, hVars, OwnInv,
       TypeOK,
         Owners, Admitted
  <2>3. \A w \in Worker : Working(w)' <=> Working(w)
    BY <2>1 DEF Working, InCall, CallPc
  <2>4. QED
    BY <2>1, <2>2, <2>3, OwnersStay
<1>2. CASE NotifyOne(r)
  <2>1. UNCHANGED <<queue, running, wreq, finished>>
    BY <1>2 DEF NotifyOne, qVars, reqVars
  <2>2. \A q \in Request : (Admitted(q)' <=> Admitted(q)) /\ (hpc'[q] \in {"answer", "done"} => finished[q])
    BY <1>2 DEF NotifyOne, OwnInv, TypeOK, Owners, Admitted
  <2>3. \A w \in Worker : (Working(w)' <=> Working(w)) /\ (wpc'[w] = "erase" <=> wpc[w] = "erase")
    BY <1>2 DEF NotifyOne, Sleepers, Working, InCall, CallPc, OwnInv, TypeOK
  <2>4. QED
    BY <2>1, <2>2, <2>3, OwnersStay
<1>3. CASE Submit(r)
  <2>1. UNCHANGED <<running, wreq, finished, wpc>> /\ ~Admitted(r)
    BY <1>3 DEF Submit, MaySubmit, wVars, reqVars, Admitted
  <2>2. \A w \in Worker : Working(w)' <=> Working(w)
    BY <2>1 DEF Working, InCall, CallPc
  <2>3. CASE Rejects
    <3>1. queue' = queue /\ hpc' = [hpc EXCEPT ![r] = "refused"]
      BY <1>3, <2>3 DEF Submit
    <3>2. \A q \in Request : (Admitted(q)' <=> Admitted(q)) /\ (hpc'[q] \in {"answer", "done"} => finished[q])
      BY <2>1, <3>1 DEF OwnInv, TypeOK, Owners, Admitted
    <3>3. QED
      BY <2>1, <2>2, <3>1, <3>2, OwnersStay
  <2>4. CASE ~Rejects
    <3>1. queue' = Append(queue, r) /\ hpc' = [hpc EXCEPT ![r] = "notify"]
      BY <1>3, <2>4 DEF Submit
    <3>2. r \notin Queued /\ r \notin running /\ ~finished[r]
      BY <2>1 DEF OwnInv, Owners
    <3>3. Once' /\ Queued' = Queued \cup {r}
      BY <3>1, <3>2, AppendQueue DEF OwnInv, TypeOK
    <3>4. \A q \in Request : /\ Admitted(q)' <=> Admitted(q) \/ q = r
                             /\ hpc'[q] \in {"answer", "done"} => hpc'[q] = hpc[q]
      BY <3>1 DEF OwnInv, TypeOK, Admitted
    <3>5. Queued \subseteq Request /\ running \subseteq Request
      BY QueuedFacts DEF OwnInv, TypeOK
    <3>6. running' = {wreq'[w] : w \in {v \in Worker : Working(v)'}}
      BY <2>1, <2>2 DEF OwnInv, Owners
    <3>7. QED
      BY <2>1, <2>2, <3>2, <3>3, <3>4, <3>5, <3>6 DEF OwnInv, Owners
  <2>5. QED
    BY <2>3, <2>4
<1>4. QED
  BY <1>1, <1>2, <1>3 DEF Handles

LEMMA OwnWorker ==
  ASSUME OwnInv, NEW w \in Worker, Works(w) \/ SpuriousWake(w)
  PROVE  Once' /\ Owners'
<1>1. CASE Sleep(w) \/ SpuriousWake(w) \/ CallSteps(w)
  <2>1. UNCHANGED <<queue, running, wreq, finished, hpc>>
    BY <1>1, CallFrame DEF Sleep, SpuriousWake, qVars, reqVars, hVars
  <2>2. \E a, b \in WPc \ {"erase"} :
          /\ wpc[w] = a /\ wpc' = [wpc EXCEPT ![w] = b]
          /\ a \in {"ready", "sleep"} <=> b \in {"ready", "sleep"}
          /\ a # "exited" /\ b # "exited"
    <3>1. CASE Sleep(w) \/ SpuriousWake(w)
      BY <3>1 DEF Sleep, SpuriousWake, WPc
    <3>2. CASE CallSteps(w)
      BY <3>2, CallFrame DEF WPc, CallPc
    <3>3. QED
      BY <1>1, <3>1, <3>2
  <2>3. \A v \in Worker : (Working(v)' <=> Working(v)) /\ (wpc'[v] = "erase" <=> wpc[v] = "erase")
    BY <2>2 DEF Working, InCall, CallPc, OwnInv, TypeOK, WPc
  <2>4. \A q \in Request : (Admitted(q)' <=> Admitted(q)) /\ (hpc'[q] \in {"answer", "done"} => finished[q])
    BY <2>1 DEF Admitted, OwnInv, Owners
  <2>5. QED
    BY <2>1, <2>3, <2>4, OwnersStay
<1>2. CASE Drain(w)
  <2>1. /\ queue' = <<>> /\ wpc[w] = "ready" /\ wpc' = [wpc EXCEPT ![w] = "exited"]
        /\ finished' = [r \in Request |-> finished[r] \/ r \in Queued]
        /\ UNCHANGED <<running, wreq, hpc>>
    BY <1>2 DEF Drain, hVars
  <2>2. Queued' = {} /\ Once'
    BY <2>1 DEF Queued, Once
  <2>3. /\ \A v \in Worker : (Working(v)' <=> Working(v)) /\ (wpc'[v] = "erase" <=> wpc[v] = "erase")
        /\ \A q \in Request : Admitted(q)' <=> Admitted(q)
    BY <2>1 DEF Working, InCall, CallPc, Admitted, OwnInv, TypeOK
  <2>4. running' = {wreq'[x] : x \in {v \in Worker : Working(v)'}}
    BY <2>1, <2>3 DEF OwnInv, Owners
  <2>5. running \subseteq Request /\ Queued \subseteq Request
    BY QueuedFacts DEF OwnInv, TypeOK
  <2>6. \A v \in Worker : Working(v) => wreq[v] \in running
    BY DEF OwnInv, Owners
  <2>7. \A q \in running : q \in Request /\ finished'[q] = finished[q]
    BY <2>1, <2>5 DEF OwnInv, Owners, TypeOK
  <2>8. \A v \in Worker : Working(v)' => (finished'[wreq'[v]] <=> wpc'[v] = "erase")
    BY <2>1, <2>3, <2>6, <2>7 DEF OwnInv, Owners
  <2>9. Owners'
    BY <2>1, <2>2, <2>3, <2>4, <2>5, <2>8 DEF OwnInv, Owners
  <2>10. QED
    BY <2>2, <2>9
<1>3. CASE Pop(w)
  <2>1. PICK r : r = Head(queue)
    OBVIOUS
  <2>2. /\ queue # <<>> /\ queue' = Tail(queue) /\ wpc[w] = "ready"
        /\ wpc' = [wpc EXCEPT ![w] = "gen"] /\ wreq' = [wreq EXCEPT ![w] = r]
        /\ running' = running \cup {r}
        /\ UNCHANGED <<finished, hpc>>
    BY <1>3, <2>1 DEF Pop, Taken, reqVars, hVars
  <2>3. Once' /\ Queued' = Queued \ {r} /\ r \in Queued /\ r \in Request
    BY <2>1, <2>2, PopQueue DEF OwnInv, TypeOK
  <2>4. \A v \in Worker : /\ Working(v)' <=> Working(v) \/ v = w
                          /\ v # w => wreq'[v] = wreq[v] /\ wpc'[v] = wpc[v]
                          /\ wreq'[w] = r /\ wpc'[w] = "gen"
    BY <2>2 DEF Working, InCall, CallPc, OwnInv, TypeOK
  <2>5. ~Working(w) /\ r \notin running /\ Admitted(r) /\ ~finished[r]
    BY <2>2, <2>3 DEF Working, InCall, CallPc, OwnInv, Owners
  <2>6. \A q \in Request : Admitted(q)' <=> Admitted(q)
    BY <2>2 DEF Admitted
  <2>7. running' = {wreq'[x] : x \in {v \in Worker : Working(v)'}}
    BY <2>2, <2>4, <2>5 DEF OwnInv, Owners
  <2>8. \A v \in Worker : Working(v) => wreq[v] \in running
    BY DEF OwnInv, Owners
  <2>9. \A u, v \in Worker : Working(u)' /\ Working(v)' /\ wreq'[u] = wreq'[v] => u = v
    BY <2>4, <2>5, <2>8 DEF OwnInv, Owners
  <2>10. running \subseteq Request /\ Queued \subseteq Request
    BY QueuedFacts DEF OwnInv, TypeOK
  <2>11. Owners'
    BY <2>2, <2>3, <2>4, <2>5, <2>6, <2>7, <2>9, <2>10 DEF OwnInv, Owners
  <2>12. QED
    BY <2>3, <2>11
<1>4. CASE Finish(w)
  <2>1. /\ wpc[w] = "fin" /\ wpc' = [wpc EXCEPT ![w] = "erase"]
        /\ finished' = [finished EXCEPT ![wreq[w]] = TRUE]
        /\ UNCHANGED <<queue, running, wreq, hpc>>
    BY <1>4 DEF Finish, qVars, hVars
  <2>2. /\ \A v \in Worker : /\ Working(v)' <=> Working(v)
                             /\ v # w => wpc'[v] = wpc[v]
                             /\ wpc'[w] = "erase"
        /\ \A q \in Request : Admitted(q)' <=> Admitted(q)
        /\ Queued' = Queued
    BY <2>1 DEF Working, InCall, CallPc, Admitted, Queued, OwnInv, TypeOK
  <2>3. wreq[w] \in running /\ wreq[w] \in Request /\ wreq[w] \notin Queued /\ Working(w)
    BY <2>1 DEF Working, InCall, CallPc, OwnInv, Employed, Owners
  <2>4. \A q \in Request : finished'[q] <=> finished[q] \/ q = wreq[w]
    BY <2>1 DEF OwnInv, TypeOK
  <2>5. \A v \in Worker : Working(v) => wreq[v] \in Request
    BY DEF OwnInv, Employed
  <2>6. \A v \in Worker : Working(v)' => (finished'[wreq'[v]] <=> wpc'[v] = "erase")
    BY <2>1, <2>2, <2>3, <2>4, <2>5 DEF OwnInv, Owners
  <2>7. running' = {wreq'[x] : x \in {v \in Worker : Working(v)'}}
    BY <2>1, <2>2 DEF OwnInv, Owners
  <2>8. running \subseteq Request /\ Queued \subseteq Request
    BY QueuedFacts DEF OwnInv, TypeOK
  <2>9. Owners'
    BY <2>1, <2>2, <2>3, <2>4, <2>6, <2>7, <2>8 DEF OwnInv, Owners
  <2>10. Once'
    BY <2>1 DEF OwnInv, Once
  <2>11. QED
    BY <2>9, <2>10
<1>5. CASE Erase(w)
  <2>1. /\ wpc[w] = "erase" /\ wpc' = [wpc EXCEPT ![w] = "ready"]
        /\ wreq' = [wreq EXCEPT ![w] = NoRequest]
        /\ running' = running \ {wreq[w]}
        /\ UNCHANGED <<queue, finished, hpc>>
    BY <1>5 DEF Erase, reqVars, hVars
  <2>2. /\ \A v \in Worker : /\ Working(v)' <=> Working(v) /\ v # w
                             /\ v # w => wpc'[v] = wpc[v] /\ wreq'[v] = wreq[v]
        /\ \A q \in Request : Admitted(q)' <=> Admitted(q)
        /\ Queued' = Queued
    BY <2>1 DEF Working, InCall, CallPc, Admitted, Queued, OwnInv, TypeOK
  <2>3. Working(w) /\ finished[wreq[w]]
    BY <2>1 DEF Working, InCall, CallPc, OwnInv, Owners
  <2>4. running' = {wreq'[x] : x \in {v \in Worker : Working(v)'}}
    BY <2>1, <2>2, <2>3 DEF OwnInv, Owners
  <2>5. running \subseteq Request /\ Queued \subseteq Request
    BY QueuedFacts DEF OwnInv, TypeOK
  <2>6. Owners'
    BY <2>1, <2>2, <2>3, <2>4, <2>5 DEF OwnInv, Owners
  <2>7. Once'
    BY <2>1 DEF OwnInv, Once
  <2>8. QED
    BY <2>6, <2>7
<1>6. QED
  BY <1>1, <1>2, <1>3, <1>4, <1>5, WorkCases

LEMMA OwnStop ==
  ASSUME OwnInv, Stops
  PROVE  Once' /\ Owners'
<1>1. UNCHANGED <<queue, running, wreq, finished, hpc>>
  BY DEF Stops, StopBegin, StopNotify, StopJoined, qVars, wVars, reqVars, hVars
<1>2. \A w \in Worker : (Working(w)' <=> Working(w)) /\ (wpc'[w] = "erase" <=> wpc[w] = "erase")
  BY DEF Stops, StopBegin, StopNotify, StopJoined, WakeAll, wVars, Working, InCall, CallPc, OwnInv,
     TypeOK
<1>3. \A q \in Request : (Admitted(q)' <=> Admitted(q)) /\ (hpc'[q] \in {"answer", "done"} => finished[q])
  BY <1>1 DEF Admitted, OwnInv, Owners
<1>4. QED
  BY <1>1, <1>2, <1>3, OwnersStay

LEMMA RoomStep == OwnInv /\ [Next]_vars => Room'
<1>1. SUFFICES ASSUME OwnInv, [Next]_vars PROVE Room'
  OBVIOUS
<1>2. ASSUME ntok' = ntok,
             \A w \in Worker : wpc'[w] = "tok" => wpc[w] = "tok" /\ wreq'[w] = wreq[w]
      PROVE  Room'
  BY <1>1, <1>2 DEF OwnInv, Room
<1>3. ASSUME NEW r \in Request, Handles(r) \/ ClientLeaves(r) PROVE Room'
  <2>1. ntok' = ntok /\ wreq' = wreq
    BY <1>3 DEF Handles, BeginStream, Submit, NotifyOne, SetSink, Poll, Answer, Reply,
         ClientLeaves, wVars, reqVars
  <2>2. \A w \in Worker : wpc'[w] = "tok" => wpc[w] = "tok"
    BY <1>1, <1>3 DEF Handles, BeginStream, Submit, NotifyOne, SetSink, Poll, Answer, Reply,
         ClientLeaves, wVars, OwnInv, TypeOK
  <2>3. QED
    BY <1>2, <2>1, <2>2
<1>4. ASSUME NEW w \in Worker, CallSteps(w) PROVE Room'
  <2>1. UNCHANGED wreq /\ Working(w) /\ wreq[w] \in Request
    BY <1>1, <1>4, CallFrame DEF Working, InCall, CallPc, OwnInv, Employed
  <2>2. ASSUME NEW v \in Worker, v # w, wpc'[v] = "tok" PROVE ntok'[wreq[v]] < MaxTokens
    <3>1. wpc[v] = "tok" /\ Working(v) /\ wreq[v] \in Request
      BY <1>1, <1>4, <2>2, CallFrame DEF Working, InCall, CallPc, OwnInv, TypeOK, Employed
    <3>2. wreq[v] # wreq[w]
      BY <1>1, <2>1, <2>2, <3>1 DEF OwnInv, Owners
    <3>3. ntok'[wreq[v]] = ntok[wreq[v]]
      BY <1>1, <1>4, <3>1, <3>2, CallFrame DEF OwnInv
    <3>4. QED
      BY <1>1, <3>1, <3>3 DEF OwnInv, Room
  <2>3. ASSUME wpc'[w] = "tok" PROVE ntok'[wreq[w]] < MaxTokens
    <3>1. CASE TokenPasses(w)
      BY <3>1 DEF TokenPasses, reqVars
    <3>2. CASE ~TokenPasses(w)
      BY <1>1, <1>4, <2>3, <3>2 DEF CallSteps, Generates, Writes, Token_cb, TokenCancelled,
           SinkAccepts, SinkWrites, SinkRefuses, Refuse, GenReturns, Flush, WriteReturns,
           WriteFails, TailReturns, OwnInv, TypeOK
    <3>3. QED
      BY <3>1, <3>2
  <2>4. QED
    BY <2>1, <2>2, <2>3 DEF Room
<1>5. ASSUME NEW w \in Worker,
             Sleep(w) \/ SpuriousWake(w) \/ Drain(w) \/ Pop(w) \/ Finish(w) \/ Erase(w)
      PROVE  Room'
  <2>1. ntok' = ntok /\ \E b \in WPc \ {"tok"} : wpc' = [wpc EXCEPT ![w] = b]
    BY <1>5 DEF Sleep, SpuriousWake, Drain, Pop, Finish, Erase, reqVars, WPc
  <2>2. \A v \in Worker : v # w => wreq'[v] = wreq[v]
    BY <1>1, <1>5 DEF Sleep, SpuriousWake, Drain, Pop, Finish, Erase, OwnInv, TypeOK
  <2>3. \A v \in Worker : wpc'[v] = "tok" => wpc[v] = "tok" /\ v # w
    BY <1>1, <2>1 DEF OwnInv, TypeOK
  <2>4. QED
    BY <1>2, <2>1, <2>2, <2>3
<1>6. CASE Stops \/ UNCHANGED vars
  BY <1>1, <1>2, <1>6 DEF Stops, StopBegin, StopNotify, WakeAll, StopJoined, vars, wVars, reqVars,
       OwnInv, TypeOK
<1>7. QED
  BY <1>1, <1>3, <1>4, <1>5, <1>6, WorkCases DEF Next

LEMMA OwnStep == OwnInv /\ [Next]_vars => OwnInv'
<1>1. SUFFICES ASSUME OwnInv, [Next]_vars PROVE OwnInv'
  OBVIOUS
<1>2. TypeOK' /\ Employed' /\ Room'
  BY <1>1, TypeStep, RoomStep DEF OwnInv
<1>3. CASE UNCHANGED vars
  <2>1. UNCHANGED <<queue, running, wreq, finished, wpc, hpc>>
    BY <1>3 DEF vars, qVars, wVars, reqVars, hVars
  <2>2. \A r \in Request : hpc[r] \in {"answer", "done"} => finished[r]
    BY <1>1 DEF OwnInv, Owners
  <2>3. Once' /\ Owners'
    BY <1>1, <2>1, <2>2, OwnersStay DEF Working, InCall, CallPc, Admitted
  <2>4. QED
    BY <1>2, <2>3 DEF OwnInv
<1>4. CASE Next
  <2>1. Once' /\ Owners'
    BY <1>1, <1>4, OwnHandler, OwnWorker, OwnStop DEF Next
  <2>2. QED
    BY <1>2, <2>1 DEF OwnInv
<1>5. QED
  BY <1>1, <1>3, <1>4

LEMMA OwnInvariant == Spec => []OwnInv
<1>1. Init => OwnInv
  BY TypeInit, OwnInit DEF OwnInv, Init, Room
<1>2. QED
  BY <1>1, OwnStep, PTL DEF Spec

-----------------------------------------------------------------------------

\* Every variable keeps its type, the tokens counted stay within the budget, and a request
\* has a reason exactly when it is finished (GenRequest, scheduler.h).
THEOREM TypeCorrect == Spec => []TypeOK
<1>1. OwnInv => TypeOK
  BY DEF OwnInv
<1>2. QED
  BY <1>1, OwnInvariant, PTL

\* Whatever the number of workers and requests: an admitted request is queued once, or
\* with one worker, or finished, and running_ is what the workers hold (submit,
\* worker_loop and stop of scheduler.cpp).
THEOREM OneOwnerHolds == Spec => []OneOwner
<1>1. ASSUME OwnInv PROVE OneOwner
  <2>1. Queued \subseteq Request
    BY <1>1, QueuedFacts DEF OwnInv, TypeOK
  <2>2. QED
    BY <1>1, <2>1 DEF OwnInv, Once, Owners, OneOwner
<1>2. QED
  BY <1>1, OwnInvariant, PTL

\* No worker calls the sink of a handler that has returned (on_token in qf_server.cpp).
THEOREM SinkInFrameHolds == Spec => []SinkInFrame
<1>1. ASSUME OwnInv PROVE SinkInFrame
  <2>1. SUFFICES ASSUME NEW w \in Worker, InCall(w) PROVE hpc[wreq[w]] # "done"
    BY DEF SinkInFrame
  <2>2. Working(w) /\ wpc[w] # "erase"
    BY <2>1 DEF Working, InCall, CallPc
  <2>3. wreq[w] \in Request /\ ~finished[wreq[w]]
    BY <1>1, <2>2 DEF OwnInv, Employed, Owners
  <2>4. QED
    BY <1>1, <2>3 DEF OwnInv, Owners
<1>2. QED
  BY <1>1, OwnInvariant, PTL

-----------------------------------------------------------------------------
(* Answers, and what stop() does to the requests being worked on. *)

LEMMA OwnFacts ==
  ASSUME OwnInv
  PROVE  /\ \A w \in Worker : Working(w) => wreq[w] \in Request /\ wreq[w] \in running
         /\ \A w \in Worker : Working(w) => (finished[wreq[w]] <=> wpc[w] = "erase")
         /\ \A v, w \in Worker : Working(v) /\ Working(w) /\ wreq[v] = wreq[w] => v = w
         /\ running \subseteq Request /\ Queued \subseteq Request
         /\ \A r \in running : \E w \in Worker : Working(w) /\ wreq[w] = r
BY QueuedFacts DEF OwnInv, TypeOK, Employed, Owners

-----------------------------------------------------------------------------
(* stop() reaches every request that is being worked on. *)

Reached == stopping => \A w \in Worker : Working(w) => cancel[wreq[w]]

\* A step that cancels nobody back and gives no worker a request.
LEMMA ReachedStays ==
  ASSUME OwnInv, Reached, stopping' = stopping,
         \A w \in Worker : Working(w)' => Working(w) /\ wreq'[w] = wreq[w],
         \A r \in Request : cancel[r] => cancel'[r]
  PROVE  Reached'
BY OwnFacts DEF Reached

LEMMA ReachedStep == OwnInv /\ Reached /\ [Next]_vars => Reached'
<1>1. SUFFICES ASSUME OwnInv, Reached, [Next]_vars PROVE Reached'
  OBVIOUS
<1>2. ASSUME NEW r \in Request, Handles(r) \/ ClientLeaves(r) PROVE Reached'
  <2>1. UNCHANGED <<stopping, wreq>>
    BY <1>2 DEF Handles, BeginStream, Submit, NotifyOne, SetSink, Poll, Answer, Reply, ClientLeaves,
         qVars, wVars, reqVars
  <2>2. \A w \in Worker : Working(w)' => Working(w)
    <3>1. CASE NotifyOne(r)
      BY <1>1, <3>1 DEF NotifyOne, Sleepers, Working, InCall, CallPc, OwnInv, TypeOK
    <3>2. CASE ~NotifyOne(r)
      BY <1>2, <3>2 DEF Handles, BeginStream, Submit, SetSink, Poll, Answer, Reply, ClientLeaves,
           wVars, Working, InCall, CallPc
    <3>3. QED
      BY <3>1, <3>2
  <2>3. \A q \in Request : cancel[q] => cancel'[q]
    BY <1>1, <1>2 DEF Handles, BeginStream, Submit, NotifyOne, SetSink, Poll, Answer, Reply,
       ClientLeaves,
         reqVars, OwnInv, TypeOK
  <2>4. QED
    BY <1>1, <2>1, <2>2, <2>3, ReachedStays
<1>3. ASSUME NEW w \in Worker, Works(w) \/ SpuriousWake(w) PROVE Reached'
  <2>1. CASE Pop(w)
    BY <2>1 DEF Pop, Reached
  <2>2. CASE Erase(w)
    <3>1. /\ wpc' = [wpc EXCEPT ![w] = "ready"] /\ wreq' = [wreq EXCEPT ![w] = NoRequest]
          /\ UNCHANGED <<stopping, cancel>>
      BY <2>2 DEF Erase, reqVars
    <3>2. \A v \in Worker : Working(v)' => Working(v) /\ wreq'[v] = wreq[v]
      BY <1>1, <3>1 DEF Working, InCall, CallPc, OwnInv, TypeOK
    <3>3. QED
      BY <1>1, <3>1, <3>2, ReachedStays
  <2>3. CASE Sleep(w) \/ SpuriousWake(w) \/ Drain(w)
    <3>1. /\ UNCHANGED <<stopping, cancel, wreq>> /\ wpc[w] \in {"ready", "sleep"}
          /\ \E b \in {"ready", "sleep", "exited"} : wpc' = [wpc EXCEPT ![w] = b]
      BY <2>3 DEF Sleep, SpuriousWake, Drain, qVars, reqVars
    <3>2. \A v \in Worker : Working(v)' => Working(v)
      BY <1>1, <3>1 DEF Working, InCall, CallPc, OwnInv, TypeOK
    <3>3. QED
      BY <1>1, <3>1, <3>2, ReachedStays
  <2>4. CASE CallSteps(w) \/ Finish(w)
    <3>1. UNCHANGED <<stopping, wreq>> /\ Working(w)
      BY <2>4, CallFrame DEF Finish, qVars, Working, InCall, CallPc
    <3>2. \E b \in WPc : wpc' = [wpc EXCEPT ![w] = b]
      BY <2>4, CallFrame DEF Finish, WPc, CallPc
    <3>3. \A v \in Worker : Working(v)' => Working(v)
      BY <1>1, <3>1, <3>2 DEF Working, InCall, CallPc, OwnInv, TypeOK
    <3>4. \A q \in Request : cancel[q] => cancel'[q]
      <4>1. cancel' = cancel \/ cancel' = [cancel EXCEPT ![wreq[w]] = TRUE]
        BY <2>4, CallFrame DEF Finish
      <4>2. QED
        BY <1>1, <4>1 DEF OwnInv, TypeOK
    <3>5. QED
      BY <1>1, <3>1, <3>3, <3>4, ReachedStays
  <2>5. QED
    BY <1>3, <2>1, <2>2, <2>3, <2>4, WorkCases
<1>4. CASE StopBegin
  <2>1. /\ UNCHANGED <<wpc, wreq>>
        /\ cancel' = [r \in Request |-> cancel[r] \/ r \in Stopped]
    BY <1>4 DEF StopBegin, wVars
  <2>2. \A w \in Worker : Working(w) => cancel'[wreq[w]]
    BY <1>1, <2>1, OwnFacts DEF Stopped
  <2>3. QED
    BY <2>1, <2>2 DEF Reached, Working, InCall, CallPc
<1>5. CASE StopNotify \/ StopJoined \/ UNCHANGED vars
  <2>1. UNCHANGED <<stopping, wreq, cancel>>
    BY <1>5 DEF StopNotify, StopJoined, vars, qVars, wVars, reqVars
  <2>2. \A w \in Worker : Working(w)' => Working(w)
    BY <1>1, <1>5 DEF StopNotify, WakeAll, StopJoined, vars, wVars, Working, InCall, CallPc,
       OwnInv, TypeOK
  <2>3. QED
    BY <1>1, <2>1, <2>2, ReachedStays
<1>6. QED
  BY <1>1, <1>2, <1>3, <1>4, <1>5 DEF Next, Stops

\* What stop() allows a step to do about the tokens of a request.
Prompt(r) == /\ Passed(r)' => Passed(r)
             /\ ntok'[r] # ntok[r] => Passed(r) /\ ~Passed(r)'

LEMMA PromptCall ==
  ASSUME OwnInv, Reached, stopping, NEW w \in Worker, CallSteps(w), NEW r \in Request
  PROVE  Prompt(r)
<1>1. /\ wreq' = wreq /\ Working(w) /\ wreq[w] \in Request
      /\ \A v \in Worker : v # w => wpc'[v] = wpc[v]
  BY CallFrame DEF Working, InCall, CallPc, OwnInv, TypeOK, Employed
<1>2. CASE Token_cb(w)
  <2>1. /\ wpc[w] = "tok" /\ wpc'[w] # "tok"
        /\ \A q \in Request : q # wreq[w] => ntok'[q] = ntok[q]
    BY <1>2 DEF Token_cb, OwnInv, TypeOK
  <2>2. \A v \in Worker : wpc'[v] = "tok" => v # w /\ wpc[v] = "tok" /\ Working(v)
    BY <1>1, <2>1 DEF Working, InCall, CallPc
  <2>3. \A v \in Worker : wpc'[v] = "tok" => wreq[v] # wreq[w]
    BY <1>1, <2>2 DEF OwnInv, Owners
  <2>4. QED
    BY <1>1, <2>1, <2>2, <2>3 DEF Prompt, Passed
<1>3. CASE TokenPasses(w)
  BY <1>1, <1>3 DEF Reached, TokenPasses
<1>4. CASE ~Token_cb(w) /\ ~TokenPasses(w)
  <2>1. ntok' = ntok /\ wpc'[w] # "tok"
    BY <1>4 DEF CallSteps, Generates, Writes, TokenCancelled, SinkAccepts, SinkWrites,
         SinkRefuses, Refuse, GenReturns, Flush, WriteReturns, WriteFails, TailReturns, reqVars,
         OwnInv, TypeOK
  <2>2. QED
    BY <1>1, <2>1 DEF Prompt, Passed
<1>5. QED
  BY <1>2, <1>3, <1>4

LEMMA PromptElse ==
  ASSUME OwnInv, Next, \A w \in Worker : ~CallSteps(w), stopping, NEW r \in Request
  PROVE  Prompt(r)
<1>1. SUFFICES /\ ntok' = ntok
               /\ \A w \in Worker : wpc'[w] = "tok" => wpc[w] = "tok" /\ wreq'[w] = wreq[w]
  BY DEF Prompt, Passed
<1>2. ASSUME NEW q \in Request, Handles(q) \/ ClientLeaves(q)
      PROVE  /\ ntok' = ntok /\ wreq' = wreq
             /\ \A w \in Worker : wpc'[w] = "tok" => wpc[w] = "tok"
  BY <1>2 DEF Handles, BeginStream, Submit, NotifyOne, SetSink, Poll, Answer, Reply, ClientLeaves,
       wVars, reqVars, OwnInv, TypeOK
<1>3. ASSUME NEW w \in Worker,
             Sleep(w) \/ SpuriousWake(w) \/ Drain(w) \/ Pop(w) \/ Finish(w) \/ Erase(w)
      PROVE  /\ ntok' = ntok
             /\ \A v \in Worker : wpc'[v] = "tok" => wpc[v] = "tok" /\ wreq'[v] = wreq[v]
  BY <1>3 DEF Sleep, SpuriousWake, Drain, Pop, Finish, Erase, reqVars, OwnInv, TypeOK
<1>4. CASE Stops
  BY <1>4 DEF Stops, StopBegin, StopNotify, WakeAll, StopJoined, wVars, reqVars, OwnInv, TypeOK
<1>5. QED
  BY <1>2, <1>3, <1>4, WorkCases DEF Next

\* Once stop() has begun no callback passes the look at `cancel' (scheduler.cpp:132), so
\* every request counts at most the token whose callback had passed it by then, for any
\* number of workers: "cancels in-flight work" (scheduler.h:90).
THEOREM StopIsPromptHolds == Spec => StopIsPrompt
<1>1. Init => Reached
  BY DEF Init, Reached
<1>2. OwnInv /\ Reached /\ [Next]_vars =>
        [stopping => \A r \in Request : /\ Passed(r)' => Passed(r)
                                        /\ ntok'[r] # ntok[r] => Passed(r) /\ ~Passed(r)']_vars
  <2>1. ASSUME OwnInv, Reached, Next, stopping, NEW r \in Request PROVE Prompt(r)
    BY <2>1, PromptCall, PromptElse
  <2>2. QED
    BY <2>1 DEF Prompt
<1>3. QED
  BY <1>1, <1>2, OwnInvariant, ReachedStep, PTL DEF Spec, StopIsPrompt

-----------------------------------------------------------------------------
(* Before stop() a request is cancelled by its client's leaving alone. *)

Gone == ~stopping => \A r \in Request : /\ cancel[r] => ~alive[r]
                                        /\ reason[r] = "cancelled" => cancel[r]

\* A step that cancels nobody and gives nobody a reason.
LEMMA GoneStays ==
  ASSUME TypeOK, Gone, UNCHANGED <<stopping, cancel, reason>>,
         \A r \in Request : ~alive[r] => ~alive'[r]
  PROVE  Gone'
BY DEF Gone

LEMMA GoneStep == OwnInv /\ Gone /\ [Next]_vars => Gone'
<1>1. SUFFICES ASSUME OwnInv, Gone, [Next]_vars PROVE Gone'
  OBVIOUS
<1>2. ASSUME NEW r \in Request, Handles(r) \/ ClientLeaves(r) PROVE Gone'
  <2>1. CASE Poll(r)
    BY <1>1, <2>1 DEF Poll, hVars, qVars, Gone, OwnInv, TypeOK
  <2>2. CASE ClientLeaves(r)
    BY <1>1, <2>2 DEF ClientLeaves, qVars, reqVars, Gone, OwnInv, TypeOK
  <2>3. CASE \/ BeginStream(r) \/ Submit(r) \/ NotifyOne(r) \/ SetSink(r) \/ Answer(r)
             \/ Reply(r)
    <3>1. UNCHANGED <<stopping, cancel, reason, alive>>
      BY <2>3 DEF BeginStream, Submit, NotifyOne, SetSink, Answer, Reply, qVars, reqVars
    <3>2. QED
      BY <1>1, <3>1, GoneStays DEF OwnInv
  <2>4. QED
    BY <1>2, <2>1, <2>2, <2>3 DEF Handles
<1>3. ASSUME NEW w \in Worker, Works(w) \/ SpuriousWake(w) PROVE Gone'
  <2>1. CASE SinkRefuses(w) \/ WriteFails(w)
    <3>1. /\ wreq[w] \in Request
          /\ cancel[wreq[w]] \/ ~alive[wreq[w]]
          /\ cancel' = [cancel EXCEPT ![wreq[w]] = TRUE]
          /\ UNCHANGED <<stopping, reason, alive>>
      BY <1>1, <2>1, OwnFacts DEF SinkRefuses, WriteFails, Refuse, Working, InCall, CallPc, qVars,
         hVars
    <3>2. QED
      BY <1>1, <3>1 DEF Gone, OwnInv, TypeOK
  <2>2. CASE Finish(w)
    <3>1. /\ wreq[w] \in Request
          /\ reason' = [reason EXCEPT ![wreq[w]] = ReasonOf(w)]
          /\ UNCHANGED <<stopping, cancel, alive>>
      BY <1>1, <2>2, OwnFacts DEF Finish, Working, InCall, CallPc, qVars, hVars
    <3>2. ReasonOf(w) = "cancelled" => cancel[wreq[w]]
      BY <1>1, <3>1 DEF ReasonOf, OwnInv, TypeOK
    <3>3. QED
      BY <1>1, <3>1, <3>2 DEF Gone, OwnInv, TypeOK
  <2>3. CASE Drain(w)
    BY <2>3 DEF Drain, Gone
  <2>4. CASE \/ Sleep(w) \/ SpuriousWake(w) \/ Pop(w) \/ Erase(w)
             \/ CallSteps(w) /\ ~SinkRefuses(w) /\ ~WriteFails(w)
    <3>1. UNCHANGED <<stopping, cancel, reason, alive>>
      BY <2>4 DEF CallSteps, Generates, Writes, Sleep, SpuriousWake, Pop, TokenPasses, Token_cb,
           TokenCancelled, SinkAccepts, SinkWrites, GenReturns, Flush, WriteReturns, TailReturns,
           Erase, qVars, reqVars, hVars
    <3>2. QED
      BY <1>1, <3>1, GoneStays DEF OwnInv
  <2>5. QED
    BY <1>3, <2>1, <2>2, <2>3, <2>4, WorkCases
<1>4. CASE StopBegin
  BY <1>4 DEF StopBegin, Gone
<1>5. CASE StopNotify \/ StopJoined \/ UNCHANGED vars
  <2>1. UNCHANGED <<stopping, cancel, reason, alive>>
    BY <1>5 DEF StopNotify, StopJoined, vars, qVars, reqVars, hVars
  <2>2. QED
    BY <1>1, <2>1, GoneStays DEF OwnInv
<1>6. QED
  BY <1>1, <1>2, <1>3, <1>4, <1>5 DEF Next, Stops

LEMMA GoneInvariant == Spec => []Gone
<1>1. Init => Gone
  BY DEF Init, Gone
<1>2. QED
  BY <1>1, OwnInvariant, GoneStep, PTL DEF Spec

\* Before stop() an answer "cancelled" is given only where the client has left, so that
\* serve_stream and serve_blocking may send nothing (qf_server.cpp:421).
THEOREM CancelledIsGoneHolds == Spec => []CancelledIsGone
<1>1. OwnInv /\ Gone => CancelledIsGone
  BY DEF Gone, CancelledIsGone
<1>2. QED
  BY <1>1, OwnInvariant, GoneInvariant, PTL

-----------------------------------------------------------------------------
(* The text of a stream: what the client has, what is held back and what is *)
(* on its way to the sink are the tokens counted so far.                    *)

Kept(r) == r \notin Blocking /\ ~stopping /\ alive[r]

Whole(r) ==
  Kept(r) =>
    /\ hpc[r] # "new" => sink[r]
    /\ ~finished[r] /\ r \notin running => ntok[r] = 0 /\ held[r] = {} /\ text[r] = {}
    /\ finished[r] => text[r] = 1 .. ntok[r]
    /\ \A w \in Worker : Working(w) /\ wreq[w] = r =>
         /\ wpc[w] \in {"gen", "tok", "flush", "tail"} => text[r] \cup held[r] = 1 .. ntok[r]
         /\ wpc[w] \in {"sink", "send"} => text[r] \cup held[r] \cup outbox[w] = 1 .. ntok[r]
         /\ wpc[w] \in {"fin", "erase"} => text[r] = 1 .. ntok[r]

Texts == \A r \in Request : Whole(r)

\* A step that leaves alone request r and who works on it.
LEMMA WholeStays ==
  ASSUME OwnInv, NEW r \in Request, Whole(r), Kept(r)' => Kept(r),
         hpc'[r] # "new" => hpc[r] # "new" \/ sink'[r], sink[r] => sink'[r],
         finished'[r] = finished[r], r \in running' <=> r \in running,
         ntok'[r] = ntok[r], held'[r] = held[r], text'[r] = text[r],
         \A w \in Worker : Working(w)' /\ wreq'[w] = r =>
           /\ wreq[w] = r /\ wpc'[w] = wpc[w] /\ outbox'[w] = outbox[w]
  PROVE  Whole(r)'
<1>1. \A w \in Worker : Working(w)' /\ wreq'[w] = r => Working(w)
  BY DEF Working, InCall, CallPc
<1>2. QED
  BY <1>1 DEF Whole

LEMMA TextsHandler ==
  ASSUME OwnInv, Texts, NEW q \in Request, Handles(q) \/ ClientLeaves(q), NEW r \in Request
  PROVE  Whole(r)'
<1>1. UNCHANGED <<running, finished, stopping, wreq, outbox, ntok, held, text>>
  BY DEF Handles, BeginStream, Submit, NotifyOne, SetSink, Poll, Answer, Reply, ClientLeaves,
     qVars, wVars, reqVars
<1>2. \A w \in Worker : Working(w)' => wpc'[w] = wpc[w]
  BY DEF Handles, BeginStream, Submit, NotifyOne, SetSink, Poll, Answer, Reply, ClientLeaves,
     Sleepers,
     wVars, Working, InCall, CallPc, OwnInv, TypeOK
<1>3. Kept(r)' => Kept(r)
  BY <1>1 DEF Handles, BeginStream, Submit, NotifyOne, SetSink, Poll, Answer, Reply, ClientLeaves,
     hVars,
     Kept, OwnInv, TypeOK
<1>4. /\ sink[r] => sink'[r]
      /\ hpc'[r] # "new" /\ r \notin Blocking => hpc[r] # "new" \/ sink'[r]
  BY DEF Handles, BeginStream, Submit, MaySubmit, NotifyOne, SetSink, Poll, Answer, Reply,
     ClientLeaves,
     hVars, reqVars, OwnInv, TypeOK
<1>5. CASE r \notin Blocking
  <2>1. Whole(r)
    BY DEF Texts
  <2>2. QED
    BY <1>1, <1>2, <1>3, <1>4, <1>5, <2>1, WholeStays
<1>6. CASE r \in Blocking
  BY <1>6 DEF Whole, Kept
<1>7. QED
  BY <1>5, <1>6

\* What a step of worker w can touch is the request it works on.
LEMMA TextsOther ==
  ASSUME OwnInv, Texts, NEW w \in Worker, Works(w) \/ SpuriousWake(w), ~Drain(w), ~Pop(w),
         NEW r \in Request, ~(Working(w) /\ wreq[w] = r)
  PROVE  Whole(r)'
<1>1. UNCHANGED <<hpc, alive, stopping, sink>>
  BY WorkCases, CallFrame DEF Sleep, SpuriousWake, Finish, Erase, qVars, reqVars, hVars
<1>2. ASSUME NEW v \in Worker, v # w
      PROVE  wpc'[v] = wpc[v] /\ wreq'[v] = wreq[v] /\ outbox'[v] = outbox[v]
  <2>1. TypeOK
    BY DEF OwnInv
  <2>2. CASE CallSteps(w)
    <3>1. wreq' = wreq /\ outbox'[v] = outbox[v] /\ \E b \in CallPc : wpc' = [wpc EXCEPT ![w] = b]
      BY <1>2, <2>1, <2>2, CallFrame
    <3>2. QED
      BY <1>2, <2>1, <3>1 DEF TypeOK
  <2>3. CASE Sleep(w) \/ SpuriousWake(w) \/ Finish(w) \/ Erase(w)
    BY <1>2, <2>1, <2>3 DEF Sleep, SpuriousWake, Finish, Erase, TypeOK
  <2>4. QED
    BY <2>2, <2>3, WorkCases
<1>3. CASE Sleep(w) \/ SpuriousWake(w)
  <2>1. /\ UNCHANGED <<finished, running, ntok, held, text, outbox, wreq>>
        /\ wpc'[w] \in {"sleep", "ready"}
    BY <1>3 DEF Sleep, SpuriousWake, qVars, reqVars, OwnInv, TypeOK
  <2>2. ~Working(w)'
    BY <2>1 DEF Working, InCall, CallPc
  <2>3. QED
    BY <1>1, <1>2, <2>1, <2>2, WholeStays DEF Texts, Kept
<1>4. CASE CallSteps(w) \/ Finish(w) \/ Erase(w)
  <2>1. Working(w)
    BY <1>4, CallFrame DEF Finish, Erase, Working, InCall, CallPc
  <2>2. wreq[w] # r /\ wreq[w] \in Request
    BY <2>1, OwnFacts
  <2>3. finished'[r] = finished[r] /\ ntok'[r] = ntok[r] /\ held'[r] = held[r] /\ text'[r] = text[r]
    BY <1>4, <2>2, CallFrame DEF Finish, Erase, reqVars, OwnInv, TypeOK
  <2>4. r \in running' <=> r \in running
    BY <1>4, <2>2, CallFrame DEF Finish, Erase, qVars
  <2>5. wreq'[w] # r
    BY <1>4, <2>2, ConstantFacts, CallFrame DEF Finish, Erase, OwnInv, TypeOK
  <2>6. QED
    BY <1>1, <1>2, <2>3, <2>4, <2>5, WholeStays DEF Texts, Kept
<1>5. QED
  BY <1>3, <1>4, WorkCases

\* The request a worker works on, from the worker's side.
Has(w, r) ==
  /\ wpc[w] \in {"gen", "tok", "flush", "tail"} => text[r] \cup held[r] = 1 .. ntok[r]
  /\ wpc[w] \in {"sink", "send"} => text[r] \cup held[r] \cup outbox[w] = 1 .. ntok[r]
  /\ wpc[w] \in {"fin", "erase"} => text[r] = 1 .. ntok[r]

\* To show that the request in work keeps its text it is enough to look at its worker.
LEMMA WholeOwn ==
  ASSUME OwnInv, OwnInv', NEW w \in Worker, Working(w), Working(w)', NEW r \in Request, r = wreq[w],
         UNCHANGED <<wreq, running, hpc>>, sink'[r] = sink[r], Kept(r)' => Kept(r),
         finished'[r] => text'[r] = 1 .. ntok'[r], Whole(r), Kept(r)' => Has(w, r)'
  PROVE  Whole(r)'
<1>1. r \in running /\ r \in running'
  BY OwnFacts
<1>2. \A v \in Worker : Working(v)' /\ wreq'[v] = r => v = w
  BY DEF OwnInv, Owners
<1>3. QED
  BY <1>1, <1>2 DEF Whole, Has

LEMMA TextsOwn ==
  ASSUME OwnInv, OwnInv', Gone, Texts, NEW w \in Worker, Works(w), Working(w),
         NEW r \in Request, r = wreq[w]
  PROVE  Whole(r)'
<1>2. r \in Request /\ Whole(r) /\ (finished[r] <=> wpc[w] = "erase") /\ r \in running
  BY OwnFacts DEF Texts
<1>3. Kept(r) => hpc[r] # "new" /\ sink[r] /\ Has(w, r) /\ ~cancel[r]
  <2>1. hpc[r] # "new"
    BY <1>2 DEF OwnInv, Owners, Admitted
  <2>2. QED
    BY <1>2, <2>1 DEF Whole, Has, Kept, Gone
<1>4. /\ ntok[r] \in 0 .. MaxTokens /\ MaxTokens \in Nat
      /\ held[r] \subseteq Token /\ text[r] \subseteq Token
  BY <1>2, ConstantFacts DEF OwnInv, TypeOK
<1>5. CASE Erase(w)
  <2>1. /\ wpc[w] = "erase" /\ UNCHANGED <<hpc, alive, stopping, sink, finished, ntok, held, text>>
        /\ finished[r]
    BY <1>2, <1>5 DEF Erase, reqVars, hVars
  <2>2. \A v \in Worker : ~(Working(v)' /\ wreq'[v] = r)
    <3>1. wpc' = [wpc EXCEPT ![w] = "ready"] /\ wreq' = [wreq EXCEPT ![w] = NoRequest]
      BY <1>5 DEF Erase
    <3>2. \A v \in Worker : Working(v) /\ wreq[v] = r => v = w
      BY OwnFacts
    <3>3. QED
      BY <3>1, <3>2 DEF Working, InCall, CallPc, OwnInv, TypeOK
  <2>3. QED
    BY <1>2, <2>1, <2>2 DEF Whole, Kept
<1>6. CASE ~Erase(w)
  <2>1. UNCHANGED <<wreq, running, hpc, sink, alive, stopping>> /\ Working(w)'
    BY <1>6, WorkCases, CallFrame DEF Sleep, SpuriousWake, Drain, Pop, Finish, Working, InCall,
       CallPc,
       qVars, reqVars, hVars, OwnInv, TypeOK
  <2>2. Kept(r)' => Kept(r)
    BY <2>1 DEF Kept
  <2>3. Kept(r) => Has(w, r)'
    <3>1. CASE Token_cb(w)
      <4>1. PICK h \in {{}, {ntok[r] + 1}, held[r] \cup {ntok[r] + 1}} :
              /\ held' = [held EXCEPT ![r] = h]
              /\ outbox' = [outbox EXCEPT ![w] = (held[r] \cup {ntok[r] + 1}) \ h]
              /\ wpc' = [wpc EXCEPT ![w] =
                           IF (held[r] \cup {ntok[r] + 1}) \ h = {} THEN "gen" ELSE "sink"]
        BY <3>1 DEF Token_cb
      <4>2. wpc[w] = "tok" /\ ntok' = [ntok EXCEPT ![r] = ntok[r] + 1] /\ text' = text
        BY <3>1 DEF Token_cb
      <4>3. /\ held'[r] = h /\ outbox'[w] = (held[r] \cup {ntok[r] + 1}) \ h
            /\ ntok'[r] = ntok[r] + 1 /\ text'[r] = text[r]
            /\ wpc'[w] = IF outbox'[w] = {} THEN "gen" ELSE "sink"
        BY <1>2, <4>1, <4>2 DEF OwnInv, TypeOK
      <4>4. h \subseteq held[r] \cup {ntok[r] + 1}
        OBVIOUS
      <4>5. 1 .. ntok'[r] = (1 .. ntok[r]) \cup {ntok[r] + 1}
        BY <1>4, <4>3
      <4>6. Kept(r) => text'[r] \cup held'[r] \cup outbox'[w] = 1 .. ntok'[r]
        BY <1>3, <4>2, <4>3, <4>4, <4>5 DEF Has
      <4>7. QED
        BY <4>3, <4>6 DEF Has
    <3>2. CASE TokenPasses(w) \/ TokenCancelled(w) \/ GenReturns(w)
      <4>1. wpc[w] = "gen" /\ wpc'[w] \in {"tok", "flush"} /\ UNCHANGED <<text, held, ntok>>
        BY <3>2 DEF TokenPasses, TokenCancelled, GenReturns, reqVars, OwnInv, TypeOK
      <4>2. QED
        BY <1>3, <4>1 DEF Has
    <3>3. CASE SinkWrites(w)
      <4>1. wpc[w] = "sink" /\ wpc'[w] = "send" /\ UNCHANGED <<text, held, ntok, outbox>>
        BY <3>3 DEF SinkWrites, reqVars, OwnInv, TypeOK
      <4>2. QED
        BY <1>3, <4>1 DEF Has
    <3>4. CASE SinkAccepts(w) \/ SinkRefuses(w) \/ WriteFails(w)
      BY <1>3, <3>4 DEF SinkAccepts, SinkRefuses, WriteFails, Kept
    <3>5. CASE WriteReturns(w)
      <4>1. wpc[w] = "send" /\ wpc'[w] = "gen" /\ UNCHANGED <<held, ntok>>
        BY <3>5 DEF WriteReturns, OwnInv, TypeOK
      <4>2. Kept(r) => text'[r] = text[r] \cup outbox[w]
        BY <1>2, <3>5 DEF WriteReturns, Kept, OwnInv, TypeOK
      <4>3. QED
        BY <1>3, <4>1, <4>2 DEF Has
    <3>8. CASE Flush(w)
      <4>1. /\ wpc[w] = "flush" /\ UNCHANGED <<held, ntok>>
            /\ wpc'[w] = IF Flushes(r) /\ r \notin Blocking THEN "tail" ELSE "fin"
            /\ r \notin Blocking => text' = text
        BY <3>8 DEF Flush, OwnInv, TypeOK
      <4>2. Kept(r) => /\ text' = text
                       /\ wpc'[w] = "tail" \/ (wpc'[w] = "fin" /\ held[r] = {})
        BY <1>3, <4>1 DEF Flushes, Kept
      <4>3. QED
        BY <1>3, <4>1, <4>2 DEF Has
    <3>9. CASE TailReturns(w)
      <4>1. wpc[w] = "tail" /\ wpc'[w] = "fin" /\ UNCHANGED <<held, ntok>>
        BY <3>9 DEF TailReturns, OwnInv, TypeOK
      <4>2. Kept(r) => text'[r] = text[r] \cup held[r]
        BY <1>2, <1>3, <3>9 DEF TailReturns, Kept, OwnInv, TypeOK
      <4>3. QED
        BY <1>3, <4>1, <4>2 DEF Has
    <3>6. CASE Finish(w)
      <4>1. wpc[w] = "fin" /\ wpc'[w] = "erase" /\ UNCHANGED <<text, ntok>>
        BY <3>6 DEF Finish, OwnInv, TypeOK
      <4>2. QED
        BY <1>3, <4>1 DEF Has
    <3>7. QED
      <4>1. ~Sleep(w) /\ ~Drain(w) /\ ~Pop(w)
        BY DEF Working, InCall, CallPc, Sleep, Drain, Pop
      <4>2. QED
        BY <1>6, <4>1, <3>1, <3>2, <3>3, <3>4, <3>5, <3>6, <3>8, <3>9
        DEF Works, Runs, Generates, Writes
  <2>4. Kept(r) /\ finished'[r] => text'[r] = 1 .. ntok'[r]
    <3>1. finished'[r] => wpc'[w] = "erase"
      BY <2>1 DEF OwnInv, Owners
    <3>2. QED
      BY <2>3, <3>1 DEF Has
  <2>5. CASE Kept(r)'
    BY <1>2, <2>1, <2>2, <2>3, <2>4, <2>5, WholeOwn
  <2>6. CASE ~Kept(r)'
    BY <2>6 DEF Whole
  <2>7. QED
    BY <2>5, <2>6
<1>7. QED
  BY <1>5, <1>6

LEMMA TextsPop ==
  ASSUME OwnInv, Texts, NEW w \in Worker, Pop(w), NEW r \in Request
  PROVE  Whole(r)'
<1>1. PICK q : q = Head(queue)
  OBVIOUS
<1>2. /\ queue # <<>> /\ wpc[w] = "ready"
      /\ wpc' = [wpc EXCEPT ![w] = "gen"] /\ wreq' = [wreq EXCEPT ![w] = q]
      /\ running' = running \cup {q}
      /\ UNCHANGED <<outbox, finished, ntok, held, text, sink, hpc, alive, stopping>>
  BY <1>1 DEF Pop, Taken, reqVars, hVars
<1>3. q \in Queued /\ q \in Request
  BY <1>1, <1>2, QueuedFacts DEF OwnInv, TypeOK
<1>4. q \notin running /\ ~finished[q]
  BY <1>3 DEF OwnInv, Owners
<1>5. \A v \in Worker : v # w => wpc'[v] = wpc[v] /\ wreq'[v] = wreq[v]
  BY <1>2 DEF OwnInv, TypeOK
<1>6. wpc'[w] = "gen" /\ wreq'[w] = q
  BY <1>2 DEF OwnInv, TypeOK
<1>7. Whole(r)
  BY DEF Texts
<1>8. CASE r = q
  <2>1. Kept(r) => ntok[r] = 0 /\ held[r] = {} /\ text[r] = {} /\ (hpc[r] # "new" => sink[r])
    BY <1>4, <1>7, <1>8 DEF Whole
  <2>2. \A v \in Worker : Working(v)' /\ wreq'[v] = r => v = w
    BY <1>4, <1>5, <1>8, OwnFacts DEF Working, InCall, CallPc
  <2>3. 1 .. 0 = {}
    OBVIOUS
  <2>4. QED
    BY <1>2, <1>4, <1>6, <1>8, <2>1, <2>2, <2>3 DEF Whole, Kept
<1>9. CASE r # q
  BY <1>2, <1>5, <1>6, <1>7, <1>9, WholeStays DEF Kept
<1>10. QED
  BY <1>8, <1>9

LEMMA TextsStep == OwnInv /\ OwnInv' /\ Gone /\ Texts /\ [Next]_vars => Texts'
<1>1. SUFFICES ASSUME OwnInv, OwnInv', Gone, Texts, [Next]_vars, NEW r \in Request
               PROVE  Whole(r)'
  BY DEF Texts
<1>2. ASSUME NEW q \in Request, Handles(q) \/ ClientLeaves(q) PROVE Whole(r)'
  BY <1>1, <1>2, TextsHandler
<1>3. ASSUME NEW w \in Worker, Works(w) \/ SpuriousWake(w) PROVE Whole(r)'
  <2>1. CASE Drain(w)
    BY <2>1 DEF Drain, Whole, Kept
  <2>2. CASE Pop(w)
    BY <1>1, <2>2, TextsPop
  <2>3. CASE ~Drain(w) /\ ~Pop(w) /\ ~(Working(w) /\ wreq[w] = r)
    BY <1>1, <1>3, <2>3, TextsOther
  <2>4. CASE Working(w) /\ wreq[w] = r
    <3>1. ~SpuriousWake(w)
      BY <2>4 DEF SpuriousWake, Working, InCall, CallPc
    <3>2. QED
      BY <1>1, <1>3, <2>4, <3>1, TextsOwn
  <2>5. QED
    BY <2>1, <2>2, <2>3, <2>4
<1>4. CASE StopBegin
  BY <1>4 DEF StopBegin, Whole, Kept
<1>5. CASE StopNotify \/ StopJoined \/ UNCHANGED vars
  <2>1. UNCHANGED <<stopping, running, wreq, outbox, finished, ntok, held, text, sink, hpc, alive>>
    BY <1>5 DEF StopNotify, StopJoined, vars, qVars, wVars, reqVars, hVars
  <2>2. \A w \in Worker : Working(w)' => wpc'[w] = wpc[w]
    BY <1>1, <1>5 DEF StopNotify, WakeAll, StopJoined, vars, wVars, Working, InCall, CallPc,
       OwnInv, TypeOK
  <2>3. QED
    BY <1>1, <2>1, <2>2, WholeStays DEF Texts, Kept
<1>6. QED
  BY <1>1, <1>2, <1>3, <1>4, <1>5 DEF Next, Stops

LEMMA TextsInit == Init => Texts
BY DEF Init, Texts, Whole, Working, InCall, CallPc

\* A stream that was finished before stop() and whose client stayed has the text of all the
\* tokens counted for it, none lost where a character was split between two of them
\* (token_cb and the flush of run_request, scheduler.cpp).
THEOREM StreamCompleteHolds == Spec => []StreamComplete
<1>1. OwnInv /\ Texts => StreamComplete
  BY DEF OwnInv, Owners, Texts, Whole, Kept, StreamComplete, Complete
<1>2. Spec => []Texts
  BY TextsInit, TextsStep, OwnInvariant, GoneInvariant, PTL DEF Spec
<1>3. QED
  BY <1>1, <1>2, OwnInvariant, PTL

-----------------------------------------------------------------------------
(* Wakeups. *)

Ready     == {w \in Worker : wpc[w] = "ready"}
Notifying == {r \in Request : hpc[r] = "notify"}

LEMMA CountFacts ==
  /\ IsFiniteSet(Ready) /\ Cardinality(Ready) \in Nat
  /\ IsFiniteSet(Notifying) /\ Cardinality(Notifying) \in Nat
<1>1. IsFiniteSet(Ready) /\ IsFiniteSet(Notifying)
  BY ConstantFacts, FS_Subset DEF Ready, Notifying
<1>2. QED
  BY <1>1, FS_CardinalityType

LEMMA LostIs ==
  NoLostWakeup <=> /\ Sleepers # {} => Len(queue) <= Cardinality(Ready) + Cardinality(Notifying)
                   /\ stopping /\ Sleepers # {} => stpc = "notify"
BY DEF NoLostWakeup, Ready, Notifying

\* A step that wakes nobody, puts nobody to sleep and leaves the queue alone.
LEMMA WakeStays ==
  ASSUME NoLostWakeup, Sleepers' = Sleepers, Ready' = Ready, Notifying' = Notifying,
         UNCHANGED <<queue, stopping, stpc>>
  PROVE  NoLostWakeup'
BY DEF NoLostWakeup, Ready, Notifying

LEMMA WakeHandler ==
  ASSUME TypeOK, NoLostWakeup, NEW r \in Request, Handles(r) \/ ClientLeaves(r)
  PROVE  NoLostWakeup'
<1>1. CASE \/ BeginStream(r) \/ SetSink(r) \/ Poll(r) \/ Answer(r) \/ Reply(r)
           \/ ClientLeaves(r)
  <2>1. UNCHANGED <<wpc, queue, stopping, stpc>>
    BY <1>1 DEF BeginStream, SetSink, Poll, Answer, Reply, ClientLeaves, qVars, wVars
  <2>2. Notifying' = Notifying
    BY <1>1 DEF BeginStream, SetSink, Poll, Answer, Reply, ClientLeaves, hVars, Notifying, TypeOK
  <2>3. QED
    BY <2>1, <2>2, WakeStays DEF Sleepers, Ready
<1>2. CASE Submit(r)
  <2>1. UNCHANGED <<wpc, stopping, stpc>> /\ hpc[r] # "notify"
    BY <1>2 DEF Submit, MaySubmit, wVars
  <2>2. CASE Rejects
    <3>1. queue' = queue /\ Notifying' = Notifying
      BY <1>2, <2>1, <2>2 DEF Submit, Notifying, TypeOK
    <3>2. QED
      BY <2>1, <3>1, WakeStays DEF Sleepers, Ready
  <2>3. CASE ~Rejects
    <3>1. queue' = Append(queue, r) /\ Len(queue') = Len(queue) + 1 /\ Len(queue) \in Nat
      BY <1>2, <2>3 DEF Submit, TypeOK
    <3>2. Notifying' = Notifying \cup {r} /\ r \notin Notifying
      BY <1>2, <2>1, <2>3 DEF Submit, Notifying, TypeOK
    <3>3. Cardinality(Notifying') = Cardinality(Notifying) + 1
      BY <3>2, CountFacts, FS_AddElement
    <3>4. Sleepers' = Sleepers /\ Ready' = Ready
      BY <2>1 DEF Sleepers, Ready
    <3>5. QED
      BY <2>1, <3>1, <3>3, <3>4, CountFacts, LostIs DEF NoLostWakeup, Ready, Notifying
  <2>4. QED
    BY <2>2, <2>3
<1>3. CASE NotifyOne(r)
  <2>1. /\ UNCHANGED <<queue, stopping, stpc>> /\ hpc[r] = "notify"
        /\ hpc' = [hpc EXCEPT ![r] = IF r \in Blocking THEN "sink" ELSE "wait"]
    BY <1>3 DEF NotifyOne, qVars
  <2>2. Notifying' = Notifying \ {r} /\ r \in Notifying
    BY <2>1 DEF Notifying, TypeOK
  <2>3. Cardinality(Notifying') = Cardinality(Notifying) - 1
    BY <2>2, CountFacts, FS_RemoveElement
  <2>4. CASE Sleepers = {}
    <3>1. Sleepers' = {}
      BY <1>3, <2>4 DEF NotifyOne, Sleepers
    <3>2. QED
      BY <3>1 DEF NoLostWakeup
  <2>5. CASE Sleepers # {}
    <3>1. PICK w \in Sleepers : wpc' = [wpc EXCEPT ![w] = "ready"]
      BY <1>3, <2>5 DEF NotifyOne
    <3>2. Ready' = Ready \cup {w} /\ w \notin Ready /\ Sleepers' \subseteq Sleepers
      BY <3>1 DEF Ready, Sleepers, TypeOK
    <3>3. Cardinality(Ready') = Cardinality(Ready) + 1
      BY <3>2, CountFacts, FS_AddElement
    <3>4. Len(queue) <= Cardinality(Ready) + Cardinality(Notifying)
      BY <2>5, LostIs
    <3>5. /\ Len(queue') <= Cardinality(Ready') + Cardinality(Notifying')
          /\ stopping' => stpc' = "notify"
      BY <2>1, <2>3, <2>5, <3>3, <3>4, CountFacts DEF NoLostWakeup, TypeOK
    <3>6. QED
      BY <3>5 DEF NoLostWakeup, Ready, Notifying
  <2>6. QED
    BY <2>4, <2>5
<1>4. QED
  BY <1>1, <1>2, <1>3 DEF Handles

LEMMA WakeWorker ==
  ASSUME TypeOK, NoLostWakeup, NEW w \in Worker, Works(w) \/ SpuriousWake(w)
  PROVE  NoLostWakeup'
<1>1. UNCHANGED <<hpc, stopping, stpc>>
  BY WorkCases, CallFrame DEF Sleep, SpuriousWake, Drain, Pop, Finish, Erase, qVars, hVars
<1>2. Notifying' = Notifying
  BY <1>1 DEF Notifying
<1>3. CASE CallSteps(w) \/ Finish(w)
  <2>1. /\ queue' = queue /\ wpc[w] \in CallPc
        /\ \E b \in CallPc \cup {"erase"} : wpc' = [wpc EXCEPT ![w] = b]
    BY <1>3, CallFrame DEF Finish, qVars, CallPc
  <2>2. Sleepers' = Sleepers /\ Ready' = Ready
    BY <2>1 DEF Sleepers, Ready, TypeOK, CallPc
  <2>3. QED
    BY <1>1, <1>2, <2>1, <2>2, WakeStays
<1>4. CASE Sleep(w) \/ Drain(w)
  <2>1. queue' = <<>> /\ Len(queue') = 0
    BY <1>4 DEF Sleep, Drain, qVars
  <2>2. Cardinality(Ready)' \in Nat /\ Cardinality(Notifying)' \in Nat
    <3>1. IsFiniteSet(Ready') /\ IsFiniteSet(Notifying')
      BY ConstantFacts, FS_Subset DEF Ready, Notifying
    <3>2. QED
      BY <3>1, FS_CardinalityType
  <2>3. stopping' /\ Sleepers' # {} => stpc' = "notify"
    <3>1. CASE Sleep(w)
      BY <1>1, <3>1 DEF Sleep
    <3>2. CASE Drain(w)
      <4>1. Sleepers' \subseteq Sleepers
        BY <3>2 DEF Drain, Sleepers, TypeOK
      <4>2. QED
        BY <1>1, <4>1 DEF NoLostWakeup
    <3>3. QED
      BY <1>4, <3>1, <3>2
  <2>4. Len(queue') <= Cardinality(Ready') + Cardinality(Notifying')
    BY <2>1, <2>2
  <2>5. QED
    BY <2>3, <2>4 DEF NoLostWakeup, Ready, Notifying
<1>5. CASE Pop(w)
  <2>1. queue # <<>> /\ queue' = Tail(queue) /\ wpc[w] = "ready" /\ wpc' = [wpc EXCEPT ![w] = "gen"]
    BY <1>5 DEF Pop, Taken
  <2>2. Len(queue') = Len(queue) - 1 /\ Len(queue) \in Nat
    BY <2>1 DEF TypeOK
  <2>3. Ready' = Ready \ {w} /\ w \in Ready /\ Sleepers' = Sleepers
    BY <2>1 DEF Ready, Sleepers, TypeOK
  <2>4. Cardinality(Ready') = Cardinality(Ready) - 1
    BY <2>3, CountFacts, FS_RemoveElement
  <2>5. Sleepers # {} => Len(queue') <= Cardinality(Ready') + Cardinality(Notifying')
    BY <1>2, <2>2, <2>4, CountFacts, LostIs
  <2>6. QED
    BY <1>1, <2>3, <2>5 DEF NoLostWakeup, Ready, Notifying
<1>6. CASE Erase(w) \/ SpuriousWake(w)
  <2>1. queue' = queue /\ wpc[w] \in {"erase", "sleep"} /\ wpc' = [wpc EXCEPT ![w] = "ready"]
    BY <1>6 DEF Erase, SpuriousWake, qVars
  <2>2. Ready' = Ready \cup {w} /\ w \notin Ready /\ Sleepers' \subseteq Sleepers
    BY <2>1 DEF Ready, Sleepers, TypeOK
  <2>3. Cardinality(Ready') = Cardinality(Ready) + 1
    BY <2>2, CountFacts, FS_AddElement
  <2>4. Len(queue) \in Nat
    BY DEF TypeOK
  <2>5. Sleepers' # {} => Len(queue') <= Cardinality(Ready') + Cardinality(Notifying')
    BY <1>2, <2>1, <2>2, <2>3, <2>4, CountFacts, LostIs
  <2>6. QED
    BY <1>1, <2>2, <2>5 DEF NoLostWakeup, Ready, Notifying
<1>7. QED
  BY <1>3, <1>4, <1>5, <1>6, WorkCases

LEMMA WakeStop ==
  ASSUME TypeOK, NoLostWakeup, Stops
  PROVE  NoLostWakeup'
<1>1. CASE StopBegin
  <2>1. UNCHANGED <<wpc, hpc, queue>> /\ stpc' = "notify"
    BY <1>1 DEF StopBegin, wVars, hVars
  <2>2. QED
    BY <2>1 DEF NoLostWakeup, Sleepers
<1>2. CASE StopNotify
  <2>1. Sleepers' = {}
    BY <1>2 DEF StopNotify, WakeAll, Sleepers, TypeOK
  <2>2. QED
    BY <2>1 DEF NoLostWakeup
<1>3. CASE StopJoined
  <2>1. Sleepers = {} /\ Sleepers' = {}
    BY <1>3 DEF StopJoined, wVars, Sleepers
  <2>2. QED
    BY <2>1 DEF NoLostWakeup
<1>4. QED
  BY <1>1, <1>2, <1>3 DEF Stops

\* While a worker sleeps, whoever is queued has an awake worker of its own or a
\* notification under way, and nobody sleeps through stop(): the predicate of cv_.wait and
\* the notifications outside the lock (scheduler.cpp), for any number of workers.
THEOREM NoLostWakeupHolds == Spec => []NoLostWakeup
<1>1. Init => NoLostWakeup
  BY DEF Init, NoLostWakeup, Sleepers
<1>2. TypeOK /\ NoLostWakeup /\ [Next]_vars => NoLostWakeup'
  <2>1. SUFFICES ASSUME TypeOK, NoLostWakeup, [Next]_vars PROVE NoLostWakeup'
    OBVIOUS
  <2>2. CASE UNCHANGED vars
    BY <2>1, <2>2 DEF vars, qVars, wVars, hVars, NoLostWakeup, Sleepers
  <2>3. CASE Next
    BY <2>1, <2>3, WakeHandler, WakeWorker, WakeStop DEF Next
  <2>4. QED
    BY <2>1, <2>2, <2>3
<1>3. QED
  BY <1>1, <1>2, TypeCorrect, PTL DEF Spec

-----------------------------------------------------------------------------
(* The scheduler implements RequestService. *)

\* stop() begins once, and each request still has its one answer to get.
Closing == (stpc = "idle" <=> ~stopping) /\ stopping \in BOOLEAN

ServInv == OwnInv /\ Closing

LEMMA ClosingStep == Closing /\ [Next]_vars => Closing'
<1>1. SUFFICES ASSUME Closing, [Next]_vars PROVE Closing'
  OBVIOUS
<1>2. ASSUME NEW r \in Request, Handles(r) \/ ClientLeaves(r) PROVE UNCHANGED <<stopping, stpc>>
  BY <1>2 DEF Handles, BeginStream, Submit, NotifyOne, SetSink, Poll, Answer, Reply, ClientLeaves,
     qVars
<1>3. ASSUME NEW w \in Worker, Works(w) \/ SpuriousWake(w) PROVE UNCHANGED <<stopping, stpc>>
  BY <1>3, WorkCases, CallFrame DEF Sleep, SpuriousWake, Drain, Pop, Finish, Erase, qVars
<1>4. CASE Stops
  BY <1>1, <1>4 DEF Stops, StopBegin, StopNotify, StopJoined, Closing, qVars
<1>5. QED
  BY <1>1, <1>2, <1>3, <1>4 DEF Next, Closing, vars, qVars

LEMMA ServInvariant == Spec => []ServInv
<1>1. Init => Closing
  BY DEF Init, Closing
<1>2. Spec => []Closing
  BY <1>1, ClosingStep, PTL DEF Spec
<1>3. QED
  BY <1>2, OwnInvariant, PTL DEF ServInv

LEMMA ServFacts ==
  ASSUME ServInv
  PROVE  /\ \A w \in Worker : Working(w) => wreq[w] \in Request /\ wreq[w] \in running
         /\ \A w \in Worker : Working(w) => (finished[wreq[w]] <=> wpc[w] = "erase")
         /\ running \subseteq Request /\ Queued \subseteq Request
         /\ \A r \in Queued \cup running : Admitted(r)
         /\ \A r \in Queued : ~finished[r] /\ r \notin running
         /\ Active = {r \in running : ~finished[r]}
<1>1. /\ \A w \in Worker : Working(w) => wreq[w] \in Request /\ wreq[w] \in running
      /\ running \subseteq Request
      /\ \A r \in running : \E w \in Worker : Working(w) /\ wreq[w] = r
  BY DEF ServInv, OwnInv, TypeOK, Employed, Owners
<1>2. Active = {r \in running : ~finished[r]}
  BY <1>1 DEF Active
<1>3. QED
  BY <1>1, <1>2, QueuedFacts DEF ServInv, OwnInv, TypeOK, Owners

LEMMA ActiveNext ==
  ASSUME ServInv'
  PROVE  Active' = {r \in running' : ~finished'[r]}
<1>1. /\ running' \subseteq Request
      /\ \A r \in running' : \E w \in Worker : Working(w)' /\ wreq'[w] = r
      /\ \A w \in Worker : Working(w)' => wreq'[w] \in running'
  BY DEF ServInv, OwnInv, TypeOK, Employed, Owners
<1>2. QED
  BY <1>1 DEF Active

LEMMA KnownIs ==
  ASSUME NEW r \in Request
  PROVE  Service!Known(r) <=> r \in Active \cup Queued
BY DEF Service!Known, Queued

LEMMA ServInit == Init => Service!Init
<1>1. SUFFICES ASSUME Init PROVE Service!Init
  OBVIOUS
<1>2. Active = {}
  BY <1>1 DEF Init, Active, Working, InCall, CallPc
<1>3. Outcome = [r \in Request |-> "none"]
  BY <1>1 DEF Init, Outcome
<1>4. QED
  BY <1>1, <1>2, <1>3 DEF Init, Service!Init

\* A step that the service does not see.
LEMMA ServStutter ==
  ASSUME ServInv, ServInv', UNCHANGED <<queue, running, finished, stopping>>,
         \A r \in Request : hpc'[r] = "refused" <=> hpc[r] = "refused"
  PROVE  UNCHANGED Service!vars
<1>1. Active' = Active
  BY ServFacts, ActiveNext
<1>2. Outcome' = Outcome
  BY DEF Outcome
<1>3. QED
  BY <1>1, <1>2 DEF Service!vars

LEMMA ServHandler ==
  ASSUME ServInv, ServInv', NEW r \in Request, Handles(r) \/ ClientLeaves(r)
  PROVE  [Service!Next]_(Service!vars)
<1>1. UNCHANGED <<running, finished, stopping>>
  BY DEF Handles, BeginStream, Submit, NotifyOne, SetSink, Poll, Answer, Reply, ClientLeaves,
     qVars, reqVars
<1>2. CASE Submit(r)
  <2>1. MaySubmit(r) /\ ~Admitted(r) /\ hpc[r] # "refused"
    BY <1>2 DEF Submit, MaySubmit, Admitted
  <2>2. ~finished[r] /\ r \notin Queued /\ r \notin Active
    BY <2>1, ServFacts DEF ServInv, OwnInv, Owners
  <2>3. Outcome[r] = "none" /\ ~Service!Known(r)
    BY <2>1, <2>2, KnownIs DEF Outcome
  <2>4. Active' = Active
    BY <1>1, ServFacts, ActiveNext
  <2>5. CASE Rejects
    <3>1. hpc' = [hpc EXCEPT ![r] = "refused"] /\ queue' = queue
      BY <1>2, <2>5 DEF Submit
    <3>2. Outcome' = [Outcome EXCEPT ![r] = "refused"]
      BY <1>1, <2>2, <3>1 DEF Outcome, ServInv, OwnInv, TypeOK
    <3>3. Service!Refuse(r)
      BY <1>1, <2>3, <2>4, <2>5, <3>1, <3>2 DEF Service!Refuse, Rejects
    <3>4. QED
      BY <3>3 DEF Service!Next
  <2>6. CASE ~Rejects
    <3>1. hpc' = [hpc EXCEPT ![r] = "notify"] /\ queue' = Append(queue, r)
      BY <1>2, <2>6 DEF Submit
    <3>2. Outcome' = Outcome
      BY <1>1, <2>1, <3>1 DEF Outcome, ServInv, OwnInv, TypeOK
    <3>3. ~stopping /\ Len(queue) < MaxQueue
      BY <2>6, ConstantFacts DEF Rejects, ServInv, OwnInv, TypeOK
    <3>4. Service!Admit(r)
      BY <1>1, <2>3, <2>4, <3>1, <3>2, <3>3 DEF Service!Admit
    <3>5. QED
      BY <3>4 DEF Service!Next
  <2>7. QED
    BY <2>5, <2>6
<1>3. CASE ~Submit(r)
  <2>1. queue' = queue
    BY <1>3 DEF Handles, BeginStream, NotifyOne, SetSink, Poll, Answer, Reply, ClientLeaves, qVars
  <2>2. \A q \in Request : hpc'[q] = "refused" <=> hpc[q] = "refused"
    <3>1. \/ hpc' = hpc
          \/ /\ hpc[r] # "refused"
             /\ \E to \in {"submit", "sink", "wait", "answer", "done"} : hpc' = [hpc EXCEPT ![r] = to]
      <4>1. CASE BeginStream(r) \/ NotifyOne(r)
        BY <4>1 DEF BeginStream, NotifyOne
      <4>2. CASE SetSink(r) \/ Answer(r) \/ Reply(r)
        BY <4>2 DEF SetSink, Answer, Reply
      <4>3. CASE Poll(r) \/ ClientLeaves(r)
        BY <4>3 DEF Poll, ClientLeaves, hVars
      <4>4. QED
        BY <1>3, <4>1, <4>2, <4>3 DEF Handles
    <3>2. hpc \in [Request -> HPc]
      BY DEF ServInv, OwnInv, TypeOK
    <3>3. QED
      BY <3>1, <3>2
  <2>3. QED
    BY <1>1, <2>1, <2>2, ServStutter
<1>4. QED
  BY <1>2, <1>3

\* A worker that is not working is one more than those that have an active request.
LEMMA RoomToStart ==
  ASSUME ServInv, NEW w \in Worker, ~Working(w)
  PROVE  Cardinality(Active) < Cardinality(Worker)
<1>1. DEFINE Rest == Worker \ {w}
             f == [r \in Active |-> CHOOSE v \in Worker : Working(v) /\ wreq[v] = r]
<1>2. ASSUME NEW r \in Active PROVE f[r] \in Rest /\ wreq[f[r]] = r
  <2>1. \E v \in Worker : Working(v) /\ wreq[v] = r
    BY <1>2 DEF Active
  <2>2. f[r] \in Worker /\ Working(f[r]) /\ wreq[f[r]] = r
    BY <2>1
  <2>3. QED
    BY <2>2
<1>3. f \in Injection(Active, Rest)
  <2>1. f \in [Active -> Rest]
    BY <1>2
  <2>2. \A a, b \in Active : f[a] = f[b] => a = b
    BY <1>2
  <2>3. QED
    BY <2>1, <2>2 DEF Injection, IsInjective
<1>4. IsFiniteSet(Rest) /\ Cardinality(Rest) = Cardinality(Worker) - 1
  BY ConstantFacts, FS_RemoveElement
<1>5. Cardinality(Active) <= Cardinality(Rest) /\ IsFiniteSet(Active)
  BY <1>3, <1>4, FS_Injection
<1>6. Cardinality(Active) \in Nat /\ Cardinality(Worker) \in Nat
  BY <1>5, ConstantFacts, FS_CardinalityType
<1>7. QED
  BY <1>4, <1>5, <1>6

LEMMA ServWorker ==
  ASSUME ServInv, ServInv', NEW w \in Worker, Works(w) \/ SpuriousWake(w)
  PROVE  [Service!Next]_(Service!vars)
<1>1. UNCHANGED <<hpc, stopping>>
  BY WorkCases, CallFrame DEF Sleep, SpuriousWake, Drain, Pop, Finish, Erase, qVars, hVars
<1>2. CASE Pop(w)
  <2>1. /\ ~stopping /\ queue # <<>> /\ queue' = Tail(queue) /\ wpc[w] = "ready"
        /\ running' = running \cup {Head(queue)} /\ finished' = finished
    BY <1>2 DEF Pop, Taken, reqVars
  <2>2. Head(queue) \in Queued
    BY <2>1, QueuedFacts DEF ServInv, OwnInv, TypeOK
  <2>3. Active' = Active \cup {Head(queue)}
    BY <2>1, <2>2, ServFacts, ActiveNext
  <2>4. Cardinality(Active) < Cardinality(Worker)
    BY <2>1, RoomToStart DEF Working, InCall, CallPc
  <2>5. Outcome' = Outcome
    BY <1>1, <2>1 DEF Outcome
  <2>6. queue # <<>> /\ ~stopping /\ queue' = Tail(queue) /\ stopping' = stopping
    BY <1>1, <2>1
  \* The cardinality of the instance is the library's.
  <2>7. Service!Cardinality(Active) = Cardinality(Active)
    BY DEF Service!Cardinality, Cardinality
  <2>8. Service!Start
    BY <2>3, <2>4, <2>5, <2>6, <2>7, Zenon DEF Service!Start
  <2>9. QED
    BY <2>8 DEF Service!Next
<1>3. CASE Finish(w)
  <2>1. PICK r : r = wreq[w]
    OBVIOUS
  <2>2. /\ wpc[w] = "fin" /\ finished' = [finished EXCEPT ![r] = TRUE]
        /\ UNCHANGED <<queue, running>>
    BY <1>3, <2>1 DEF Finish, qVars
  <2>3. r \in running /\ r \in Request /\ ~finished[r] /\ r \in Active
    BY <2>1, <2>2, ServFacts DEF Working, InCall, CallPc
  <2>4. Active' = Active \ {r}
    BY <2>2, <2>3, ServFacts, ActiveNext DEF ServInv, OwnInv, TypeOK
  <2>5. Outcome' = [Outcome EXCEPT ![r] = "done"]
    BY <1>1, <2>2, <2>3 DEF Outcome, ServInv, OwnInv, TypeOK
  <2>6. Service!Complete(r)
    BY <1>1, <2>2, <2>3, <2>4, <2>5 DEF Service!Complete
  <2>7. QED
    BY <2>3, <2>6 DEF Service!Next
<1>4. CASE Drain(w)
  <2>1. /\ stopping /\ queue' = <<>> /\ running' = running
        /\ finished' = [r \in Request |-> finished[r] \/ r \in Queued]
    BY <1>4 DEF Drain
  <2>2. Active' = Active
    BY <2>1, ServFacts, ActiveNext
  <2>3. \A r \in Request : r \in Queued <=> \E i \in 1 .. Len(queue) : queue[i] = r
    BY DEF Queued
  <2>4. Outcome' = [r \in Request |-> IF \E i \in 1 .. Len(queue) : queue[i] = r
                                      THEN "done" ELSE Outcome[r]]
    BY <1>1, <2>1, <2>3 DEF Outcome
  <2>5. Service!Withdraw
    BY <1>1, <2>1, <2>2, <2>4 DEF Service!Withdraw
  <2>6. QED
    BY <2>5 DEF Service!Next
<1>5. CASE Erase(w)
  <2>1. /\ wpc[w] = "erase" /\ running' = running \ {wreq[w]} /\ UNCHANGED <<queue, finished>>
    BY <1>5 DEF Erase, reqVars
  <2>2. finished[wreq[w]]
    BY <2>1, ServFacts DEF Working, InCall, CallPc
  <2>3. Active' = Active
    BY <2>1, <2>2, ServFacts, ActiveNext
  <2>4. Outcome' = Outcome
    BY <1>1, <2>1 DEF Outcome
  <2>5. QED
    BY <1>1, <2>1, <2>3, <2>4 DEF Service!vars
<1>6. CASE Sleep(w) \/ SpuriousWake(w) \/ CallSteps(w)
  <2>1. UNCHANGED <<queue, running, finished>>
    BY <1>6, CallFrame DEF Sleep, SpuriousWake, qVars, reqVars
  <2>2. QED
    BY <1>1, <2>1, ServStutter
<1>7. QED
  BY <1>2, <1>3, <1>4, <1>5, <1>6, WorkCases

\* Every step of the threads is a step of the service or none: the queue is first in first
\* out and bounded, no more requests are worked on than there are workers, each is completed
\* once, and after stop() none is admitted or started (scheduler.cpp as a whole).
THEOREM SchedulerImplementsService == Spec => ServiceSpec
<1>1. ServInv /\ ServInv' /\ [Next]_vars => [Service!Next]_(Service!vars)
  <2>1. SUFFICES ASSUME ServInv, ServInv', [Next]_vars PROVE [Service!Next]_(Service!vars)
    OBVIOUS
  <2>2. CASE StopBegin
    <3>1. ~stopping /\ stopping' /\ UNCHANGED <<queue, running, finished, hpc>>
      BY <2>1, <2>2 DEF StopBegin, ServInv, Closing, hVars
    <3>2. Active' = Active /\ Outcome' = Outcome
      BY <2>1, <3>1, ServFacts, ActiveNext DEF Outcome
    <3>3. Service!Close
      BY <2>2, <3>1, <3>2 DEF Service!Close, StopBegin
    <3>4. QED
      BY <3>3 DEF Service!Next
  <2>3. CASE StopNotify \/ StopJoined \/ UNCHANGED vars
    <3>1. UNCHANGED <<queue, running, finished, hpc, stopping>>
      BY <2>3 DEF StopNotify, StopJoined, vars, qVars, reqVars, hVars
    <3>2. QED
      BY <2>1, <3>1, ServStutter
  <2>4. QED
    BY <2>1, <2>2, <2>3, ServHandler, ServWorker DEF Next, Stops
<1>2. QED
  BY <1>1, ServInit, ServInvariant, PTL DEF Spec, ServiceSpec, Service!Spec
=============================================================================
