----------------------------- MODULE Scheduler -----------------------------
(***************************************************************************)
(* The request scheduler of the HTTP front end and its callers             *)
(* (ocho/engine_spark/server/scheduler.cpp, qf_server.cpp).                *)
(*                                                                         *)
(* A handler is the HTTP thread that serves one request: it admits the     *)
(* request to a bounded queue, then waits for it to be finished and polls  *)
(* the client.  A worker pops a request and runs the engine, whose token   *)
(* callback hands the text to the request's sink (on_token), a closure     *)
(* over the handler's own frame.  stop() cancels and joins.                *)
(* No lock is held from the callback's look at `cancel' to the token it    *)
(* counts, nor over a write to a client, which has no timeout.             *)
(*                                                                         *)
(* A token is its number.  Its text may end inside a UTF-8 character, and  *)
(* then it is held until a later token completes the character: `held'.    *)
(***************************************************************************)
EXTENDS Integers, Sequences, FiniteSets

CONSTANTS Worker,         \* decode workers
          Request,        \* requests that may come
          Blocking,       \* those answered in one piece (not streamed)
          MaxQueue,       \* max_queue_
          MaxTokens,      \* params.max_tokens of every request
          NoRequest

ASSUME SchedulerAssumption ==
  /\ Blocking \subseteq Request
  /\ MaxQueue \in Nat /\ MaxTokens \in Nat
  /\ IsFiniteSet(Worker) /\ Worker # {} /\ IsFiniteSet(Request)
  /\ NoRequest \notin Request

Token == 1 .. MaxTokens

VARIABLES
  queue, running, stopping,      \* under mu_
  wpc, wreq, rc, outbox,         \* per worker: step, request, return code of
                                 \* qf_generate, text on its way to the sink
  cancel, finished, reason,      \* per request
  ntok, held, sink,              \* completion_tokens, pending, on_token is set
  text,                          \* tokens whose text the handler's client has
  hpc, alive,                    \* per handler: step, its client is there
  stpc                           \* step of the thread that calls stop()

reqVars  == <<cancel, finished, reason, ntok, held, sink, text>>
hVars    == <<hpc, alive>>
wVars    == <<wpc, wreq, rc, outbox>>
qVars    == <<queue, running, stopping>>
vars     == <<qVars, wVars, reqVars, hVars, stpc>>

WPc == {"ready", "sleep", "gen", "tok", "sink", "send", "flush", "tail", "fin", "erase", "exited"}
HPc == {"new", "submit", "notify", "sink", "wait", "answer", "done", "refused"}
Reason == {"none", "stop", "length", "cancelled", "error"}

TypeOK ==
  /\ queue \in Seq(Request) /\ running \subseteq Request /\ stopping \in BOOLEAN
  /\ wpc \in [Worker -> WPc]
  /\ wreq \in [Worker -> Request \cup {NoRequest}]
  /\ rc \in [Worker -> {0, 1}]
  /\ outbox \in [Worker -> SUBSET Token]
  /\ cancel \in [Request -> BOOLEAN] /\ finished \in [Request -> BOOLEAN]
  /\ reason \in [Request -> Reason]
  /\ ntok \in [Request -> 0 .. MaxTokens]
  /\ held \in [Request -> SUBSET Token] /\ text \in [Request -> SUBSET Token]
  /\ sink \in [Request -> BOOLEAN]
  /\ hpc \in [Request -> HPc] /\ alive \in [Request -> BOOLEAN]
  /\ stpc \in {"idle", "notify", "join", "done"}
  /\ \A r \in Request : finished[r] <=> reason[r] # "none"

Init ==
  /\ queue = <<>> /\ running = {} /\ stopping = FALSE
  /\ wpc = [w \in Worker |-> "ready"]
  /\ wreq = [w \in Worker |-> NoRequest]
  /\ rc = [w \in Worker |-> 0]
  /\ outbox = [w \in Worker |-> {}]
  /\ cancel = [r \in Request |-> FALSE] /\ finished = [r \in Request |-> FALSE]
  /\ reason = [r \in Request |-> "none"]
  /\ ntok = [r \in Request |-> 0]
  /\ held = [r \in Request |-> {}] /\ text = [r \in Request |-> {}]
  /\ sink = [r \in Request |-> FALSE]
  /\ hpc = [r \in Request |-> "new"] /\ alive = [r \in Request |-> TRUE]
  /\ stpc = "idle"

Sleepers == {w \in Worker : wpc[w] = "sleep"}
Queued   == {queue[i] : i \in 1 .. Len(queue)}

-----------------------------------------------------------------------------
(* Handlers. *)

\* serve_stream sends the headers and sets the sink before it submits.
BeginStream(r) ==
  /\ hpc[r] = "new" /\ r \notin Blocking
  /\ sink' = [sink EXCEPT ![r] = TRUE]
  /\ hpc' = [hpc EXCEPT ![r] = "submit"]
  /\ UNCHANGED <<qVars, wVars, cancel, finished, reason, ntok, held, text, alive, stpc>>

MaySubmit(r) ==
  \/ hpc[r] = "submit"
  \/ hpc[r] = "new" /\ r \in Blocking

Rejects == stopping \/ Len(queue) >= MaxQueue

Submit(r) ==
  /\ MaySubmit(r)
  /\ IF Rejects
     THEN hpc' = [hpc EXCEPT ![r] = "refused"] /\ UNCHANGED queue
     ELSE hpc' = [hpc EXCEPT ![r] = "notify"] /\ queue' = Append(queue, r)
  /\ UNCHANGED <<running, stopping, wVars, reqVars, alive, stpc>>

\* cv_.notify_one, after mu_ has been released.
\* Mutant: only for a request that finds the queue empty.
BadNotifyOne(r) ==
  /\ hpc[r] = "notify"
  /\ IF Sleepers = {} \/ Len(queue) > 1 THEN UNCHANGED wpc
     ELSE \E w \in Sleepers : wpc' = [wpc EXCEPT ![w] = "ready"]
  /\ hpc' = [hpc EXCEPT ![r] = IF r \in Blocking THEN "sink" ELSE "wait"]
  /\ UNCHANGED <<qVars, wreq, rc, outbox, reqVars, alive, stpc>>
NotifyOne(r) ==
  /\ hpc[r] = "notify"
  /\ IF Sleepers = {} THEN UNCHANGED wpc
     ELSE \E w \in Sleepers : wpc' = [wpc EXCEPT ![w] = "ready"]
  /\ hpc' = [hpc EXCEPT ![r] = IF r \in Blocking THEN "sink" ELSE "wait"]
  /\ UNCHANGED <<qVars, wreq, rc, outbox, reqVars, alive, stpc>>

\* serve_blocking sets the sink after it has submitted; a worker that reads
\* on_token meanwhile finds it empty or set.
SetSink(r) ==
  /\ hpc[r] = "sink"
  /\ sink' = [sink EXCEPT ![r] = TRUE]
  /\ hpc' = [hpc EXCEPT ![r] = "wait"]
  /\ UNCHANGED <<qVars, wVars, cancel, finished, reason, ntok, held, text, alive, stpc>>

ClientLeaves(r) ==
  /\ alive[r]
  /\ hpc[r] \notin {"new", "done", "refused"}
  /\ alive' = [alive EXCEPT ![r] = FALSE]
  /\ UNCHANGED <<qVars, wVars, reqVars, hpc, stpc>>

\* Every 200 ms the waiting handler looks whether its client is still there.
Poll(r) ==
  /\ hpc[r] = "wait" /\ ~finished[r] /\ ~alive[r]
  /\ cancel' = [cancel EXCEPT ![r] = TRUE]
  /\ UNCHANGED <<qVars, wVars, finished, reason, ntok, held, sink, text, hVars, stpc>>

\* The handler stops waiting and writes its answer; serve_blocking returns without
\* one when the request was cancelled.
\* Mutant: it goes on as soon as it knows that its client left.
BadMayReply(r) == finished[r] \/ ~alive[r]
MayReply(r) == finished[r]
Answer(r) ==
  /\ hpc[r] = "wait" /\ MayReply(r)
  /\ hpc' = [hpc EXCEPT ![r] = IF r \in Blocking /\ reason[r] = "cancelled"
                               THEN "done" ELSE "answer"]
  /\ UNCHANGED <<qVars, wVars, reqVars, alive, stpc>>

\* The answer is written or has failed, and the handler returns: its frame, which
\* the sink refers to, is gone.
Reply(r) ==
  /\ hpc[r] = "answer"
  /\ hpc' = [hpc EXCEPT ![r] = "done"]
  /\ UNCHANGED <<qVars, wVars, reqVars, alive, stpc>>

-----------------------------------------------------------------------------
(* Workers. *)

\* cv_.wait: the predicate is false.
\* Mutant: the predicate forgets stopping_.
BadSleep(w) ==
  /\ wpc[w] = "ready" /\ queue = <<>>
  /\ wpc' = [wpc EXCEPT ![w] = "sleep"]
  /\ UNCHANGED <<qVars, wreq, rc, outbox, reqVars, hVars, stpc>>
Sleep(w) ==
  /\ wpc[w] = "ready" /\ ~stopping /\ queue = <<>>
  /\ wpc' = [wpc EXCEPT ![w] = "sleep"]
  /\ UNCHANGED <<qVars, wreq, rc, outbox, reqVars, hVars, stpc>>

SpuriousWake(w) ==
  /\ wpc[w] = "sleep"
  /\ wpc' = [wpc EXCEPT ![w] = "ready"]
  /\ UNCHANGED <<qVars, wreq, rc, outbox, reqVars, hVars, stpc>>

\* The first worker to see stopping_ finishes everything that is queued.
\* Mutant: the queue is cleared and the requests in it are left unfinished.
BadDrain(w) ==
  /\ wpc[w] = "ready" /\ stopping
  /\ reason' = [r \in Request |-> IF r \in Queued THEN "cancelled" ELSE reason[r]]
  /\ queue' = <<>>
  /\ wpc' = [wpc EXCEPT ![w] = "exited"]
  /\ UNCHANGED <<running, stopping, wreq, rc, outbox, cancel, finished, ntok, held, sink, text,
                 hVars, stpc>>
Drain(w) ==
  /\ wpc[w] = "ready" /\ stopping
  /\ finished' = [r \in Request |-> finished[r] \/ r \in Queued]
  /\ reason' = [r \in Request |-> IF r \in Queued THEN "cancelled" ELSE reason[r]]
  /\ queue' = <<>>
  /\ wpc' = [wpc EXCEPT ![w] = "exited"]
  /\ UNCHANGED <<running, stopping, wreq, rc, outbox, cancel, ntok, held, sink, text, hVars, stpc>>

\* queue_.front, then pop_front.
\* Mutant: the newest request first.
BadTaken(q) == [r |-> q[Len(q)], rest |-> SubSeq(q, 1, Len(q) - 1)]
Taken(q) == [r |-> Head(q), rest |-> Tail(q)]
Pop(w) ==
  /\ wpc[w] = "ready" /\ ~stopping /\ queue # <<>>
  /\ wreq' = [wreq EXCEPT ![w] = Taken(queue).r]
  /\ running' = running \cup {Taken(queue).r}
  /\ queue' = Taken(queue).rest
  /\ wpc' = [wpc EXCEPT ![w] = "gen"]
  /\ UNCHANGED <<stopping, rc, outbox, reqVars, hVars, stpc>>

\* token_cb does not find the request cancelled.
TokenPasses(w) ==
  LET r == wreq[w] IN
  /\ wpc[w] = "gen" /\ ~cancel[r] /\ ntok[r] < MaxTokens
  /\ wpc' = [wpc EXCEPT ![w] = "tok"]
  /\ UNCHANGED <<qVars, wreq, rc, outbox, reqVars, hVars, stpc>>

\* The token is counted, whatever happened since, and the text up to the last
\* complete character is cut off; what it leaves is nothing, the end of this
\* token, or everything, and then the sink is not called.
Token_cb(w) ==
  LET r == wreq[w]  i == ntok[r] + 1 IN
  /\ wpc[w] = "tok"
  /\ ntok' = [ntok EXCEPT ![r] = i]
  /\ \E h \in {{}, {i}, held[r] \cup {i}} :
       LET out == (held[r] \cup {i}) \ h IN
       /\ held' = [held EXCEPT ![r] = h]
       /\ outbox' = [outbox EXCEPT ![w] = out]
       /\ wpc' = [wpc EXCEPT ![w] = IF out = {} THEN "gen" ELSE "sink"]
  /\ UNCHANGED <<qVars, wreq, rc, cancel, finished, reason, sink, text, hVars, stpc>>

\* token_cb finds the request cancelled: qf_generate returns an error.
TokenCancelled(w) ==
  /\ wpc[w] = "gen" /\ cancel[wreq[w]]
  /\ rc' = [rc EXCEPT ![w] = 1]
  /\ wpc' = [wpc EXCEPT ![w] = "flush"]
  /\ UNCHANGED <<qVars, wreq, outbox, reqVars, hVars, stpc>>

\* on_token goes on: not set yet, or a blocking handler's has appended the text to
\* its string and does not find the request cancelled.
SinkAccepts(w) ==
  LET r == wreq[w] IN
  /\ wpc[w] = "sink"
  /\ \/ ~sink[r] /\ UNCHANGED text
     \/ /\ sink[r] /\ r \in Blocking /\ ~cancel[r]
        /\ text' = [text EXCEPT ![r] = @ \cup outbox[w]]
  /\ outbox' = [outbox EXCEPT ![w] = {}]
  /\ wpc' = [wpc EXCEPT ![w] = "gen"]
  /\ UNCHANGED <<qVars, wreq, rc, cancel, finished, reason, ntok, held, sink, hVars, stpc>>

\* A stream's does not find it cancelled, and writes.
SinkWrites(w) ==
  LET r == wreq[w] IN
  /\ wpc[w] = "sink" /\ sink[r] /\ r \notin Blocking /\ ~cancel[r]
  /\ wpc' = [wpc EXCEPT ![w] = "send"]
  /\ UNCHANGED <<qVars, wreq, rc, outbox, reqVars, hVars, stpc>>

\* on_token returns false: token_cb cancels the request and ends qf_generate.
Refuse(w) ==
  /\ cancel' = [cancel EXCEPT ![wreq[w]] = TRUE]
  /\ outbox' = [outbox EXCEPT ![w] = {}]
  /\ rc' = [rc EXCEPT ![w] = 1]
  /\ wpc' = [wpc EXCEPT ![w] = "flush"]

\* It finds the request cancelled; a blocking handler's has taken the text by then.
SinkRefuses(w) ==
  LET r == wreq[w] IN
  /\ wpc[w] = "sink" /\ sink[r] /\ cancel[r]
  /\ text' = IF r \in Blocking THEN [text EXCEPT ![r] = @ \cup outbox[w]] ELSE text
  /\ Refuse(w)
  /\ UNCHANGED <<qVars, wreq, finished, reason, ntok, held, sink, hVars, stpc>>

\* send returns: the client has the text, or is gone and the text is lost; `cancel'
\* is not looked at.
WriteReturns(w) ==
  LET r == wreq[w] IN
  /\ wpc[w] = "send"
  /\ text' = IF alive[r] THEN [text EXCEPT ![r] = @ \cup outbox[w]] ELSE text
  /\ outbox' = [outbox EXCEPT ![w] = {}]
  /\ wpc' = [wpc EXCEPT ![w] = "gen"]
  /\ UNCHANGED <<qVars, wreq, rc, cancel, finished, reason, ntok, held, sink, hVars, stpc>>

WriteFails(w) ==
  /\ wpc[w] = "send" /\ ~alive[wreq[w]]
  /\ Refuse(w)
  /\ UNCHANGED <<qVars, wreq, finished, reason, ntok, held, sink, text, hVars, stpc>>

\* qf_generate returns: end of text or of the token budget, or an engine error.
GenReturns(w) ==
  /\ wpc[w] = "gen"
  /\ \E code \in {0, 1} : rc' = [rc EXCEPT ![w] = code]
  /\ wpc' = [wpc EXCEPT ![w] = "flush"]
  /\ UNCHANGED <<qVars, wreq, outbox, reqVars, hVars, stpc>>

\* What is still held goes to the sink unless the request was cancelled.
\* Mutant: the held tail is forgotten.
BadFlushes(r) == FALSE
Flushes(r) == held[r] # {} /\ sink[r] /\ ~cancel[r]
Flush(w) ==
  LET r == wreq[w] IN
  /\ wpc[w] = "flush"
  /\ text' = IF Flushes(r) /\ r \in Blocking THEN [text EXCEPT ![r] = @ \cup held[r]] ELSE text
  /\ wpc' = [wpc EXCEPT ![w] = IF Flushes(r) /\ r \notin Blocking THEN "tail" ELSE "fin"]
  /\ UNCHANGED <<qVars, wreq, rc, outbox, cancel, finished, reason, ntok, held, sink, hVars, stpc>>

\* on_token of a stream with the held tail: cancelled since, written or failed; its
\* result is not looked at.
TailReturns(w) ==
  LET r == wreq[w] IN
  /\ wpc[w] = "tail"
  /\ \/ alive[r] /\ text' = [text EXCEPT ![r] = @ \cup held[r]]
     \/ (cancel[r] \/ ~alive[r]) /\ UNCHANGED text
  /\ wpc' = [wpc EXCEPT ![w] = "fin"]
  /\ UNCHANGED <<qVars, wreq, rc, outbox, cancel, finished, reason, ntok, held, sink, hVars, stpc>>

\* Under the request's mutex: the reason, then finished.  run_request returns:
\* its rc and its pending text end here.
\* Mutant: a cancelled request is reported as such although it was completed.
BadReasonOf(w) ==
  LET r == wreq[w] IN
  CASE rc[w] # 0 -> "cancelled"
    [] rc[w] = 0 -> IF ntok[r] >= MaxTokens THEN "length" ELSE "stop"
ReasonOf(w) ==
  LET r == wreq[w] IN
  CASE rc[w] # 0 /\ cancel[r]  -> "cancelled"
    [] rc[w] # 0 /\ ~cancel[r] -> "error"
    [] rc[w] = 0               -> IF ntok[r] >= MaxTokens THEN "length" ELSE "stop"
Finish(w) ==
  /\ wpc[w] = "fin"
  /\ reason' = [reason EXCEPT ![wreq[w]] = ReasonOf(w)]
  /\ finished' = [finished EXCEPT ![wreq[w]] = TRUE]
  /\ held' = [held EXCEPT ![wreq[w]] = {}]
  /\ rc' = [rc EXCEPT ![w] = 0]
  /\ wpc' = [wpc EXCEPT ![w] = "erase"]
  /\ UNCHANGED <<qVars, wreq, outbox, cancel, ntok, sink, text, hVars, stpc>>

\* Back in worker_loop.
\* Mutant: the request stays in running_.
BadErase(w) ==
  /\ wpc[w] = "erase"
  /\ wreq' = [wreq EXCEPT ![w] = NoRequest]
  /\ wpc' = [wpc EXCEPT ![w] = "ready"]
  /\ UNCHANGED <<qVars, rc, outbox, reqVars, hVars, stpc>>
Erase(w) ==
  /\ wpc[w] = "erase"
  /\ running' = running \ {wreq[w]}
  /\ wreq' = [wreq EXCEPT ![w] = NoRequest]
  /\ wpc' = [wpc EXCEPT ![w] = "ready"]
  /\ UNCHANGED <<queue, stopping, rc, outbox, reqVars, hVars, stpc>>

-----------------------------------------------------------------------------
(* stop(), at any time, as the class promises; main calls it when http.run   *)
(* has returned, which is one of the times.                                  *)

\* Mutant: requests that are being worked on are not cancelled.
BadStopped == Queued
Stopped == Queued \cup running
StopBegin ==
  /\ stpc = "idle"
  /\ stopping' = TRUE
  /\ cancel' = [r \in Request |-> cancel[r] \/ r \in Stopped]
  /\ stpc' = "notify"
  /\ UNCHANGED <<queue, running, wVars, finished, reason, ntok, held, sink, text, hVars>>

\* cv_.notify_all.
WakeAll == wpc' = [w \in Worker |-> IF wpc[w] = "sleep" THEN "ready" ELSE wpc[w]]
StopNotify ==
  /\ stpc = "notify"
  /\ WakeAll
  /\ stpc' = "join"
  /\ UNCHANGED <<qVars, wreq, rc, outbox, reqVars, hVars>>

StopJoined ==
  /\ stpc = "join"
  /\ \A w \in Worker : wpc[w] = "exited"
  /\ stpc' = "done"
  /\ UNCHANGED <<qVars, wVars, reqVars, hVars>>

-----------------------------------------------------------------------------
Handles(r) == \/ BeginStream(r) \/ Submit(r) \/ NotifyOne(r) \/ SetSink(r) \/ Poll(r)
              \/ Answer(r) \/ Reply(r)
Generates(w) == \/ TokenPasses(w) \/ Token_cb(w) \/ TokenCancelled(w) \/ SinkAccepts(w)
                \/ SinkWrites(w) \/ SinkRefuses(w) \/ GenReturns(w) \/ Flush(w)
Writes(w) == WriteReturns(w) \/ WriteFails(w) \/ TailReturns(w)
Runs(w)   == Sleep(w) \/ Drain(w) \/ Pop(w) \/ Generates(w) \/ Finish(w) \/ Erase(w)
Works(w)  == Runs(w) \/ Writes(w)
Stops == StopBegin \/ StopNotify \/ StopJoined

Next == \/ \E r \in Request : Handles(r) \/ ClientLeaves(r)
        \/ \E w \in Worker : Works(w) \/ SpuriousWake(w)
        \/ Stops

Spec == Init /\ [][Next]_vars

\* Threads run; the engine produces a token or returns.  A handler that has
\* submitted goes on.  Nobody has to call stop, but who did goes on.  That a
\* write to a client ends (Writes, Reply) is not for the server to see to.
FairSpec ==
  /\ Spec
  /\ \A r \in Request : WF_vars(NotifyOne(r) \/ SetSink(r) \/ Poll(r) \/ Answer(r))
  /\ \A w \in Worker : WF_vars(Runs(w))
  /\ WF_vars(StopNotify \/ StopJoined)

-----------------------------------------------------------------------------
(* Properties. *)

CallPc    == {"gen", "tok", "sink", "send", "flush", "tail", "fin"}   \* in run_request
InCall(w) == wpc[w] \in CallPc
Working(w) == InCall(w) \/ wpc[w] = "erase"
Admitted(r) == hpc[r] \in {"notify", "sink", "wait", "answer", "done"}

\* An admitted request is in the queue, once, or with one worker, or finished,
\* and only one of these; running_ holds what the workers hold, so that stop()
\* reaches every request.
OneOwner ==
  /\ \A i, j \in 1 .. Len(queue) : queue[i] = queue[j] => i = j
  /\ \A v, w \in Worker : Working(v) /\ Working(w) /\ wreq[v] = wreq[w] => v = w
  /\ running = {wreq[w] : w \in {v \in Worker : Working(v)}}
  /\ Queued \cap running = {}
  /\ \A r \in Queued : Admitted(r) /\ ~finished[r]
  /\ \A r \in Request : Admitted(r) /\ ~finished[r] => r \in Queued \cup running

\* The sink of a request, a closure over its handler's frame, is not called
\* once the handler has returned.
SinkInFrame ==
  \A w \in Worker : InCall(w) => hpc[wreq[w]] # "done"

\* While a worker sleeps, each queued request has a worker of its own that is
\* awake for it, or a notification on its way; and nobody sleeps through stop().
NoLostWakeup ==
  /\ Sleepers # {} =>
       Len(queue) <= Cardinality({w \in Worker : wpc[w] = "ready"})
                     + Cardinality({r \in Request : hpc[r] = "notify"})
  /\ stopping /\ Sleepers # {} => stpc = "notify"

\* "stop(): cancels in-flight work" (scheduler.h:90): once it has begun no callback
\* passes the check any more, so the token a callback has passed with by then is the
\* last one its request counts; a request without such a callback counts none.
Passed(r) == \E w \in Worker : wpc[w] = "tok" /\ wreq[w] = r
StopIsPrompt ==
  [][stopping => \A r \in Request : /\ Passed(r)' => Passed(r)
                                    /\ ntok'[r] # ntok[r] => Passed(r) /\ ~Passed(r)']_vars

\* Before stop() a stream whose client stayed got the text of all its tokens,
\* whatever was held back between two of them.
Complete(r) ==
  hpc[r] = "done" /\ alive[r] /\ reason[r] \in {"stop", "length"} /\ ~stopping =>
    text[r] = 1 .. ntok[r]
StreamComplete == \A r \in Request \ Blocking : Complete(r)

\* Before stop() only a request whose client left is reported as cancelled:
\* "client is gone anyway" (qf_server.cpp:421), where no answer is sent at all.
CancelledIsGone ==
  \A r \in Request :
    hpc[r] = "done" /\ reason[r] = "cancelled" /\ ~stopping => ~alive[r]

\* The scheduler keeps the promise of RequestService.
Active == {r \in Request : ~finished[r] /\ \E w \in Worker : Working(w) /\ wreq[w] = r}
Outcome == [r \in Request |-> IF finished[r] THEN "done"
                              ELSE IF hpc[r] = "refused" THEN "refused" ELSE "none"]
Service == INSTANCE RequestService
             WITH Requests <- Request, Capacity <- MaxQueue, Workers <- Cardinality(Worker),
                  waiting <- queue, active <- Active, outcome <- Outcome, closed <- stopping
ServiceSpec == Service!Spec

\* Every write to a client ends: the client reads, or leaves and the write fails.
ClientsRead == /\ \A w \in Worker : []<>(wpc[w] \notin {"send", "tail"})
               /\ \A r \in Request : []<>(hpc[r] # "answer")

\* Every admitted request is answered, and stop() returns - unless a client stays and
\* stops reading for good: its worker is then in send, where `cancel' is not looked
\* at, those queued behind it wait, and stop() waits in join.
AdmittedAnswered == ClientsRead => \A r \in Request : Admitted(r) ~> hpc[r] = "done"
StopEnds == ClientsRead => (stpc = "notify" ~> stpc = "done")
=============================================================================
