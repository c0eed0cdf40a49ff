---------------------------- MODULE HipPipeline ----------------------------
(***************************************************************************)
(* The four-card engine behind one HTTP server                             *)
(* (ocho/amd_server/qf_hip4_pipeline.cpp, the stage calls it makes in      *)
(* qf_hip4_stage.hip, and its driver, qf_hip4_server.cpp).                 *)
(*                                                                         *)
(* A thread per card takes a token from the mailbox in front of it, runs   *)
(* its layers and passes the residual on; a mailbox holds two entries.     *)
(* HTTP workers take turns under one mutex: the holder resets the engine   *)
(* with a token of -1, shows it the prompt without waiting, and then waits *)
(* for the logits of one token after another.                              *)
(*                                                                         *)
(* Between two cards the residual travels in the mailbox ("pinned"), or in *)
(* one of two device buffers of the producing card ("p2p"), written and    *)
(* read by copies that the cards' streams make later.                      *)
(*                                                                         *)
(* Box g is the mailbox in front of stage g, box NGPU that of the logits.  *)
(* A residual is named by the request and the position it belongs to.      *)
(***************************************************************************)
EXTENDS Integers, Sequences, FiniteSets

CONSTANTS NGPU,           \* QF4_NGPU
          Worker,         \* HTTP workers (kWorkers)
          Nobody,
          LongestPrompt,  \* longest prompt, per handoff mode that may be chosen
          MaxTokens,      \* params.max_tokens of every request
          MaxReq,         \* connections that come (bound)
          FailStages      \* stages whose HIP calls may fail

MB_DEPTH == 2
Stage == 0 .. NGPU - 1
Box   == 0 .. NGPU
Main  == NGPU             \* the thread that frees the engine
Mode  == {"pinned", "p2p"}

ASSUME HipAssumption ==
  /\ NGPU \in Nat \ {0}
  /\ IsFiniteSet(Worker) /\ Worker # {} /\ Nobody \notin Worker
  /\ DOMAIN LongestPrompt \subseteq Mode
  /\ \A m \in DOMAIN LongestPrompt : LongestPrompt[m] \in Nat \ {0}
  /\ MaxTokens \in Nat \ {0} /\ MaxReq \in Nat
  /\ FailStages \subseteq Stage

Junk   == <<0, 0>>        \* a residual computed from the wrong text
Reset  == -1              \* the token of the reset sentinel
Idle   == [req |-> 0, pos |-> 0, want |-> FALSE, load |-> Junk]
NoCopy == [slot |-> 2, val |-> Junk, wait |-> FALSE]

VARIABLES
  handoff,                \* the mode chosen by qf_hip4_init
  box, stopped,           \* mailboxes; those that were stopped
  err,
  pc, cur, R,             \* per stage: step, token it works on, residual on the card
  text,                   \* per stage: the tokens its recurrent state was made from
  hand, emit, recv,       \* p2p: buffers of a card, copy out and copy in under way
  stopAt,                 \* next mailbox that a failing stage, or Main, stops
  holder, phase,          \* of g_engine_mu; what the holder does
  req, plen, pos,         \* its request, prompt length, next position to show
  logits,                 \* its logits buffer
  wpc, g_stop             \* HTTP workers; the flag of the signal handler

boxVars   == <<box, stopped, err>>
stageVars == <<pc, cur, R, text, hand, emit, recv>>
workVars  == <<holder, phase, req, plen, pos, logits>>
httpVars  == <<wpc, g_stop>>
vars == <<handoff, boxVars, stageVars, stopAt, workVars, httpVars>>

Init ==
  /\ handoff \in DOMAIN LongestPrompt
  /\ box = [b \in Box |-> <<>>] /\ stopped = {} /\ err = FALSE
  /\ pc = [g \in Stage |-> "pop"] /\ cur = [g \in Stage |-> Idle]
  /\ R = [g \in Stage |-> Junk] /\ text = [g \in Stage |-> <<>>]
  /\ hand = [g \in Stage |-> [s \in {0, 1} |-> Junk]]
  /\ emit = [g \in Stage |-> NoCopy] /\ recv = [g \in Stage |-> NoCopy]
  /\ stopAt = [a \in Box |-> 0]
  /\ holder = Nobody /\ phase = "reset" /\ req = 0 /\ plen = 1 /\ pos = 0 /\ logits = Junk
  /\ wpc = [w \in Worker |-> "accept"] /\ g_stop = FALSE

-----------------------------------------------------------------------------
(* Mailboxes. *)

\* mb_push goes on when the mailbox was stopped (and drops the entry) or has room.
MayPush(b) == b \in stopped \/ Len(box[b]) < MB_DEPTH
Pushed(b, e) == IF b \in stopped THEN box ELSE [box EXCEPT ![b] = Append(@, e)]

\* stage_fail and qf_hip4_free stop the mailboxes one after another, each under
\* its mutex, which wakes all who wait there.
\* Mutants: the logits mailbox, or the one in front of the first card, is left out.
BadStops(a) == {stopAt[a]} \ {NGPU}
BadStopsFirst(a) == {stopAt[a]} \ {0}
Stops(a) == {stopAt[a]}
StopBox(a) ==
  /\ IF a = Main THEN phase = "free" ELSE pc[a] = "fail"
  /\ stopAt[a] \in Box
  /\ stopped' = stopped \cup Stops(a)
  /\ stopAt' = [stopAt EXCEPT ![a] = @ + 1]
  /\ pc' = IF a # Main /\ stopAt[a] = NGPU THEN [pc EXCEPT ![a] = "exited"] ELSE pc
  /\ UNCHANGED <<handoff, box, err, cur, R, text, hand, emit, recv, workVars, httpVars>>

-----------------------------------------------------------------------------
(* A stage thread, stage_main. *)

Popped(g) ==
  /\ pc[g] = "pop" /\ g \notin stopped /\ box[g] # <<>>
  /\ cur' = [cur EXCEPT ![g] = Head(box[g])]
  /\ box' = [box EXCEPT ![g] = Tail(@)]
  /\ pc' = [pc EXCEPT ![g] = IF Head(box[g]).pos = Reset THEN "run" ELSE "recv"]
  /\ UNCHANGED <<handoff, stopped, err, R, text, hand, emit, recv, stopAt, workVars, httpVars>>

\* mb_pop returns -1: the thread ends.
PopStopped(g) ==
  /\ pc[g] = "pop" /\ g \in stopped
  /\ pc' = [pc EXCEPT ![g] = "exited"]
  /\ UNCHANGED <<handoff, boxVars, cur, R, text, hand, emit, recv, stopAt, workVars, httpVars>>

\* set_token waits for its stream, so the copy out of R is over; push_residual
\* copies what came in the mailbox.
Receive(g) ==
  /\ pc[g] = "recv" /\ (g = 0 \/ handoff = "pinned")
  /\ emit[g] = NoCopy
  /\ R' = [R EXCEPT ![g] = IF g = 0 THEN <<cur[g].req, cur[g].pos>> ELSE cur[g].load]
  /\ pc' = [pc EXCEPT ![g] = "run"]
  /\ UNCHANGED <<handoff, boxVars, cur, text, hand, emit, recv, stopAt, workVars, httpVars>>

\* recv_residual_dev: the stream will wait for the event of the slot as it was
\* recorded last, and then copy from the slot.
RecvResidualDev(g) ==
  LET slot == cur[g].pos % 2 IN
  /\ pc[g] = "recv" /\ g # 0 /\ handoff = "p2p"
  /\ recv' = [recv EXCEPT ![g] = [slot |-> slot, val |-> Junk,
                                  wait |-> emit[g - 1].slot = slot]]
  /\ pc' = [pc EXCEPT ![g] = "run"]
  /\ UNCHANGED <<handoff, boxVars, cur, R, text, hand, emit, stopAt, workVars, httpVars>>

\* The card makes the copy; it comes after the copy out of R on the same stream.
CopyIn(g) ==
  /\ recv[g] # NoCopy /\ ~recv[g].wait /\ emit[g] = NoCopy
  /\ R' = [R EXCEPT ![g] = hand[g - 1][recv[g].slot]]
  /\ recv' = [recv EXCEPT ![g] = NoCopy]
  /\ UNCHANGED <<handoff, boxVars, pc, cur, text, hand, emit, stopAt, workVars, httpVars>>

\* The layers fold the token into the state of the card.  The residual that
\* comes out is right if the one that came in was and the state was made from
\* all the tokens before it and no others.
Before(r, p) == [i \in 1 .. p |-> <<r, i - 1>>]
Layers(g) ==
  LET x == R[g] IN
  IF x # Junk /\ text[g] = Before(x[1], x[2]) THEN x ELSE Junk

\* qf4_stage_run, or qf4_stage_reset for the sentinel; both wait for the stream.
Run(g) ==
  /\ pc[g] = "run" /\ recv[g] = NoCopy /\ emit[g] = NoCopy
  /\ IF cur[g].pos = Reset
     THEN text' = [text EXCEPT ![g] = <<>>] /\ UNCHANGED R
     ELSE /\ text' = [text EXCEPT ![g] = Append(@, R[g])]
          /\ R' = [R EXCEPT ![g] = Layers(g)]
  /\ pc' = [pc EXCEPT ![g] = IF cur[g].pos = Reset THEN "push" ELSE "send"]
  /\ UNCHANGED <<handoff, boxVars, cur, hand, emit, recv, stopAt, workVars, httpVars>>

\* emit_residual starts the copy into a device buffer and records its event;
\* pull_residual and pull_logits copy at once into the thread's own buffer.
\* Mutant: the buffers are not told apart.
BadSlotOf(g) == 0
SlotOf(g) == cur[g].pos % 2
Send(g) ==
  /\ pc[g] = "send"
  /\ emit' = IF handoff = "p2p" /\ g < NGPU - 1
             THEN [emit EXCEPT ![g] = [slot |-> SlotOf(g), val |-> R[g], wait |-> FALSE]]
             ELSE emit
  /\ pc' = [pc EXCEPT ![g] = "push"]
  /\ UNCHANGED <<handoff, boxVars, cur, R, text, hand, recv, stopAt, workVars, httpVars>>

CopyOut(g) ==
  /\ emit[g] # NoCopy
  /\ hand' = [hand EXCEPT ![g][emit[g].slot] = emit[g].val]
  /\ emit' = [emit EXCEPT ![g] = NoCopy]
  /\ recv' = IF g < NGPU - 1 /\ recv[g + 1].slot = emit[g].slot
             THEN [recv EXCEPT ![g + 1].wait = FALSE] ELSE recv
  /\ UNCHANGED <<handoff, boxVars, pc, cur, R, text, stopAt, workVars, httpVars>>

\* The last stage answers the sentinel and the tokens whose logits are wanted.
\* Mutant: it answers the tokens of the prompt as well.
BadAnswers(e) == TRUE
Answers(e) == e.pos = Reset \/ e.want
Passes(g) == g < NGPU - 1 \/ Answers(cur[g])
Push(g) ==
  /\ pc[g] = "push"
  /\ Passes(g) => MayPush(g + 1)
  /\ box' = IF Passes(g) THEN Pushed(g + 1, [cur[g] EXCEPT !.load = R[g]]) ELSE box
  /\ pc' = [pc EXCEPT ![g] = "pop"]
  /\ cur' = [cur EXCEPT ![g] = Idle]
  /\ UNCHANGED <<handoff, stopped, err, R, text, hand, emit, recv, stopAt, workVars, httpVars>>

\* A HIP call fails: stage_fail.
StageFail(g) ==
  /\ g \in FailStages /\ pc[g] \in {"recv", "run", "send"}
  /\ err' = TRUE
  /\ pc' = [pc EXCEPT ![g] = "fail"]
  /\ UNCHANGED <<handoff, box, stopped, cur, R, text, hand, emit, recv, stopAt, workVars,
                 httpVars>>

-----------------------------------------------------------------------------
(* The HTTP worker that holds the engine. *)

Token(r, p, want) == [req |-> r, pos |-> p, want |-> want, load |-> Junk]

\* try_lock_for succeeds.  The prompt has a token at least.
Lock(w) ==
  /\ wpc[w] = "lock" /\ holder = Nobody
  /\ holder' = w /\ phase' = "reset" /\ req' = req + 1
  /\ plen' \in 1 .. LongestPrompt[handoff] /\ pos' = 0
  /\ wpc' = [wpc EXCEPT ![w] = "engine"]
  /\ UNCHANGED <<handoff, boxVars, stageVars, stopAt, logits, g_stop>>

\* qf_hip4_reset, which says nothing when the engine is broken.
ResetBegin ==
  /\ holder # Nobody /\ phase = "reset"
  /\ phase' = IF err THEN "show" ELSE "sentinel"
  /\ UNCHANGED <<handoff, boxVars, stageVars, stopAt, holder, req, plen, pos, logits, httpVars>>
SendReset ==
  /\ holder # Nobody /\ phase = "sentinel" /\ MayPush(0)
  /\ box' = Pushed(0, Token(req, Reset, FALSE))
  /\ phase' = "ack"
  /\ UNCHANGED <<handoff, stopped, err, stageVars, stopAt, holder, req, plen, pos, logits,
                 httpVars>>

\* It takes entries out of the logits mailbox until it finds the sentinel.
Ack ==
  /\ holder # Nobody /\ phase = "ack"
  /\ \/ NGPU \in stopped /\ phase' = "show" /\ UNCHANGED box
     \/ /\ NGPU \notin stopped /\ box[NGPU] # <<>>
        /\ box' = [box EXCEPT ![NGPU] = Tail(@)]
        /\ phase' = IF Head(box[NGPU]).pos = Reset THEN "show" ELSE "ack"
  /\ UNCHANGED <<handoff, stopped, err, stageVars, stopAt, holder, req, plen, pos, logits,
                 httpVars>>

\* worker_loop, back from a connection: with g_stop the worker ends.
Back == IF g_stop THEN "left" ELSE "accept"

\* The request ends: an answer or an error is sent, then the lock is released.
\* The send has no timeout.
Release ==
  /\ holder' = Nobody /\ phase' = "reset" /\ logits' = Junk /\ plen' = 1 /\ pos' = 0
  /\ wpc' = [wpc EXCEPT ![holder] = Back]
  /\ UNCHANGED req

\* submit and submit_prefill look at err before and after the push: a card may
\* fail in between.
Wanted == pos >= plen - 1
ShowBegin ==
  /\ holder # Nobody /\ phase = "show"
  /\ IF err THEN Release
     ELSE phase' = "submit" /\ UNCHANGED <<holder, req, plen, pos, logits, wpc>>
  /\ UNCHANGED <<handoff, boxVars, stageVars, stopAt, g_stop>>
Show ==
  /\ holder # Nobody /\ phase = "submit" /\ MayPush(0)
  /\ box' = Pushed(0, Token(req, pos, Wanted))
  /\ IF err THEN Release ELSE
       /\ pos' = pos + 1
       /\ phase' = IF Wanted THEN "wait" ELSE "show"
       /\ UNCHANGED <<holder, req, plen, logits, wpc>>
  /\ UNCHANGED <<handoff, stopped, err, stageVars, stopAt, g_stop>>

\* qf_hip4_wait: the next entry must be that of the position asked for.
Wait ==
  /\ holder # Nobody /\ phase = "wait"
  /\ NGPU \notin stopped /\ box[NGPU] # <<>>
  /\ box' = [box EXCEPT ![NGPU] = Tail(@)]
  /\ IF Head(box[NGPU]).pos = pos - 1
     THEN /\ logits' = Head(box[NGPU]).load
          /\ phase' = "got"
          /\ UNCHANGED <<holder, req, plen, pos, wpc>>
     ELSE Release
  /\ UNCHANGED <<handoff, stopped, err, stageVars, stopAt, g_stop>>
WaitFails ==
  /\ holder # Nobody /\ phase = "wait" /\ NGPU \in stopped
  /\ Release
  /\ UNCHANGED <<handoff, boxVars, stageVars, stopAt, g_stop>>

\* The token sampled is shown next, if there are more to come.
Sample ==
  /\ holder # Nobody /\ phase = "got" /\ pos < plen + MaxTokens - 1
  /\ phase' = "show"
  /\ UNCHANGED <<handoff, boxVars, stageVars, stopAt, holder, req, plen, pos, logits, httpVars>>

\* End of text, stop string, token budget, client gone, or the server is stopping.
\* Mutant: a client that leaves ends the request while its logits are being computed.
BadMayEnd == phase \in {"got", "wait"}
MayEnd == phase = "got"
EndRequest ==
  /\ holder # Nobody /\ MayEnd
  /\ Release
  /\ UNCHANGED <<handoff, boxVars, stageVars, stopAt, g_stop>>

-----------------------------------------------------------------------------
(* HTTP workers and main. *)

\* A connection with a request for the engine.  A worker that is in accept when
\* the socket is closed stays in it and may still be given one.
Accept(w) ==
  /\ wpc[w] = "accept"
  /\ req + Cardinality({v \in Worker : wpc[v] = "lock"}) < MaxReq
  /\ wpc' = [wpc EXCEPT ![w] = "lock"]
  /\ UNCHANGED <<handoff, boxVars, stageVars, stopAt, workVars, g_stop>>

\* accept fails: the signal interrupted it, or the socket was closed before.
Interrupted(w) ==
  /\ wpc[w] = "accept" /\ g_stop
  /\ wpc' = [wpc EXCEPT ![w] = "left"]
  /\ UNCHANGED <<handoff, boxVars, stageVars, stopAt, workVars, g_stop>>

\* try_lock_for gives up after kEngineWaitS: "engine busy".
Busy(w) ==
  /\ wpc[w] = "lock" /\ holder # Nobody
  /\ wpc' = [wpc EXCEPT ![w] = Back]
  /\ UNCHANGED <<handoff, boxVars, stageVars, stopAt, workVars, g_stop>>

Signal ==
  /\ ~g_stop /\ g_stop' = TRUE
  /\ UNCHANGED <<handoff, boxVars, stageVars, stopAt, workVars, wpc>>

\* main has joined the workers: qf_hip4_free, which joins the stage threads.
FreeBegin ==
  /\ \A w \in Worker : wpc[w] = "left"
  /\ phase = "reset" /\ holder = Nobody
  /\ phase' = "free"
  /\ UNCHANGED <<handoff, boxVars, stageVars, stopAt, holder, req, plen, pos, logits, httpVars>>
Freed ==
  /\ phase = "free" /\ stopAt[Main] = NGPU + 1
  /\ \A g \in Stage : pc[g] = "exited"
  /\ phase' = "freed"
  /\ UNCHANGED <<handoff, boxVars, stageVars, stopAt, holder, req, plen, pos, logits, httpVars>>

-----------------------------------------------------------------------------
Runs(g)   == \/ Popped(g) \/ PopStopped(g) \/ Receive(g) \/ RecvResidualDev(g) \/ Run(g)
             \/ Send(g) \/ Push(g) \/ StopBox(g)
Copies(g) == CopyIn(g) \/ CopyOut(g)
Drives    == \/ ResetBegin \/ SendReset \/ Ack \/ ShowBegin \/ Show \/ Wait \/ WaitFails
             \/ Sample \/ EndRequest
Serves(w) == Lock(w) \/ Busy(w)
Frees     == FreeBegin \/ StopBox(Main) \/ Freed

Next ==
  \/ \E g \in Stage : Runs(g) \/ Copies(g) \/ StageFail(g)
  \/ Drives
  \/ \E w \in Worker : Serves(w) \/ Accept(w) \/ Interrupted(w)
  \/ Signal \/ Frees

Spec == Init /\ [][Next]_vars

\* The holder writes to its client, with g_engine_mu held: the head of a stream
\* before its first token, the text of a sampled token, the answer or an error.
Sends    == Drives /\ (phase = "got" \/ (phase = "show" /\ pos = 0) \/ holder' = Nobody)
Computes == Drives /\ ~(phase = "got" \/ (phase = "show" /\ pos = 0) \/ holder' = Nobody)

\* Threads run and the cards make the copies they were given.  Nobody has to
\* connect, no card has to fail, no signal has to come; nor does a client have to
\* take what is written to it.
FairSpec ==
  /\ Spec
  /\ \A g \in Stage : WF_vars(Runs(g)) /\ WF_vars(CopyIn(g)) /\ WF_vars(CopyOut(g))
  /\ WF_vars(Computes) /\ WF_vars(Frees)
  /\ \A w \in Worker : WF_vars(Serves(w))

-----------------------------------------------------------------------------
(* Properties. *)

\* "this double buffering is race-free" (qf_hip4_pipeline.cpp:26-31): a card
\* whose residual has arrived runs the token with the residual of that token,
\* and on a state made from the tokens before it.
HandoffRaceFree ==
  \A g \in Stage :
    pc[g] = "run" /\ recv[g] = NoCopy /\ emit[g] = NoCopy /\ cur[g].pos # Reset =>
      /\ R[g] = <<cur[g].req, cur[g].pos>>
      /\ text[g] = Before(cur[g].req, cur[g].pos)

\* "Only legal when the pipeline is idle (server contract)" (line 40): whoever
\* takes the engine finds no token in a mailbox or in a stage, unless the engine
\* is broken.
IdleWhenFree ==
  holder = Nobody /\ ~err /\ phase # "free" /\ phase # "freed" =>
    /\ \A b \in Box : box[b] = <<>>
    /\ \A g \in Stage : pc[g] = "pop"

\* The engine keeps the promise of SerialEngine.
Engine == INSTANCE SerialEngine
            WITH Workers <- Worker, NoLogits <- Junk, owner <- holder, request <- req,
                 shown <- pos, broken <- err
EngineSpec == Engine!Spec

\* No write to a client lasts for ever: the client reads, or leaves.
ClientsRead == []<>~ENABLED Sends

\* Whoever takes the engine gives it back, also when a card fails under it - unless
\* its client stays and stops reading for good: then every later request is told
\* that the engine is busy.
EngineReleased == ClientsRead => (holder # Nobody ~> holder = Nobody)

\* Once main frees the engine every stage thread ends, whatever failed before.
FreeEnds == phase = "free" ~> phase = "freed"
=============================================================================
