--------------------------- MODULE RegionPipeline ---------------------------
(***************************************************************************)
(* The pipelined prefill of the AMD region server                          *)
(* (ocho/amd_server/qf_m8_region_server.cpp).                              *)
(*                                                                         *)
(* One connection thread (main) reads requests.  A prompt chunk is put in  *)
(* slot c % PIPE_SLOTS, enqueued on card 0 and handed to the host thread   *)
(* of card 1; the host thread of card g waits for card g-1's event of the  *)
(* same chunk, enqueues the chunk on its own card and hands it on; the     *)
(* reply thread waits for the last card's event, answers and frees the     *)
(* slot.  Every other request first drains the pipe.                       *)
(*                                                                         *)
(* A card executes what was enqueued on its stream in order and later than *)
(* the call that enqueued it: stream[g] is what card g still has to do.    *)
(* hop[g][k] is the pinned host buffer of slot k behind card g; its value  *)
(* is the request whose residual rows it holds.                            *)
(***************************************************************************)
EXTENDS Integers, Sequences

CONSTANTS NSTAGE,      \* cards in the pipe (4)
          PIPE_SLOTS,  \* chunk slots (4)
          FailStages,  \* cards on which a HIP call may fail
          MaxReq,      \* bound: chunk requests received
          MaxConn      \* bound: connections accepted

ASSUME PipeAssumption ==
  /\ NSTAGE \in Nat /\ NSTAGE >= 2
  /\ PIPE_SLOTS \in Nat \ {0}
  /\ MaxReq \in Nat
  /\ MaxConn \in Nat

Stage == 0 .. NSTAGE - 1
Host  == 1 .. NSTAGE - 1             \* cards that have a stage_worker thread
Slot  == 0 .. PIPE_SLOTS - 1
SlotOf(c) == c % PIPE_SLOTS
Ring  == 0 .. 2 * PIPE_SLOTS - 1     \* entries of a stage queue
RingOf(i) == i % (2 * PIPE_SLOTS)
None  == -1

VARIABLES
  kp,          \* where the connection thread is
  conn,        \* the connection it serves, or served last
  peer,        \* the peer of conn is still there
  nreq,        \* chunk requests received
  pipe_sub, pipe_head, pipe_tail,
  reply_fd, reply_fail, stage_fail,
  slot,        \* request whose header each slot keeps
  hop,         \* residual rows behind each card, per slot
  stream,      \* work enqueued on each card and not yet executed
  sq,          \* ring of chunks handed to each stage_worker,
  sq_head, sq_tail,  \* chunks ever pushed on it and popped from it
  wk,          \* chunk each stage_worker holds, or None
  rp,          \* where the reply thread is
  sent         \* everything the reply thread wrote, in order

connVars  == <<kp, conn, peer, nreq>>
pipeVars  == <<pipe_sub, pipe_head, pipe_tail>>
flagVars  == <<reply_fd, reply_fail, stage_fail>>
cardVars  == <<hop, stream>>
stageVars == <<sq, sq_head, sq_tail, wk>>
replyVars == <<rp, sent>>
vars == <<connVars, pipeVars, flagVars, slot, cardVars, stageVars, replyVars>>

KPc == {"accept", "recv", "chunk", "wait", "enq", "drain", "op", "close"}
RPc == {"idle", "sync", "hdr", "pay", "adv"}

\* The calls that put one chunk on a card, in order: rows in and layers, rows
\* out, event record.  n of them were made: card g writes hop[g] if n >= 2,
\* and there is an event to wait for only if n = 3.
Calls == 3
Item  == [c : Nat, r : Nat, n : 1 .. Calls]
Sent  == [kind : {"hdr", "pay"}, r : Nat]

TypeOK ==
  /\ kp \in KPc
  /\ conn \in Nat
  /\ peer \in BOOLEAN
  /\ nreq \in Nat
  /\ pipe_sub \in Nat /\ pipe_head \in Nat /\ pipe_tail \in Nat
  /\ reply_fd \in Nat \cup {None}
  /\ reply_fail \in BOOLEAN
  /\ stage_fail \in BOOLEAN
  /\ slot \in [Slot -> Nat]
  /\ hop \in [Stage -> [Slot -> Nat]]
  /\ stream \in [Stage -> Seq(Item)]
  /\ sq \in [Host -> [Ring -> Nat]]
  /\ sq_head \in [Host -> Nat] /\ sq_tail \in [Host -> Nat]
  /\ wk \in [Host -> Nat \cup {None}]
  /\ rp \in RPc
  /\ sent \in Seq(Sent)

Init ==
  /\ kp = "accept" /\ conn = 0 /\ peer = FALSE /\ nreq = 0
  /\ pipe_sub = 0 /\ pipe_head = 0 /\ pipe_tail = 0
  /\ reply_fd = None /\ reply_fail = FALSE /\ stage_fail = FALSE
  /\ slot = [k \in Slot |-> 0]
  /\ hop = [g \in Stage |-> [k \in Slot |-> 0]]
  /\ stream = [g \in Stage |-> <<>>]
  /\ sq = [g \in Host |-> [i \in Ring |-> 0]]
  /\ sq_head = [g \in Host |-> 0] /\ sq_tail = [g \in Host |-> 0]
  /\ wk = [g \in Host |-> None]
  /\ rp = "idle"
  /\ sent = <<>>

-----------------------------------------------------------------------------
(* The cards. *)

\* hipEventSynchronize returns at once unless the latest record of the event
\* is still on the stream: an event that was not recorded again is complete.
\* Mutant: the wait for the event is left out.
BadEventPending(g, k) == FALSE
EventPending(g, k) ==
  \E i \in 1 .. Len(stream[g]) : stream[g][i].n = Calls /\ SlotOf(stream[g][i].c) = k

\* The calls made for chunk c on card g: all of them, or those before the one
\* that failed.
\* Mutant: a call that failed at once is taken for one that was made.
BadEnqueue(g, c, r, n) == stream' = [stream EXCEPT ![g] = Append(@, [c |-> c, r |-> r, n |-> n])]
Enqueue(g, c, r, n) ==
  stream' = IF n = 0 THEN stream
            ELSE [stream EXCEPT ![g] = Append(@, [c |-> c, r |-> r, n |-> n])]

CallsMade(g) == IF g \in FailStages THEN 0 .. Calls ELSE {Calls}

\* Card g executes the oldest chunk on its stream.  Card 0 starts from the
\* tokens of the request, the others from the rows behind the card before.
CardStep(g) ==
  /\ stream[g] # <<>>
  /\ LET it == Head(stream[g])
         k  == SlotOf(it.c)
     IN hop' = IF it.n >= 2
               THEN [hop EXCEPT ![g][k] = IF g = 0 THEN it.r ELSE hop[g - 1][k]]
               ELSE hop
  /\ stream' = [stream EXCEPT ![g] = Tail(@)]
  /\ UNCHANGED <<connVars, pipeVars, flagVars, slot, stageVars, replyVars>>

\* The queue in front of card g is never checked for room.
StagePush(g, c) ==
  /\ sq' = [sq EXCEPT ![g][RingOf(sq_head[g])] = c]
  /\ sq_head' = [sq_head EXCEPT ![g] = @ + 1]

-----------------------------------------------------------------------------
(* The connection thread. *)

\* accept, then the reply thread's descriptor and its failure flag are reset.
Accept ==
  /\ kp = "accept"
  /\ conn < MaxConn
  /\ conn' = conn + 1
  /\ peer' = TRUE
  /\ reply_fd' = conn + 1
  /\ reply_fail' = FALSE
  /\ kp' = "recv"
  /\ UNCHANGED <<nreq, pipeVars, stage_fail, slot, cardVars, stageVars, replyVars>>

\* The peer goes away: its process ends, or it drops the connection.
PeerGone ==
  /\ kp # "accept"
  /\ peer
  /\ peer' = FALSE
  /\ UNCHANGED <<kp, conn, nreq, pipeVars, flagVars, slot, cardVars, stageVars, replyVars>>

RecvChunk ==
  /\ kp = "recv"
  /\ peer
  /\ nreq < MaxReq
  /\ nreq' = nreq + 1
  /\ kp' = "chunk"
  /\ UNCHANGED <<conn, peer, pipeVars, flagVars, slot, cardVars, stageVars, replyVars>>

\* Any other operation: reset, fork, commit, prefix, head, fused step.
RecvOp ==
  /\ kp = "recv"
  /\ peer
  /\ kp' = "drain"
  /\ UNCHANGED <<conn, peer, nreq, pipeVars, flagVars, slot, cardVars, stageVars, replyVars>>

\* A short read, a wrong magic or a chunk length out of range ends the loop.
RecvFails ==
  /\ kp = "recv"
  /\ kp' = "close"
  /\ UNCHANGED <<conn, peer, nreq, pipeVars, flagVars, slot, cardVars, stageVars, replyVars>>

\* A chunk is refused once the reply thread has failed on this connection.
CheckReply ==
  /\ kp = "chunk"
  /\ kp' = IF reply_fail THEN "close" ELSE "wait"
  /\ UNCHANGED <<conn, peer, nreq, pipeVars, flagVars, slot, cardVars, stageVars, replyVars>>

\* Wait until the chunk PIPE_SLOTS before has been retired, then fill its slot.
\* Mutant: one chunk too many.
BadSlotFree == pipe_sub - pipe_tail <= PIPE_SLOTS
SlotFree == pipe_sub - pipe_tail < PIPE_SLOTS
FillSlot ==
  /\ kp = "wait"
  /\ SlotFree
  /\ slot' = [slot EXCEPT ![SlotOf(pipe_sub)] = nreq]
  /\ kp' = "enq"
  /\ UNCHANGED <<conn, peer, nreq, pipeVars, flagVars, cardVars, stageVars, replyVars>>

RefuseAfterStageFail ==
  /\ kp = "enq"
  /\ stage_fail
  /\ kp' = "close"
  /\ UNCHANGED <<conn, peer, nreq, pipeVars, flagVars, slot, cardVars, stageVars, replyVars>>

\* Mutant: the stage failure flag is not looked at.
BadSubmitChunk ==
  /\ kp = "enq"
  /\ Enqueue(0, pipe_sub, nreq, Calls)
  /\ pipe_sub' = pipe_sub + 1
  /\ StagePush(1, pipe_sub)
  /\ kp' = "recv"
  /\ UNCHANGED <<conn, peer, nreq, pipe_head, pipe_tail, flagVars, slot, hop, sq_tail, wk, replyVars>>

SubmitChunk ==
  /\ kp = "enq"
  /\ ~stage_fail
  /\ Enqueue(0, pipe_sub, nreq, Calls)
  /\ pipe_sub' = pipe_sub + 1
  /\ StagePush(1, pipe_sub)
  /\ kp' = "recv"
  /\ UNCHANGED <<conn, peer, nreq, pipe_head, pipe_tail, flagVars, slot, hop, sq_tail, wk, replyVars>>

\* A HIP call fails on card 0: the chunk is not submitted, the calls made stay.
SubmitFails ==
  /\ kp = "enq"
  /\ ~stage_fail
  /\ \E n \in CallsMade(0) \ {Calls} : Enqueue(0, pipe_sub, nreq, n)
  /\ kp' = "close"
  /\ UNCHANGED <<conn, peer, nreq, pipeVars, flagVars, slot, hop, stageVars, replyVars>>

\* Mutant: drained once computed, not once answered.
BadDrained == pipe_head = pipe_sub
Drained == pipe_tail = pipe_sub
PipeDrain ==
  /\ kp = "drain"
  /\ Drained
  /\ kp' = "op"
  /\ UNCHANGED <<conn, peer, nreq, pipeVars, flagVars, slot, cardVars, stageVars, replyVars>>

\* The operation runs on every card and is answered by this thread; it breaks
\* out of the loop when a card or the socket fails.
RunOp ==
  /\ kp = "op"
  /\ kp' \in {"recv", "close"}
  /\ UNCHANGED <<conn, peer, nreq, pipeVars, flagVars, slot, cardVars, stageVars, replyVars>>

\* close(fd): nothing is drained and the reply thread is not told.
Close ==
  /\ kp = "close"
  /\ kp' = "accept"
  /\ peer' = FALSE
  /\ UNCHANGED <<conn, nreq, pipeVars, flagVars, slot, cardVars, stageVars, replyVars>>

-----------------------------------------------------------------------------
(* One host thread per card 1 .. NSTAGE-1. *)

StagePop(g) ==
  /\ wk[g] = None
  /\ sq_tail[g] # sq_head[g]
  /\ wk' = [wk EXCEPT ![g] = sq[g][RingOf(sq_tail[g])]]
  /\ sq_tail' = [sq_tail EXCEPT ![g] = @ + 1]
  /\ UNCHANGED <<connVars, pipeVars, flagVars, slot, cardVars, sq, sq_head, replyVars>>

\* The chunk is passed on whether or not it could be enqueued here.
\* Mutant: a chunk that failed here is dropped.
BadPassOn(g, c) ==
  IF stage_fail' THEN UNCHANGED <<sq, sq_head, pipe_head>>
  ELSE IF g + 1 < NSTAGE
       THEN StagePush(g + 1, c) /\ UNCHANGED pipe_head
       ELSE pipe_head' = c + 1 /\ UNCHANGED <<sq, sq_head>>
PassOn(g, c) ==
  IF g + 1 < NSTAGE
  THEN StagePush(g + 1, c) /\ UNCHANGED pipe_head
  ELSE pipe_head' = c + 1 /\ UNCHANGED <<sq, sq_head>>

StageRun(g) ==
  /\ wk[g] # None
  /\ ~EventPending(g - 1, SlotOf(wk[g]))
  /\ \E n \in CallsMade(g) :
       /\ Enqueue(g, wk[g], slot[SlotOf(wk[g])], n)
       /\ stage_fail' = (stage_fail \/ n < Calls)
  /\ PassOn(g, wk[g])
  /\ wk' = [wk EXCEPT ![g] = None]
  /\ UNCHANGED <<connVars, pipe_sub, pipe_tail, reply_fd, reply_fail, slot, hop, sq_tail, replyVars>>

-----------------------------------------------------------------------------
(* The reply thread; the chunk it answers is pipe_tail. *)

Last == NSTAGE - 1

ReplyTake ==
  /\ rp = "idle"
  /\ pipe_tail # pipe_head
  /\ rp' = "sync"
  /\ UNCHANGED <<connVars, pipeVars, flagVars, slot, cardVars, stageVars, sent>>

\* hipEventSynchronize (69, and 104 in a stage worker) is taken to fail only for an
\* event that has executed, or on whose card nothing executes any more: while the
\* card still works on it, the call returns when it has executed.
ReplySync ==
  /\ rp = "sync"
  /\ ~EventPending(Last, SlotOf(pipe_tail))
  /\ reply_fail' \in (IF Last \in FailStages THEN {reply_fail, TRUE} ELSE {reply_fail})
  /\ rp' = "hdr"
  /\ UNCHANGED <<connVars, pipeVars, reply_fd, stage_fail, slot, cardVars, stageVars, sent>>

\* Mutant: the reply thread gives up for good after a failed write.
BadReplySkip == rp = "hdr" /\ reply_fail /\ UNCHANGED vars
ReplySkip ==
  /\ rp = "hdr"
  /\ reply_fail
  /\ rp' = "adv"
  /\ UNCHANGED <<connVars, pipeVars, flagVars, slot, cardVars, stageVars, sent>>

\* A write to the descriptor reply_fd holds now.
Open(fd)    == fd = conn /\ kp # "accept"
CanSend(fd) == Open(fd)
CanFail(fd) == ~(Open(fd) /\ peer)

ReplyHeader ==
  /\ rp = "hdr"
  /\ ~reply_fail
  /\ CanSend(reply_fd)
  /\ sent' = Append(sent, [kind |-> "hdr", r |-> slot[SlotOf(pipe_tail)]])
  /\ rp' = "pay"
  /\ UNCHANGED <<connVars, pipeVars, flagVars, slot, cardVars, stageVars>>

ReplyPayload ==
  /\ rp = "pay"
  /\ CanSend(reply_fd)
  /\ sent' = Append(sent, [kind |-> "pay", r |-> hop[Last][SlotOf(pipe_tail)]])
  /\ rp' = "adv"
  /\ UNCHANGED <<connVars, pipeVars, flagVars, slot, cardVars, stageVars>>

ReplyWriteFails ==
  /\ (rp = "hdr" /\ ~reply_fail) \/ rp = "pay"
  /\ CanFail(reply_fd)
  /\ reply_fail' = TRUE
  /\ rp' = "adv"
  /\ UNCHANGED <<connVars, pipeVars, reply_fd, stage_fail, slot, cardVars, stageVars, sent>>

\* Mutant: everything computed counts as answered.
BadReplyAdvance ==
  /\ rp = "adv"
  /\ pipe_tail' = pipe_head
  /\ rp' = "idle"
  /\ UNCHANGED <<connVars, pipe_sub, pipe_head, flagVars, slot, cardVars, stageVars, sent>>
ReplyAdvance ==
  /\ rp = "adv"
  /\ pipe_tail' = pipe_tail + 1
  /\ rp' = "idle"
  /\ UNCHANGED <<connVars, pipe_sub, pipe_head, flagVars, slot, cardVars, stageVars, sent>>

-----------------------------------------------------------------------------
Cards  == \E g \in Stage : CardStep(g)
Conn   == \/ Accept \/ RecvChunk \/ RecvOp \/ RecvFails
          \/ CheckReply \/ FillSlot \/ RefuseAfterStageFail \/ SubmitChunk \/ SubmitFails
          \/ PipeDrain \/ RunOp \/ Close
Worker == \E g \in Host : StagePop(g) \/ StageRun(g)
Reply  == \/ ReplyTake \/ ReplySync \/ ReplySkip \/ ReplyHeader \/ ReplyPayload
          \/ ReplyWriteFails \/ ReplyAdvance

Next == Cards \/ Conn \/ PeerGone \/ Worker \/ Reply

Spec == Init /\ [][Next]_vars

\* A card runs what is on its stream; each thread runs once it is not blocked.
\* A thread that writes to the peer or reads from it is blocked: io_all has no
\* timeout, so RunOp, ReplyHeader, ReplyPayload and ReplyWriteFails are not fair.
ConnRuns  == \/ CheckReply \/ FillSlot \/ RefuseAfterStageFail \/ SubmitChunk \/ SubmitFails
             \/ PipeDrain \/ Close
ReplyRuns == ReplyTake \/ ReplySync \/ ReplySkip \/ ReplyAdvance
Fairness ==
  /\ \A g \in Stage : WF_vars(CardStep(g))
  /\ \A g \in Host : WF_vars(StagePop(g) \/ StageRun(g))
  /\ WF_vars(ReplyRuns)
  /\ WF_vars(ConnRuns)

FairSpec == Spec /\ Fairness

-----------------------------------------------------------------------------
(* Properties. *)

\* The chunks that own a slot: submitted and not retired, and the one being
\* filled.
Owned == pipe_tail .. (IF kp = "enq" THEN pipe_sub ELSE pipe_sub - 1)
Header(c) == slot[SlotOf(c)]

\* "Slot buffers are reused only after their reply was sent (never on host
\* call order)": the headers of the chunks that own a slot are all different
\* and in request order, so no slot was refilled under a chunk in the pipe.
SlotsNotReused ==
  \A c, d \in Owned : c < d => Header(c) < Header(d)

\* No thread holds or is handed a chunk that has been retired, the counters
\* stay ordered, and a stage queue (2 * PIPE_SLOTS entries, never checked for
\* room by stage_push) cannot wrap over an entry not popped yet.
PipeWindow ==
  /\ pipe_tail <= pipe_head /\ pipe_head <= pipe_sub
  /\ pipe_sub - pipe_tail <= PIPE_SLOTS
  /\ \A g \in Host :
       /\ sq_tail[g] <= sq_head[g] /\ sq_head[g] - sq_tail[g] <= PIPE_SLOTS
       /\ \A i \in sq_tail[g] .. sq_head[g] - 1 :
            pipe_head <= sq[g][RingOf(i)] /\ sq[g][RingOf(i)] < pipe_sub
       /\ wk[g] # None => pipe_head <= wk[g] /\ wk[g] < pipe_sub

\* After pipe_drain nothing of any chunk is left anywhere: the operation that
\* follows (reset, fork, commit, prefix, head) has the cards, the shared
\* staging and the bf16 wire buffer for itself.
OpHasCards ==
  kp = "op" => /\ \A g \in Stage : stream[g] = <<>>
               /\ \A g \in Host : sq_tail[g] = sq_head[g] /\ wk[g] = None
               /\ rp = "idle"

\* Replies leave in request order, header by header.
RepliesInOrder ==
  \A i, j \in 1 .. Len(sent) :
    i < j /\ sent[i].kind = "hdr" /\ sent[j].kind = "hdr" => sent[i].r < sent[j].r

\* The rows that follow a header are the rows of that header's request: they
\* went through all cards, each of which read them after the card before had
\* written them.
RowsMatchHeader ==
  \A i \in 1 .. Len(sent) :
    sent[i].kind = "pay" => i > 1 /\ sent[i - 1].kind = "hdr" /\ sent[i - 1].r = sent[i].r

\* A card never still has to read rows that the card before is going to
\* overwrite with a later chunk's, although a failed card leaves calls on its
\* stream whose event was never recorded and whose slot is freed early.
RowsNotOverwritten ==
  \A g \in Host : \A i \in 1 .. Len(stream[g]), j \in 1 .. Len(stream[g - 1]) :
    LET reads == stream[g][i]  writes == stream[g - 1][j]
    IN writes.n >= 2 /\ SlotOf(reads.c) = SlotOf(writes.c) => writes.c <= reads.c

\* The pipe keeps the promise of ChunkService.
Service == INSTANCE ChunkService
             WITH Slots <- PIPE_SLOTS, taken <- pipe_sub, retired <- pipe_tail,
                  exclusive <- (kp = "op")
ServiceSpec == Service!Spec

\* The reply thread is in io_all with a header or with the rows. That this ends
\* is for the peer to see to: it reads, or it leaves and the write fails.
Sending     == (rp = "hdr" /\ ~reply_fail) \/ rp = "pay"
SendReturns == []<>~Sending

\* Every submitted chunk is retired, and a drain ends, also when a card fails
\* or the peer leaves with chunks in flight - unless a connected peer stops
\* reading for good: then the reply thread stays in send, pipe_tail stands
\* still, and pipe_drain waits for ever.
ChunksRetired == SendReturns => \A c \in 0 .. MaxReq - 1 : pipe_sub > c ~> pipe_tail > c
DrainEnds     == SendReturns => (kp = "drain" ~> kp = "op")
=============================================================================
