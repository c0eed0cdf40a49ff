------------------------ MODULE RegionPipeline_proofs ------------------------
(***************************************************************************)
(* Proofs about RegionPipeline, for any number of cards, slots, requests   *)
(* and connections.                                                        *)
(***************************************************************************)
EXTENDS RegionPipeline, Remainders, TLAPS

-----------------------------------------------------------------------------
(* Constants, and the entries of the two kinds of ring.                    *)

LEMMA ConstantFacts ==
  /\ NSTAGE \in Nat /\ NSTAGE >= 2
  /\ PIPE_SLOTS \in Nat \ {0}
  /\ 2 * PIPE_SLOTS \in Nat \ {0}
  /\ MaxReq \in Nat /\ MaxConn \in Nat
BY PipeAssumption DEF PipeAssumption

LEMMA SlotInRange == \A c \in Nat : SlotOf(c) \in Slot
BY ConstantFacts, Division DEF SlotOf, Slot

LEMMA RingInRange == \A i \in Nat : RingOf(i) \in Ring
BY ConstantFacts, Division DEF RingOf, Ring

LEMMA SlotsDiffer ==
  \A c, d \in Nat : c < d /\ d - c < PIPE_SLOTS => SlotOf(c) # SlotOf(d)
BY ConstantFacts, WindowInjective DEF SlotOf

LEMMA RingEntriesDiffer ==
  \A i, j \in Nat : i < j /\ j - i < 2 * PIPE_SLOTS => RingOf(i) # RingOf(j)
BY ConstantFacts, WindowInjective DEF RingOf

-----------------------------------------------------------------------------
(* Types. *)

LEMMA EnqueueType ==
  ASSUME stream \in [Stage -> Seq(Item)],
         NEW g \in Stage, NEW c \in Nat, NEW r \in Nat, NEW n \in 0 .. Calls,
         Enqueue(g, c, r, n)
  PROVE  stream' \in [Stage -> Seq(Item)]
<1>1. CASE n = 0
  BY <1>1 DEF Enqueue
<1>2. CASE n # 0
  <2>1. [c |-> c, r |-> r, n |-> n] \in Item
    BY <1>2 DEF Item, Calls
  <2>2. QED
    BY <1>2, <2>1 DEF Enqueue
<1>3. QED
  BY <1>1, <1>2

LEMMA CallsMadeBound == \A g \in Stage : CallsMade(g) \subseteq 0 .. Calls
BY DEF CallsMade, Calls

LEMMA StagePushType ==
  ASSUME sq \in [Host -> [Ring -> Nat]], sq_head \in [Host -> Nat],
         NEW g \in Host, NEW c \in Nat, StagePush(g, c)
  PROVE  sq' \in [Host -> [Ring -> Nat]] /\ sq_head' \in [Host -> Nat]
BY RingInRange DEF StagePush

\* Every variable keeps its type: in particular the ring indices and the slot
\* numbers computed from the unbounded chunk counters stay inside the arrays
\* g_sq and g_slot.
THEOREM TypeCorrect == Spec => []TypeOK
<1>1. Init => TypeOK
  <2>1. SUFFICES ASSUME Init PROVE TypeOK
    OBVIOUS
  <2>2. stream \in [Stage -> Seq(Item)] /\ sent \in Seq(Sent)
    BY <2>1 DEF Init
  <2>3. slot \in [Slot -> Nat] /\ hop \in [Stage -> [Slot -> Nat]]
    BY <2>1 DEF Init
  <2>4. /\ sq \in [Host -> [Ring -> Nat]]
        /\ sq_head \in [Host -> Nat] /\ sq_tail \in [Host -> Nat]
        /\ wk \in [Host -> Nat \cup {None}]
    BY <2>1 DEF Init
  <2>5. QED
    BY <2>1, <2>2, <2>3, <2>4 DEF Init, TypeOK, KPc, RPc
<1>2. TypeOK /\ [Next]_vars => TypeOK'
  <2>1. SUFFICES ASSUME TypeOK, [Next]_vars PROVE TypeOK'
    OBVIOUS
  <2> USE <2>1 DEF TypeOK, connVars, pipeVars, flagVars, cardVars, stageVars, replyVars
  <2>2. ASSUME NEW g \in Stage, CardStep(g) PROVE TypeOK'
    <3>1. Head(stream[g]) \in Item /\ Tail(stream[g]) \in Seq(Item)
      BY <2>2 DEF CardStep
    <3>2. stream' \in [Stage -> Seq(Item)]
      BY <2>2, <3>1 DEF CardStep
    <3>3. SlotOf(Head(stream[g]).c) \in Slot
      BY <3>1, SlotInRange DEF Item
    <3>4. g # 0 => g - 1 \in Stage
      BY ConstantFacts DEF Stage
    <3>5. hop' \in [Stage -> [Slot -> Nat]]
      BY <2>2, <3>1, <3>3, <3>4 DEF CardStep, Item
    <3>6. QED
      BY <2>2, <3>2, <3>5 DEF CardStep
  <2>3. CASE Accept
    <3>1. conn' \in Nat /\ reply_fd' \in Nat \cup {None}
      BY <2>3 DEF Accept
    <3>2. peer' \in BOOLEAN /\ reply_fail' \in BOOLEAN /\ stage_fail' \in BOOLEAN
      BY <2>3 DEF Accept
    <3>3. kp' \in KPc /\ UNCHANGED <<nreq, pipeVars, slot, cardVars, stageVars, replyVars>>
      BY <2>3 DEF Accept, KPc
    <3>4. QED
      BY <3>1, <3>2, <3>3
  <2>4. CASE PeerGone
    BY <2>4 DEF PeerGone
  <2>5. CASE RecvChunk
    BY <2>5 DEF RecvChunk, KPc
  <2>6. CASE RecvOp
    BY <2>6 DEF RecvOp, KPc
  <2>7. CASE RecvFails
    BY <2>7 DEF RecvFails, KPc
  <2>8. CASE CheckReply
    BY <2>8 DEF CheckReply, KPc
  <2>9. CASE FillSlot
    BY <2>9, SlotInRange DEF FillSlot, KPc
  <2>10. CASE RefuseAfterStageFail
    BY <2>10 DEF RefuseAfterStageFail, KPc
  <2>11. CASE SubmitChunk
    <3>1. stream' \in [Stage -> Seq(Item)]
      BY <2>11, EnqueueType, ConstantFacts DEF SubmitChunk, Calls, Stage
    <3>2. sq' \in [Host -> [Ring -> Nat]] /\ sq_head' \in [Host -> Nat]
      <4>1. StagePush(1, pipe_sub) /\ 1 \in Host
        BY <2>11, ConstantFacts DEF SubmitChunk, Host
      <4>2. QED
        BY <4>1, StagePushType
    <3>3. QED
      BY <2>11, <3>1, <3>2 DEF SubmitChunk, KPc
  <2>12. CASE SubmitFails
    <3>1. stream' \in [Stage -> Seq(Item)]
      BY <2>12, EnqueueType, ConstantFacts, CallsMadeBound DEF SubmitFails, Stage
    <3>2. QED
      BY <2>12, <3>1 DEF SubmitFails, KPc
  <2>13. CASE PipeDrain
    BY <2>13 DEF PipeDrain, KPc
  <2>14. CASE RunOp
    BY <2>14 DEF RunOp, KPc
  <2>15. CASE Close
    BY <2>15 DEF Close, KPc
  <2>16. ASSUME NEW g \in Host, StagePop(g) PROVE TypeOK'
    <3>1. RingOf(sq_tail[g]) \in Ring
      BY RingInRange
    <3>2. sq[g][RingOf(sq_tail[g])] \in Nat
      BY <3>1
    <3>3. QED
      BY <2>16, <3>2 DEF StagePop
  <2>17. ASSUME NEW g \in Host, StageRun(g) PROVE TypeOK'
    <3>1. wk[g] \in Nat /\ g \in Stage
      BY <2>17 DEF StageRun, Host, Stage
    <3>2. slot[SlotOf(wk[g])] \in Nat
      BY <3>1, SlotInRange
    <3>3. stream' \in [Stage -> Seq(Item)] /\ stage_fail' \in BOOLEAN
      BY <2>17, <3>1, <3>2, EnqueueType, CallsMadeBound DEF StageRun
    <3>4. sq' \in [Host -> [Ring -> Nat]] /\ sq_head' \in [Host -> Nat] /\ pipe_head' \in Nat
      <4>1. CASE g + 1 < NSTAGE
        <5>1. g + 1 \in Host
          BY <4>1, ConstantFacts DEF Host
        <5>2. QED
          BY <2>17, <3>1, <4>1, <5>1, StagePushType DEF StageRun, PassOn
      <4>2. CASE ~(g + 1 < NSTAGE)
        BY <2>17, <3>1, <4>2 DEF StageRun, PassOn
      <4>3. QED
        BY <4>1, <4>2
    <3>5. QED
      BY <2>17, <3>3, <3>4 DEF StageRun
  <2>18. CASE ReplyTake
    BY <2>18 DEF ReplyTake, RPc
  <2>19. CASE ReplySync
    BY <2>19 DEF ReplySync, RPc
  <2>20. CASE ReplySkip
    BY <2>20 DEF ReplySkip, RPc
  <2>21. SlotOf(pipe_tail) \in Slot /\ Last \in Stage
    BY SlotInRange, ConstantFacts DEF Last, Stage
  <2>22. CASE ReplyHeader
    BY <2>21, <2>22 DEF ReplyHeader, CanSend, Open, Sent, RPc
  <2>23. CASE ReplyPayload
    BY <2>21, <2>23 DEF ReplyPayload, CanSend, Open, Sent, RPc
  <2>24. CASE ReplyWriteFails
    BY <2>24 DEF ReplyWriteFails, RPc
  <2>25. CASE ReplyAdvance
    BY <2>25 DEF ReplyAdvance, RPc
  <2>26. CASE UNCHANGED vars
    BY <2>26 DEF vars
  <2>27. QED
    BY <2>2, <2>3, <2>4, <2>5, <2>6, <2>7, <2>8, <2>9, <2>10, <2>11, <2>12, <2>13,
       <2>14, <2>15, <2>16, <2>17, <2>18, <2>19, <2>20, <2>22, <2>23, <2>24, <2>25, <2>26
       DEF Next, Cards, Conn, Worker, Reply
<1>3. QED
  BY <1>1, <1>2, PTL DEF Spec

-----------------------------------------------------------------------------
(* The counters.                                                           *)

\* Chunks card g has passed on: to the queue of the next card or, by the last
\* one, to the reply thread.
Passed(g) == IF g + 1 < NSTAGE THEN sq_head[g + 1] ELSE pipe_head

\* Every stage queue and every host thread works through the chunk numbers
\* without a gap, no card is ahead of an earlier one, and the window between
\* the oldest unanswered chunk and the newest is at most PIPE_SLOTS long.
PipeInv ==
  /\ Passed(0) = pipe_sub
  /\ \A g \in Host :
       /\ sq_tail[g] <= Passed(g - 1)
       /\ wk[g] = None => sq_tail[g] = Passed(g)
       /\ wk[g] # None => sq_tail[g] = Passed(g) + 1 /\ wk[g] = Passed(g)
       /\ \A i \in sq_tail[g] .. Passed(g - 1) - 1 : sq[g][RingOf(i)] = i
  /\ \A g, h \in Stage : g <= h => Passed(h) <= Passed(g)
  /\ pipe_tail <= pipe_head
  /\ pipe_sub - pipe_tail <= PIPE_SLOTS
  /\ kp = "enq" => pipe_sub - pipe_tail < PIPE_SLOTS
  /\ kp = "op" => pipe_tail = pipe_sub
  /\ rp # "idle" => pipe_tail < pipe_head

LEMMA StageFacts ==
  /\ 0 \in Stage /\ 1 \in Host /\ Last \in Host /\ Host \subseteq Stage
  /\ Stage \subseteq Int
  /\ \A g \in Host : g - 1 \in Stage
  /\ \A g \in Stage : g + 1 < NSTAGE => g + 1 \in Host
  /\ \A g \in Stage : g <= Last /\ (g + 1 < NSTAGE <=> g # Last)
BY ConstantFacts DEF Stage, Host, Last

LEMMA PassedIsNat == TypeOK => \A g \in Stage : Passed(g) \in Nat
BY StageFacts DEF TypeOK, Passed

\* What a queue holds is what the card before has passed on.
LEMMA QueueHead == \A g \in Host : sq_head[g] = Passed(g - 1)
BY ConstantFacts DEF Host, Passed

LEMMA PassedLast == Passed(Last) = pipe_head
BY ConstantFacts DEF Passed, Last

LEMMA PassedBounds ==
  ASSUME TypeOK, PipeInv, NEW g \in Stage
  PROVE  pipe_tail <= pipe_head /\ pipe_head <= Passed(g) /\ Passed(g) <= pipe_sub
<1>1. Passed(Last) <= Passed(g) /\ Passed(g) <= Passed(0)
  <2>1. Last \in Stage /\ 0 \in Stage /\ 0 <= g /\ g <= Last
    BY StageFacts DEF Stage
  <2>2. QED
    BY <2>1 DEF PipeInv
<1>2. QED
  BY <1>1, PassedLast DEF PipeInv

LEMMA TailBounds ==
  ASSUME TypeOK, PipeInv, NEW g \in Host
  PROVE  sq_tail[g] \in Nat /\ pipe_tail <= sq_tail[g]
<1>1. sq_tail[g] \in Nat /\ Passed(g) \in Nat /\ pipe_tail <= Passed(g) /\ pipe_tail \in Nat
  <2>1. g \in Stage
    BY StageFacts
  <2>2. pipe_tail <= pipe_head /\ pipe_head <= Passed(g) /\ pipe_head \in Nat /\ Passed(g) \in Nat
    BY <2>1, PassedBounds, PassedIsNat DEF TypeOK
  <2>3. QED
    BY <2>2 DEF TypeOK
<1>2. sq_tail[g] = Passed(g) \/ sq_tail[g] = Passed(g) + 1
  BY DEF PipeInv
<1>3. QED
  BY <1>1, <1>2

LEMMA PipeInvInit == Init => PipeInv
<1>1. SUFFICES ASSUME Init PROVE PipeInv
  OBVIOUS
<1>2. \A g \in Stage : Passed(g) = 0
  BY <1>1, StageFacts DEF Init, Passed
<1>3. QED
  BY <1>1, <1>2, StageFacts, ConstantFacts DEF Init, PipeInv, None

\* Card g passes a chunk on: only the count of that card moves, by one.
LEMMA PassedMoves ==
  ASSUME TypeOK, NEW g \in Stage,
         g # Last => sq_head' = [sq_head EXCEPT ![g + 1] = @ + 1] /\ pipe_head' = pipe_head,
         g = Last => sq_head' = sq_head /\ pipe_head' = pipe_head + 1
  PROVE  \A h \in Stage : Passed(h)' = IF h = g THEN Passed(h) + 1 ELSE Passed(h)
<1>1. TAKE h \in Stage
<1>2. sq_head \in [Host -> Nat]
  BY DEF TypeOK
<1>3. CASE g = Last
  <2>1. h # Last => h + 1 < NSTAGE /\ h + 1 \in Host
    BY StageFacts
  <2>2. QED
    BY <1>3, <2>1, ConstantFacts DEF Passed, Last
<1>4. CASE g # Last
  <2>1. g + 1 < NSTAGE /\ g + 1 \in Host
    BY <1>4, StageFacts
  <2>2. CASE h = Last
    BY <1>4, <2>2, ConstantFacts DEF Passed, Last
  <2>3. CASE h # Last
    <3>1. h + 1 < NSTAGE /\ h + 1 \in Host /\ (h + 1 = g + 1 <=> h = g)
      BY <2>3, StageFacts
    <3>2. Passed(h) = sq_head[h + 1] /\ Passed(h)' = sq_head'[h + 1]
      BY <3>1 DEF Passed
    <3>3. QED
      BY <1>2, <1>4, <2>1, <3>1, <3>2
  <2>4. QED
    BY <2>2, <2>3
<1>5. QED
  BY <1>3, <1>4

\* The chunk written to a stage queue does not cover one not popped yet.
LEMMA PushKeepsQueue ==
  ASSUME TypeOK, PipeInv, NEW g \in Stage, g # Last,
         StagePush(g + 1, Passed(g)),
         Passed(g) - sq_tail[g + 1] <= PIPE_SLOTS
  PROVE  \A h \in Host : \A i \in sq_tail[h] .. Passed(h - 1) :
           \/ i = Passed(g) /\ h = g + 1 /\ sq'[h][RingOf(i)] = i
           \/ i < Passed(h - 1) /\ sq'[h][RingOf(i)] = i
           \/ i = Passed(h - 1) /\ h # g + 1
<1>1. TAKE h \in Host
<1>2. TAKE i \in sq_tail[h] .. Passed(h - 1)
<1>3. /\ h - 1 \in Stage /\ g + 1 \in Host
      /\ Passed(h - 1) \in Nat /\ Passed(g) \in Nat /\ sq_tail[h] \in Nat
      /\ sq \in [Host -> [Ring -> Nat]]
  BY StageFacts, PassedIsNat DEF TypeOK
<1>4. i \in Nat /\ RingOf(i) \in Ring /\ RingOf(Passed(g)) \in Ring
  BY <1>3, RingInRange
<1>5. sq'[h] = IF h = g + 1 THEN [sq[h] EXCEPT ![RingOf(Passed(g))] = Passed(g)] ELSE sq[h]
  <2>1. sq_head[g + 1] = Passed(g)
    BY StageFacts DEF Passed
  <2>2. QED
    BY <1>3, <2>1 DEF StagePush
<1>6. i < Passed(h - 1) => sq[h][RingOf(i)] = i
  BY <1>3, <1>4 DEF PipeInv
<1>7. CASE h # g + 1
  BY <1>3, <1>4, <1>5, <1>6, <1>7
<1>8. CASE h = g + 1
  <2>1. Passed(h - 1) = Passed(g)
    BY <1>8, StageFacts
  <2>2. CASE i = Passed(g)
    BY <1>3, <1>4, <1>5, <1>8, <2>2
  <2>3. CASE i < Passed(g)
    <3>1. RingOf(i) # RingOf(Passed(g))
      <4>1. Passed(g) - i < 2 * PIPE_SLOTS
        BY <1>3, <1>4, <1>8, <2>3, ConstantFacts
      <4>2. QED
        BY <1>3, <1>4, <2>3, <4>1, RingEntriesDiffer
    <3>2. QED
      BY <1>3, <1>4, <1>5, <1>6, <1>8, <2>1, <2>3, <3>1
  <2>4. QED
    BY <1>3, <1>4, <2>1, <2>2, <2>3
<1>9. QED
  BY <1>7, <1>8

\* A step that leaves the counters and the queues alone, and neither gives the
\* connection thread a slot nor the pipe, nor the reply thread a chunk.
LEMMA PipeInvQuiet ==
  ASSUME PipeInv, UNCHANGED <<pipeVars, stageVars>>,
         kp' = kp \/ kp' \notin {"enq", "op"},
         rp' = rp \/ rp' = "idle" \/ rp # "idle"
  PROVE  PipeInv'
<1>1. \A g : Passed(g)' = Passed(g)
  BY DEF Passed, pipeVars, stageVars
<1>2. QED
  BY <1>1 DEF PipeInv, pipeVars, stageVars

LEMMA PipeInvSubmit ==
  ASSUME TypeOK, PipeInv, SubmitChunk
  PROVE  PipeInv'
<1>1. pipe_sub = Passed(0) /\ 0 \in Stage /\ 0 # Last
  BY ConstantFacts DEF PipeInv, Stage, Last
<1>2. StagePush(0 + 1, Passed(0))
  BY <1>1 DEF SubmitChunk
<1>3. \A h \in Stage : Passed(h)' = IF h = 0 THEN Passed(h) + 1 ELSE Passed(h)
  BY <1>1, <1>2, PassedMoves DEF SubmitChunk, StagePush
<1>4. \A h \in Stage : Passed(h) \in Nat /\ pipe_tail <= Passed(h) /\ Passed(h) <= pipe_sub
  BY PassedBounds, PassedIsNat DEF TypeOK
<1>5. Passed(0) - sq_tail[0 + 1] <= PIPE_SLOTS
  <2>1. pipe_tail <= sq_tail[0 + 1] /\ sq_tail[0 + 1] \in Nat
    BY TailBounds, StageFacts
  <2>2. Passed(0) - pipe_tail <= PIPE_SLOTS
    BY <1>1 DEF PipeInv
  <2>3. QED
    BY <1>1, <1>4, <2>1, <2>2, ConstantFacts DEF TypeOK
<1>6. \A h \in Host : \A i \in sq_tail[h] .. Passed(h - 1) :
           \/ i = Passed(0) /\ h = 0 + 1 /\ sq'[h][RingOf(i)] = i
           \/ i < Passed(h - 1) /\ sq'[h][RingOf(i)] = i
           \/ i = Passed(h - 1) /\ h # 0 + 1
  BY <1>1, <1>2, <1>5, PushKeepsQueue
<1>7. ASSUME NEW h \in Host
      PROVE  /\ sq_tail'[h] <= Passed(h - 1)'
             /\ wk'[h] = None => sq_tail'[h] = Passed(h)'
             /\ wk'[h] # None => sq_tail'[h] = Passed(h)' + 1 /\ wk'[h] = Passed(h)'
             /\ \A i \in sq_tail'[h] .. Passed(h - 1)' - 1 : sq'[h][RingOf(i)] = i
  <2>1. h \in Stage /\ h # 0 /\ h - 1 \in Stage /\ (h - 1 = 0 <=> h = 0 + 1)
    BY StageFacts DEF Host
  <2>2. sq_tail' = sq_tail /\ wk' = wk /\ sq_tail[h] \in Nat /\ Passed(h - 1) \in Nat
    BY <1>4, <2>1 DEF SubmitChunk, TypeOK
  <2>3. Passed(h)' = Passed(h)
    BY <1>3, <2>1
  <2>4. Passed(h - 1)' = IF h = 0 + 1 THEN Passed(h - 1) + 1 ELSE Passed(h - 1)
    BY <1>3, <2>1
  <2>5. \A i \in sq_tail'[h] .. Passed(h - 1)' - 1 : sq'[h][RingOf(i)] = i
    BY <1>6, <2>1, <2>2, <2>4
  <2>6. QED
    BY <2>2, <2>3, <2>4, <2>5 DEF PipeInv
<1>8. \A g, h \in Stage : g <= h => Passed(h)' <= Passed(g)'
  <2>1. TAKE g, h \in Stage
  <2>2. HAVE g <= h
  <2>3. Passed(h) <= Passed(g) /\ Passed(h) \in Nat /\ Passed(g) \in Nat
    BY <1>4, <2>2 DEF PipeInv
  <2>4. h = 0 => g = 0
    BY <2>2, ConstantFacts DEF Stage
  <2>5. QED
    BY <1>3, <2>3, <2>4
<1>9. /\ UNCHANGED <<pipe_head, pipe_tail, rp>>
      /\ pipe_sub' = pipe_sub + 1 /\ kp = "enq" /\ kp' = "recv"
  BY DEF SubmitChunk, replyVars
<1>10. Passed(0)' = pipe_sub'
  BY <1>1, <1>3, <1>9
<1>11. pipe_sub' - pipe_tail' <= PIPE_SLOTS
  BY <1>9, ConstantFacts DEF PipeInv, TypeOK
<1>12. QED
  BY <1>7, <1>8, <1>9, <1>10, <1>11 DEF PipeInv

LEMMA PipeInvRun ==
  ASSUME TypeOK, PipeInv, NEW g \in Host, StageRun(g)
  PROVE  PipeInv'
<1>1. g \in Stage /\ g # 0 /\ g - 1 \in Stage /\ wk[g] = Passed(g) /\ sq_tail[g] = Passed(g) + 1
  BY StageFacts DEF PipeInv, StageRun, Host
<1>2. g # Last => StagePush(g + 1, Passed(g)) /\ pipe_head' = pipe_head
  BY <1>1, StageFacts DEF StageRun, PassOn
<1>3. g = Last => UNCHANGED <<sq, sq_head>> /\ pipe_head' = pipe_head + 1
  BY <1>1, StageFacts, PassedLast DEF StageRun, PassOn
<1>4. \A h \in Stage : Passed(h)' = IF h = g THEN Passed(h) + 1 ELSE Passed(h)
  BY <1>1, <1>2, <1>3, PassedMoves, StageFacts DEF StagePush, Passed
<1>5. \A h \in Stage : Passed(h) \in Nat /\ pipe_tail <= Passed(h) /\ Passed(h) <= pipe_sub
  BY PassedBounds, PassedIsNat DEF TypeOK
<1>6. Passed(g) + 1 <= Passed(g - 1)
  BY <1>1, <1>5 DEF PipeInv
<1>7. g # Last => Passed(g) - sq_tail[g + 1] <= PIPE_SLOTS
  <2>1. HAVE g # Last
  <2>2. g + 1 \in Host /\ g + 1 \in Stage
    BY <2>1, StageFacts
  <2>3. pipe_tail <= sq_tail[g + 1] /\ sq_tail[g + 1] \in Nat
    BY <2>2, TailBounds
  <2>4. Passed(g) <= pipe_sub /\ Passed(g) \in Nat /\ pipe_sub - pipe_tail <= PIPE_SLOTS
    BY <1>1, <1>5 DEF PipeInv
  <2>5. QED
    BY <2>3, <2>4, ConstantFacts DEF TypeOK
<1>8. g # Last => \A h \in Host : \A i \in sq_tail[h] .. Passed(h - 1) :
           \/ i = Passed(g) /\ h = g + 1 /\ sq'[h][RingOf(i)] = i
           \/ i < Passed(h - 1) /\ sq'[h][RingOf(i)] = i
           \/ i = Passed(h - 1) /\ h # g + 1
  BY <1>1, <1>2, <1>7, PushKeepsQueue
<1>9. ASSUME NEW h \in Host
      PROVE  /\ sq_tail'[h] <= Passed(h - 1)'
             /\ wk'[h] = None => sq_tail'[h] = Passed(h)'
             /\ wk'[h] # None => sq_tail'[h] = Passed(h)' + 1 /\ wk'[h] = Passed(h)'
             /\ \A i \in sq_tail'[h] .. Passed(h - 1)' - 1 : sq'[h][RingOf(i)] = i
  <2>1. h \in Stage /\ h - 1 \in Stage /\ (h - 1 = g <=> h = g + 1)
    BY StageFacts DEF Host
  <2>2. /\ sq_tail' = sq_tail /\ wk'[h] = (IF h = g THEN None ELSE wk[h])
        /\ sq_tail[h] \in Nat /\ Passed(h - 1) \in Nat /\ Passed(h) \in Nat
    BY <1>5, <2>1 DEF StageRun, TypeOK
  <2>3. Passed(h)' = IF h = g THEN Passed(h) + 1 ELSE Passed(h)
    BY <1>4, <2>1
  <2>4. Passed(h - 1)' = IF h = g + 1 THEN Passed(h - 1) + 1 ELSE Passed(h - 1)
    BY <1>4, <2>1
  <2>5. \A i \in sq_tail'[h] .. Passed(h - 1)' - 1 : sq'[h][RingOf(i)] = i
    <3>1. CASE g = Last
      <4>1. h # g + 1
        BY <3>1, StageFacts, ConstantFacts DEF Host, Last
      <4>2. QED
        BY <1>3, <2>2, <2>4, <3>1, <4>1 DEF PipeInv
    <3>2. CASE g # Last
      BY <1>8, <2>1, <2>2, <2>4, <3>2
    <3>3. QED
      BY <3>1, <3>2
  <2>6. QED
    BY <1>1, <2>2, <2>3, <2>4, <2>5 DEF PipeInv
<1>10. \A k, h \in Stage : k <= h => Passed(h)' <= Passed(k)'
  <2>1. TAKE k, h \in Stage
  <2>2. HAVE k <= h
  <2>3. Passed(h) <= Passed(k) /\ Passed(h) \in Nat /\ Passed(k) \in Nat /\ Passed(g - 1) \in Nat
    BY <1>1, <1>5, <2>2 DEF PipeInv
  <2>4. h = g /\ k # g => Passed(g - 1) <= Passed(k)
    BY <1>1, <2>2, StageFacts DEF PipeInv, Stage
  <2>5. QED
    BY <1>4, <1>6, <2>3, <2>4
<1>11. UNCHANGED <<pipe_sub, pipe_tail, kp, rp>>
  BY DEF StageRun, connVars, replyVars
<1>12. pipe_head' \in Nat /\ pipe_head <= pipe_head'
  BY <1>2, <1>3 DEF TypeOK
<1>13. Passed(0)' = pipe_sub'
  <2>1. 0 \in Stage /\ Passed(0)' = Passed(0)
    BY <1>1, <1>4, StageFacts
  <2>2. QED
    BY <2>1, <1>11 DEF PipeInv
<1>14. pipe_tail' <= pipe_head' /\ (rp' # "idle" => pipe_tail' < pipe_head')
  BY <1>11, <1>12 DEF PipeInv, TypeOK
<1>15. QED
  BY <1>9, <1>10, <1>11, <1>13, <1>14 DEF PipeInv

LEMMA PipeInvPop ==
  ASSUME TypeOK, PipeInv, NEW g \in Host, StagePop(g)
  PROVE  PipeInv'
<1>1. \A h : Passed(h)' = Passed(h)
  BY DEF StagePop, pipeVars, Passed
<1>2. g - 1 \in Stage /\ Passed(g - 1) \in Nat /\ sq_tail[g] \in Nat
  BY StageFacts, PassedIsNat DEF TypeOK
<1>3. sq_tail[g] < Passed(g - 1) /\ sq_tail[g] = Passed(g)
  BY <1>2, QueueHead DEF PipeInv, StagePop
<1>4. sq[g][RingOf(sq_tail[g])] = sq_tail[g]
  BY <1>2, <1>3 DEF PipeInv
<1>5. wk' = [wk EXCEPT ![g] = sq_tail[g]] /\ sq_tail' = [sq_tail EXCEPT ![g] = @ + 1] /\ sq' = sq
  BY <1>4 DEF StagePop
<1>6. ASSUME NEW h \in Host
      PROVE  /\ sq_tail'[h] <= Passed(h - 1)'
             /\ wk'[h] = None => sq_tail'[h] = Passed(h)'
             /\ wk'[h] # None => sq_tail'[h] = Passed(h)' + 1 /\ wk'[h] = Passed(h)'
             /\ \A i \in sq_tail'[h] .. Passed(h - 1)' - 1 : sq'[h][RingOf(i)] = i
  <2>1. CASE h = g
    BY <1>1, <1>2, <1>3, <1>5, <2>1 DEF PipeInv, TypeOK, None
  <2>2. CASE h # g
    BY <1>1, <1>5, <2>2 DEF PipeInv, TypeOK
  <2>3. QED
    BY <2>1, <2>2
<1>7. QED
  BY <1>1, <1>6 DEF PipeInv, StagePop, pipeVars, connVars, replyVars

LEMMA PipeInvNext == TypeOK /\ PipeInv /\ [Next]_vars => PipeInv'
<1>1. SUFFICES ASSUME TypeOK, PipeInv, [Next]_vars PROVE PipeInv'
  OBVIOUS
<1> USE <1>1 DEF connVars, replyVars
<1>2. ASSUME NEW g \in Stage, CardStep(g) PROVE PipeInv'
  BY <1>2, PipeInvQuiet DEF CardStep
<1>3. CASE Accept
  BY <1>3, PipeInvQuiet DEF Accept
<1>4. CASE PeerGone
  BY <1>4, PipeInvQuiet DEF PeerGone
<1>5. CASE RecvChunk
  BY <1>5, PipeInvQuiet DEF RecvChunk
<1>6. CASE RecvOp
  BY <1>6, PipeInvQuiet DEF RecvOp
<1>7. CASE RecvFails
  BY <1>7, PipeInvQuiet DEF RecvFails
<1>8. CASE CheckReply
  BY <1>8, PipeInvQuiet DEF CheckReply
<1>9. CASE FillSlot
  <2>1. \A g : Passed(g)' = Passed(g)
    BY <1>9 DEF FillSlot, pipeVars, stageVars, Passed
  <2>2. QED
    BY <1>9, <2>1 DEF FillSlot, SlotFree, PipeInv, pipeVars, stageVars
<1>10. CASE RefuseAfterStageFail
  BY <1>10, PipeInvQuiet DEF RefuseAfterStageFail
<1>11. CASE SubmitChunk
  BY <1>11, PipeInvSubmit
<1>12. CASE SubmitFails
  BY <1>12, PipeInvQuiet DEF SubmitFails
<1>13. CASE PipeDrain
  <2>1. \A g : Passed(g)' = Passed(g)
    BY <1>13 DEF PipeDrain, pipeVars, stageVars, Passed
  <2>2. QED
    BY <1>13, <2>1 DEF PipeDrain, Drained, PipeInv, pipeVars, stageVars
<1>14. CASE RunOp
  BY <1>14, PipeInvQuiet DEF RunOp
<1>15. CASE Close
  BY <1>15, PipeInvQuiet DEF Close
<1>16. ASSUME NEW g \in Host, StagePop(g) PROVE PipeInv'
  BY <1>16, PipeInvPop
<1>17. ASSUME NEW g \in Host, StageRun(g) PROVE PipeInv'
  BY <1>17, PipeInvRun
<1>18. CASE ReplyTake
  <2>1. \A g : Passed(g)' = Passed(g)
    BY <1>18 DEF ReplyTake, pipeVars, stageVars, Passed
  <2>2. QED
    BY <1>18, <2>1 DEF ReplyTake, PipeInv, TypeOK, pipeVars, stageVars
<1>19. CASE ReplySync
  BY <1>19, PipeInvQuiet DEF ReplySync
<1>20. CASE ReplySkip
  BY <1>20, PipeInvQuiet DEF ReplySkip
<1>21. CASE ReplyHeader
  BY <1>21, PipeInvQuiet DEF ReplyHeader
<1>22. CASE ReplyPayload
  BY <1>22, PipeInvQuiet DEF ReplyPayload
<1>23. CASE ReplyWriteFails
  BY <1>23, PipeInvQuiet DEF ReplyWriteFails
<1>24. CASE ReplyAdvance
  <2>1. \A g : Passed(g)' = Passed(g)
    BY <1>24 DEF ReplyAdvance, stageVars, Passed
  <2>2. UNCHANGED <<kp, pipe_sub, pipe_head, stageVars>> /\ pipe_tail' = pipe_tail + 1 /\ rp' = "idle"
    BY <1>24 DEF ReplyAdvance
  <2>3. pipe_tail < pipe_head /\ pipe_head <= pipe_sub
    BY <1>24, PassedBounds, StageFacts DEF ReplyAdvance, PipeInv
  <2>4. kp # "op"
    BY <2>3 DEF PipeInv, TypeOK
  <2>5. QED
    <3>1. pipe_sub' - pipe_tail' <= PIPE_SLOTS /\ (kp = "enq" => pipe_sub' - pipe_tail' < PIPE_SLOTS)
      BY <2>2, <2>3, ConstantFacts DEF PipeInv, TypeOK
    <3>2. pipe_tail' <= pipe_head' /\ kp' # "op"
      BY <2>2, <2>3, <2>4 DEF TypeOK
    <3>3. QED
      BY <2>1, <2>2, <3>1, <3>2 DEF PipeInv, stageVars
<1>25. CASE UNCHANGED vars
  BY <1>25, PipeInvQuiet DEF vars
<1>26. QED
  BY <1>2, <1>3, <1>4, <1>5, <1>6, <1>7, <1>8, <1>9, <1>10, <1>11, <1>12, <1>13, <1>14,
     <1>15, <1>16, <1>17, <1>18, <1>19, <1>20, <1>21, <1>22, <1>23, <1>24, <1>25
     DEF Next, Cards, Conn, Worker, Reply

LEMMA Pipeline == Spec => []PipeInv
<1>1. Init => PipeInv
  BY PipeInvInit
<1>2. TypeOK /\ PipeInv /\ [Next]_vars => PipeInv'
  BY PipeInvNext
<1>3. QED
  BY <1>1, <1>2, TypeCorrect, PTL DEF Spec

\* No host thread is handed a chunk that was answered already or was never
\* submitted, and a stage queue, which stage_push never checks for room, does
\* not wrap over an entry still to be popped: for any number of cards and
\* slots, whatever card fails and whenever the peer leaves.
THEOREM PipeWindowHolds == Spec => []PipeWindow
<1>1. TypeOK /\ PipeInv => PipeWindow
  <2>1. SUFFICES ASSUME TypeOK, PipeInv PROVE PipeWindow
    OBVIOUS
  <2>2. pipe_tail <= pipe_head /\ pipe_head <= pipe_sub
    BY <2>1, PassedBounds, StageFacts DEF PipeInv
  <2>3. ASSUME NEW g \in Host
        PROVE  /\ sq_tail[g] <= sq_head[g] /\ sq_head[g] - sq_tail[g] <= PIPE_SLOTS
               /\ \A i \in sq_tail[g] .. sq_head[g] - 1 :
                    pipe_head <= sq[g][RingOf(i)] /\ sq[g][RingOf(i)] < pipe_sub
               /\ wk[g] # None => pipe_head <= wk[g] /\ wk[g] < pipe_sub
    <3>1. sq_head[g] = Passed(g - 1) /\ g \in Stage /\ g - 1 \in Stage
      BY StageFacts, QueueHead
    <3>2. Passed(g - 1) \in Nat /\ Passed(g) \in Nat /\ sq_tail[g] \in Nat /\ pipe_tail <= sq_tail[g]
      BY <2>1, <3>1, PassedIsNat, TailBounds
    <3>3. pipe_head <= Passed(g) /\ Passed(g - 1) <= pipe_sub
      BY <2>1, <3>1, PassedBounds
    <3>4. sq_tail[g] <= Passed(g - 1) /\ Passed(g) <= sq_tail[g]
      BY <2>1, <3>2 DEF PipeInv
    <3>5. sq_head[g] - sq_tail[g] <= PIPE_SLOTS
      BY <2>1, <3>1, <3>2, <3>3, ConstantFacts DEF PipeInv, TypeOK
    <3>6. \A i \in sq_tail[g] .. sq_head[g] - 1 :
            pipe_head <= sq[g][RingOf(i)] /\ sq[g][RingOf(i)] < pipe_sub
      BY <2>1, <3>1, <3>2, <3>3, <3>4 DEF PipeInv, TypeOK
    <3>7. wk[g] # None => pipe_head <= wk[g] /\ wk[g] < pipe_sub
      BY <2>1, <3>2, <3>3, <3>4 DEF PipeInv, TypeOK
    <3>8. QED
      BY <3>1, <3>4, <3>5, <3>6, <3>7
  <2>4. QED
    BY <2>1, <2>2, <2>3 DEF PipeWindow, PipeInv
<1>2. QED
  BY <1>1, TypeCorrect, Pipeline, PTL

-----------------------------------------------------------------------------
(* The pipe implements ChunkService.                                       *)

\* Seen from outside, submitting is Take, the reply thread's last step is
\* Retire, a drain begins and the operation after it ends the exclusive use;
\* nothing else is visible.  At most PIPE_SLOTS chunks are outstanding, each is
\* retired once and in order, and no operation overlaps a chunk.
THEOREM PipeImplementsService == Spec => ServiceSpec
<1>1. Init => Service!Init
  BY DEF Init, Service!Init
<1>2. TypeOK /\ PipeInv /\ [Next]_vars => [Service!Next]_(Service!vars)
  <2>1. SUFFICES ASSUME TypeOK, PipeInv, [Next]_vars PROVE [Service!Next]_(Service!vars)
    OBVIOUS
  <2> USE <2>1
  <2> DEFINE Quiet == UNCHANGED <<pipe_sub, pipe_tail, kp = "op">>
  <2>2. Quiet => [Service!Next]_(Service!vars)
    BY DEF Service!vars
  <2>3. CASE SubmitChunk
    <3>1. Service!Take
      BY <2>3 DEF SubmitChunk, Service!Take, PipeInv
    <3>2. QED
      BY <3>1 DEF Service!Next
  <2>4. CASE ReplyAdvance
    <3>1. pipe_tail < pipe_head /\ pipe_head <= pipe_sub
      BY <2>4, PassedBounds, StageFacts DEF ReplyAdvance, PipeInv
    <3>2. kp # "op" /\ kp' = kp
      BY <2>4, <3>1 DEF PipeInv, TypeOK, ReplyAdvance, connVars
    <3>3. Service!Retire
      BY <2>4, <3>1, <3>2 DEF ReplyAdvance, Service!Retire, TypeOK
    <3>4. QED
      BY <3>3 DEF Service!Next
  <2>5. CASE PipeDrain
    <3>1. Service!BeginExclusive
      BY <2>5 DEF PipeDrain, Drained, Service!BeginExclusive, pipeVars
    <3>2. QED
      BY <3>1 DEF Service!Next
  <2>6. CASE RunOp
    <3>1. Service!EndExclusive
      BY <2>6 DEF RunOp, Service!EndExclusive, pipeVars
    <3>2. QED
      BY <3>1 DEF Service!Next
  <2>7. CASE \/ Accept \/ RecvChunk \/ RecvOp \/ RecvFails \/ CheckReply \/ FillSlot
             \/ RefuseAfterStageFail \/ SubmitFails \/ Close \/ PeerGone
    <3>1. Quiet
      BY <2>7 DEF Accept, RecvChunk, RecvOp, RecvFails, CheckReply, FillSlot,
                  RefuseAfterStageFail, SubmitFails, Close, PeerGone, pipeVars
    <3>2. QED
      BY <3>1, <2>2
  <2>8. CASE Cards \/ Worker
    <3>1. Quiet
      BY <2>8 DEF Cards, CardStep, Worker, StagePop, StageRun, pipeVars, connVars
    <3>2. QED
      BY <3>1, <2>2
  <2>9. CASE ReplyTake \/ ReplySync \/ ReplySkip \/ ReplyHeader \/ ReplyPayload \/ ReplyWriteFails
    <3>1. Quiet
      BY <2>9 DEF ReplyTake, ReplySync, ReplySkip, ReplyHeader, ReplyPayload, ReplyWriteFails,
                  pipeVars, connVars
    <3>2. QED
      BY <3>1, <2>2
  <2>10. CASE UNCHANGED vars
    <3>1. Quiet
      BY <2>10 DEF vars, pipeVars, connVars
    <3>2. QED
      BY <3>1, <2>2
  <2>11. QED
    BY <2>3, <2>4, <2>5, <2>6, <2>7, <2>8, <2>9, <2>10 DEF Next, Conn, Reply
<1>3. QED
  BY <1>1, <1>2, TypeCorrect, Pipeline, PTL DEF Spec, ServiceSpec, Service!Spec

-----------------------------------------------------------------------------
(* The slot headers.                                                       *)

\* A chunk that has just been received is newer than every chunk that owns a
\* slot, and the slot it gets is not owned.
HeaderInv ==
  /\ \A c \in Owned : Header(c) <= nreq
  /\ kp \in {"chunk", "wait"} => \A c \in Owned : Header(c) < nreq
  /\ kp = "enq" => Header(pipe_sub) = nreq
  /\ SlotsNotReused

LEMMA OwnedFacts ==
  ASSUME TypeOK, PipeInv
  PROVE  /\ Owned \subseteq Nat
         /\ \A c \in Owned : /\ SlotOf(c) \in Slot /\ Header(c) \in Nat
                             /\ pipe_tail <= c /\ (kp # "enq" => c < pipe_sub)
                             /\ c <= pipe_sub
         /\ \A c, d \in Owned : c < d => SlotOf(c) # SlotOf(d)
<1>1. Owned \subseteq Nat
  BY DEF Owned, TypeOK
<1>2. \A c \in Owned : /\ SlotOf(c) \in Slot /\ Header(c) \in Nat
                       /\ pipe_tail <= c /\ (kp # "enq" => c < pipe_sub)
                       /\ c <= pipe_sub
  <2>1. TAKE c \in Owned
  <2>2. c \in Nat /\ SlotOf(c) \in Slot
    BY <1>1, SlotInRange
  <2>3. slot[SlotOf(c)] \in Nat
    BY <2>2 DEF TypeOK
  <2>4. pipe_tail <= c /\ (kp # "enq" => c < pipe_sub) /\ c <= pipe_sub
    BY <2>2 DEF Owned, TypeOK
  <2>5. QED
    BY <2>2, <2>3, <2>4 DEF Header
<1>3. \A c, d \in Owned : c < d => SlotOf(c) # SlotOf(d)
  <2>1. TAKE c, d \in Owned
  <2>2. HAVE c < d
  <2>3. c \in Nat /\ d \in Nat
    BY <1>1
  <2>4. d - c < PIPE_SLOTS
    BY <2>2, <2>3, ConstantFacts DEF Owned, PipeInv, TypeOK
  <2>5. QED
    BY <2>2, <2>3, <2>4, SlotsDiffer
<1>4. QED
  BY <1>1, <1>2, <1>3

\* A step that gives no slot away and receives no chunk.
LEMMA HeaderInvQuiet ==
  ASSUME HeaderInv, slot' = slot, Owned' \subseteq Owned, nreq' = nreq,
         kp' # "enq" \/ (kp = "enq" /\ pipe_sub' = pipe_sub),
         kp' \in {"chunk", "wait"} => kp \in {"chunk", "wait"}
  PROVE  HeaderInv'
<1>1. \A c : Header(c)' = Header(c)
  BY DEF Header
<1>2. QED
  BY <1>1 DEF HeaderInv, SlotsNotReused, Header

LEMMA HeaderInvFill ==
  ASSUME TypeOK, PipeInv, HeaderInv, FillSlot
  PROVE  HeaderInv'
<1>1. Owned = pipe_tail .. pipe_sub - 1 /\ Owned' = pipe_tail .. pipe_sub
  BY DEF FillSlot, Owned, pipeVars
<1>2. \A c \in Owned : c \in Nat /\ c < pipe_sub /\ SlotOf(c) # SlotOf(pipe_sub)
  <2>1. TAKE c \in Owned
  <2>2. c \in Nat /\ c < pipe_sub /\ pipe_sub - c < PIPE_SLOTS
    BY <1>1, ConstantFacts DEF FillSlot, SlotFree, TypeOK
  <2>3. QED
    BY <2>2, SlotsDiffer DEF TypeOK
<1>3. \A c \in Owned : Header(c)' = Header(c)
  BY <1>2, SlotInRange DEF FillSlot, Header, TypeOK
<1>4. Header(pipe_sub)' = nreq /\ nreq' = nreq /\ pipe_sub' = pipe_sub /\ kp' = "enq"
  BY SlotInRange DEF FillSlot, Header, TypeOK, pipeVars
<1>5. \A c \in Owned' : c = pipe_sub \/ c \in Owned
  BY <1>1 DEF TypeOK
<1>6. \A c \in Owned : Header(c)' < nreq
  BY <1>3 DEF HeaderInv, FillSlot
<1>7. \A c \in Owned' : Header(c)' <= nreq
  <2>1. TAKE c \in Owned'
  <2>2. CASE c = pipe_sub
    <3>1. Header(c)' = nreq /\ nreq \in Nat
      BY <1>4, <2>2 DEF TypeOK
    <3>2. QED
      BY <3>1
  <2>3. CASE c \in Owned
    BY <1>3, <2>3 DEF HeaderInv
  <2>4. QED
    BY <1>5, <2>2, <2>3
<1>8. SlotsNotReused'
  <2>1. SUFFICES ASSUME NEW c \in Owned', NEW d \in Owned', c < d
                 PROVE  Header(c)' < Header(d)'
    BY DEF SlotsNotReused
  <2>2. c \in Owned
    BY <1>1, <2>1 DEF TypeOK
  <2>3. CASE d \in Owned
    BY <2>1, <2>2, <2>3, <1>3 DEF HeaderInv, SlotsNotReused
  <2>4. CASE d = pipe_sub
    BY <2>2, <2>4, <1>4, <1>6
  <2>5. QED
    BY <2>3, <2>4, <1>5
<1>9. QED
  BY <1>4, <1>7, <1>8 DEF HeaderInv

LEMMA HeaderInvNext == TypeOK /\ PipeInv /\ HeaderInv /\ [Next]_vars => HeaderInv'
<1>1. SUFFICES ASSUME TypeOK, PipeInv, HeaderInv, [Next]_vars PROVE HeaderInv'
  OBVIOUS
<1> USE <1>1
<1>2. CASE FillSlot
  BY <1>2, HeaderInvFill
<1>3. CASE RecvChunk
  <2>1. Owned' = Owned /\ \A c : Header(c)' = Header(c)
    BY <1>3 DEF RecvChunk, Owned, Header, pipeVars
  <2>2. \A c \in Owned : Header(c) < nreq + 1 /\ Header(c) <= nreq + 1
    BY OwnedFacts DEF HeaderInv, TypeOK
  <2>3. QED
    BY <1>3, <2>1, <2>2 DEF RecvChunk, HeaderInv, SlotsNotReused, Header
<1>4. CASE SubmitChunk
  <2>1. Owned' = Owned
    BY <1>4 DEF SubmitChunk, Owned, TypeOK
  <2>2. QED
    BY <1>4, <2>1, HeaderInvQuiet DEF SubmitChunk
<1>5. CASE RefuseAfterStageFail \/ SubmitFails
  <2>1. Owned' \subseteq Owned
    BY <1>5 DEF RefuseAfterStageFail, SubmitFails, Owned, TypeOK, pipeVars
  <2>2. QED
    BY <1>5, <2>1, HeaderInvQuiet DEF RefuseAfterStageFail, SubmitFails, connVars
<1>6. CASE \/ Accept \/ RecvOp \/ RecvFails \/ CheckReply \/ PipeDrain \/ RunOp \/ Close \/ PeerGone
  <2>1. Owned' = Owned /\ slot' = slot /\ nreq' = nreq
    BY <1>6 DEF Accept, RecvOp, RecvFails, CheckReply, PipeDrain, RunOp, Close, PeerGone,
                Owned, pipeVars
  <2>2. (kp' = kp \/ kp' # "enq") /\ pipe_sub' = pipe_sub
    BY <1>6 DEF Accept, RecvOp, RecvFails, CheckReply, PipeDrain, RunOp, Close, PeerGone, pipeVars
  <2>3. kp' \in {"chunk", "wait"} => kp \in {"chunk", "wait"}
    BY <1>6 DEF Accept, RecvOp, RecvFails, CheckReply, PipeDrain, RunOp, Close, PeerGone
  <2>4. QED
    BY <2>1, <2>2, <2>3, HeaderInvQuiet
<1>7. CASE ReplyAdvance
  <2>1. Owned' \subseteq Owned
    BY <1>7 DEF ReplyAdvance, Owned, connVars, TypeOK
  <2>2. QED
    BY <1>7, <2>1, HeaderInvQuiet DEF ReplyAdvance, connVars
<1>8. CASE \/ Cards \/ Worker \/ ReplyTake \/ ReplySync \/ ReplySkip \/ ReplyHeader
           \/ ReplyPayload \/ ReplyWriteFails \/ UNCHANGED vars
  <2>1. UNCHANGED <<kp, nreq, pipe_sub, pipe_tail, slot>>
    BY <1>8 DEF Cards, CardStep, Worker, StagePop, StageRun, ReplyTake, ReplySync, ReplySkip,
                ReplyHeader, ReplyPayload, ReplyWriteFails, vars, connVars, pipeVars
  <2>2. Owned' = Owned
    BY <2>1 DEF Owned
  <2>3. QED
    BY <2>1, <2>2, HeaderInvQuiet
<1>9. QED
  BY <1>2, <1>3, <1>4, <1>5, <1>6, <1>7, <1>8 DEF Next, Conn, Reply

LEMMA Headers == Spec => []HeaderInv
<1>1. Init => HeaderInv
  <2>1. SUFFICES ASSUME Init PROVE HeaderInv
    OBVIOUS
  <2>2. Owned = {}
    BY <2>1 DEF Init, Owned
  <2>3. QED
    BY <2>1, <2>2 DEF Init, HeaderInv, SlotsNotReused
<1>2. TypeOK /\ PipeInv /\ HeaderInv /\ [Next]_vars => HeaderInv'
  BY HeaderInvNext
<1>3. QED
  BY <1>1, <1>2, TypeCorrect, Pipeline, PTL DEF Spec

\* A slot is never refilled under a chunk that is still in the pipe: also when
\* cards fail and connections come and go.
THEOREM SlotsSafe == Spec => []SlotsNotReused
<1>1. HeaderInv => SlotsNotReused
  BY DEF HeaderInv
<1>2. QED
  BY <1>1, Headers, PTL

-----------------------------------------------------------------------------
(* The replies.                                                            *)

\* Everything answered is older than what still waits to be answered.
Answered(i) ==
  /\ sent[i].r <= nreq
  /\ kp \in {"chunk", "wait"} => sent[i].r < nreq
  /\ \A c \in Owned : pipe_tail < c \/ rp \in {"idle", "sync", "hdr"} => sent[i].r < Header(c)

ReplyInv ==
  /\ \A i \in 1 .. Len(sent) : sent[i].kind = "hdr" => Answered(i)
  /\ RepliesInOrder

\* A step that writes no header and adds nothing to what waits.
LEMMA ReplyInvQuiet ==
  ASSUME ReplyInv, UNCHANGED <<sent, slot, nreq, pipe_tail>>, Owned' \subseteq Owned,
         kp' \in {"chunk", "wait"} => kp \in {"chunk", "wait"},
         rp' \in {"idle", "sync", "hdr"} => rp \in {"idle", "sync", "hdr"}
  PROVE  ReplyInv'
<1>1. \A c : Header(c)' = Header(c)
  BY DEF Header
<1>2. \A i \in 1 .. Len(sent) : sent[i].kind = "hdr" => Answered(i)'
  <2>1. TAKE i \in 1 .. Len(sent)
  <2>2. HAVE sent[i].kind = "hdr"
  <2>3. Answered(i)
    BY <2>2 DEF ReplyInv
  <2>4. QED
    BY <1>1, <2>3 DEF Answered
<1>3. QED
  BY <1>2 DEF ReplyInv, RepliesInOrder

LEMMA ReplyInvReceive ==
  ASSUME TypeOK, PipeInv, ReplyInv, RecvChunk
  PROVE  ReplyInv'
<1>1. /\ UNCHANGED <<sent, slot, pipe_tail, rp>> /\ Owned' = Owned /\ nreq' = nreq + 1
      /\ \A c : Header(c)' = Header(c)
  BY DEF RecvChunk, Owned, Header, pipeVars, replyVars
<1>2. nreq \in Nat /\ \A i \in 1 .. Len(sent) : sent[i].r \in Nat
  <2>1. sent \in Seq(Sent) /\ nreq \in Nat
    BY DEF TypeOK
  <2>2. \A i \in 1 .. Len(sent) : sent[i] \in Sent
    BY <2>1
  <2>3. QED
    BY <2>1, <2>2 DEF Sent
<1>3. \A i \in 1 .. Len(sent) : sent[i].kind = "hdr" => Answered(i)'
  <2>1. TAKE i \in 1 .. Len(sent)
  <2>2. HAVE sent[i].kind = "hdr"
  <2>3. Answered(i)
    BY <2>2 DEF ReplyInv
  <2>4. QED
    BY <1>1, <1>2, <2>3 DEF Answered
<1>4. QED
  BY <1>1, <1>3 DEF ReplyInv, RepliesInOrder

LEMMA ReplyInvFill ==
  ASSUME TypeOK, PipeInv, HeaderInv, ReplyInv, FillSlot
  PROVE  ReplyInv'
<1>1. /\ UNCHANGED <<sent, pipe_tail, pipe_sub, nreq, rp>> /\ kp = "wait" /\ kp' = "enq"
      /\ Owned = pipe_tail .. pipe_sub - 1 /\ Owned' = pipe_tail .. pipe_sub
  BY DEF FillSlot, Owned, pipeVars, replyVars
<1>2. \A c \in Owned' : c = pipe_sub \/ c \in Owned
  BY <1>1 DEF TypeOK
<1>3. \A c \in Owned : Header(c)' = Header(c)
  <2>1. TAKE c \in Owned
  <2>2. c \in Nat /\ c < pipe_sub /\ pipe_sub - c < PIPE_SLOTS
    BY <1>1, ConstantFacts DEF FillSlot, SlotFree, TypeOK
  <2>3. SlotOf(c) # SlotOf(pipe_sub)
    BY <2>2, SlotsDiffer DEF TypeOK
  <2>4. QED
    BY <2>2, <2>3, SlotInRange DEF FillSlot, Header, TypeOK
<1>4. Header(pipe_sub)' = nreq
  BY SlotInRange DEF FillSlot, Header, TypeOK, pipeVars
<1>5. \A i \in 1 .. Len(sent) : sent[i].kind = "hdr" => Answered(i)'
  <2>1. TAKE i \in 1 .. Len(sent)
  <2>2. HAVE sent[i].kind = "hdr"
  <2>3. Answered(i)
    BY <2>2 DEF ReplyInv
  <2>4. sent[i].r < nreq /\ sent[i].r <= nreq
    BY <1>1, <2>3 DEF Answered
  <2>5. ASSUME NEW c \in Owned', pipe_tail < c \/ rp \in {"idle", "sync", "hdr"}
        PROVE  sent[i].r < Header(c)'
    <3>1. CASE c \in Owned
      <4>1. sent[i].r < Header(c)
        BY <2>3, <2>5, <3>1 DEF Answered
      <4>2. QED
        BY <1>3, <3>1, <4>1
    <3>2. CASE c = pipe_sub
      BY <1>1, <1>4, <2>4, <3>2 DEF Header
    <3>3. QED
      BY <1>2, <3>1, <3>2
  <2>6. QED
    BY <1>1, <2>4, <2>5 DEF Answered
<1>6. QED
  BY <1>1, <1>5 DEF ReplyInv, RepliesInOrder

LEMMA ReplyInvHeader ==
  ASSUME TypeOK, PipeInv, HeaderInv, ReplyInv, ReplyHeader
  PROVE  ReplyInv'
<1>1. /\ UNCHANGED <<slot, nreq, kp, pipe_tail, pipe_sub>> /\ rp = "hdr" /\ rp' = "pay"
      /\ Owned' = Owned /\ \A c : Header(c)' = Header(c)
  BY DEF ReplyHeader, connVars, pipeVars, Owned, Header
<1>2. PICK e : sent' = Append(sent, e) /\ e.r = Header(pipe_tail) /\ e.kind = "hdr"
  BY DEF ReplyHeader, Header
<1>3. sent \in Seq(Sent)
  BY DEF TypeOK
<1>4. /\ Len(sent) \in Nat /\ Len(sent') = Len(sent) + 1 /\ sent'[Len(sent) + 1] = e
      /\ \A i \in 1 .. Len(sent) : sent'[i] = sent[i]
  BY <1>2, <1>3
<1>5. pipe_tail \in Owned
  <2>1. pipe_tail < pipe_head /\ pipe_head <= pipe_sub
    BY <1>1, PassedBounds, StageFacts DEF PipeInv
  <2>2. QED
    BY <2>1 DEF Owned, TypeOK
<1>6. \A i \in 1 .. Len(sent) : sent[i].kind = "hdr" => Answered(i)' /\ sent[i].r < Header(pipe_tail)
  <2>1. TAKE i \in 1 .. Len(sent)
  <2>2. HAVE sent[i].kind = "hdr"
  <2>3. Answered(i)
    BY <2>2 DEF ReplyInv
  <2>4. QED
    BY <1>1, <1>4, <1>5, <2>3 DEF Answered
<1>7. ASSUME NEW k \in Nat, k = Len(sent) + 1 PROVE Answered(k)'
  <2>1. sent'[k].r = Header(pipe_tail)
    BY <1>2, <1>4, <1>7
  <2>2. Header(pipe_tail) <= nreq /\ (kp \in {"chunk", "wait"} => Header(pipe_tail) < nreq)
    BY <1>5 DEF HeaderInv
  <2>3. \A c \in Owned : pipe_tail < c => Header(pipe_tail) < Header(c)
    BY <1>5 DEF HeaderInv, SlotsNotReused
  <2>4. QED
    BY <1>1, <2>1, <2>2, <2>3 DEF Answered
<1>8. RepliesInOrder'
  <2>1. SUFFICES ASSUME NEW i \in 1 .. Len(sent'), NEW j \in 1 .. Len(sent'), i < j,
                        sent'[i].kind = "hdr", sent'[j].kind = "hdr"
                 PROVE  sent'[i].r < sent'[j].r
    BY DEF RepliesInOrder
  <2>2. i \in 1 .. Len(sent) /\ sent'[i] = sent[i]
    BY <1>4, <2>1
  <2>3. CASE j \in 1 .. Len(sent)
    BY <1>4, <2>1, <2>2, <2>3 DEF ReplyInv, RepliesInOrder
  <2>4. CASE j = Len(sent) + 1
    BY <1>2, <1>4, <1>6, <2>1, <2>2, <2>4
  <2>5. QED
    BY <1>4, <2>3, <2>4
<1>9. \A i \in 1 .. Len(sent') : sent'[i].kind = "hdr" => Answered(i)'
  <2>1. TAKE i \in 1 .. Len(sent')
  <2>2. i \in 1 .. Len(sent) \/ i = Len(sent) + 1
    BY <1>4
  <2>3. QED
    BY <1>4, <1>6, <1>7, <2>2
<1>10. QED
  BY <1>8, <1>9 DEF ReplyInv

LEMMA ReplyInvPayload ==
  ASSUME TypeOK, PipeInv, HeaderInv, ReplyInv, ReplyPayload
  PROVE  ReplyInv'
<1>1. /\ UNCHANGED <<slot, nreq, kp, pipe_tail, pipe_sub>> /\ rp' = "adv"
      /\ Owned' = Owned /\ \A c : Header(c)' = Header(c)
  BY DEF ReplyPayload, connVars, pipeVars, Owned, Header
<1>2. PICK e : sent' = Append(sent, e) /\ e.kind = "pay"
  BY DEF ReplyPayload
<1>3. sent \in Seq(Sent)
  BY DEF TypeOK
<1>4. /\ Len(sent) \in Nat /\ Len(sent') = Len(sent) + 1 /\ sent'[Len(sent) + 1] = e
      /\ \A i \in 1 .. Len(sent) : sent'[i] = sent[i]
  BY <1>2, <1>3
<1>5. \A i \in 1 .. Len(sent') : sent'[i].kind = "hdr" => i \in 1 .. Len(sent) /\ sent'[i] = sent[i]
  BY <1>2, <1>4
<1>6. \A i \in 1 .. Len(sent') : sent'[i].kind = "hdr" => Answered(i)'
  <2>1. TAKE i \in 1 .. Len(sent')
  <2>2. HAVE sent'[i].kind = "hdr"
  <2>3. Answered(i) /\ sent'[i] = sent[i]
    BY <1>5, <2>2 DEF ReplyInv
  <2>4. QED
    BY <1>1, <2>3 DEF Answered
<1>7. RepliesInOrder'
  BY <1>5 DEF ReplyInv, RepliesInOrder
<1>8. QED
  BY <1>6, <1>7 DEF ReplyInv

LEMMA ReplyInvAdvance ==
  ASSUME TypeOK, PipeInv, ReplyInv, ReplyAdvance
  PROVE  ReplyInv'
<1>1. /\ UNCHANGED <<sent, slot, nreq, kp, pipe_sub>> /\ pipe_tail' = pipe_tail + 1 /\ rp = "adv"
      /\ \A c : Header(c)' = Header(c)
  BY DEF ReplyAdvance, connVars, Header
<1>2. \A c \in Owned' : c \in Owned /\ pipe_tail < c
  BY <1>1 DEF Owned, TypeOK
<1>3. \A i \in 1 .. Len(sent) : sent[i].kind = "hdr" => Answered(i)'
  <2>1. TAKE i \in 1 .. Len(sent)
  <2>2. HAVE sent[i].kind = "hdr"
  <2>3. Answered(i)
    BY <2>2 DEF ReplyInv
  <2>4. QED
    BY <1>1, <1>2, <2>3 DEF Answered
<1>4. QED
  BY <1>1, <1>3 DEF ReplyInv, RepliesInOrder

LEMMA ReplyInvNext == TypeOK /\ PipeInv /\ HeaderInv /\ ReplyInv /\ [Next]_vars => ReplyInv'
<1>1. SUFFICES ASSUME TypeOK, PipeInv, HeaderInv, ReplyInv, [Next]_vars PROVE ReplyInv'
  OBVIOUS
<1> USE <1>1
<1>2. CASE RecvChunk
  BY <1>2, ReplyInvReceive
<1>3. CASE FillSlot
  BY <1>3, ReplyInvFill
<1>4. CASE ReplyHeader
  BY <1>4, ReplyInvHeader
<1>5. CASE ReplyPayload
  BY <1>5, ReplyInvPayload
<1>6. CASE ReplyAdvance
  BY <1>6, ReplyInvAdvance
<1>7. CASE SubmitChunk
  <2>1. Owned' = Owned
    BY <1>7 DEF SubmitChunk, Owned, TypeOK
  <2>2. QED
    BY <1>7, <2>1, ReplyInvQuiet DEF SubmitChunk, replyVars
<1>8. CASE RefuseAfterStageFail \/ SubmitFails
  <2>1. Owned' \subseteq Owned
    BY <1>8 DEF RefuseAfterStageFail, SubmitFails, Owned, TypeOK, pipeVars
  <2>2. QED
    BY <1>8, <2>1, ReplyInvQuiet DEF RefuseAfterStageFail, SubmitFails, pipeVars, replyVars
<1>9. CASE \/ Accept \/ RecvOp \/ RecvFails \/ CheckReply \/ PipeDrain \/ RunOp \/ Close \/ PeerGone
  <2>1. Owned' = Owned /\ UNCHANGED <<sent, slot, nreq, pipe_tail, rp>>
    BY <1>9 DEF Accept, RecvOp, RecvFails, CheckReply, PipeDrain, RunOp, Close, PeerGone,
                Owned, pipeVars, replyVars
  <2>2. kp' \in {"chunk", "wait"} => kp \in {"chunk", "wait"}
    BY <1>9 DEF Accept, RecvOp, RecvFails, CheckReply, PipeDrain, RunOp, Close, PeerGone
  <2>3. QED
    BY <2>1, <2>2, ReplyInvQuiet
<1>10. CASE \/ Cards \/ Worker \/ ReplyTake \/ ReplySync \/ ReplySkip \/ ReplyWriteFails
            \/ UNCHANGED vars
  <2>1. UNCHANGED <<kp, nreq, pipe_sub, pipe_tail, slot, sent>>
    BY <1>10 DEF Cards, CardStep, Worker, StagePop, StageRun, ReplyTake, ReplySync, ReplySkip,
                 ReplyWriteFails, vars, connVars, pipeVars, replyVars
  <2>2. rp' \in {"idle", "sync", "hdr"} => rp \in {"idle", "sync", "hdr"}
    BY <1>10 DEF Cards, CardStep, Worker, StagePop, StageRun, ReplyTake, ReplySync, ReplySkip,
                 ReplyWriteFails, vars, replyVars
  <2>3. Owned' = Owned
    BY <2>1 DEF Owned
  <2>4. QED
    BY <2>1, <2>2, <2>3, ReplyInvQuiet
<1>11. QED
  BY <1>2, <1>3, <1>4, <1>5, <1>6, <1>7, <1>8, <1>9, <1>10 DEF Next, Conn, Reply

LEMMA Replies == Spec => []ReplyInv
<1>1. Init => ReplyInv
  BY DEF Init, ReplyInv, RepliesInOrder
<1>2. TypeOK /\ PipeInv /\ HeaderInv /\ ReplyInv /\ [Next]_vars => ReplyInv'
  BY ReplyInvNext
<1>3. QED
  BY <1>1, <1>2, TypeCorrect, Pipeline, Headers, PTL DEF Spec

\* The reply thread answers in request order, over all connections, whatever
\* it had to skip because a write failed.
THEOREM RepliesOrdered == Spec => []RepliesInOrder
<1>1. ReplyInv => RepliesInOrder
  BY DEF ReplyInv
<1>2. QED
  BY <1>1, Replies, PTL

-----------------------------------------------------------------------------
(* The cards, as long as no call fails on them.                            *)

\* The chunks whose event behind card g somebody has waited for: the next
\* card's host thread or, behind the last card, the reply thread.
Awaited(g) == IF g # Last THEN Passed(g + 1)
              ELSE IF rp \in {"hdr", "pay", "adv"} THEN pipe_tail + 1 ELSE pipe_tail

OnStream(g, c) == \E i \in 1 .. Len(stream[g]) : stream[g][i].c = c

\* A stream holds only chunks nobody has waited for yet, each with all its
\* calls; and the rows behind card g are those of the chunk in the slot once
\* the chunk is off the stream.
CardInv ==
  /\ \A g \in Stage : \A i \in 1 .. Len(stream[g]) :
       LET it == stream[g][i]
       IN it.n = Calls /\ Awaited(g) <= it.c /\ it.c < Passed(g) /\ it.r = Header(it.c)
  /\ \A g \in Stage : \A c \in pipe_tail .. Passed(g) - 1 :
       OnStream(g, c) \/ hop[g][SlotOf(c)] = Header(c)
  /\ rp = "pay" => /\ Len(sent) > 0
                   /\ sent[Len(sent)].kind = "hdr"
                   /\ sent[Len(sent)].r = Header(pipe_tail)
  /\ RowsMatchHeader

LEMMA AwaitedBounds ==
  ASSUME TypeOK, PipeInv, NEW g \in Stage
  PROVE  Awaited(g) \in Nat /\ pipe_tail <= Awaited(g) /\ Awaited(g) <= Passed(g)
<1>1. CASE g # Last
  <2>1. g + 1 \in Stage /\ g <= g + 1
    BY <1>1, StageFacts DEF Stage
  <2>2. Passed(g + 1) <= Passed(g)
    BY <2>1 DEF PipeInv
  <2>3. Passed(g + 1) \in Nat /\ pipe_tail <= pipe_head /\ pipe_head <= Passed(g + 1)
    BY <2>1, PassedIsNat, PassedBounds
  <2>4. QED
    BY <1>1, <2>2, <2>3 DEF Awaited, TypeOK
<1>2. CASE g = Last
  BY <1>2, PassedLast DEF Awaited, PipeInv, TypeOK
<1>3. QED
  BY <1>1, <1>2

\* The chunks some card has and nobody has answered: each owns its slot.
LEMMA InPipe ==
  ASSUME TypeOK, PipeInv, NEW g \in Stage, NEW c \in pipe_tail .. Passed(g) - 1
  PROVE  /\ c \in Nat /\ c \in Owned /\ c < pipe_sub /\ SlotOf(c) \in Slot
         /\ \A d \in Nat : pipe_tail <= d /\ d < pipe_sub /\ d # c => SlotOf(d) # SlotOf(c)
<1>1. Passed(g) \in Nat /\ Passed(g) <= pipe_sub /\ pipe_tail \in Nat /\ pipe_sub \in Nat
  BY PassedIsNat, PassedBounds DEF TypeOK
<1>2. c \in Nat /\ c \in Owned /\ c < pipe_sub
  BY <1>1 DEF Owned
<1>3. \A d \in Nat : pipe_tail <= d /\ d < pipe_sub /\ d # c => SlotOf(d) # SlotOf(c)
  <2>1. TAKE d \in Nat
  <2>2. HAVE pipe_tail <= d /\ d < pipe_sub /\ d # c
  <2>3. (c < d /\ d - c < PIPE_SLOTS) \/ (d < c /\ c - d < PIPE_SLOTS)
    BY <1>1, <1>2, <2>2, ConstantFacts DEF PipeInv
  <2>4. QED
    BY <1>2, <2>3, SlotsDiffer
<1>4. QED
  BY <1>2, <1>3, SlotInRange

\* No event of chunk c pending behind card g: the chunk is off its stream.
LEMMA EventDone ==
  ASSUME CardInv, NEW g \in Stage, NEW c \in Nat, ~EventPending(g, SlotOf(c))
  PROVE  ~OnStream(g, c)
BY DEF CardInv, EventPending, OnStream

LEMMA CardInvInit == Init => CardInv
<1>1. SUFFICES ASSUME Init PROVE CardInv
  OBVIOUS
<1>2. \A g \in Stage : Passed(g) = 0
  BY <1>1, StageFacts DEF Init, Passed
<1>3. QED
  BY <1>1, <1>2 DEF Init, CardInv, RowsMatchHeader

\* A step that touches neither the cards nor what is known about them.
LEMMA CardInvQuiet ==
  ASSUME CardInv, UNCHANGED <<stream, hop, slot, sent, pipe_tail, pipe_head, sq_head>>,
         rp' \in {"hdr", "pay", "adv"} <=> rp \in {"hdr", "pay", "adv"},
         rp' = "pay" => rp = "pay"
  PROVE  CardInv'
<1>1. \A g : Passed(g)' = Passed(g) /\ Awaited(g)' = Awaited(g)
  BY DEF Passed, Awaited
<1>2. (\A c : Header(c)' = Header(c)) /\ (\A g, c : OnStream(g, c)' = OnStream(g, c))
  BY DEF Header, OnStream
<1>3. QED
  BY <1>1, <1>2 DEF CardInv, RowsMatchHeader

\* What follows when rows are written only for a chunk that was still on the
\* stream: the card executes the oldest chunk it has.
LEMMA CardInvStep ==
  ASSUME TypeOK, PipeInv, CardInv, NEW g \in Stage, CardStep(g)
  PROVE  CardInv'
<1> DEFINE it == Head(stream[g])
<1>1. /\ UNCHANGED <<slot, sent, pipe_tail, pipe_head, pipe_sub, sq_head, rp>>
      /\ \A h : Passed(h)' = Passed(h) /\ Awaited(h)' = Awaited(h)
      /\ \A c : Header(c)' = Header(c)
  BY DEF CardStep, pipeVars, stageVars, replyVars, Passed, Awaited, Header
<1>2. /\ stream[g] \in Seq(Item) /\ stream[g] # <<>> /\ it = stream[g][1]
      /\ Len(stream[g]) \in Nat /\ Len(stream[g]) >= 1
      /\ stream'[g] = Tail(stream[g])
      /\ \A h \in Stage : h # g => stream'[h] = stream[h]
  BY DEF TypeOK, CardStep
<1>3. Len(stream'[g]) = Len(stream[g]) - 1
      /\ \A i \in 1 .. Len(stream'[g]) : i + 1 \in 1 .. Len(stream[g]) /\ stream'[g][i] = stream[g][i + 1]
  BY <1>2
<1>4. /\ it.n = Calls /\ Awaited(g) <= it.c /\ it.c < Passed(g) /\ it.r = Header(it.c)
      /\ it.c \in Nat
  <2>1. it \in Item /\ 1 \in 1 .. Len(stream[g])
    BY <1>2
  <2>2. QED
    BY <1>2, <2>1 DEF CardInv, Item
<1>5. it.c \in pipe_tail .. Passed(g) - 1
  BY <1>4, AwaitedBounds, PassedIsNat DEF TypeOK
<1>6. SlotOf(it.c) \in Slot /\ it.c < pipe_sub /\ pipe_tail <= it.c
  BY <1>4, <1>5, InPipe DEF TypeOK
<1>7. hop' = [hop EXCEPT ![g][SlotOf(it.c)] = Header(it.c)]
  <2>1. hop' = [hop EXCEPT ![g][SlotOf(it.c)] = IF g = 0 THEN it.r ELSE hop[g - 1][SlotOf(it.c)]]
    BY <1>4 DEF CardStep, Calls
  <2>2. g # 0 => hop[g - 1][SlotOf(it.c)] = Header(it.c)
    <3>1. HAVE g # 0
    <3>2. g \in Host /\ g - 1 \in Stage /\ g - 1 # Last /\ (g - 1) + 1 = g
      BY <3>1, ConstantFacts DEF Stage, Host, Last
    <3>3. ~OnStream(g - 1, it.c)
      <4>1. Awaited(g - 1) = Passed(g) /\ Passed(g) \in Nat
        BY <3>2, PassedIsNat DEF Awaited
      <4>2. \A i \in 1 .. Len(stream[g - 1]) : stream[g - 1][i].c # it.c
        <5>1. TAKE i \in 1 .. Len(stream[g - 1])
        <5>2. Passed(g) <= stream[g - 1][i].c
          BY <3>2, <4>1 DEF CardInv
        <5>3. stream[g - 1][i] \in Item
          BY <3>2 DEF TypeOK
        <5>4. QED
          BY <1>4, <4>1, <5>2, <5>3 DEF Item
      <4>3. QED
        BY <4>2 DEF OnStream
    <3>4. it.c \in pipe_tail .. Passed(g - 1) - 1
      <4>1. Passed(g) <= Passed(g - 1) /\ Passed(g - 1) \in Nat /\ Passed(g) \in Nat
        BY <3>2, PassedIsNat, StageFacts DEF PipeInv, Stage
      <4>2. QED
        BY <1>5, <4>1 DEF TypeOK
    <3>5. QED
      BY <3>2, <3>3, <3>4 DEF CardInv
  <2>3. QED
    BY <1>4, <2>1, <2>2
<1>8. \A h \in Stage : \A i \in 1 .. Len(stream'[h]) :
        LET j == stream'[h][i]
        IN j.n = Calls /\ Awaited(h) <= j.c /\ j.c < Passed(h) /\ j.r = Header(j.c)
  <2>1. TAKE h \in Stage
  <2>2. TAKE i \in 1 .. Len(stream'[h])
  <2>3. \E k \in 1 .. Len(stream[h]) : stream'[h][i] = stream[h][k]
    <3>1. CASE h = g
      BY <1>3, <3>1
    <3>2. CASE h # g
      <4>1. stream'[h] = stream[h]
        BY <1>2, <3>2
      <4>2. QED
        BY <4>1
    <3>3. QED
      BY <3>1, <3>2
  <2>4. QED
    BY <2>3 DEF CardInv
<1>9. \A h \in Stage : \A c \in pipe_tail .. Passed(h) - 1 :
        OnStream(h, c)' \/ hop'[h][SlotOf(c)] = Header(c)
  <2>1. TAKE h \in Stage
  <2>2. TAKE c \in pipe_tail .. Passed(h) - 1
  <2>3. OnStream(h, c) \/ hop[h][SlotOf(c)] = Header(c)
    BY DEF CardInv
  <2>4. hop \in [Stage -> [Slot -> Nat]] /\ SlotOf(c) \in Slot
    BY InPipe DEF TypeOK
  <2>5. CASE h # g
    BY <1>2, <1>7, <2>3, <2>4, <2>5 DEF OnStream
  <2>6. CASE h = g /\ c = it.c
    BY <1>6, <1>7, <2>4, <2>6
  <2>7. CASE h = g /\ c # it.c
    <3>1. SlotOf(c) # SlotOf(it.c)
      BY <1>4, <1>6, <2>7, InPipe
    <3>2. hop'[h][SlotOf(c)] = hop[h][SlotOf(c)]
      BY <1>6, <1>7, <2>4, <2>7, <3>1
    <3>3. OnStream(h, c) => OnStream(h, c)'
      <4>1. HAVE OnStream(h, c)
      <4>2. PICK i \in 1 .. Len(stream[g]) : stream[g][i].c = c
        BY <2>7, <4>1 DEF OnStream
      <4>3. i # 1
        BY <1>2, <2>7, <4>2
      <4>4. i - 1 \in 1 .. Len(stream'[g]) /\ stream'[g][i - 1].c = c
        BY <1>2, <1>3, <4>2, <4>3
      <4>5. QED
        BY <2>7, <4>4 DEF OnStream
    <3>4. QED
      BY <2>3, <3>2, <3>3
  <2>8. QED
    BY <2>5, <2>6, <2>7
<1>10. QED
  BY <1>1, <1>8, <1>9 DEF CardInv, RowsMatchHeader

\* Card g is given its next chunk, whose event behind the card before has
\* been waited for, and passes it on.
LEMMA CardInvEnqueue ==
  ASSUME TypeOK, PipeInv, CardInv, NEW g \in Stage,
         Enqueue(g, Passed(g), Header(Passed(g)), Calls),
         g # 0 => ~OnStream(g - 1, Passed(g)),
         \A h \in Stage : Passed(h)' = IF h = g THEN Passed(h) + 1 ELSE Passed(h),
         UNCHANGED <<hop, slot, sent, pipe_tail, rp>>
  PROVE  CardInv'
<1> DEFINE new == [c |-> Passed(g), r |-> Header(Passed(g)), n |-> Calls]
<1>1. \A c : Header(c)' = Header(c)
  BY DEF Header
<1>2. \A h \in Stage : Passed(h) \in Nat /\ Awaited(h) \in Nat /\ Awaited(h) <= Passed(h)
  BY PassedIsNat, AwaitedBounds
<1>3. \A h \in Stage : Awaited(h)' = IF h + 1 = g THEN Awaited(h) + 1 ELSE Awaited(h)
  <2>1. TAKE h \in Stage
  <2>2. CASE h = Last
    <3>1. h + 1 # g
      BY <2>2, StageFacts, ConstantFacts DEF Last, Stage
    <3>2. QED
      BY <2>2, <3>1 DEF Awaited
  <2>3. CASE h # Last
    <3>1. h + 1 \in Stage
      BY <2>3, StageFacts
    <3>2. QED
      BY <2>3, <3>1 DEF Awaited
  <2>4. QED
    BY <2>2, <2>3
<1>4. /\ \A h \in Stage : stream[h] \in Seq(Item)
      /\ stream'[g] = Append(stream[g], new)
      /\ \A h \in Stage : h # g => stream'[h] = stream[h]
  BY DEF TypeOK, Enqueue, Calls
<1>5. /\ Len(stream'[g]) = Len(stream[g]) + 1 /\ Len(stream[g]) \in Nat
      /\ stream'[g][Len(stream[g]) + 1] = new
      /\ \A i \in 1 .. Len(stream[g]) : stream'[g][i] = stream[g][i]
  BY <1>4
<1>6. ASSUME NEW h \in Stage, NEW i \in 1 .. Len(stream'[h])
      PROVE  /\ stream'[h][i].n = Calls
             /\ Awaited(h)' <= stream'[h][i].c /\ stream'[h][i].c < Passed(h)'
             /\ stream'[h][i].r = Header(stream'[h][i].c)
  <2>1. CASE h = g /\ i = Len(stream[g]) + 1
    <3>1. stream'[h][i] = new /\ h + 1 # g
      BY <1>5, <2>1, StageFacts
    <3>2. QED
      BY <1>2, <1>3, <2>1, <3>1
  <2>2. CASE ~(h = g /\ i = Len(stream[g]) + 1)
    <3>1. i \in 1 .. Len(stream[h]) /\ stream'[h][i] = stream[h][i]
      BY <1>4, <1>5, <2>2
    <3>2. /\ stream[h][i].n = Calls
          /\ Awaited(h) <= stream[h][i].c /\ stream[h][i].c < Passed(h)
          /\ stream[h][i].r = Header(stream[h][i].c)
          /\ stream[h][i].c \in Nat
      <4>1. stream[h][i] \in Item
        BY <1>4, <3>1
      <4>2. QED
        BY <3>1, <4>1 DEF CardInv, Item
    <3>3. stream[h][i].c < Passed(h)'
      BY <1>2, <3>2
    <3>4. Awaited(h)' <= stream[h][i].c
      <4>1. CASE h + 1 # g
        BY <1>3, <3>2, <4>1
      <4>2. CASE h + 1 = g
        <5>1. g # 0 /\ h = g - 1 /\ h # Last
          BY <4>2, StageFacts, ConstantFacts DEF Stage, Last
        <5>2. Awaited(h) = Passed(g)
          BY <4>2, <5>1 DEF Awaited
        <5>3. stream[h][i].c # Passed(g)
          BY <3>1, <5>1 DEF OnStream
        <5>4. QED
          BY <1>2, <1>3, <3>2, <4>2, <5>2, <5>3
      <4>3. QED
        BY <4>1, <4>2
    <3>5. QED
      BY <3>1, <3>2, <3>3, <3>4
  <2>3. QED
    BY <2>1, <2>2
<1>7. ASSUME NEW h \in Stage, NEW c \in pipe_tail .. Passed(h)' - 1
      PROVE  OnStream(h, c)' \/ hop[h][SlotOf(c)] = Header(c)
  <2>1. CASE h = g /\ c = Passed(g)
    <3>1. Len(stream[g]) + 1 \in 1 .. Len(stream'[h]) /\ stream'[h][Len(stream[g]) + 1].c = c
      BY <1>5, <2>1
    <3>2. QED
      BY <3>1 DEF OnStream
  <2>2. CASE ~(h = g /\ c = Passed(g))
    <3>1. c \in pipe_tail .. Passed(h) - 1
      BY <1>2, <2>2 DEF TypeOK
    <3>2. OnStream(h, c) \/ hop[h][SlotOf(c)] = Header(c)
      BY <3>1 DEF CardInv
    <3>3. OnStream(h, c) => OnStream(h, c)'
      <4>1. HAVE OnStream(h, c)
      <4>2. PICK i \in 1 .. Len(stream[h]) : stream[h][i].c = c
        BY <4>1 DEF OnStream
      <4>3. i \in 1 .. Len(stream'[h]) /\ stream'[h][i] = stream[h][i]
        <5>1. CASE h = g
          BY <1>5, <5>1
        <5>2. CASE h # g
          BY <1>4, <5>2
        <5>3. QED
          BY <5>1, <5>2
      <4>4. QED
        BY <4>2, <4>3 DEF OnStream
    <3>4. QED
      BY <3>2, <3>3
  <2>3. QED
    BY <2>1, <2>2
<1>8. \A h \in Stage : \A i \in 1 .. Len(stream'[h]) :
        LET it == stream'[h][i]
        IN it.n = Calls /\ Awaited(h)' <= it.c /\ it.c < Passed(h)' /\ it.r = slot'[SlotOf(it.c)]
  BY <1>6 DEF Header
<1>9. \A h \in Stage : \A c \in pipe_tail' .. Passed(h)' - 1 :
        OnStream(h, c)' \/ hop'[h][SlotOf(c)] = Header(c)'
  BY <1>1, <1>7
<1>10. rp' = "pay" => /\ Len(sent') > 0
                      /\ sent'[Len(sent')].kind = "hdr"
                      /\ sent'[Len(sent')].r = Header(pipe_tail)'
  BY <1>1 DEF CardInv, Header
<1>11. RowsMatchHeader'
  BY DEF CardInv, RowsMatchHeader
<1>12. QED
  BY <1>8, <1>9, <1>10, <1>11 DEF CardInv, Header

LEMMA CardInvSubmit ==
  ASSUME TypeOK, PipeInv, HeaderInv, CardInv, SubmitChunk
  PROVE  CardInv'
<1>1. 0 \in Stage /\ 0 # Last /\ pipe_sub = Passed(0)
  BY ConstantFacts DEF Stage, Last, PipeInv
<1>2. \A h \in Stage : Passed(h)' = IF h = 0 THEN Passed(h) + 1 ELSE Passed(h)
  <2>1. StagePush(0 + 1, Passed(0))
    BY <1>1 DEF SubmitChunk
  <2>2. QED
    BY <1>1, <2>1, PassedMoves DEF SubmitChunk, StagePush
<1>3. Enqueue(0, Passed(0), Header(Passed(0)), Calls)
  BY <1>1 DEF SubmitChunk, HeaderInv
<1>4. QED
  BY <1>1, <1>2, <1>3, CardInvEnqueue DEF SubmitChunk, replyVars

LEMMA CardInvRun ==
  ASSUME FailStages = {}, TypeOK, PipeInv, CardInv, NEW g \in Host, StageRun(g)
  PROVE  CardInv'
<1>1. g \in Stage /\ g - 1 \in Stage /\ wk[g] = Passed(g) /\ Passed(g) \in Nat
  BY StageFacts, PassedIsNat DEF PipeInv, StageRun
<1>2. \A h \in Stage : Passed(h)' = IF h = g THEN Passed(h) + 1 ELSE Passed(h)
  <2>1. g # Last => StagePush(g + 1, Passed(g)) /\ pipe_head' = pipe_head
    BY <1>1, StageFacts DEF StageRun, PassOn
  <2>2. g = Last => UNCHANGED <<sq, sq_head>> /\ pipe_head' = pipe_head + 1
    BY <1>1, StageFacts, PassedLast DEF StageRun, PassOn
  <2>3. QED
    BY <1>1, <2>1, <2>2, PassedMoves, StageFacts DEF StagePush, Passed
<1>3. ~OnStream(g - 1, Passed(g))
  BY <1>1, EventDone DEF StageRun
<1>4. Enqueue(g, Passed(g), Header(Passed(g)), Calls)
  BY <1>1 DEF StageRun, CallsMade, Header
<1>5. QED
  BY <1>1, <1>2, <1>3, <1>4, CardInvEnqueue DEF StageRun, replyVars

LEMMA CardInvFill ==
  ASSUME TypeOK, PipeInv, CardInv, FillSlot
  PROVE  CardInv'
<1>1. UNCHANGED <<stream, hop, sent, pipe_tail, pipe_head, pipe_sub, sq_head, rp>>
  BY DEF FillSlot, cardVars, replyVars, pipeVars, stageVars
<1>2. /\ \A h : Passed(h)' = Passed(h) /\ Awaited(h)' = Awaited(h)
      /\ \A h, c : OnStream(h, c)' = OnStream(h, c)
  BY <1>1 DEF Passed, Awaited, OnStream
<1>3. ASSUME NEW g \in Stage, NEW c \in pipe_tail .. Passed(g) - 1
      PROVE  Header(c)' = Header(c)
  <2>1. c \in Nat /\ SlotOf(c) \in Slot /\ c < pipe_sub /\ pipe_tail <= c
    BY InPipe DEF TypeOK
  <2>2. pipe_sub - c < PIPE_SLOTS
    BY <2>1, ConstantFacts DEF FillSlot, SlotFree, TypeOK
  <2>3. SlotOf(c) # SlotOf(pipe_sub)
    BY <2>1, <2>2, SlotsDiffer DEF TypeOK
  <2>4. QED
    BY <2>1, <2>3, SlotInRange DEF FillSlot, Header, TypeOK
<1>4. \A g \in Stage : \A i \in 1 .. Len(stream[g]) :
        LET it == stream[g][i]
        IN it.n = Calls /\ Awaited(g) <= it.c /\ it.c < Passed(g) /\ it.r = slot'[SlotOf(it.c)]
  <2>1. TAKE g \in Stage
  <2>2. TAKE i \in 1 .. Len(stream[g])
  <2>3. stream[g][i] \in Item
    BY DEF TypeOK
  <2>4. /\ stream[g][i].n = Calls
        /\ Awaited(g) <= stream[g][i].c /\ stream[g][i].c < Passed(g)
        /\ stream[g][i].r = Header(stream[g][i].c)
    BY DEF CardInv
  <2>5. stream[g][i].c \in pipe_tail .. Passed(g) - 1
    <3>1. stream[g][i].c \in Nat
      BY <2>3 DEF Item
    <3>2. pipe_tail <= Awaited(g) /\ Awaited(g) \in Nat /\ Passed(g) \in Nat /\ pipe_tail \in Nat
      BY AwaitedBounds, PassedIsNat DEF TypeOK
    <3>3. QED
      BY <2>4, <3>1, <3>2
  <2>6. slot'[SlotOf(stream[g][i].c)] = slot[SlotOf(stream[g][i].c)]
    BY <1>3, <2>5 DEF Header
  <2>7. QED
    BY <2>4, <2>6 DEF Header
<1>5. \A g \in Stage : \A c \in pipe_tail .. Passed(g) - 1 :
        OnStream(g, c) \/ hop[g][SlotOf(c)] = Header(c)'
  BY <1>3 DEF CardInv
<1>6. rp = "pay" => /\ Len(sent) > 0
                    /\ sent[Len(sent)].kind = "hdr"
                    /\ sent[Len(sent)].r = Header(pipe_tail)'
  <2>1. HAVE rp = "pay"
  <2>2. pipe_tail \in pipe_tail .. Passed(Last) - 1 /\ Last \in Stage
    BY <2>1, StageFacts, PassedLast DEF PipeInv, TypeOK
  <2>3. slot'[SlotOf(pipe_tail)] = slot[SlotOf(pipe_tail)]
    BY <1>1, <1>3, <2>2 DEF Header
  <2>4. QED
    BY <1>1, <2>1, <2>3 DEF CardInv, Header
<1>7. QED
  BY <1>1, <1>2, <1>4, <1>5, <1>6 DEF CardInv, RowsMatchHeader, Header

\* The reply thread has waited for the last card's event of chunk pipe_tail.
LEMMA CardInvSync ==
  ASSUME TypeOK, PipeInv, CardInv, ReplySync
  PROVE  CardInv'
<1>1. /\ UNCHANGED <<stream, hop, slot, sent, pipe_tail, pipe_head, sq_head>>
      /\ rp = "sync" /\ rp' = "hdr"
  BY DEF ReplySync, cardVars, pipeVars, stageVars
<1>2. /\ \A h : Passed(h)' = Passed(h)
      /\ \A h, c : OnStream(h, c)' = OnStream(h, c)
      /\ \A c : Header(c)' = Header(c)
  BY <1>1 DEF Passed, OnStream, Header
<1>3. ~OnStream(Last, pipe_tail) /\ Last \in Stage
  BY EventDone, StageFacts DEF ReplySync, TypeOK
<1>4. \A g \in Stage : \A i \in 1 .. Len(stream[g]) : Awaited(g)' <= stream[g][i].c
  <2>1. TAKE g \in Stage
  <2>2. TAKE i \in 1 .. Len(stream[g])
  <2>3. stream[g][i] \in Item /\ Awaited(g) <= stream[g][i].c
    <3>1. stream[g] \in Seq(Item)
      BY DEF TypeOK
    <3>2. Awaited(g) <= stream[g][i].c
      BY DEF CardInv
    <3>3. QED
      BY <3>1, <3>2
  <2>4. CASE g # Last
    BY <1>2, <2>3, <2>4 DEF Awaited
  <2>5. CASE g = Last
    <3>1. stream[g][i].c # pipe_tail /\ stream[g][i].c \in Nat
      BY <1>3, <2>3, <2>5 DEF OnStream, Item
    <3>2. pipe_tail <= stream[g][i].c
      BY <1>1, <2>3, <2>5 DEF Awaited
    <3>3. Awaited(g)' = pipe_tail + 1
      BY <1>1, <2>5 DEF Awaited
    <3>4. QED
      BY <3>1, <3>2, <3>3 DEF TypeOK
  <2>6. QED
    BY <2>4, <2>5
<1>5. QED
  BY <1>1, <1>2, <1>4 DEF CardInv, RowsMatchHeader

LEMMA CardInvHeader ==
  ASSUME TypeOK, CardInv, ReplyHeader
  PROVE  CardInv'
<1>1. /\ UNCHANGED <<stream, hop, slot, pipe_tail, pipe_head, sq_head>>
      /\ rp = "hdr" /\ rp' = "pay"
  BY DEF ReplyHeader, cardVars, pipeVars, stageVars
<1>2. /\ \A h : Passed(h)' = Passed(h) /\ Awaited(h)' = Awaited(h)
      /\ \A h, c : OnStream(h, c)' = OnStream(h, c)
      /\ \A c : Header(c)' = Header(c)
  BY <1>1 DEF Passed, Awaited, OnStream, Header
<1>3. PICK e : sent' = Append(sent, e) /\ e.r = Header(pipe_tail) /\ e.kind = "hdr"
  BY DEF ReplyHeader, Header
<1>4. sent \in Seq(Sent)
  BY DEF TypeOK
<1>5. /\ Len(sent) \in Nat /\ Len(sent') = Len(sent) + 1 /\ sent'[Len(sent) + 1] = e
      /\ \A i \in 1 .. Len(sent) : sent'[i] = sent[i]
  BY <1>3, <1>4
<1>6. RowsMatchHeader'
  <2>1. SUFFICES ASSUME NEW i \in 1 .. Len(sent'), sent'[i].kind = "pay"
                 PROVE  i > 1 /\ sent'[i - 1].kind = "hdr" /\ sent'[i - 1].r = sent'[i].r
    BY DEF RowsMatchHeader
  <2>2. i \in 1 .. Len(sent) /\ sent'[i] = sent[i]
    BY <1>3, <1>5, <2>1
  <2>3. i > 1 /\ sent[i - 1].kind = "hdr" /\ sent[i - 1].r = sent[i].r
    BY <2>1, <2>2 DEF CardInv, RowsMatchHeader
  <2>4. sent'[i - 1] = sent[i - 1]
    BY <1>5, <2>2, <2>3
  <2>5. QED
    BY <2>2, <2>3, <2>4
<1>7. Len(sent') > 0 /\ sent'[Len(sent')].kind = "hdr" /\ sent'[Len(sent')].r = Header(pipe_tail)'
  BY <1>1, <1>3, <1>5 DEF Header
<1>8. QED
  BY <1>1, <1>2, <1>6, <1>7 DEF CardInv

LEMMA CardInvPayload ==
  ASSUME TypeOK, PipeInv, CardInv, ReplyPayload
  PROVE  CardInv'
<1>1. /\ UNCHANGED <<stream, hop, slot, pipe_tail, pipe_head, sq_head>>
      /\ rp = "pay" /\ rp' = "adv"
  BY DEF ReplyPayload, cardVars, pipeVars, stageVars
<1>2. /\ \A h : Passed(h)' = Passed(h) /\ Awaited(h)' = Awaited(h)
      /\ \A h, c : OnStream(h, c)' = OnStream(h, c)
      /\ \A c : Header(c)' = Header(c)
  BY <1>1 DEF Passed, Awaited, OnStream, Header
<1>3. PICK e : sent' = Append(sent, e) /\ e.r = hop[Last][SlotOf(pipe_tail)] /\ e.kind = "pay"
  BY DEF ReplyPayload
<1>4. hop[Last][SlotOf(pipe_tail)] = Header(pipe_tail)
  <2>1. Last \in Stage /\ pipe_tail \in pipe_tail .. Passed(Last) - 1 /\ pipe_tail \in Nat
    BY <1>1, StageFacts, PassedLast DEF PipeInv, TypeOK
  <2>2. ~OnStream(Last, pipe_tail)
    <3>1. SUFFICES ASSUME NEW i \in 1 .. Len(stream[Last]), stream[Last][i].c = pipe_tail
                   PROVE  FALSE
      BY DEF OnStream
    <3>2. pipe_tail + 1 <= stream[Last][i].c
      BY <1>1, <2>1 DEF CardInv, Awaited
    <3>3. QED
      BY <2>1, <3>1, <3>2
  <2>3. QED
    BY <2>1, <2>2 DEF CardInv
<1>5. sent \in Seq(Sent)
  BY DEF TypeOK
<1>6. /\ Len(sent) \in Nat /\ Len(sent') = Len(sent) + 1 /\ sent'[Len(sent) + 1] = e
      /\ \A i \in 1 .. Len(sent) : sent'[i] = sent[i]
  BY <1>3, <1>5
<1>7. Len(sent) > 0 /\ sent[Len(sent)].kind = "hdr" /\ sent[Len(sent)].r = e.r
  BY <1>1, <1>3, <1>4 DEF CardInv
<1>8. RowsMatchHeader'
  <2>1. SUFFICES ASSUME NEW i \in 1 .. Len(sent'), sent'[i].kind = "pay"
                 PROVE  i > 1 /\ sent'[i - 1].kind = "hdr" /\ sent'[i - 1].r = sent'[i].r
    BY DEF RowsMatchHeader
  <2>2. CASE i = Len(sent) + 1
    <3>1. sent'[i - 1] = sent[Len(sent)] /\ i > 1
      BY <1>6, <1>7, <2>2
    <3>2. QED
      BY <1>6, <1>7, <2>2, <3>1
  <2>3. CASE i \in 1 .. Len(sent)
    <3>1. sent'[i] = sent[i]
      BY <1>6, <2>3
    <3>2. i > 1 /\ sent[i - 1].kind = "hdr" /\ sent[i - 1].r = sent[i].r
      BY <2>1, <2>3, <3>1 DEF CardInv, RowsMatchHeader
    <3>3. sent'[i - 1] = sent[i - 1]
      BY <1>6, <2>3, <3>2
    <3>4. QED
      BY <3>1, <3>2, <3>3
  <2>4. QED
    BY <1>6, <2>2, <2>3
<1>9. QED
  BY <1>1, <1>2, <1>8 DEF CardInv

LEMMA CardInvAdvance ==
  ASSUME TypeOK, PipeInv, CardInv, ReplyAdvance
  PROVE  CardInv'
<1>1. /\ UNCHANGED <<stream, hop, slot, sent, pipe_head, sq_head>>
      /\ pipe_tail' = pipe_tail + 1 /\ rp = "adv" /\ rp' = "idle"
  BY DEF ReplyAdvance, cardVars, stageVars
<1>2. /\ \A h : Passed(h)' = Passed(h) /\ Awaited(h)' = Awaited(h)
      /\ \A h, c : OnStream(h, c)' = OnStream(h, c)
      /\ \A c : Header(c)' = Header(c)
  BY <1>1 DEF Passed, Awaited, OnStream, Header
<1>3. \A g \in Stage : \A c \in pipe_tail' .. Passed(g) - 1 : c \in pipe_tail .. Passed(g) - 1
  BY <1>1, PassedIsNat DEF TypeOK
<1>4. QED
  BY <1>1, <1>2, <1>3 DEF CardInv, RowsMatchHeader

LEMMA CardInvNext ==
  FailStages = {} /\ TypeOK /\ PipeInv /\ HeaderInv /\ CardInv /\ [Next]_vars => CardInv'
<1>1. SUFFICES ASSUME FailStages = {}, TypeOK, PipeInv, HeaderInv, CardInv, [Next]_vars
               PROVE  CardInv'
  OBVIOUS
<1> USE <1>1
<1>2. ASSUME NEW g \in Stage, CardStep(g) PROVE CardInv'
  BY <1>2, CardInvStep
<1>3. CASE FillSlot
  BY <1>3, CardInvFill
<1>4. CASE SubmitChunk
  BY <1>4, CardInvSubmit
<1>5. ~SubmitFails
  BY DEF SubmitFails, CallsMade
<1>6. CASE \/ Accept \/ RecvChunk \/ RecvOp \/ RecvFails \/ CheckReply \/ RefuseAfterStageFail
           \/ PipeDrain \/ RunOp \/ Close \/ PeerGone \/ UNCHANGED vars
  <2>1. UNCHANGED <<stream, hop, slot, sent, pipe_tail, pipe_head, sq_head, rp>>
    BY <1>6 DEF Accept, RecvChunk, RecvOp, RecvFails, CheckReply, RefuseAfterStageFail, PipeDrain,
                RunOp, Close, PeerGone, vars, cardVars, pipeVars, stageVars, replyVars
  <2>2. QED
    BY <2>1, CardInvQuiet
<1>7. ASSUME NEW g \in Host, StagePop(g) PROVE CardInv'
  BY <1>7, CardInvQuiet DEF StagePop, cardVars, pipeVars, replyVars
<1>8. ASSUME NEW g \in Host, StageRun(g) PROVE CardInv'
  BY <1>8, CardInvRun
<1>9. CASE ReplyTake
  BY <1>9, CardInvQuiet DEF ReplyTake, cardVars, pipeVars, stageVars
<1>10. CASE ReplySync
  BY <1>10, CardInvSync
<1>11. CASE ReplySkip
  BY <1>11, CardInvQuiet DEF ReplySkip, cardVars, pipeVars, stageVars
<1>12. CASE ReplyHeader
  BY <1>12, CardInvHeader
<1>13. CASE ReplyPayload
  BY <1>13, CardInvPayload
<1>14. CASE ReplyWriteFails
  BY <1>14, CardInvQuiet DEF ReplyWriteFails, cardVars, pipeVars, stageVars
<1>15. CASE ReplyAdvance
  BY <1>15, CardInvAdvance
<1>16. QED
  BY <1>2, <1>3, <1>4, <1>5, <1>6, <1>7, <1>8, <1>9, <1>10, <1>11, <1>12, <1>13, <1>14, <1>15
     DEF Next, Cards, Conn, Worker, Reply

LEMMA CardsFollow == ASSUME FailStages = {} PROVE Spec => []CardInv
<1>1. Init => CardInv
  BY CardInvInit
<1>2. TypeOK /\ PipeInv /\ HeaderInv /\ CardInv /\ [Next]_vars => CardInv'
  BY CardInvNext
<1>3. QED
  BY <1>1, <1>2, TypeCorrect, Pipeline, Headers, PTL DEF Spec

\* As long as no call fails, the rows sent after a header are those of the
\* header's own request, computed by every card after the card before.
THEOREM RowsCorrect == ASSUME FailStages = {} PROVE Spec => []RowsMatchHeader
<1>1. CardInv => RowsMatchHeader
  BY DEF CardInv
<1>2. QED
  BY <1>1, CardsFollow, PTL

\* As long as no call fails, an operation that follows pipe_drain finds every
\* card, host thread and the reply thread idle.
THEOREM DrainIsComplete == ASSUME FailStages = {} PROVE Spec => []OpHasCards
<1>1. TypeOK /\ PipeInv /\ CardInv => OpHasCards
  <2>1. SUFFICES ASSUME TypeOK, PipeInv, CardInv, kp = "op"
                 PROVE  /\ \A g \in Stage : stream[g] = <<>>
                        /\ \A g \in Host : sq_tail[g] = sq_head[g] /\ wk[g] = None
                        /\ rp = "idle"
    BY DEF OpHasCards
  <2>2. pipe_tail = pipe_sub /\ pipe_tail \in Nat /\ pipe_head \in Nat
    BY <2>1 DEF PipeInv, TypeOK
  <2>3. \A g \in Stage : Passed(g) = pipe_tail /\ pipe_head = pipe_tail
    BY <2>1, <2>2, PassedBounds, PassedIsNat
  <2>4. ASSUME NEW g \in Stage PROVE stream[g] = <<>>
    <3>1. SUFFICES ASSUME stream[g] # <<>> PROVE FALSE
      OBVIOUS
    <3>2. stream[g] \in Seq(Item) /\ 1 \in 1 .. Len(stream[g]) /\ stream[g][1] \in Item
      BY <2>1, <3>1 DEF TypeOK
    <3>3. Awaited(g) <= stream[g][1].c /\ stream[g][1].c < Passed(g) /\ stream[g][1].c \in Nat
      BY <2>1, <3>2 DEF CardInv, Item
    <3>4. pipe_tail <= Awaited(g) /\ Awaited(g) \in Nat
      BY <2>1, AwaitedBounds
    <3>5. QED
      BY <2>2, <2>3, <3>3, <3>4
  <2>5. ASSUME NEW g \in Host PROVE sq_tail[g] = sq_head[g] /\ wk[g] = None
    <3>1. g \in Stage /\ g - 1 \in Stage /\ sq_head[g] = Passed(g - 1)
      BY StageFacts, QueueHead
    <3>2. Passed(g) = pipe_tail /\ Passed(g - 1) = pipe_tail /\ sq_tail[g] <= Passed(g - 1)
      BY <2>1, <2>3, <3>1 DEF PipeInv
    <3>3. wk[g] = None
      BY <2>1, <2>2, <3>2 DEF PipeInv
    <3>4. QED
      BY <2>1, <3>1, <3>2, <3>3 DEF PipeInv
  <2>6. rp = "idle"
    BY <2>1, <2>2, <2>3, StageFacts DEF PipeInv
  <2>7. QED
    BY <2>4, <2>5, <2>6
<1>2. QED
  BY <1>1, TypeCorrect, Pipeline, CardsFollow, PTL

-----------------------------------------------------------------------------
(* Rows and failed calls.                                                  *)

Items(g) == {stream[g][i] : i \in 1 .. Len(stream[g])}

\* What failed calls leave on the streams.  A chunk whose event was recorded is
\* there only until somebody waited for it; one whose event was not may stay
\* after it was retired, but then no card is given a chunk that was not in the
\* pipe with it, so nothing on the streams is a whole ring ahead of it.
LeftInv ==
  /\ \A g \in Stage : \A x \in Items(g) : x.n = Calls => Awaited(g) <= x.c
  /\ ~stage_fail => \A g \in Host : \A x \in Items(g) : x.n = Calls
  /\ \A g \in Host : \A x \in Items(g) : x.c < Passed(g)
  /\ \A y \in Items(0) : y.c < pipe_tail + PIPE_SLOTS
  /\ \A g \in Host : \A x \in Items(g) :
       pipe_sub <= x.c + PIPE_SLOTS /\ \A y \in Items(0) : y.c < x.c + PIPE_SLOTS

LEMMA ItemsType == TypeOK => \A g \in Stage : \A x \in Items(g) : x \in Item /\ x.c \in Nat
<1>1. SUFFICES ASSUME TypeOK, NEW g \in Stage, NEW i \in 1 .. Len(stream[g])
               PROVE  stream[g][i] \in Item /\ stream[g][i].c \in Nat
  BY DEF Items
<1>2. stream[g] \in Seq(Item)
  BY <1>1 DEF TypeOK
<1>3. stream[g][i] \in Item
  BY <1>2
<1>4. QED
  BY <1>3 DEF Item

LEMMA ItemsEnqueue ==
  ASSUME TypeOK, NEW g \in Stage, NEW c \in Nat, NEW r \in Nat, NEW n \in 0 .. Calls,
         Enqueue(g, c, r, n)
  PROVE  /\ \A h \in Stage : h # g => Items(h)' = Items(h)
         /\ Items(g)' \subseteq Items(g) \cup {[c |-> c, r |-> r, n |-> n]}
<1>1. CASE n = 0
  BY <1>1 DEF Enqueue, Items
<1>2. CASE n # 0
  <2>1. /\ stream[g] \in Seq(Item)
        /\ stream'[g] = Append(stream[g], [c |-> c, r |-> r, n |-> n])
        /\ \A h \in Stage : h # g => stream'[h] = stream[h]
    BY <1>2 DEF TypeOK, Enqueue
  <2>2. /\ Len(stream'[g]) = Len(stream[g]) + 1 /\ Len(stream[g]) \in Nat
        /\ stream'[g][Len(stream[g]) + 1] = [c |-> c, r |-> r, n |-> n]
        /\ \A i \in 1 .. Len(stream[g]) : stream'[g][i] = stream[g][i]
    BY <2>1
  <2>3. QED
    BY <2>1, <2>2 DEF Items
<1>3. QED
  BY <1>1, <1>2

LEMMA ItemsStep ==
  ASSUME TypeOK, NEW g \in Stage, CardStep(g)
  PROVE  \A h \in Stage : Items(h)' \subseteq Items(h)
<1>1. /\ stream[g] \in Seq(Item) /\ stream[g] # <<>>
      /\ stream'[g] = Tail(stream[g])
      /\ \A h \in Stage : h # g => stream'[h] = stream[h]
  BY DEF TypeOK, CardStep
<1>2. /\ Len(stream'[g]) = Len(stream[g]) - 1 /\ Len(stream[g]) \in Nat
      /\ \A i \in 1 .. Len(stream'[g]) :
           i + 1 \in 1 .. Len(stream[g]) /\ stream'[g][i] = stream[g][i + 1]
  BY <1>1
<1>3. ASSUME NEW i \in 1 .. Len(stream'[g]) PROVE stream'[g][i] \in Items(g)
  BY <1>2, <1>3 DEF Items
<1>4. Items(g)' \subseteq Items(g)
  BY <1>3 DEF Items
<1>5. ASSUME NEW h \in Stage, h # g PROVE Items(h)' \subseteq Items(h)
  BY <1>1, <1>5 DEF Items
<1>6. QED
  BY <1>4, <1>5

\* No event pending in a slot: no chunk of that slot is on the stream with its event.
LEMMA NoEvent ==
  ASSUME NEW g, NEW c, ~EventPending(g, SlotOf(c)), NEW x \in Items(g), x.n = Calls
  PROVE  x.c # c
BY DEF EventPending, Items

\* A step that gives no card a chunk and waits for none.
LEMMA LeftStays ==
  ASSUME TypeOK, PipeInv, LeftInv, \A g \in Stage : Items(g)' \subseteq Items(g),
         UNCHANGED <<pipe_sub, pipe_head, pipe_tail, sq_head, stage_fail>>,
         rp' \in {"hdr", "pay", "adv"} <=> rp \in {"hdr", "pay", "adv"}
  PROVE  LeftInv'
<1>1. \A g : Passed(g)' = Passed(g) /\ Awaited(g)' = Awaited(g)
  BY DEF Passed, Awaited
<1>2. Host \subseteq Stage /\ 0 \in Stage
  BY StageFacts
<1>3. QED
  BY <1>1, <1>2 DEF LeftInv

\* Card 0 is given a chunk, all of it or some calls of one that is not submitted: no card
\* has failed, so every chunk on the later cards is still awaited.
LEMMA LeftFirst ==
  ASSUME TypeOK, PipeInv, LeftInv, kp = "enq", ~stage_fail,
         NEW n \in 0 .. Calls, Enqueue(0, pipe_sub, nreq, n),
         UNCHANGED <<pipe_head, pipe_tail, stage_fail, rp>>,
         \/ pipe_sub' = pipe_sub + 1 /\ \A h \in Stage : Passed(h)' = IF h = 0 THEN Passed(h) + 1 ELSE Passed(h)
         \/ pipe_sub' = pipe_sub /\ n # Calls /\ \A h \in Stage : Passed(h)' = Passed(h)
  PROVE  LeftInv'
<1>1. /\ 0 \in Stage /\ Host \subseteq Stage /\ 0 \notin Host
      /\ pipe_sub \in Nat /\ pipe_tail \in Nat /\ nreq \in Nat
      /\ pipe_sub < pipe_tail + PIPE_SLOTS /\ PIPE_SLOTS \in Nat
  BY StageFacts, ConstantFacts DEF TypeOK, PipeInv, Host
<1>2. /\ \A h \in Host : Items(h)' = Items(h)
      /\ Items(0)' \subseteq Items(0) \cup {[c |-> pipe_sub, r |-> nreq, n |-> n]}
  BY <1>1, ItemsEnqueue
<1>3. \A h \in Stage : Awaited(h)' = Awaited(h)
  <2>1. TAKE h \in Stage
  <2>2. h # Last => h + 1 \in Stage /\ h + 1 # 0
    BY StageFacts, ConstantFacts DEF Stage, Last
  <2>3. QED
    BY <2>2 DEF Awaited
<1>4. \A h \in Stage : Awaited(h) \in Nat /\ pipe_tail <= Awaited(h) /\ Awaited(h) <= Passed(h)
                       /\ Passed(h) \in Nat
  BY AwaitedBounds, PassedIsNat
<1>5. \A h \in Host : \A x \in Items(h) : x.c \in Nat /\ pipe_tail <= x.c
  BY <1>1, <1>4, ItemsType DEF LeftInv
<1>6. \A h \in Stage : \A x \in Items(h)' : x.n = Calls => Awaited(h)' <= x.c
  <2>1. TAKE h \in Stage
  <2>2. TAKE x \in Items(h)'
  <2>3. CASE x \in Items(h)
    BY <1>3, <2>3 DEF LeftInv
  <2>4. CASE x \notin Items(h)
    <3>1. h = 0 /\ x.c = pipe_sub
      BY <1>2, <2>4 DEF Host, Stage
    <3>2. Awaited(0) <= pipe_sub
      BY <1>1, <1>4 DEF PipeInv
    <3>3. QED
      BY <1>1, <1>3, <3>1, <3>2
  <2>5. QED
    BY <2>3, <2>4
<1>7. \A h \in Host : \A x \in Items(h)' : x.n = Calls /\ x.c < Passed(h)'
  BY <1>1, <1>2 DEF LeftInv
<1>8. \A y \in Items(0)' : y.c < pipe_tail + PIPE_SLOTS
  BY <1>1, <1>2 DEF LeftInv
<1>9. \A h \in Host : \A x \in Items(h)' :
        pipe_sub' <= x.c + PIPE_SLOTS /\ \A y \in Items(0)' : y.c < x.c + PIPE_SLOTS
  <2>1. \A y \in Items(0)' : y.c \in Nat
    BY <1>1, <1>2, ItemsType
  <2>2. QED
    BY <1>1, <1>2, <1>5, <1>8, <2>1
<1>10. QED
  BY <1>6, <1>7, <1>8, <1>9 DEF LeftInv

\* A later card is given a chunk of the pipe, all calls or some, and the event behind the
\* card before it has been waited for.
LEMMA LeftRun ==
  ASSUME TypeOK, PipeInv, LeftInv, NEW g \in Host, StageRun(g)
  PROVE  LeftInv'
<1>1. /\ g \in Stage /\ g - 1 \in Stage /\ 0 \in Stage /\ g # 0 /\ Host \subseteq Stage
      /\ wk[g] = Passed(g) /\ Passed(g) \in Nat /\ 0 \notin Host
  BY StageFacts, PassedIsNat DEF PipeInv, StageRun, Host
<1>2. \A h \in Stage : Passed(h)' = IF h = g THEN Passed(h) + 1 ELSE Passed(h)
  <2>1. g # Last => StagePush(g + 1, Passed(g)) /\ pipe_head' = pipe_head
    BY <1>1, StageFacts DEF StageRun, PassOn
  <2>2. g = Last => UNCHANGED <<sq, sq_head>> /\ pipe_head' = pipe_head + 1
    BY <1>1, StageFacts, PassedLast DEF StageRun, PassOn
  <2>3. QED
    BY <1>1, <2>1, <2>2, PassedMoves, StageFacts DEF StagePush, Passed
<1>3. PICK n \in 0 .. Calls : /\ Enqueue(g, Passed(g), slot[SlotOf(Passed(g))], n)
                              /\ stage_fail' = (stage_fail \/ n < Calls)
  BY <1>1, CallsMadeBound DEF StageRun
<1>4. slot[SlotOf(Passed(g))] \in Nat
  BY <1>1, SlotInRange DEF TypeOK
<1>5. /\ \A h \in Stage : h # g => Items(h)' = Items(h)
      /\ Items(g)' \subseteq Items(g) \cup {[c |-> Passed(g), r |-> slot[SlotOf(Passed(g))], n |-> n]}
  BY <1>1, <1>3, <1>4, ItemsEnqueue
<1>6. UNCHANGED <<pipe_sub, pipe_tail, rp>>
  BY DEF StageRun, replyVars
<1>7. \A h \in Stage : Awaited(h)' = IF h + 1 = g THEN Awaited(h) + 1 ELSE Awaited(h)
  <2>1. TAKE h \in Stage
  <2>2. CASE h = Last
    <3>1. h + 1 # g
      BY <2>2, StageFacts, ConstantFacts DEF Last, Stage, Host
    <3>2. QED
      BY <1>6, <2>2, <3>1 DEF Awaited
  <2>3. CASE h # Last
    <3>1. h + 1 \in Stage
      BY <2>3, StageFacts
    <3>2. QED
      BY <1>2, <2>3, <3>1 DEF Awaited
  <2>4. QED
    BY <2>2, <2>3
<1>8. \A h \in Stage : /\ Awaited(h) \in Nat /\ pipe_tail <= Awaited(h)
                       /\ Awaited(h) <= Passed(h) /\ Passed(h) \in Nat
  BY AwaitedBounds, PassedIsNat
<1>9. ASSUME NEW h \in Stage, NEW x \in Items(h)', x.n = Calls PROVE Awaited(h)' <= x.c
  <2>1. CASE h = g
    <3>1. h + 1 # g
      BY <2>1, StageFacts
    <3>2. x \in Items(g) \/ x.c = Passed(g)
      BY <1>5, <1>9, <2>1
    <3>3. QED
      BY <1>7, <1>8, <1>9, <2>1, <3>1, <3>2 DEF LeftInv
  <2>2. CASE h # g
    <3>1. x \in Items(h) /\ x.c \in Nat /\ Awaited(h) <= x.c
      BY <1>5, <1>9, <2>2, ItemsType DEF LeftInv
    <3>2. CASE h + 1 = g
      <4>1. h = g - 1 /\ h # Last
        BY <3>2, StageFacts, ConstantFacts DEF Stage, Host, Last
      <4>2. x.c # Passed(g)
        BY <1>1, <1>9, <3>1, <4>1, NoEvent DEF StageRun
      <4>3. Awaited(h) = Passed(g)
        BY <3>2, <4>1 DEF Awaited
      <4>4. QED
        BY <1>1, <1>7, <1>8, <3>1, <3>2, <4>2, <4>3
    <3>3. CASE h + 1 # g
      BY <1>7, <3>1, <3>3
    <3>4. QED
      BY <3>2, <3>3
  <2>3. QED
    BY <2>1, <2>2
<1>10. ~stage_fail' => \A h \in Host : \A x \in Items(h)' : x.n = Calls
  <2>1. HAVE ~stage_fail'
  <2>2. ~stage_fail /\ ~(n < Calls)
    BY <1>3, <2>1, Zenon
  <2>3. n = Calls
    BY <2>2 DEF Calls
  <2>4. QED
    BY <1>1, <1>5, <2>2, <2>3 DEF LeftInv
<1>11. \A h \in Host : \A x \in Items(h)' : x.c < Passed(h)'
  <2>1. TAKE h \in Host
  <2>2. TAKE x \in Items(h)'
  <2>3. CASE h = g
    <3>1. x \in Items(g) \/ x.c = Passed(g)
      BY <1>5, <2>3
    <3>2. x \in Items(g) => x.c \in Nat /\ x.c < Passed(g)
      BY <1>1, ItemsType DEF LeftInv
    <3>3. QED
      BY <1>1, <1>2, <2>3, <3>1, <3>2
  <2>4. CASE h # g
    BY <1>1, <1>2, <1>5, <2>4 DEF LeftInv
  <2>5. QED
    BY <2>3, <2>4
<1>12. \A y \in Items(0)' : y \in Items(0) /\ y.c \in Nat /\ y.c < pipe_tail + PIPE_SLOTS
  BY <1>1, <1>5, ItemsType DEF LeftInv
<1>13. \A h \in Host : \A x \in Items(h)' :
         pipe_sub <= x.c + PIPE_SLOTS /\ \A y \in Items(0)' : y.c < x.c + PIPE_SLOTS
  <2>1. TAKE h \in Host
  <2>2. TAKE x \in Items(h)'
  <2>3. CASE x \in Items(h)
    BY <1>12, <2>3 DEF LeftInv
  <2>4. CASE x \notin Items(h)
    <3>1. x.c = Passed(g)
      BY <1>1, <1>5, <2>4
    <3>2. pipe_tail <= x.c /\ x.c \in Nat /\ pipe_tail \in Nat /\ pipe_sub \in Nat
      BY <1>1, <1>8, <3>1 DEF TypeOK
    <3>3. pipe_sub - pipe_tail <= PIPE_SLOTS /\ PIPE_SLOTS \in Nat
      BY ConstantFacts DEF PipeInv
    <3>4. QED
      BY <1>12, <3>2, <3>3
  <2>5. QED
    BY <2>3, <2>4
<1>14. QED
  BY <1>6, <1>9, <1>10, <1>11, <1>12, <1>13 DEF LeftInv

LEMMA LeftSubmit ==
  ASSUME TypeOK, PipeInv, LeftInv, SubmitChunk
  PROVE  LeftInv'
<1>1. 0 \in Stage /\ 0 # Last /\ pipe_sub = Passed(0)
  BY ConstantFacts DEF Stage, Last, PipeInv
<1>2. \A h \in Stage : Passed(h)' = IF h = 0 THEN Passed(h) + 1 ELSE Passed(h)
  <2>1. StagePush(0 + 1, Passed(0))
    BY <1>1 DEF SubmitChunk
  <2>2. QED
    BY <1>1, <2>1, PassedMoves DEF SubmitChunk, StagePush
<1>3. Calls \in 0 .. Calls
  BY DEF Calls
<1>4. QED
  BY <1>2, <1>3, LeftFirst DEF SubmitChunk, replyVars, flagVars

LEMMA LeftSubmitFails ==
  ASSUME TypeOK, PipeInv, LeftInv, SubmitFails
  PROVE  LeftInv'
<1>1. PICK n \in CallsMade(0) \ {Calls} : Enqueue(0, pipe_sub, nreq, n)
  BY DEF SubmitFails
<1>2. n \in 0 .. Calls /\ n # Calls
  BY StageFacts, CallsMadeBound
<1>3. UNCHANGED <<pipe_sub, pipe_head, pipe_tail, sq_head, stage_fail, rp>>
  BY DEF SubmitFails, pipeVars, stageVars, replyVars, flagVars
<1>4. \A h \in Stage : Passed(h)' = Passed(h)
  BY <1>3 DEF Passed
<1>5. QED
  BY <1>1, <1>2, <1>3, <1>4, LeftFirst DEF SubmitFails

\* The reply thread has waited for the last card's event: no chunk of that event is left.
LEMMA LeftSync ==
  ASSUME TypeOK, PipeInv, LeftInv, ReplySync
  PROVE  LeftInv'
<1>1. /\ UNCHANGED <<stream, pipe_sub, pipe_head, pipe_tail, sq_head, stage_fail>>
      /\ rp = "sync" /\ rp' = "hdr" /\ ~EventPending(Last, SlotOf(pipe_tail))
  BY DEF ReplySync, pipeVars, cardVars, stageVars
<1>2. \A g : Items(g)' = Items(g) /\ Passed(g)' = Passed(g)
  BY <1>1 DEF Items, Passed
<1>3. /\ \A g : g # Last => Awaited(g)' = Awaited(g)
      /\ Awaited(Last) = pipe_tail /\ Awaited(Last)' = pipe_tail + 1
  BY <1>1 DEF Awaited, Passed
<1>4. ASSUME NEW g \in Stage, NEW x \in Items(g), x.n = Calls PROVE Awaited(g)' <= x.c
  <2>1. Awaited(g) <= x.c /\ x.c \in Nat /\ pipe_tail \in Nat
    BY <1>4, ItemsType DEF LeftInv, TypeOK
  <2>2. CASE g = Last
    <3>1. x.c # pipe_tail
      BY <1>1, <1>4, <2>2, NoEvent
    <3>2. QED
      BY <1>3, <2>1, <2>2, <3>1
  <2>3. CASE g # Last
    BY <1>3, <2>1, <2>3
  <2>4. QED
    BY <2>2, <2>3
<1>5. QED
  BY <1>1, <1>2, <1>4, StageFacts DEF LeftInv

LEMMA LeftAdvance ==
  ASSUME TypeOK, PipeInv, LeftInv, ReplyAdvance
  PROVE  LeftInv'
<1>1. /\ UNCHANGED <<stream, pipe_sub, pipe_head, sq_head, stage_fail>>
      /\ rp = "adv" /\ rp' = "idle" /\ pipe_tail' = pipe_tail + 1
  BY DEF ReplyAdvance, cardVars, stageVars, flagVars
<1>2. \A g : Items(g)' = Items(g) /\ Passed(g)' = Passed(g) /\ Awaited(g)' = Awaited(g)
  BY <1>1 DEF Items, Passed, Awaited
<1>3. ASSUME NEW y \in Items(0) PROVE y.c < pipe_tail' + PIPE_SLOTS
  <2>1. y.c \in Nat /\ y.c < pipe_tail + PIPE_SLOTS
    BY ItemsType, StageFacts DEF LeftInv
  <2>2. QED
    BY <1>1, <2>1, ConstantFacts DEF TypeOK
<1>4. QED
  BY <1>1, <1>2, <1>3 DEF LeftInv

LEMMA LeftNext == TypeOK /\ PipeInv /\ LeftInv /\ [Next]_vars => LeftInv'
<1>1. SUFFICES ASSUME TypeOK, PipeInv, LeftInv, [Next]_vars PROVE LeftInv'
  OBVIOUS
<1> USE <1>1
<1>2. ASSUME NEW g \in Stage, CardStep(g) PROVE LeftInv'
  BY <1>2, ItemsStep, LeftStays DEF CardStep, pipeVars, flagVars, stageVars, replyVars
<1>3. ASSUME UNCHANGED <<stream, pipe_sub, pipe_head, pipe_tail, sq_head, stage_fail>>,
             rp' \in {"hdr", "pay", "adv"} <=> rp \in {"hdr", "pay", "adv"}
      PROVE  LeftInv'
  <2>1. \A g \in Stage : Items(g)' \subseteq Items(g)
    BY <1>3 DEF Items
  <2>2. QED
    BY <1>3, <2>1, LeftStays
<1>4. CASE SubmitChunk
  BY <1>4, LeftSubmit
<1>5. CASE SubmitFails
  BY <1>5, LeftSubmitFails
<1>6. CASE \/ Accept \/ RecvChunk \/ RecvOp \/ RecvFails \/ CheckReply \/ RefuseAfterStageFail
           \/ PipeDrain \/ RunOp \/ Close \/ PeerGone \/ FillSlot \/ UNCHANGED vars
  <2>1. UNCHANGED <<stream, pipe_sub, pipe_head, pipe_tail, sq_head, stage_fail, rp>>
    BY <1>6 DEF Accept, RecvChunk, RecvOp, RecvFails, CheckReply, RefuseAfterStageFail, PipeDrain,
                RunOp, Close, PeerGone, FillSlot, vars, cardVars, pipeVars, stageVars, replyVars,
                flagVars
  <2>2. QED
    BY <1>3, <2>1
<1>7. ASSUME NEW g \in Host, StagePop(g) PROVE LeftInv'
  BY <1>3, <1>7 DEF StagePop, cardVars, pipeVars, replyVars, flagVars
<1>8. ASSUME NEW g \in Host, StageRun(g) PROVE LeftInv'
  BY <1>8, LeftRun
<1>9. CASE ReplyTake
  BY <1>3, <1>9 DEF ReplyTake, cardVars, pipeVars, stageVars, flagVars
<1>10. CASE ReplySync
  BY <1>10, LeftSync
<1>11. CASE ReplySkip \/ ReplyHeader \/ ReplyPayload \/ ReplyWriteFails
  BY <1>3, <1>11 DEF ReplySkip, ReplyHeader, ReplyPayload, ReplyWriteFails, cardVars, pipeVars,
                     stageVars, flagVars
<1>12. CASE ReplyAdvance
  BY <1>12, LeftAdvance
<1>13. QED
  BY <1>2, <1>4, <1>5, <1>6, <1>7, <1>8, <1>9, <1>10, <1>11, <1>12
     DEF Next, Cards, Conn, Worker, Reply

LEMMA LeftOnStreams == Spec => []LeftInv
<1>1. Init => LeftInv
  BY StageFacts DEF Init, LeftInv, Items
<1>2. TypeOK /\ PipeInv /\ LeftInv /\ [Next]_vars => LeftInv'
  BY LeftNext
<1>3. QED
  BY <1>1, <1>2, TypeCorrect, Pipeline, PTL DEF Spec

\* A card never still has to read rows that the card before is going to
\* overwrite with a later chunk's, whichever HIP calls fail.
THEOREM RowsKept == Spec => []RowsNotOverwritten
<1>1. TypeOK /\ PipeInv /\ LeftInv => RowsNotOverwritten
  <2>1. SUFFICES ASSUME TypeOK, PipeInv, LeftInv,
                        NEW g \in Host, NEW i \in 1 .. Len(stream[g]),
                        NEW j \in 1 .. Len(stream[g - 1]),
                        SlotOf(stream[g][i].c) = SlotOf(stream[g - 1][j].c)
                 PROVE  stream[g - 1][j].c <= stream[g][i].c
    BY DEF RowsNotOverwritten
  <2> DEFINE x == stream[g][i]
             y == stream[g - 1][j]
  <2>2. /\ x \in Items(g) /\ y \in Items(g - 1)
        /\ g \in Stage /\ g - 1 \in Stage /\ (g - 1 = 0 \/ g - 1 \in Host)
    BY StageFacts DEF Items, Stage, Host
  <2>3. PICK c \in Nat, d \in Nat : c = x.c /\ d = y.c
    BY <2>1, <2>2, ItemsType
  <2> HIDE DEF x, y
  <2>4. d < c + PIPE_SLOTS
    <3>1. CASE g - 1 = 0
      BY <2>1, <2>2, <2>3, <3>1 DEF LeftInv
    <3>2. CASE g - 1 \in Host
      <4>1. d < Passed(g - 1) /\ pipe_sub <= c + PIPE_SLOTS
        BY <2>1, <2>2, <2>3, <3>2 DEF LeftInv
      <4>2. Passed(g - 1) <= pipe_sub /\ Passed(g - 1) \in Nat /\ pipe_sub \in Nat
        BY <2>1, <2>2, PassedBounds, PassedIsNat DEF TypeOK
      <4>3. QED
        BY <4>1, <4>2, ConstantFacts
    <3>3. QED
      BY <2>2, <3>1, <3>2
  <2>5. SlotOf(c) = SlotOf(d)
    BY <2>1, <2>3 DEF x, y
  <2>6. ~(c < d)
    <3>1. c < d => d - c < PIPE_SLOTS
      BY <2>4, ConstantFacts
    <3>2. QED
      BY <2>5, <3>1, SlotsDiffer
  <2>7. QED
    BY <2>3, <2>6 DEF x, y
<1>2. QED
  BY <1>1, TypeCorrect, Pipeline, LeftOnStreams, PTL

=============================================================================
