------------------------- MODULE HipPipeline_proofs -------------------------
(***************************************************************************)
(* Proofs about HipPipeline, for any number of cards, HTTP workers and     *)
(* requests, and whichever cards fail.                                     *)
(*                                                                         *)
(* The invariant has three layers.  Types, Control and Copying say who may *)
(* be where.  Flow says which tokens are where: the engine rests, or only  *)
(* a sentinel is under way, or it is lost with the cards, or the tokens of *)
(* one request are under way in order; IdleWhenFree follows.  Contents     *)
(* adds what the tokens carry and what the states of the cards were made   *)
(* from; it needs that a card runs at most two tokens ahead of the next    *)
(* when the residuals travel in the two buffers (Paced), and gives         *)
(* HandoffRaceFree and the refinement of SerialEngine.                     *)
(***************************************************************************)
EXTENDS HipPipeline, SequenceTheorems, TLAPS

\* The values the variables take.
Phase == {"reset", "sentinel", "ack", "show", "submit", "wait", "got", "free", "freed"}
Residual == Nat \X Int
Entry == [req : Nat, pos : Nat \cup {Reset}, want : BOOLEAN, load : Residual]
Copy == [slot : {0, 1}, val : Residual, wait : BOOLEAN] \cup {NoCopy}

\* Types: the values of the variables, the first layer of the invariant.
Types ==
  /\ handoff \in DOMAIN LongestPrompt
  /\ box \in [Box -> Seq(Entry)] /\ stopped \subseteq Box /\ err \in BOOLEAN
  /\ pc \in [Stage -> {"pop", "recv", "run", "send", "push", "fail", "exited"}]
  /\ cur \in [Stage -> Entry] /\ R \in [Stage -> Residual]
  /\ text \in [Stage -> Seq(Residual)]
  /\ hand \in [Stage -> [{0, 1} -> Residual]]
  /\ emit \in [Stage -> Copy] /\ recv \in [Stage -> Copy] /\ recv[0] = NoCopy
  /\ stopAt \in [Box -> Nat]
  /\ holder \in Worker \cup {Nobody} /\ phase \in Phase
  /\ req \in Nat /\ plen \in Nat \ {0} /\ pos \in Nat /\ logits \in Residual
  /\ wpc \in [Worker -> {"accept", "lock", "engine", "left"}] /\ g_stop \in BOOLEAN

\* The numbers of the cards and of their mailboxes.
LEMMA StageFacts ==
  /\ NGPU \in Nat \ {0} /\ NGPU \in Box /\ Main \in Box /\ 0 \in Stage /\ NGPU - 1 \in Stage
  /\ \A g \in Stage : g \in Int /\ 0 <= g /\ g < NGPU /\ g \in Box /\ g + 1 \in Box
  /\ \A g \in Stage : g # NGPU /\ g # Main
  /\ \A g \in Stage : g # 0 => g - 1 \in Stage
  /\ \A g \in Stage : g < NGPU - 1 => g + 1 \in Stage
  /\ \A b \in Box : b \in Int /\ 0 <= b /\ b <= NGPU /\ (b # NGPU => b \in Stage)
  /\ Nobody \notin Worker
BY HipAssumption DEF HipAssumption, Stage, Box, Main

\* Positions one apart use different buffers, positions two apart the same one.
LEMMA HalfOf == \A n \in Int : n % 2 \in {0, 1} /\ (n + 1) % 2 # n % 2 /\ (n + 2) % 2 = n % 2
BY SMT

\* A mode has a longest prompt, of at least one token.
LEMMA PromptFacts ==
  ASSUME handoff \in DOMAIN LongestPrompt
  PROVE  /\ handoff \in {"pinned", "p2p"}
         /\ LongestPrompt[handoff] \in Nat \ {0}
         /\ 1 .. LongestPrompt[handoff] \subseteq Nat \ {0}
BY HipAssumption DEF HipAssumption, Mode

\* What append, tail and head do to a sequence.
LEMMA SeqFacts ==
  ASSUME NEW S, NEW s \in Seq(S)
  PROVE  /\ Len(s) \in Nat /\ (s = <<>> <=> Len(s) = 0)
         /\ \A i \in 1 .. Len(s) : s[i] \in S
         /\ \A e \in S : /\ Append(s, e) \in Seq(S) /\ Len(Append(s, e)) = Len(s) + 1
                         /\ Append(s, e)[Len(s) + 1] = e
                         /\ \A i \in 1 .. Len(s) : Append(s, e)[i] = s[i]
         /\ s # <<>> => /\ Tail(s) \in Seq(S) /\ Len(Tail(s)) = Len(s) - 1
                        /\ Head(s) = s[1] /\ Head(s) \in S
                        /\ \A i \in 1 .. Len(s) - 1 : Tail(s)[i] = s[i + 1]
<1>1. Len(s) \in Nat /\ (s = <<>> <=> Len(s) = 0)
  BY EmptySeq
<1>2. QED
  BY <1>1

\* Sequences of one element.
LEMMA OneFacts ==
  ASSUME NEW S, NEW s \in Seq(S)
  PROVE  /\ \A e \in S : Append(s, e) # <<>>
         /\ Len(s) = 1 => s # <<>> /\ Head(s) = s[1] /\ Tail(s) = <<>>
         /\ \A e \in S : s = <<>> => Len(Append(s, e)) = 1 /\ Append(s, e)[1] = e
<1>0. Len(<<>>) = 0
  OBVIOUS
<1>1. ASSUME NEW e \in S PROVE Append(s, e) # <<>>
  <2>1. Append(s, e) \in Seq(S) /\ Len(Append(s, e)) = Len(s) + 1 /\ Len(s) \in Nat
    BY SeqFacts
  <2>2. QED
    BY <2>1, SeqFacts, Len(s) + 1 # 0
<1>2. ASSUME Len(s) = 1 PROVE s # <<>> /\ Head(s) = s[1] /\ Tail(s) = <<>>
  <2>1. s # <<>> 
    BY <1>2, SeqFacts, 1 # 0
  <2>2. Tail(s) \in Seq(S) /\ Len(Tail(s)) = 0 /\ Head(s) = s[1]
    BY <1>2, <2>1, SeqFacts
  <2>3. Tail(s) = <<>>
    BY <2>2, SeqFacts
  <2>4. QED
    BY <2>1, <2>2, <2>3
<1>3. ASSUME NEW e \in S, s = <<>> PROVE Len(Append(s, e)) = 1 /\ Append(s, e)[1] = e
  <2>1. Len(s) = 0
    BY <1>3, SeqFacts
  <2>2. QED
    BY <2>1, SeqFacts, 0 + 1 = 1
<1>4. QED
  BY <1>1, <1>2, <1>3

\* The entries the server makes, and the values that stand for none, have their types.
LEMMA TokenType ==
  Types => /\ Token(req, pos, Wanted) \in Entry /\ Token(req, Reset, FALSE) \in Entry
           /\ Idle \in Entry /\ NoCopy \in Copy /\ Junk \in Residual
BY DEF Types, Token, Wanted, Entry, Residual, Idle, NoCopy, Junk, Copy, Reset

\* The fields of an entry, and of one whose residual is replaced.
LEMMA EntryFacts ==
  ASSUME NEW e \in Entry
  PROVE  /\ e.req \in Nat /\ e.pos \in Int /\ e.want \in BOOLEAN /\ e.load \in Residual
         /\ e.pos # Reset => e.pos \in Nat
         /\ <<e.req, e.pos>> \in Residual /\ e.pos % 2 \in {0, 1}
         /\ \A x \in Residual : /\ [e EXCEPT !.load = x] \in Entry
                                /\ [e EXCEPT !.load = x].req = e.req
                                /\ [e EXCEPT !.load = x].pos = e.pos
                                /\ [e EXCEPT !.load = x].want = e.want
                                /\ [e EXCEPT !.load = x].load = x
<1>1. /\ e.req \in Nat /\ e.pos \in Int /\ e.want \in BOOLEAN /\ e.load \in Residual
      /\ e.pos # Reset => e.pos \in Nat
  BY DEF Entry, Reset
<1>2. <<e.req, e.pos>> \in Residual
  BY <1>1 DEF Residual
<1>3. e.pos % 2 \in {0, 1}
  BY <1>1, HalfOf
<1>4. ASSUME NEW x \in Residual
      PROVE  /\ [e EXCEPT !.load = x] \in Entry
             /\ [e EXCEPT !.load = x].req = e.req /\ [e EXCEPT !.load = x].pos = e.pos
             /\ [e EXCEPT !.load = x].want = e.want /\ [e EXCEPT !.load = x].load = x
  BY DEF Entry
<1>5. QED
  BY <1>1, <1>2, <1>3, <1>4

\* The types of the cells of the arrays.
LEMMA PartTypes ==
  ASSUME Types
  PROVE  /\ \A b \in Box : box[b] \in Seq(Entry)
         /\ \A g \in Stage : /\ box[g] \in Seq(Entry) /\ text[g] \in Seq(Residual)
                             /\ cur[g] \in Entry /\ R[g] \in Residual
                             /\ emit[g] \in Copy /\ recv[g] \in Copy
         /\ \A g \in Stage : emit[g] # NoCopy => /\ emit[g].slot \in {0, 1}
                                                 /\ emit[g].val \in Residual
         /\ \A g \in Stage : recv[g] # NoCopy => /\ recv[g].slot \in {0, 1} /\ g # 0
         /\ NoCopy.slot = 2
<1>1. /\ \A b \in Box : box[b] \in Seq(Entry)
      /\ \A g \in Stage : /\ box[g] \in Seq(Entry) /\ text[g] \in Seq(Residual)
                          /\ cur[g] \in Entry /\ R[g] \in Residual
                          /\ emit[g] \in Copy /\ recv[g] \in Copy
  BY StageFacts DEF Types
<1>2. \A c \in Copy : c # NoCopy => c.slot \in {0, 1} /\ c.val \in Residual
  BY DEF Copy
<1>3. recv[0] = NoCopy /\ NoCopy.slot = 2
  BY DEF Types, NoCopy
<1>4. QED
  BY <1>1, <1>2, <1>3

\* The server starts with values of these types.
LEMMA TypesInit == Init => Types
<1>1. SUFFICES ASSUME Init PROVE Types
  OBVIOUS
<1>2. /\ Junk \in Residual /\ Idle \in Entry /\ NoCopy \in Copy
      /\ <<>> \in Seq(Entry) /\ <<>> \in Seq(Residual)
  BY DEF Junk, Residual, Idle, Entry, NoCopy, Copy, Reset
<1>3. 0 \in Stage /\ 0 \in Nat /\ 1 \in Nat \ {0}
  BY StageFacts
<1> HIDE DEF Junk, Idle, NoCopy, Entry, Copy, Residual, Stage, Box
<1>4. QED
  BY <1>1, <1>2, <1>3 DEF Init, Types, Phase

\* A step of a card keeps the types.
LEMMA TypesStage ==
  ASSUME Types, NEW g \in Stage,
         \/ Popped(g) \/ PopStopped(g) \/ Receive(g) \/ RecvResidualDev(g) \/ Run(g)
         \/ Send(g) \/ Push(g) \/ StopBox(g) \/ CopyIn(g) \/ CopyOut(g) \/ StageFail(g)
  PROVE  Types'
<1> USE StageFacts, TokenType
<1> DEFINE Q == Seq(Entry)
<1>1. CASE Popped(g)
  <2>1. Head(box[g]) \in Entry /\ Tail(box[g]) \in Q
    BY <1>1, SeqFacts DEF Popped, Types
  <2>2. QED
    BY <1>1, <2>1 DEF Popped, Types, workVars, httpVars
<1>2. CASE PopStopped(g)
  BY <1>2 DEF PopStopped, Types, boxVars, workVars, httpVars
<1>3. CASE Receive(g)
  <2>1. cur[g] \in Entry /\ cur[g].load \in Residual /\ <<cur[g].req, cur[g].pos>> \in Residual
    BY PartTypes, EntryFacts
  <2>2. QED
    BY <1>3, <2>1 DEF Receive, Types, boxVars, workVars, httpVars
<1>4. CASE RecvResidualDev(g)
  <2>1. cur[g].pos % 2 \in {0, 1}
    BY PartTypes, EntryFacts
  <2>2. \A w \in BOOLEAN : [slot |-> cur[g].pos % 2, val |-> Junk, wait |-> w] \in Copy
    BY <2>1 DEF Copy
  <2>3. g # 0 /\ recv'[0] = recv[0]
    BY <1>4 DEF RecvResidualDev, Types
  <2>4. QED
    BY <1>4, <2>2, <2>3 DEF RecvResidualDev, Types, boxVars, workVars, httpVars
<1>5. CASE Run(g)
  <2>1. R[g] \in Residual /\ Layers(g) \in Residual
    BY DEF Types, Layers
  <2>2. Append(text[g], R[g]) \in Seq(Residual) /\ <<>> \in Seq(Residual)
    BY <2>1, PartTypes, SeqFacts
  <2>3. text' \in [Stage -> Seq(Residual)] /\ R' \in [Stage -> Residual]
    <3>1. text \in [Stage -> Seq(Residual)] /\ R \in [Stage -> Residual]
      BY DEF Types
    <3>2. CASE cur[g].pos = Reset
      BY <1>5, <2>2, <3>1, <3>2 DEF Run
    <3>3. CASE cur[g].pos # Reset
      <4>1. text' = [text EXCEPT ![g] = Append(@, R[g])] /\ R' = [R EXCEPT ![g] = Layers(g)]
        BY <1>5, <3>3 DEF Run
      <4>2. QED
        BY <2>1, <2>2, <3>1, <4>1
    <3>4. QED
      BY <3>2, <3>3
  <2>4. QED
    BY <1>5, <2>3 DEF Run, Types, boxVars, workVars, httpVars
<1>6. CASE Send(g)
  <2>1. SlotOf(g) \in {0, 1}
    BY PartTypes, EntryFacts DEF SlotOf
  <2>2. [slot |-> SlotOf(g), val |-> R[g], wait |-> FALSE] \in Copy
    BY <2>1 DEF Copy, Types
  <2>3. QED
    BY <1>6, <2>2 DEF Send, Types, boxVars, workVars, httpVars
<1>7. CASE Push(g)
  <2>1. [cur[g] EXCEPT !.load = R[g]] \in Entry
    BY PartTypes, EntryFacts
  <2>2. box' \in [Box -> Q]
    <3>1. g + 1 \in Box
      OBVIOUS
    <3>2. Append(box[g + 1], [cur[g] EXCEPT !.load = R[g]]) \in Q
      BY <2>1, <3>1, PartTypes, SeqFacts
    <3>3. QED
      BY <1>7, <3>1, <3>2 DEF Push, Pushed, Types
  <2>3. QED
    BY <1>7, <2>2 DEF Push, Types, workVars, httpVars
<1>8. CASE StopBox(g)
  <2>1. stopped' \subseteq Box
    BY <1>8 DEF StopBox, Stops, Types
  <2>2. stopAt' \in [Box -> Nat]
    <3>1. stopAt \in [Box -> Nat] /\ stopAt' = [stopAt EXCEPT ![g] = @ + 1] /\ g \in Box
      BY <1>8 DEF StopBox, Types
    <3>2. QED
      BY <3>1
  <2>3. pc' \in [Stage -> {"pop", "recv", "run", "send", "push", "fail", "exited"}]
    BY <1>8 DEF StopBox, Types
  <2>4. QED
    BY <1>8, <2>1, <2>2, <2>3 DEF StopBox, Types, workVars, httpVars
<1>9. CASE CopyIn(g)
  <2>1. g # 0 /\ recv[g].slot \in {0, 1}
    BY <1>9, PartTypes DEF CopyIn
  <2>2. hand[g - 1][recv[g].slot] \in Residual
    <3>1. g - 1 \in Stage /\ hand \in [Stage -> [{0, 1} -> Residual]]
      BY <2>1 DEF Types
    <3>2. QED
      BY <2>1, <3>1
  <2>3. QED
    BY <1>9, <2>1, <2>2 DEF CopyIn, Types, boxVars, workVars, httpVars
<1>10. CASE CopyOut(g)
  <2>1. emit[g].slot \in {0, 1} /\ emit[g].val \in Residual
    BY <1>10, PartTypes DEF CopyOut
  <2>2. hand' \in [Stage -> [{0, 1} -> Residual]]
    BY <1>10, <2>1 DEF CopyOut, Types
  <2>3. recv' \in [Stage -> Copy] /\ recv'[0] = NoCopy
    <3>1. CASE g < NGPU - 1 /\ recv[g + 1].slot = emit[g].slot
      <4>1. g + 1 \in Stage /\ g + 1 # 0
        BY <3>1
      <4>2. recv[g + 1] \in [slot : {0, 1}, val : Residual, wait : BOOLEAN]
        <5>1. recv[g + 1] # NoCopy /\ recv[g + 1] \in Copy
          <6>1. recv[g + 1] \in Copy /\ recv[g + 1].slot \in {0, 1} /\ NoCopy.slot = 2
            BY <2>1, <3>1, <4>1, PartTypes
          <6>2. QED
            BY <6>1
        <5>2. QED
          BY <5>1 DEF Copy
      <4>3. [recv[g + 1] EXCEPT !.wait = FALSE] \in Copy
        BY <4>2 DEF Copy
      <4>4. recv' = [recv EXCEPT ![g + 1] = [recv[g + 1] EXCEPT !.wait = FALSE]]
        BY <1>10, <3>1 DEF CopyOut
      <4>5. QED
        BY <4>1, <4>3, <4>4 DEF Types
    <3>2. QED
      BY <1>10, <3>1 DEF CopyOut, Types
  <2>4. QED
    BY <1>10, <2>2, <2>3 DEF CopyOut, Types, boxVars, workVars, httpVars
<1>11. CASE StageFail(g)
  BY <1>11 DEF StageFail, Types, workVars, httpVars
<1>12. QED
  BY <1>1, <1>2, <1>3, <1>4, <1>5, <1>6, <1>7, <1>8, <1>9, <1>10, <1>11

\* A step of the worker that holds the engine keeps the types.
LEMMA TypesHolder ==
  ASSUME Types, Drives \/ Frees \/ Signal
  PROVE  Types'
<1> USE StageFacts, TokenType DEF stageVars, boxVars, workVars, httpVars
<1> DEFINE Q == Seq(Entry)
<1>0. ASSUME Release
      PROVE  /\ holder' \in Worker \cup {Nobody} /\ phase' \in Phase /\ req' \in Nat
             /\ plen' \in Nat \ {0} /\ pos' \in Nat /\ logits' \in Residual
             /\ wpc' \in [Worker -> {"accept", "lock", "engine", "left"}]
  <2>1. Junk \in Residual /\ 1 \in Nat \ {0} /\ 0 \in Nat /\ Back \in {"accept", "left"}
    BY DEF Back
  <2>2. QED
    BY <1>0, <2>1 DEF Release, Types, Phase
<1>1. CASE ResetBegin
  BY <1>1 DEF ResetBegin, Types, Phase
<1>2. CASE SendReset
  <2>1. Append(box[0], Token(req, Reset, FALSE)) \in Q
    BY PartTypes, SeqFacts
  <2>2. box' \in [Box -> Q]
    BY <1>2, <2>1 DEF SendReset, Pushed, Types
  <2>3. QED
    BY <1>2, <2>2 DEF SendReset, Types, Phase
<1>3. CASE Ack
  <2>1. box[NGPU] # <<>> => Tail(box[NGPU]) \in Q
    BY PartTypes, SeqFacts
  <2>2. box' \in [Box -> Q] /\ phase' \in Phase
    <3>1. box \in [Box -> Q] /\ phase \in Phase /\ "show" \in Phase /\ "ack" \in Phase
      BY DEF Types, Phase
    <3>2. CASE NGPU \in stopped
      BY <1>3, <3>1, <3>2 DEF Ack
    <3>3. CASE NGPU \notin stopped
      <4>1. box' = [box EXCEPT ![NGPU] = Tail(@)] /\ box[NGPU] # <<>>
        BY <1>3, <3>3 DEF Ack
      <4>2. QED
        BY <1>3, <2>1, <3>1, <3>3, <4>1 DEF Ack
    <3>4. QED
      BY <3>2, <3>3
  <2>3. QED
    BY <1>3, <2>2 DEF Ack, Types
<1>4. CASE ShowBegin
  BY <1>4, <1>0 DEF ShowBegin, Types, Phase
<1>5. CASE Show
  <2>1. Append(box[0], Token(req, pos, Wanted)) \in Q
    BY PartTypes, SeqFacts
  <2>2. box' \in [Box -> Q]
    BY <1>5, <2>1 DEF Show, Pushed, Types
  <2>3. QED
    <3>1. CASE err
      BY <1>5, <2>2, <1>0, <3>1 DEF Show, Types
    <3>2. CASE ~err
      <4>1. pos' = pos + 1 /\ pos' \in Nat /\ phase' \in Phase
        BY <1>5, <3>2 DEF Show, Types, Phase
      <4>2. QED
        BY <1>5, <2>2, <3>2, <4>1 DEF Show, Types
    <3>3. QED
      BY <3>1, <3>2
<1>6. CASE Wait
  <2>1. Tail(box[NGPU]) \in Q /\ Head(box[NGPU]) \in Entry
    BY <1>6, SeqFacts DEF Wait, Types
  <2>2. Head(box[NGPU]).load \in Residual
    BY <2>1 DEF Entry
  <2>3. box' \in [Box -> Q]
    BY <1>6, <2>1 DEF Wait, Types
  <2>4. QED
    BY <1>6, <2>2, <2>3, <1>0 DEF Wait, Types, Phase
<1>7. CASE WaitFails
  BY <1>7, <1>0 DEF WaitFails, Types
<1>8. CASE Sample
  BY <1>8 DEF Sample, Types, Phase
<1>9. CASE EndRequest
  BY <1>9, <1>0 DEF EndRequest, Types
<1>10. CASE FreeBegin \/ Freed
  BY <1>10 DEF FreeBegin, Freed, Types, Phase
<1>11. CASE StopBox(Main)
  <2>1. stopped' \subseteq Box
    BY <1>11 DEF StopBox, Stops, Types
  <2>2. stopAt \in [Box -> Nat] /\ stopAt' = [stopAt EXCEPT ![Main] = @ + 1] /\ pc' = pc
    BY <1>11 DEF StopBox, Types
  <2>3. QED
    <3>1. stopAt' \in [Box -> Nat]
      BY <2>2
    <3>2. QED
      BY <1>11, <2>1, <2>2, <3>1 DEF StopBox, Types
<1>12. CASE Signal
  BY <1>12 DEF Signal, Types
<1>13. QED
  BY <1>1, <1>2, <1>3, <1>4, <1>5, <1>6, <1>7, <1>8, <1>9, <1>10, <1>11, <1>12 DEF Drives, Frees

\* A step of any other worker, or the signal, keeps the types.
LEMMA TypesWorker ==
  ASSUME Types, NEW w \in Worker, Serves(w) \/ Accept(w) \/ Interrupted(w)
  PROVE  Types'
<1> USE DEF stageVars, boxVars, workVars
<1>1. CASE Lock(w)
  BY <1>1, PromptFacts DEF Lock, Types, Phase
<1>2. CASE Busy(w)
  BY <1>2 DEF Busy, Back, Types
<1>3. CASE Accept(w) \/ Interrupted(w)
  BY <1>3 DEF Accept, Interrupted, Types
<1>4. QED
  BY <1>1, <1>2, <1>3 DEF Serves

\* The types hold in every reachable state.
LEMMA TypesHold == Spec => []Types
<1>1. Types /\ UNCHANGED vars => Types'
  BY DEF Types, vars, boxVars, stageVars, workVars, httpVars
<1>2. Types /\ [Next]_vars => Types'
  BY <1>1, TypesStage, TypesHolder, TypesWorker DEF Next, Runs, Copies
<1>3. QED
  BY TypesInit, <1>2, PTL DEF Spec
-----------------------------------------------------------------------------
(* Control: who may be where.                                              *)

\* The card has a token in its hands; its thread has not left.
Works(g) == pc[g] \in {"recv", "run", "send", "push"}
Live(g)  == pc[g] \notin {"fail", "exited"}

\* Only the holder drives the engine, the mailboxes close only at the end or after
\* a failure, and no card fails without err.
Control ==
  /\ holder = Nobody => phase \in {"reset", "free", "freed"} /\ pos = 0 /\ logits = Junk
  /\ holder # Nobody => req > 0 /\ phase \notin {"free", "freed"}
  /\ phase \in {"free", "freed"} => \A w \in Worker : wpc[w] = "left"
  /\ ~err /\ phase \notin {"free", "freed"} => stopped = {} /\ \A g \in Stage : pc[g] # "exited"
  /\ ~err => \A g \in Stage : pc[g] # "fail"

\* The copies a card has under way.
Copying ==
  /\ \A g \in Stage : recv[g] # NoCopy => pc[g] \in {"run", "fail", "exited"}
  /\ \A g \in Stage : pc[g] = "send" => emit[g] = NoCopy /\ text[g] # <<>>
  /\ \A g \in Stage : emit[g] # NoCopy => text[g] # <<>>
  /\ handoff = "pinned" => \A g \in Stage : emit[g] = NoCopy /\ recv[g] = NoCopy

\* A step of a card keeps Control.
LEMMA ControlStage ==
  ASSUME Types, Control, NEW g \in Stage, Runs(g) \/ Copies(g) \/ StageFail(g)
  PROVE  Control'
<1>1. UNCHANGED <<workVars, httpVars>>
  BY StageFacts DEF Runs, Copies, Popped, PopStopped, Receive, RecvResidualDev, Run, Send, Push,
     StopBox, CopyIn, CopyOut, StageFail
<1>2. ASSUME ~err'
      PROVE  /\ ~err /\ \A h \in Stage : pc'[h] # "fail"
             /\ stopped' = stopped
             /\ \A h \in Stage : pc'[h] = "exited" => pc[h] = "exited" \/ stopped # {}
  <2>1. \A h \in Stage : pc[h] # "fail"
    <3>1. ~err
      BY <1>2, StageFacts DEF Runs, Copies, Popped, PopStopped, Receive, RecvResidualDev, Run, Send,
         Push, StopBox, CopyIn, CopyOut, StageFail, boxVars
    <3>2. QED
      BY <3>1 DEF Control
  <2>2. ~StopBox(g) /\ ~StageFail(g)
    BY <1>2, <2>1, StageFacts DEF StopBox, StageFail
  <2>3. err' = err /\ stopped' = stopped
    BY <2>2 DEF Runs, Copies, Popped, PopStopped, Receive, RecvResidualDev, Run, Send, Push,
       CopyIn, CopyOut, boxVars
  <2>4. \A h \in Stage : /\ pc'[h] # "fail"
                         /\ pc'[h] = "exited" => pc[h] = "exited" \/ stopped # {}
    BY <2>1, <2>2 DEF Runs, Copies, Popped, PopStopped, Receive, RecvResidualDev, Run, Send, Push,
       CopyIn, CopyOut, boxVars, Types
  <2>5. QED
    BY <1>2, <2>3, <2>4
<1>3. QED
  BY <1>1, <1>2 DEF Control, workVars, httpVars

\* A step of the holder keeps Control.
LEMMA ControlHolder ==
  ASSUME Types, Control, Drives \/ Frees \/ Signal
  PROVE  Control'
<1> USE StageFacts DEF stageVars, boxVars, workVars, httpVars
<1>1. ASSUME holder # Nobody, Release, UNCHANGED <<boxVars, stageVars>> PROVE Control'
  BY <1>1 DEF Release, Control, Types
<1>2. CASE ResetBegin
  BY <1>2 DEF ResetBegin, Control
<1>3. CASE SendReset
  BY <1>3 DEF SendReset, Control
<1>4. CASE Ack
  BY <1>4 DEF Ack, Control
<1>5. CASE ShowBegin
  BY <1>5, <1>1 DEF ShowBegin, Control
<1>6. CASE Show
  <2>1. CASE err
    <3>1. Release /\ holder # Nobody /\ UNCHANGED <<stopped, err, stageVars>>
      BY <1>6, <2>1 DEF Show
    <3>2. QED
      BY <3>1 DEF Release, Control, Types
  <2>2. CASE ~err
    BY <1>6, <2>2 DEF Show, Control
  <2>3. QED
    BY <2>1, <2>2
<1>7. CASE Wait
  <2>1. CASE Head(box[NGPU]).pos = pos - 1
    BY <1>7, <2>1 DEF Wait, Control
  <2>2. CASE Head(box[NGPU]).pos # pos - 1
    <3>1. Release /\ holder # Nobody /\ UNCHANGED <<stopped, err, stageVars>>
      BY <1>7, <2>2 DEF Wait
    <3>2. QED
      BY <3>1 DEF Release, Control, Types
  <2>3. QED
    BY <2>1, <2>2
<1>8. CASE WaitFails \/ EndRequest
  BY <1>8, <1>1 DEF WaitFails, EndRequest
<1>9. CASE Sample
  BY <1>9 DEF Sample, Control
<1>10. CASE FreeBegin
  BY <1>10 DEF FreeBegin, Control
<1>11. CASE Freed
  BY <1>11 DEF Freed, Control
<1>12. CASE StopBox(Main)
  <2>1. phase = "free" /\ pc' = pc /\ err' = err /\ UNCHANGED <<workVars, httpVars>>
    BY <1>12 DEF StopBox
  <2>2. QED
    BY <2>1 DEF Control
<1>13. CASE Signal
  BY <1>13 DEF Signal, Control
<1>14. QED
  BY <1>2, <1>3, <1>4, <1>5, <1>6, <1>7, <1>8, <1>9, <1>10, <1>11, <1>12, <1>13 DEF Drives, Frees

\* A step of any other worker, or the signal, keeps Control.
LEMMA ControlWorker ==
  ASSUME Types, Control, NEW w \in Worker, Serves(w) \/ Accept(w) \/ Interrupted(w)
  PROVE  Control'
<1> USE StageFacts DEF stageVars, boxVars, workVars
<1>1. CASE Lock(w)
  <2>1. phase \notin {"free", "freed"} /\ w # Nobody
    BY <1>1 DEF Lock, Control
  <2>2. QED
    <3>1. UNCHANGED <<err, stopped, pc>> /\ holder' = w /\ phase' = "reset" /\ req' > 0
      BY <1>1 DEF Lock, Types
    <3>2. QED
      BY <1>1, <2>1, <3>1 DEF Lock, Control
<1>2. CASE Busy(w)
  BY <1>2 DEF Busy, Control, Types
<1>3. CASE Accept(w)
  BY <1>3 DEF Accept, Control, Types
<1>4. CASE Interrupted(w)
  BY <1>4 DEF Interrupted, Control, Types
<1>5. QED
  BY <1>1, <1>2, <1>3, <1>4 DEF Serves

\* Control holds in every reachable state.
LEMMA ControlHolds == Spec => []Control
<1>1. Init => Control
  BY StageFacts DEF Init, Control
<1>2. Types /\ Control /\ [Next]_vars => Control'
  <2>1. Control /\ UNCHANGED vars => Control'
    BY DEF Control, vars, boxVars, stageVars, workVars, httpVars
  <2>2. QED
    BY <2>1, ControlStage, ControlHolder, ControlWorker DEF Next
<1>3. QED
  BY <1>1, <1>2, TypesHold, PTL DEF Spec

\* A step of a card keeps Copying.
LEMMA CopyingStage ==
  ASSUME Types, Copying, NEW g \in Stage, Runs(g) \/ Copies(g) \/ StageFail(g)
  PROVE  Copying'
<1> USE StageFacts
<1>1. handoff' = handoff
  BY DEF Runs, Copies, Popped, PopStopped, Receive, RecvResidualDev, Run, Send, Push,
     StopBox, CopyIn, CopyOut, StageFail
<1>2. CASE UNCHANGED <<text, emit, recv>> /\ \A h \in Stage : pc'[h] # pc[h] =>
              /\ pc[h] = "run" => recv[h] = NoCopy \/ pc'[h] \in {"fail", "exited"}
              /\ pc[h] \in {"fail", "exited"} => pc'[h] \in {"fail", "exited"}
              /\ pc'[h] # "send"
  BY <1>1, <1>2 DEF Copying
<1>3. CASE Popped(g) \/ PopStopped(g) \/ Receive(g) \/ Push(g) \/ StopBox(g) \/ StageFail(g)
  <2>1. UNCHANGED <<text, emit, recv>>
    BY <1>3 DEF Popped, PopStopped, Receive, Push, StopBox, StageFail
  <2>2. \A h \in Stage : pc'[h] # pc[h] =>
              /\ pc[h] = "run" => recv[h] = NoCopy \/ pc'[h] \in {"fail", "exited"}
              /\ pc[h] \in {"fail", "exited"} => pc'[h] \in {"fail", "exited"}
              /\ pc'[h] # "send"
    <3>1. \A h \in Stage : h # g => pc'[h] = pc[h]
      BY <1>3 DEF Popped, PopStopped, Receive, Push, StopBox, StageFail, Types
    <3>2. CASE Popped(g) \/ PopStopped(g) \/ Receive(g)
      BY <3>1, <3>2 DEF Popped, PopStopped, Receive, Types
    <3>3. CASE Push(g)
      BY <3>1, <3>3 DEF Push, Types
    <3>6. CASE StopBox(g)
      <4>1. pc[g] = "fail" /\ (pc'[g] = pc[g] \/ pc'[g] = "exited")
        BY <3>6 DEF StopBox, Types
      <4>2. QED
        BY <3>1, <4>1
    <3>4. CASE StageFail(g)
      BY <3>1, <3>4 DEF StageFail, Types
    <3>5. QED
      BY <1>3, <3>2, <3>3, <3>4, <3>6
  <2>3. QED
    BY <1>2, <2>1, <2>2
<1>4. CASE Run(g)
  <2>1. UNCHANGED <<emit, recv>> /\ pc[g] = "run" /\ recv[g] = NoCopy /\ emit[g] = NoCopy
    BY <1>4 DEF Run
  <2>2. \A h \in Stage : h # g => pc'[h] = pc[h] /\ text'[h] = text[h]
    BY <1>4 DEF Run, Types
  <2>3. pc'[g] = "push" \/ (pc'[g] = "send" /\ text'[g] = Append(text[g], R[g]))
    BY <1>4 DEF Run, Types
  <2>4. Append(text[g], R[g]) # <<>>
    <3>1. text[g] \in Seq(Residual) /\ R[g] \in Residual
      BY PartTypes
    <3>2. QED
      BY <3>1, OneFacts
  <2>5. QED
    BY <1>1, <2>1, <2>2, <2>3, <2>4 DEF Copying
<1>5. CASE RecvResidualDev(g)
  BY <1>1, <1>5 DEF RecvResidualDev, Copying, Types
<1>6. CASE Send(g)
  <2>1. /\ recv' = recv /\ pc' = [pc EXCEPT ![g] = "push"] /\ pc[g] = "send"
        /\ \A h \in Stage : h # g \/ handoff = "pinned" => emit'[h] = emit[h]
        /\ text' = text /\ text[g] # <<>>
    BY <1>6 DEF Send, Types, Copying
  <2>2. QED
    BY <1>1, <2>1 DEF Copying, Types
<1>7. CASE CopyIn(g)
  BY <1>1, <1>7 DEF CopyIn, Copying, Types
<1>8. CASE CopyOut(g)
  <2>1. /\ pc' = pc /\ text' = text /\ emit[g] # NoCopy /\ emit' = [emit EXCEPT ![g] = NoCopy]
        /\ \A h \in Stage : recv'[h] # NoCopy => recv[h] # NoCopy
    <3>1. \A h \in Stage : recv[h] = NoCopy => recv'[h] = recv[h]
      <4>1. emit[g].slot # NoCopy.slot
        <5>1. emit[g] # NoCopy
          BY <1>8 DEF CopyOut
        <5>2. emit[g].slot \in {0, 1} /\ NoCopy.slot = 2
          BY <5>1, PartTypes
        <5>3. QED
          BY <5>2
      <4>2. QED
        BY <1>8, <4>1 DEF CopyOut, Types
    <3>2. QED
      BY <1>8, <3>1 DEF CopyOut
  <2>2. QED
    BY <1>1, <2>1 DEF Copying, Types
<1>9. QED
  BY <1>3, <1>4, <1>5, <1>6, <1>7, <1>8 DEF Runs, Copies

\* Copying holds in every reachable state.
LEMMA CopyingHolds == Spec => []Copying
<1>1. Init => Copying
  BY DEF Init, Copying
<1>2. UNCHANGED <<handoff, pc, text, emit, recv>> => (Copying => Copying')
  BY DEF Copying
<1>3. ASSUME Types, Copying, [Next]_vars PROVE Copying'
  <2>1. CASE UNCHANGED vars
    BY <1>2, <1>3, <2>1 DEF vars, stageVars
  <2>2. CASE Drives \/ Frees \/ Signal
    <3>1. UNCHANGED <<handoff, pc, text, emit, recv>>
      BY <2>2, StageFacts DEF Drives, ResetBegin, SendReset, Ack, ShowBegin, Show, Wait, WaitFails,
         Sample, EndRequest, Frees, FreeBegin, StopBox, Freed, Signal, stageVars
    <3>2. QED
      BY <1>2, <1>3, <3>1
  <2>3. ASSUME NEW w \in Worker, Serves(w) \/ Accept(w) \/ Interrupted(w) PROVE Copying'
    BY <1>2, <1>3, <2>3 DEF Serves, Lock, Busy, Accept, Interrupted, stageVars
  <2>4. QED
    BY <1>3, <2>1, <2>2, <2>3, CopyingStage DEF Next
<1>4. QED
  BY <1>1, <1>3, TypesHold, PTL DEF Spec

-----------------------------------------------------------------------------
(* Where the tokens are.  A stage that lives has taken Took(g) tokens of   *)
(* the request, passed on Passed(g), and will have taken Ahead(g) when its *)
(* mailbox is empty.                                                       *)

Took(g)   == IF pc[g] \in {"recv", "run"} THEN Len(text[g]) + 1 ELSE Len(text[g])
Passed(g) == IF pc[g] \in {"send", "push"} THEN Len(text[g]) - 1 ELSE Len(text[g])
Ahead(g)  == Took(g) + Len(box[g])
Open(b)   == b \notin stopped /\ Live(b)

\* No mailbox holds anything.
Empty == \A b \in Box : box[b] = <<>>

\* Nobody has the engine, or its holder has not begun.
Rest ==
  /\ ~err /\ Empty /\ pos = 0 /\ phase \in {"reset", "sentinel", "free", "freed"}
  /\ \A g \in Stage : pc[g] \in {"pop", "exited"}

\* A sentinel is under way and nothing else: in front of it all states are clear.
InBox(k) ==
  /\ Len(box[k]) = 1 /\ box[k][1].pos = Reset
  /\ \A b \in Box : b # k => box[b] = <<>>
  /\ \A g \in Stage : pc[g] = "pop" /\ (g < k => text[g] = <<>>)
InStage(k) ==
  /\ pc[k] \in {"run", "push"} /\ cur[k].pos = Reset /\ Empty
  /\ pc[k] = "push" => text[k] = <<>>
  /\ \A g \in Stage : g # k => pc[g] = "pop"
  /\ \A g \in Stage : g < k => text[g] = <<>>
Resetting ==
  /\ ~err /\ phase = "ack" /\ pos = 0
  /\ (\E k \in Box : InBox(k)) \/ (\E k \in Stage : InStage(k))

\* A card failed with the sentinel in its hands.
Lost ==
  /\ err /\ Empty /\ phase \in {"ack", "show", "reset", "free", "freed"}
  /\ \A g \in Stage : ~Works(g)

\* Tokens of request r are under way, in order, up to the position shown last.
InOrder(r) ==
  /\ \A g \in Stage : Works(g) => cur[g].req = r /\ cur[g].pos = Passed(g) /\ Passed(g) \in Nat
  /\ \A b \in Stage : Open(b) =>
       \A i \in 1 .. Len(box[b]) : box[b][i].req = r /\ box[b][i].pos = Took(b) + i - 1
  /\ \A b \in Stage : b # 0 /\ Open(b) /\ Live(b - 1) => Ahead(b) = Passed(b - 1)
  /\ ~err => \A g, h \in Stage : g < h => Ahead(h) <= Passed(g)

\* The holder may still show tokens.
Feeding == phase = "submit" \/ (~err /\ phase \in {"show", "wait", "got"})
Fed(r)  == Feeding => r = req /\ (Open(0) => Ahead(0) = pos)

\* Only the token the holder waits for is to be answered.
Wants ==
  ~err \/ phase = "wait" =>
    /\ \A g \in Stage : Works(g) /\ cur[g].want => phase = "wait" /\ cur[g].pos = pos - 1
    /\ \A b \in Stage : Open(b) => \A i \in 1 .. Len(box[b]) :
         box[b][i].want => phase = "wait" /\ box[b][i].pos = pos - 1

\* A failed stage has kept back the token the holder waits for.
Behind(f) == /\ ~Live(f)
             /\ \A h \in Stage : f < h /\ Live(h) =>
                  /\ Took(h) < pos
                  /\ h \notin stopped => Ahead(h) < pos
Answered ==
  /\ ~err /\ box[NGPU] # <<>> =>
       /\ phase = "wait" /\ Len(box[NGPU]) = 1 /\ box[NGPU][1].pos = pos - 1
       /\ Passed(NGPU - 1) = pos
  /\ err /\ phase = "wait" => box[NGPU] = <<>> /\ \E f \in Stage : Behind(f)
  /\ phase = "wait" => pos > 0
  /\ phase = "got" => ~err /\ Empty /\ \A g \in Stage : pc[g] = "pop"

\* The tokens of one request are under way, or what is left of them after a failure.
Tokens(r) ==
  /\ phase \notin {"sentinel", "ack"} /\ (err \/ phase \in {"show", "submit", "wait", "got"})
  /\ InOrder(r) /\ Fed(r) /\ Wants /\ Answered

\* Flow, the second layer: one of four states of the engine as a whole.
Flow == Rest \/ Resetting \/ Lost \/ \E r \in Nat : Tokens(r)

\* The counts of a card are integers and follow from its text and its mailbox.
LEMMA CountFacts ==
  ASSUME Types, NEW g \in Stage
  PROVE  /\ Len(text[g]) \in Nat /\ Len(box[g]) \in Nat /\ (box[g] = <<>> <=> Len(box[g]) = 0)
         /\ Took(g) \in Nat /\ Passed(g) \in Int /\ Ahead(g) \in Nat
         /\ Took(g) <= Ahead(g) /\ Ahead(g) = Took(g) + Len(box[g])
         /\ Works(g) => Passed(g) + 1 = Took(g) /\ Live(g)
         /\ ~Works(g) => Passed(g) = Took(g) /\ Took(g) = Len(text[g])
         /\ Len(text[g]) <= Took(g) /\ Passed(g) <= Len(text[g]) /\ Passed(g) <= Ahead(g)
<1>1. Len(text[g]) \in Nat /\ Len(box[g]) \in Nat /\ (box[g] = <<>> <=> Len(box[g]) = 0)
  BY PartTypes, SeqFacts
<1>2. /\ pc[g] \in {"recv", "run"} /\ Took(g) = Len(text[g]) + 1 /\ Passed(g) = Len(text[g])
         /\ Works(g) /\ Live(g)
      \/ /\ pc[g] \in {"send", "push"} /\ Took(g) = Len(text[g]) /\ Passed(g) = Len(text[g]) - 1
         /\ Works(g) /\ Live(g)
      \/ /\ ~Works(g) /\ Took(g) = Len(text[g]) /\ Passed(g) = Len(text[g])
  BY DEF Took, Passed, Works, Live
<1>3. Ahead(g) = Took(g) + Len(box[g])
  BY DEF Ahead
<1>4. Len(text[g]) \in Nat /\ Len(box[g]) \in Nat
  BY <1>1
<1> HIDE DEF Works, Live, Took, Passed, Ahead
<1>5. Took(g) \in Nat /\ Passed(g) \in Int /\ Ahead(g) \in Nat
  BY <1>2, <1>3, <1>4
<1>6. /\ Works(g) => Passed(g) + 1 = Took(g) /\ Live(g)
      /\ ~Works(g) => Passed(g) = Took(g) /\ Took(g) = Len(text[g])
      /\ Len(text[g]) <= Took(g) /\ Passed(g) <= Len(text[g])
  BY <1>2, <1>4
<1>7. Took(g) <= Ahead(g) /\ Passed(g) <= Ahead(g)
  BY <1>3, <1>4, <1>5, <1>6
<1>8. QED
  BY <1>1, <1>3, <1>5, <1>6, <1>7

\* While no card has failed every stage lives and every mailbox is open.
LEMMA AllOpen ==
  ASSUME Types, Control, ~err, phase \notin {"free", "freed"}
  PROVE  stopped = {} /\ \A g \in Stage : Live(g) /\ Open(g) /\ (~Works(g) => pc[g] = "pop")
BY DEF Control, Live, Open, Works, Types

\* While no card has failed, none has taken or has before it more tokens than were
\* shown, and all are of the request shown last.
LEMMA Bounds ==
  ASSUME Types, Control, NEW r \in Nat, Tokens(r), ~err, NEW g \in Stage
  PROVE  Ahead(g) <= pos /\ r = req
<1>1. Ahead(0) = pos /\ r = req
  BY AllOpen, StageFacts DEF Tokens, Fed, Feeding
<1>2. CASE g # 0
  <2>1. Ahead(g) <= Passed(0)
    BY <1>2, StageFacts DEF Tokens, InOrder
  <2>2. /\ Passed(0) <= Ahead(0) /\ Passed(0) \in Int /\ Ahead(0) \in Nat
        /\ Ahead(g) \in Nat
    BY CountFacts, StageFacts
  <2>3. QED
    BY <1>1, <2>1, <2>2
<1>3. QED
  BY <1>1, <1>2, CountFacts DEF Types

\* When the last stage has passed the token shown last, the pipeline is empty.
LEMMA Drained ==
  ASSUME Types, Control, NEW r \in Nat, Tokens(r), ~err, Passed(NGPU - 1) = pos,
         NEW g \in Stage
  PROVE  box[g] = <<>> /\ pc[g] = "pop" /\ Len(text[g]) = pos
<1> DEFINE last == NGPU - 1
<1>1. last \in Stage /\ (g # last => g < last)
  BY StageFacts
<1>2. Ahead(g) <= pos
  BY Bounds
<1>3. pos <= Passed(g)
  <2>1. CASE g # last
    BY <1>1, <2>1, CountFacts DEF Tokens, InOrder, Types
  <2>2. QED
    BY <2>1 DEF Types
<1>4. Len(box[g]) = 0 /\ ~Works(g) /\ Len(text[g]) = pos
  BY <1>2, <1>3, CountFacts DEF Types
<1>5. phase \notin {"free", "freed"}
  BY DEF Tokens
<1>6. QED
  BY <1>4, <1>5, CountFacts, AllOpen

-----------------------------------------------------------------------------
(* At rest, and with a sentinel under way.                                 *)

flowVars == <<stopped, err, box, pc, cur, text, phase, req, pos>>

\* A step that changes no token, card or phase keeps Flow.
LEMMA FlowQuiet ==
  ASSUME UNCHANGED flowVars
  PROVE  /\ (Rest <=> Rest') /\ (Resetting <=> Resetting') /\ (Lost <=> Lost')
         /\ \A r \in Nat : Tokens(r) <=> Tokens(r)'
<1> USE DEF flowVars
<1>1. \A g \in Stage : /\ Works(g)' = Works(g) /\ Live(g)' = Live(g) /\ Open(g)' = Open(g)
                       /\ Took(g)' = Took(g) /\ Passed(g)' = Passed(g) /\ Ahead(g)' = Ahead(g)
  BY DEF Works, Live, Open, Took, Passed, Ahead
<1>2. Empty' = Empty
  BY DEF Empty
<1>3. (Rest <=> Rest') /\ (Lost <=> Lost')
  BY <1>1, <1>2 DEF Rest, Lost
<1>4. Resetting <=> Resetting'
  BY <1>2 DEF Resetting, InBox, InStage
<1>5. ASSUME NEW r \in Nat PROVE Tokens(r) <=> Tokens(r)'
  <2>1. InOrder(r)' = InOrder(r)
    <3>1. \A b \in Stage : b # 0 => Live(b - 1)' = Live(b - 1) /\ Passed(b - 1)' = Passed(b - 1)
      BY <1>1, StageFacts
    <3>2. QED
      BY <1>1, <3>1 DEF InOrder
  <2>2. Fed(r)' = Fed(r)
    BY <1>1, StageFacts DEF Fed, Feeding
  <2>3. Wants' = Wants
    BY <1>1 DEF Wants
  <2>4. Answered' = Answered
    BY <1>1, <1>2, StageFacts DEF Answered, Behind
  <2>5. QED
    BY <2>1, <2>2, <2>3, <2>4 DEF Tokens
<1>6. QED
  BY <1>3, <1>4, <1>5

\* Steps that move no token.
Elsewhere(w) == Busy(w) \/ Accept(w) \/ Interrupted(w)
LEMMA ElsewhereQuiet ==
  /\ \A g \in Stage : Copies(g) => UNCHANGED flowVars
  /\ \A w \in Worker : Elsewhere(w) => UNCHANGED flowVars
  /\ Signal => UNCHANGED flowVars
  /\ UNCHANGED vars => UNCHANGED flowVars
BY DEF flowVars, Copies, CopyIn, CopyOut, Elsewhere, Busy, Accept, Interrupted, Signal,
   boxVars, stageVars, workVars, httpVars, vars

\* From rest the engine stays at rest, or its holder sends a sentinel.
LEMMA RestStep ==
  ASSUME Types, Control, Rest, [Next]_vars, ~UNCHANGED flowVars
  PROVE  Rest' \/ Resetting'
<1> USE StageFacts
<1>1. ASSUME NEW g \in Stage, Runs(g) \/ StageFail(g) PROVE Rest'
  <2>1. box[g] = <<>> /\ pc[g] \in {"pop", "exited"}
    BY DEF Rest, Empty
  <2>2. PopStopped(g)
    BY <1>1, <2>1 DEF Runs, Popped, Receive, RecvResidualDev, Run, Send, Push, StopBox, StageFail
  <2>3. QED
    BY <2>2 DEF PopStopped, Rest, Empty, boxVars, workVars, Types
<1>2. CASE Drives
  <2>1. ResetBegin \/ SendReset
    BY <1>2 DEF Drives, Ack, ShowBegin, Show, Wait, WaitFails, Sample, EndRequest, MayEnd, Rest
  <2>2. CASE ResetBegin
    BY <2>2 DEF ResetBegin, Rest, Empty, boxVars, stageVars
  <2>3. CASE SendReset
    <3>1. phase = "sentinel" /\ phase' = "ack" /\ 0 \notin stopped
      BY <2>3, AllOpen DEF SendReset, Rest
    <3>2. box' = [box EXCEPT ![0] = Append(box[0], Token(req, Reset, FALSE))]
      BY <2>3, <3>1 DEF SendReset, Pushed
    <3>3. Append(box[0], Token(req, Reset, FALSE)) = <<Token(req, Reset, FALSE)>>
      <4>1. box[0] = <<>>
        BY DEF Rest, Empty
      <4>2. \A e : Append(<<>>, e) = <<e>>
        OBVIOUS
      <4>3. QED
        BY <4>1, <4>2
    <3>4. Token(req, Reset, FALSE).pos = Reset
      BY DEF Token
    <3>5. InBox(0)'
      <4>1. Len(box'[0]) = 1 /\ box'[0][1].pos = Reset
        <5>1. box'[0] = <<Token(req, Reset, FALSE)>>
          BY <3>2, <3>3 DEF Types
        <5>2. \A e : Len(<<e>>) = 1 /\ <<e>>[1] = e
          OBVIOUS
        <5>3. QED
          BY <3>4, <5>1, <5>2
      <4>2. \A b \in Box : b # 0 => box'[b] = <<>>
        BY <3>2 DEF Types, Rest, Empty
      <4>3. pc' = pc /\ \A g \in Stage : pc[g] = "pop"
        BY <2>3, <3>1, AllOpen DEF SendReset, Rest, Works, stageVars
      <4>4. QED
        BY <4>1, <4>2, <4>3 DEF InBox
    <3>6. QED
      BY <2>3, <3>1, <3>5 DEF SendReset, Resetting, Rest
  <2>4. QED
    BY <2>1, <2>2, <2>3
<1>3. CASE Frees
  BY <1>3 DEF Frees, FreeBegin, Freed, StopBox, Rest, Empty, boxVars, stageVars, workVars
<1>4. ASSUME NEW w \in Worker, Lock(w) PROVE Rest'
  BY <1>4 DEF Lock, Rest, Empty, boxVars, stageVars
<1>5. QED
  BY <1>1, <1>2, <1>3, <1>4, ElsewhereQuiet DEF Next, Serves, Elsewhere

\* A lost engine stays lost: no card takes anything up again.
LEMMA LostStep ==
  ASSUME Types, Control, Lost, [Next]_vars, ~UNCHANGED flowVars
  PROVE  Lost'
<1> USE StageFacts
<1>1. ASSUME NEW g \in Stage, Runs(g) \/ StageFail(g) PROVE Lost'
  <2>1. box[g] = <<>> /\ ~Works(g)
    BY DEF Lost, Empty
  <2>2. PopStopped(g) \/ StopBox(g)
    BY <1>1, <2>1 DEF Runs, Popped, Receive, RecvResidualDev, Run, Send, Push, StageFail, Works
  <2>3. UNCHANGED <<box, err, phase>> /\ \A h \in Stage : pc'[h] = pc[h] \/ pc'[h] = "exited"
    BY <2>2 DEF PopStopped, StopBox, boxVars, workVars, Types
  <2>4. QED
    BY <2>3 DEF Lost, Empty, Works
<1>2. CASE Drives
  <2>1. CASE Ack
    <3>1. box[NGPU] = <<>>
      BY DEF Lost, Empty
    <3>2. UNCHANGED <<box, err, pc>> /\ phase' = "show"
      BY <2>1, <3>1 DEF Ack, stageVars
    <3>3. QED
      BY <3>2 DEF Lost, Empty, Works
  <2>2. CASE ResetBegin \/ ShowBegin
    BY <2>2 DEF ResetBegin, ShowBegin, Release, Lost, Empty, Works, boxVars, stageVars
  <2>3. QED
    BY <1>2, <2>1, <2>2 DEF Drives, SendReset, Show, Wait, WaitFails, Sample, EndRequest, MayEnd, Lost
<1>3. CASE Frees
  BY <1>3 DEF Frees, FreeBegin, Freed, StopBox, Lost, Empty, Works, boxVars, stageVars, workVars
<1>4. ASSUME NEW w \in Worker, Lock(w) PROVE Lost'
  BY <1>4 DEF Lock, Lost, Empty, Works, boxVars, stageVars
<1>5. QED
  BY <1>1, <1>2, <1>3, <1>4, ElsewhereQuiet DEF Next, Serves, Elsewhere

\* The sentinel passes card by card and clears each state; when it is back the
\* holder may show the first token.
LEMMA ResettingStep ==
  ASSUME Types, Control, Resetting, [Next]_vars, ~UNCHANGED flowVars
  PROVE  \/ Resetting' \/ Lost'
         \/ /\ Ack /\ \A g \in Stage : pc'[g] = "pop" /\ text'[g] = <<>> /\ box'[g] = <<>>
            /\ box'[NGPU] = <<>> /\ phase' = "show" /\ pos' = 0
            /\ UNCHANGED <<handoff, req, err, stageVars>>
<1> USE StageFacts
<1>1. ~err /\ phase = "ack" /\ pos = 0 /\ stopped = {} /\ req \in Nat
  BY AllOpen DEF Resetting, Types
<1>2. ASSUME NEW k \in Box, InBox(k), NEW g \in Stage, Runs(g) \/ StageFail(g) PROVE Resetting'
  <2>1. pc[g] = "pop" /\ (g # k => box[g] = <<>>)
    BY <1>2 DEF InBox
  <2>2. Popped(g) /\ g = k
    BY <1>1, <1>2, <2>1 DEF Runs, Popped, PopStopped, Receive, RecvResidualDev, Run, Send, Push, StopBox,
       StageFail
  <2>3. box[g] \in Seq(Entry) /\ Len(box[g]) = 1 /\ box[g][1].pos = Reset
    <3>1. box[k] \in Seq(Entry) /\ Len(box[k]) = 1 /\ box[k][1].pos = Reset
      BY <1>2, PartTypes DEF InBox
    <3>2. QED
      BY <2>2, <3>1
  <2>4. Head(box[g]).pos = Reset /\ Tail(box[g]) = <<>>
    BY <2>3, OneFacts
  <2>5. pc'[g] = "run" /\ cur'[g].pos = Reset
    BY <2>2, <2>4 DEF Popped, Types
  <2>6. \A b \in Box : box'[b] = <<>>
    BY <1>2, <2>2, <2>4 DEF Popped, Types, InBox
  <2>7. UNCHANGED <<text, err, phase, pos>> /\ \A h \in Stage : h # g => pc'[h] = pc[h]
    BY <2>2 DEF Popped, Types, workVars
  <2>8. InStage(g)'
    BY <1>2, <2>2, <2>5, <2>6, <2>7 DEF InStage, InBox, Empty
  <2>9. QED
    BY <1>1, <2>7, <2>8 DEF Resetting
<1>3. ASSUME NEW k \in Stage, InStage(k), NEW g \in Stage, Runs(g) \/ StageFail(g)
      PROVE  Resetting' \/ Lost'
  <2>1. (g # k => pc[g] = "pop") /\ box[g] = <<>> /\ pc[k] \in {"run", "push"} /\ cur[k].pos = Reset
    BY <1>3 DEF InStage, Empty
  <2>2. g = k /\ (Run(g) \/ Push(g) \/ StageFail(g))
    BY <1>1, <1>3, <2>1 DEF Runs, Popped, PopStopped, Receive, RecvResidualDev, Run, Send, Push, StopBox,
       StageFail
  <2>3. \A h \in Stage : h # g => pc[h] = "pop" /\ pc'[h] = "pop" /\ text'[h] = text[h]
    <3>1. \A h \in Stage : h # g => pc[h] = "pop"
      BY <1>3, <2>2 DEF InStage
    <3>2. \A h \in Stage : h # g => pc'[h] = pc[h] /\ text'[h] = text[h]
      <4>1. CASE Run(g)
        <5>1. text' = [text EXCEPT ![g] = text'[g]]
          BY <4>1 DEF Run, Types
        <5>2. \A h \in Stage : h # g => pc'[h] = pc[h]
          BY <4>1 DEF Run, Types
        <5>3. QED
          BY <5>1, <5>2 DEF Types
      <4>2. CASE Push(g) \/ StageFail(g)
        BY <4>2 DEF Push, StageFail, Types
      <4>3. QED
        BY <2>2, <4>1, <4>2
    <3>3. QED
      BY <3>1, <3>2
  <2>4. CASE Run(g)
    <3>1. pc'[g] = "push" /\ text'[g] = <<>> /\ UNCHANGED <<box, cur, err, phase, pos>>
      BY <2>1, <2>2, <2>4 DEF Run, Types, boxVars, workVars
    <3>2. InStage(g)'
      BY <1>3, <2>1, <2>2, <2>3, <3>1 DEF InStage, Empty
    <3>3. QED
      BY <1>1, <3>1, <3>2 DEF Resetting
  <2>5. CASE Push(g)
    <3>1. /\ pc'[g] = "pop" /\ text[g] = <<>> /\ UNCHANGED <<text, err, phase, pos>>
          /\ box' = [box EXCEPT ![g + 1] = Append(@, [cur[g] EXCEPT !.load = R[g]])]
      BY <1>1, <1>3, <2>1, <2>2, <2>5 DEF Push, Types, workVars, InStage, Passes, Answers, Pushed
    <3>2. [cur[g] EXCEPT !.load = R[g]].pos = Reset
      BY <2>1, <2>2, PartTypes, EntryFacts
    <3>3. box[g + 1] = <<>>
      BY <1>3 DEF InStage, Empty
    <3>4. Len(box'[g + 1]) = 1 /\ box'[g + 1][1].pos = Reset
      <4>1. \A e : Len(<<e>>) = 1 /\ <<e>>[1] = e /\ Append(<<>>, e) = <<e>>
        OBVIOUS
      <4>2. box'[g + 1] = <<[cur[g] EXCEPT !.load = R[g]]>>
        BY <3>1, <3>3, <4>1 DEF Types
      <4>3. QED
        BY <3>2, <4>1, <4>2
    <3>5. \A b \in Box : b # g + 1 => box'[b] = <<>>
      BY <1>3, <3>1 DEF InStage, Empty, Types
    <3>6. \A h \in Stage : pc'[h] = "pop" /\ (h < g + 1 => text'[h] = <<>>)
      BY <1>3, <2>2, <2>3, <3>1 DEF InStage
    <3>7. InBox(g + 1)'
      BY <3>4, <3>5, <3>6 DEF InBox
    <3>8. QED
      BY <1>1, <3>1, <3>7 DEF Resetting
  <2>6. CASE StageFail(g)
    <3>1. err' /\ pc'[g] = "fail" /\ UNCHANGED <<box, phase>>
      BY <2>6 DEF StageFail, workVars, Types
    <3>2. QED
      BY <1>1, <1>3, <2>3, <3>1 DEF Lost, InStage, Empty, Works
  <2>7. QED
    BY <2>2, <2>4, <2>5, <2>6
<1>4. CASE Drives
  <2>1. Ack /\ box[NGPU] # <<>>
    BY <1>1, <1>4 DEF Drives, ResetBegin, SendReset, Ack, ShowBegin, Show, Wait, WaitFails, Sample,
       EndRequest, MayEnd
  <2>2. InBox(NGPU)
    BY <2>1 DEF Resetting, InBox, InStage, Empty
  <2>3. /\ box[NGPU] \in Seq(Entry) /\ Len(box[NGPU]) = 1 /\ Head(box[NGPU]).pos = Reset
        /\ Tail(box[NGPU]) = <<>>
    <3>1. box[NGPU] \in Seq(Entry) /\ Len(box[NGPU]) = 1 /\ box[NGPU][1].pos = Reset
      BY <2>2 DEF InBox, Types
    <3>2. QED
      BY <3>1, OneFacts
  <2>4. /\ phase' = "show" /\ box' = [box EXCEPT ![NGPU] = Tail(@)]
        /\ UNCHANGED <<handoff, req, err, stageVars, pos>>
    BY <1>1, <2>1, <2>3 DEF Ack
  <2>5. /\ \A g \in Stage : pc'[g] = "pop" /\ text'[g] = <<>> /\ box'[g] = <<>>
        /\ box'[NGPU] = <<>>
    <3>1. box'[NGPU] = <<>> /\ \A g \in Stage : box'[g] = box[g]
      BY <2>3, <2>4 DEF Types
    <3>2. \A g \in Stage : pc[g] = "pop" /\ text[g] = <<>> /\ box[g] = <<>>
      BY <2>2 DEF InBox
    <3>3. QED
      BY <2>4, <3>1, <3>2 DEF stageVars
  <2>6. QED
    BY <1>1, <2>1, <2>4, <2>5
<1>5. ~Frees /\ \A w \in Worker : ~Lock(w)
  BY <1>1 DEF Frees, FreeBegin, Freed, StopBox, Lock, Control
<1>6. QED
  BY <1>2, <1>3, <1>4, <1>5, ElsewhereQuiet DEF Next, Serves, Elsewhere, Resetting

\* The sentinel has come back: the request may show its tokens.
LEMMA TokensBegin ==
  ASSUME Types', NEW r \in Nat, r = req', ~err', phase' = "show", pos' = 0, box'[NGPU] = <<>>,
         \A g \in Stage : pc'[g] = "pop" /\ text'[g] = <<>> /\ box'[g] = <<>>
  PROVE  Tokens(r)'
<1> USE StageFacts
<1>1. \A g \in Stage : /\ ~Works(g)' /\ Took(g)' = 0 /\ Passed(g)' = 0 /\ Ahead(g)' = 0
                       /\ Len(box'[g]) = 0
  <2>1. Len(<<>>) = 0
    OBVIOUS
  <2> SUFFICES ASSUME NEW g \in Stage
               PROVE  /\ ~Works(g)' /\ Took(g)' = 0 /\ Passed(g)' = 0 /\ Ahead(g)' = 0
                      /\ Len(box'[g]) = 0
    OBVIOUS
  <2>2. pc'[g] = "pop" /\ text'[g] = <<>> /\ box'[g] = <<>>
    OBVIOUS
  <2>3. Len(text'[g]) = 0 /\ Len(box'[g]) = 0
    BY <2>1, <2>2
  <2>4. Took(g)' = 0 /\ Passed(g)' = 0 /\ ~Works(g)'
    BY <2>2, <2>3 DEF Took, Passed, Works
  <2>5. QED
    BY <2>3, <2>4 DEF Ahead
<1>2. InOrder(r)'
  <2>1. \A g \in Stage : ~Works(g)' /\ \A i \in 1 .. Len(box'[g]) : FALSE
    BY <1>1
  <2>2. \A b \in Stage : b # 0 => Ahead(b)' = Passed(b - 1)'
    BY <1>1
  <2>3. \A f, h \in Stage : Ahead(h)' <= Passed(f)'
    BY <1>1
  <2>4. QED
    BY <2>1, <2>2, <2>3 DEF InOrder
<1>3. Fed(r)'
  BY <1>1 DEF Fed, Feeding
<1>4. Wants' /\ Answered'
  BY <1>1 DEF Wants, Answered
<1>5. QED
  BY <1>2, <1>3, <1>4 DEF Tokens

-----------------------------------------------------------------------------
(* With tokens under way.                                                  *)

\* A stage takes a step that neither takes nor passes a token.
LEMMA SameCounts ==
  ASSUME Types, NEW r \in Nat, Tokens(r), UNCHANGED <<box, err, cur, phase, req, pos>>,
         stopped \subseteq stopped',
         \A g \in Stage : /\ Took(g)' = Took(g) /\ Passed(g)' = Passed(g)
                          /\ Works(g)' => Works(g)
                          /\ Live(g)' => Live(g)
                          /\ pc[g] = "pop" => pc'[g] = "pop" \/ err
  PROVE  Tokens(r)'
<1> USE StageFacts
<1>1. \A g \in Stage : Ahead(g)' = Ahead(g) /\ (Open(g)' => Open(g))
  BY DEF Ahead, Open
<1>2. InOrder(r)'
  <2>1. \A b \in Stage : b # 0 => /\ b - 1 \in Stage /\ Passed(b - 1)' = Passed(b - 1)
                                  /\ Live(b - 1)' => Live(b - 1)
    OBVIOUS
  <2>2. QED
    BY <1>1, <2>1 DEF Tokens, InOrder
<1>3. Fed(r)'
  BY <1>1 DEF Tokens, Fed, Feeding
<1>4. Wants'
  BY <1>1 DEF Tokens, Wants
<1>5. Answered'
  <2>1. \A f \in Stage : Behind(f) => Behind(f)'
    BY <1>1 DEF Behind
  <2>2. Passed(NGPU - 1)' = Passed(NGPU - 1)
    OBVIOUS
  <2>3. QED
    BY <2>1, <2>2 DEF Tokens, Answered, Empty
<1>6. QED
  BY <1>2, <1>3, <1>4, <1>5 DEF Tokens

\* What a card does that takes a token from its mailbox.
LEMMA PoppedEffect ==
  ASSUME Types, NEW r \in Nat, Tokens(r), NEW g \in Stage, Popped(g)
  PROVE  /\ pc[g] = "pop" /\ pc'[g] = "recv" /\ Works(g)' /\ Live(g) /\ Live(g)' /\ Open(g) /\ Open(g)'
         /\ UNCHANGED <<err, stopped, text, phase, req, pos>>
         /\ Took(g) = Passed(g) /\ Took(g) \in Nat /\ Took(g) + 1 <= Ahead(g) /\ Ahead(g) \in Nat
         /\ Took(g)' = Took(g) + 1 /\ Passed(g)' = Passed(g) /\ Ahead(g)' = Ahead(g)
         /\ 1 \in 1 .. Len(box[g]) /\ box[g] # <<>> /\ cur'[g] = box[g][1]
         /\ box[g][1].req = r /\ box[g][1].pos = Took(g)
         /\ \A i \in 1 .. Len(box'[g]) : /\ i \in Int /\ i + 1 \in 1 .. Len(box[g])
                                         /\ box'[g][i] = box[g][i + 1]
         /\ \A b \in Box : b # g => box'[b] = box[b]
         /\ \A h \in Stage : h # g =>
              /\ pc'[h] = pc[h] /\ cur'[h] = cur[h]
              /\ Took(h)' = Took(h) /\ Passed(h)' = Passed(h) /\ Ahead(h)' = Ahead(h)
              /\ (Works(h)' <=> Works(h)) /\ (Live(h)' <=> Live(h)) /\ (Open(h)' <=> Open(h))
<1> USE StageFacts
<1>1. /\ pc[g] = "pop" /\ g \notin stopped /\ box[g] # <<>> /\ Open(g)
      /\ UNCHANGED <<err, stopped, text, phase, req, pos>>
  BY DEF Popped, Open, Live, workVars
<1>0. box[g] \in Seq(Entry)
  BY PartTypes
<1>2. /\ Len(box[g]) \in Nat \ {0} /\ Len(Tail(box[g])) = Len(box[g]) - 1
      /\ Head(box[g]) = box[g][1]
  BY <1>0, <1>1, SeqFacts
<1>e. \A i \in 1 .. Len(Tail(box[g])) : /\ Tail(box[g])[i] = box[g][i + 1]
                                        /\ i \in Int /\ i + 1 \in 1 .. Len(box[g])
  <2>1. \A i \in 1 .. Len(box[g]) - 1 : Tail(box[g])[i] = box[g][i + 1]
    BY <1>0, <1>1, SeqFacts
  <2>2. \A i \in 1 .. Len(box[g]) - 1 : i \in Int /\ i + 1 \in 1 .. Len(box[g])
    BY <1>2
  <2>3. QED
    BY <1>2, <2>1, <2>2
<1>3. /\ Took(g) = Len(text[g]) /\ Passed(g) = Len(text[g]) /\ Len(text[g]) \in Nat
  BY <1>1, CountFacts DEF Took, Passed
<1>4. /\ box[g][1].req = r /\ box[g][1].pos = Took(g)
      /\ 1 \in 1 .. Len(box[g])
  <2>1. 1 \in 1 .. Len(box[g])
    BY <1>2
  <2>2. box[g][1].req = r /\ box[g][1].pos = Took(g) + 1 - 1
    BY <1>1, <2>1 DEF Tokens, InOrder
  <2>3. QED
    BY <1>3, <2>1, <2>2
<1>5. pc' = [pc EXCEPT ![g] = "recv"]
  <2>1. Head(box[g]).pos # Reset
    <3>1. Head(box[g]).pos \in Nat
      BY <1>2, <1>3, <1>4
    <3>2. QED
      BY <3>1 DEF Reset
  <2>2. QED
    BY <2>1 DEF Popped
<1>6. cur'[g] = box[g][1] /\ \A h \in Stage : h # g => cur'[h] = cur[h] /\ pc'[h] = pc[h]
  BY <1>2, <1>5 DEF Popped, Types
<1>7. box'[g] = Tail(box[g]) /\ \A b \in Box : b # g => box'[b] = box[b]
  BY DEF Popped, Types
<1>8. \A h \in Stage : h # g => /\ Took(h)' = Took(h) /\ Passed(h)' = Passed(h)
                                /\ Ahead(h)' = Ahead(h) /\ (Works(h)' <=> Works(h))
                                /\ (Live(h)' <=> Live(h)) /\ (Open(h)' <=> Open(h))
  BY <1>1, <1>6, <1>7 DEF Took, Passed, Ahead, Works, Live, Open
<1>9. /\ Took(g)' = Took(g) + 1 /\ Passed(g)' = Passed(g) /\ Ahead(g)' = Ahead(g)
      /\ Works(g)' /\ Live(g)' /\ Live(g) /\ Open(g)'
  <2>1. pc'[g] = "recv"
    BY <1>5 DEF Types
  <2>2. Took(g)' = Len(text[g]) + 1 /\ Passed(g)' = Len(text[g])
    BY <1>1, <2>1 DEF Took, Passed
  <2>3. Ahead(g)' = Len(text[g]) + 1 + (Len(box[g]) - 1)
    BY <1>2, <1>7, <2>2 DEF Ahead
  <2>4. Ahead(g) = Len(text[g]) + Len(box[g])
    BY <1>3 DEF Ahead
  <2>5. Ahead(g)' = Ahead(g)
    <3>1. \A a, b \in Nat : a + 1 + (b - 1) = a + b
      OBVIOUS
    <3>2. QED
      BY <1>2, <1>3, <2>3, <2>4, <3>1
  <2>6. Works(g)' /\ Live(g)' /\ Live(g) /\ Open(g)'
    BY <1>1, <2>1 DEF Works, Live, Open
  <2>7. QED
    BY <1>3, <2>2, <2>5, <2>6
<1>10. Took(g) + 1 <= Ahead(g) /\ Ahead(g) \in Nat
  <2>1. Ahead(g) = Took(g) + Len(box[g]) /\ Took(g) \in Nat
    BY CountFacts
  <2>2. \A a \in Nat, b \in Nat \ {0} : a + 1 <= a + b /\ a + b \in Nat
    OBVIOUS
  <2>3. Took(g) + 1 <= Took(g) + Len(box[g]) /\ Took(g) + Len(box[g]) \in Nat
    BY <1>2, <2>1, <2>2
  <2>4. QED
    BY <2>1, <2>3
<1>11. pc'[g] = "recv"
  BY <1>5 DEF Types
<1>12. \A i \in 1 .. Len(box'[g]) : /\ i \in Int /\ i + 1 \in 1 .. Len(box[g])
                                   /\ box'[g][i] = box[g][i + 1]
  BY <1>e, <1>7
<1>13. QED
  BY <1>1, <1>3, <1>4, <1>6, <1>7, <1>8, <1>9, <1>10, <1>11, <1>12

\* The other stages.
LEMMA PoppedOther ==
  ASSUME Types, NEW r \in Nat, Tokens(r), NEW g \in Stage, Popped(g), NEW h \in Stage, h # g
  PROVE  /\ pc'[h] = pc[h] /\ cur'[h] = cur[h]
         /\ Passed(h)' = Passed(h) /\ (Open(h)' <=> Open(h))
<1>1. UNCHANGED <<text, stopped>> /\ pc'[h] = pc[h] /\ cur'[h] = cur[h]
  BY DEF Popped, Types
<1>2. QED
  BY <1>1 DEF Passed, Open, Live

\* What is left in the mailbox.
LEMMA PoppedMail ==
  ASSUME Types, NEW r \in Nat, Tokens(r), NEW g \in Stage, Popped(g), NEW i \in 1 .. Len(box'[g])
  PROVE  /\ i \in Int /\ i + 1 \in 1 .. Len(box[g]) /\ box'[g][i] = box[g][i + 1]
<1>1. \A j \in 1 .. Len(box'[g]) : /\ j \in Int /\ j + 1 \in 1 .. Len(box[g])
                                   /\ box'[g][j] = box[g][j + 1]
  BY PoppedEffect
<1>2. QED
  BY <1>1

\* A card takes a token: the tokens stay in order.
LEMMA TokensPopped ==
  ASSUME Types, Control, NEW r \in Nat, Tokens(r), NEW g \in Stage, Popped(g)
  PROVE  Tokens(r)'
<1> USE StageFacts
<1>1. /\ pc[g] = "pop" /\ g \notin stopped /\ box[g] # <<>> /\ Open(g)
      /\ UNCHANGED <<err, stopped, text, phase, req, pos>>
  BY PoppedEffect DEF Open
<1>2. \A i \in 1 .. Len(box'[g]) : /\ i \in Int /\ i + 1 \in 1 .. Len(box[g])
                                  /\ box'[g][i] = box[g][i + 1]
  BY PoppedEffect
<1>3. /\ Took(g) = Passed(g) /\ Took(g) \in Nat /\ Took(g) + 1 <= Ahead(g) /\ Ahead(g) \in Nat
  BY PoppedEffect
<1>4. /\ box[g][1].req = r /\ box[g][1].pos = Took(g)
      /\ 1 \in 1 .. Len(box[g])
  BY PoppedEffect
<1>6. cur'[g] = box[g][1] /\ \A h \in Stage : h # g => cur'[h] = cur[h] /\ pc'[h] = pc[h]
  BY PoppedEffect
<1>7. \A b \in Box : b # g => box'[b] = box[b]
  BY DEF Popped, Types
<1>8. \A h \in Stage : h # g => /\ Took(h)' = Took(h) /\ Passed(h)' = Passed(h)
                                /\ Ahead(h)' = Ahead(h) /\ (Works(h)' <=> Works(h))
                                /\ (Live(h)' <=> Live(h)) /\ (Open(h)' <=> Open(h))
  BY PoppedEffect
<1>9. /\ Took(g)' = Took(g) + 1 /\ Passed(g)' = Passed(g) /\ Ahead(g)' = Ahead(g)
      /\ Works(g)' /\ Live(g)' /\ Live(g) /\ Open(g)'
  BY PoppedEffect
<1>10. InOrder(r)'
  <2>1. \A h \in Stage : Works(h)' => /\ cur'[h].req = r /\ cur'[h].pos = Passed(h)'
                                      /\ Passed(h)' \in Nat
    <3>1. cur'[g].req = r /\ cur'[g].pos = Passed(g)' /\ Passed(g)' \in Nat
      BY <1>3, <1>4, <1>6, <1>9
    <3>2. ASSUME NEW h \in Stage, h # g, Works(h)'
          PROVE  cur'[h].req = r /\ cur'[h].pos = Passed(h)' /\ Passed(h)' \in Nat
      <4>1. Works(h) /\ cur'[h] = cur[h] /\ Passed(h)' = Passed(h)
        BY <1>6, <1>8, <3>2
      <4>2. QED
        BY <4>1 DEF Tokens, InOrder
    <3>3. QED
      BY <3>1, <3>2
  <2>2. ASSUME NEW b \in Stage, Open(b)', NEW i \in 1 .. Len(box'[b])
        PROVE  box'[b][i].req = r /\ box'[b][i].pos = Took(b)' + i - 1
    <3>1. CASE b = g
      <4>1. i + 1 \in 1 .. Len(box[g]) /\ box'[b][i] = box[g][i + 1]
        BY <1>2, <2>2, <3>1
      <4>2. box[g][i + 1].req = r /\ box[g][i + 1].pos = Took(g) + (i + 1) - 1
        BY <1>1, <4>1 DEF Tokens, InOrder
      <4>3. Took(g)' + i - 1 = Took(g) + (i + 1) - 1
        BY <1>2, <1>3, <1>9, <2>2, <3>1
      <4>4. QED
        BY <3>1, <4>1, <4>2, <4>3
    <3>2. CASE b # g
      <4>1. Open(b) /\ box'[b] = box[b] /\ Took(b)' = Took(b)
        BY <1>7, <1>8, <2>2, <3>2
      <4>2. box[b][i].req = r /\ box[b][i].pos = Took(b) + i - 1
        BY <2>2, <4>1 DEF Tokens, InOrder
      <4>3. QED
        BY <4>1, <4>2
    <3>3. QED
      BY <3>1, <3>2
  <2>0. ASSUME NEW b \in Stage
        PROVE  /\ Passed(b)' = Passed(b) /\ Ahead(b)' = Ahead(b)
               /\ Live(b)' <=> Live(b)
               /\ Open(b)' <=> Open(b)
    <3>1. CASE b = g
      BY <1>1, <1>9, <3>1
    <3>2. CASE b # g
      BY <1>8, <3>2
    <3>3. QED
      BY <3>1, <3>2
  <2>3. \A b \in Stage : b # 0 /\ Open(b)' /\ Live(b - 1)' => Ahead(b)' = Passed(b - 1)'
    BY <2>0 DEF Tokens, InOrder
  <2>4. ~err' => \A f, h \in Stage : f < h => Ahead(h)' <= Passed(f)'
    BY <1>1, <2>0 DEF Tokens, InOrder
  <2>5. QED
    BY <2>1, <2>2, <2>3, <2>4 DEF InOrder
<1>11. Fed(r)'
  BY <1>1, <1>8, <1>9 DEF Tokens, Fed, Feeding
<1>12. Wants'
  <2>1. SUFFICES ASSUME ~err \/ phase = "wait" PROVE Wants'
    BY <1>1 DEF Wants
  <2>2. \A h \in Stage : Works(h)' /\ cur'[h].want => phase = "wait" /\ cur'[h].pos = pos - 1
    <3>1. cur'[g].want => phase = "wait" /\ cur'[g].pos = pos - 1
      BY <1>1, <1>4, <1>6, <2>1 DEF Tokens, Wants
    <3>2. ASSUME NEW h \in Stage, h # g, Works(h)', cur'[h].want
          PROVE  phase = "wait" /\ cur'[h].pos = pos - 1
      <4>1. Works(h) /\ cur'[h] = cur[h]
        BY <1>6, <1>8, <3>2
      <4>2. QED
        BY <2>1, <3>2, <4>1 DEF Tokens, Wants
    <3>3. QED
      BY <3>1, <3>2
  <2>3. ASSUME NEW b \in Stage, Open(b)', NEW i \in 1 .. Len(box'[b]), box'[b][i].want
        PROVE  phase = "wait" /\ box'[b][i].pos = pos - 1
    <3>1. CASE b = g
      <4>1. i + 1 \in 1 .. Len(box[g]) /\ box'[b][i] = box[g][i + 1]
        BY <1>2, <2>3, <3>1
      <4>2. box[g][i + 1].want
        BY <2>3, <3>1, <4>1
      <4>3. phase = "wait" /\ box[g][i + 1].pos = pos - 1
        BY <1>1, <2>1, <4>1, <4>2 DEF Tokens, Wants
      <4>4. QED
        BY <3>1, <4>1, <4>3
    <3>2. CASE b # g
      BY <1>7, <1>8, <2>1, <2>3, <3>2 DEF Tokens, Wants
    <3>3. QED
      BY <3>1, <3>2
  <2>4. QED
    BY <1>1, <2>2, <2>3 DEF Wants
<1>13. Answered'
  <2>1. box'[NGPU] = box[NGPU] /\ Passed(NGPU - 1)' = Passed(NGPU - 1) /\ phase # "got"
    BY <1>1, <1>7, <1>8, <1>9 DEF Tokens, Answered, Empty
  <2>2. ASSUME NEW f \in Stage, Behind(f) PROVE Behind(f)'
    <3>1. ~Live(f)'
      BY <1>8, <1>9, <2>2 DEF Behind
    <3>2. ASSUME NEW h \in Stage, f < h, Live(h)'
          PROVE  Took(h)' < pos /\ (h \notin stopped => Ahead(h)' < pos)
      <4>1. CASE h = g
        <5>1. Ahead(g) < pos
          BY <1>1, <1>9, <2>2, <3>2, <4>1 DEF Behind
        <5>2. Took(g)' <= Ahead(g) /\ Took(g)' \in Nat /\ Ahead(g) \in Nat /\ pos \in Nat
          <6>1. Took(g) + 1 <= Ahead(g) /\ Took(g) + 1 \in Nat
            BY <1>3
          <6>2. pos \in Nat
            BY DEF Types
          <6>3. QED
            BY <1>3, <1>9, <6>1, <6>2
        <5>3. QED
          BY <1>9, <4>1, <5>1, <5>2
      <4>2. CASE h # g
        BY <1>8, <2>2, <3>2, <4>2 DEF Behind
      <4>3. QED
        BY <4>1, <4>2
    <3>3. QED
      BY <1>1, <3>1, <3>2 DEF Behind
  <2>3. QED
    BY <1>1, <2>1, <2>2 DEF Tokens, Answered
<1>14. QED
  BY <1>1, <1>10, <1>11, <1>12, <1>13 DEF Tokens

\* The entry that a stage pushes.
Carried(g) == [cur[g] EXCEPT !.load = R[g]]

\* What a card does that puts its token into the next mailbox.
LEMMA PushEffect ==
  ASSUME Types, NEW r \in Nat, Tokens(r), NEW g \in Stage, Push(g)
  PROVE  /\ pc[g] = "push" /\ Works(g) /\ Live(g) /\ pc'[g] = "pop" /\ ~Works(g)' /\ Live(g)'
         /\ UNCHANGED <<err, stopped, text, phase, req, pos>>
         /\ Carried(g) \in Entry /\ Carried(g).req = r /\ Carried(g).pos = Passed(g)
         /\ Carried(g).want = cur[g].want /\ Carried(g).load = R[g]
         /\ cur[g].pos = Passed(g) /\ cur[g].pos # Reset
         /\ Passed(g) \in Nat /\ Took(g) = Passed(g) + 1 /\ Took(g)' = Took(g)
         /\ Passed(g)' = Passed(g) + 1
         /\ \A h \in Stage : h # g =>
              /\ pc'[h] = pc[h] /\ cur'[h] = cur[h] /\ Passed(h)' = Passed(h)
              /\ (Works(h)' <=> Works(h))
         /\ \A h \in Stage : (Open(h)' <=> Open(h)) /\ (Live(h)' <=> Live(h)) /\ Took(h)' = Took(h)
         /\ \A b \in Box : b # g + 1 => box'[b] = box[b]
         /\ \A h \in Stage : h # g + 1 => box'[h] = box[h] /\ Ahead(h)' = Ahead(h)
         /\ g + 1 \in Stage /\ Open(g + 1) =>
              /\ Ahead(g + 1) = Passed(g) /\ Ahead(g + 1)' = Passed(g) + 1
              /\ Took(g + 1) + Len(box[g + 1]) = Passed(g)
              /\ Took(g + 1) \in Nat /\ Len(box[g + 1]) \in Nat
              /\ \A i \in 1 .. Len(box'[g + 1]) :
                   \/ i \in 1 .. Len(box[g + 1]) /\ box'[g + 1][i] = box[g + 1][i]
                   \/ i = Len(box[g + 1]) + 1 /\ box'[g + 1][i] = Carried(g)
<1> USE StageFacts
<1> DEFINE e == Carried(g)
<1>1. /\ pc[g] = "push" /\ Works(g) /\ Live(g) /\ pc'[g] = "pop" /\ ~Works(g)' /\ Live(g)'
      /\ UNCHANGED <<err, stopped, text, phase, req, pos>>
      /\ \A h \in Stage : h # g => pc'[h] = pc[h] /\ cur'[h] = cur[h]
  BY DEF Push, Works, Live, workVars, Types
<1>2. /\ e \in Entry /\ e.req = r /\ e.pos = Passed(g) /\ e.want = cur[g].want
      /\ e.load = R[g] /\ cur[g].pos = Passed(g) /\ cur[g].pos # Reset
  <2>1. /\ cur[g].req = r /\ cur[g].pos = Passed(g) /\ Passed(g) \in Nat
    BY <1>1 DEF Tokens, InOrder
  <2>2. cur[g] \in Entry /\ R[g] \in Residual
    BY PartTypes
  <2>3. e \in Entry /\ e.req = cur[g].req /\ e.pos = cur[g].pos /\ e.want = cur[g].want
        /\ e.load = R[g]
    BY <2>2, EntryFacts DEF Carried
  <2>4. Passed(g) # Reset
    BY <2>1 DEF Reset
  <2>5. QED
    BY <2>1, <2>3, <2>4
<1>3. /\ Passed(g) \in Nat /\ Took(g) = Passed(g) + 1 /\ Took(g)' = Took(g)
      /\ Passed(g)' = Passed(g) + 1
  <2>1. Took(g) = Len(text[g]) /\ Passed(g) = Len(text[g]) - 1 /\ Len(text[g]) \in Nat
    BY <1>1, CountFacts DEF Took, Passed
  <2>2. Took(g)' = Len(text[g]) /\ Passed(g)' = Len(text[g])
    BY <1>1 DEF Took, Passed
  <2>3. Passed(g) \in Nat
    BY <1>1 DEF Tokens, InOrder
  <2>4. \A n \in Nat : n = n - 1 + 1
    OBVIOUS
  <2>5. QED
    BY <2>1, <2>2, <2>3, <2>4
<1>4. \A h \in Stage : h # g => /\ Took(h)' = Took(h) /\ Passed(h)' = Passed(h)
                                /\ (Works(h)' <=> Works(h)) /\ (Live(h)' <=> Live(h))
  BY <1>1 DEF Took, Passed, Works, Live
<1>5. \A h \in Stage : (Open(h)' <=> Open(h)) /\ (Live(h)' <=> Live(h)) /\ Took(h)' = Took(h)
  <2>1. \A h \in Stage : (Live(h)' <=> Live(h)) /\ Took(h)' = Took(h)
    BY <1>1, <1>3, <1>4
  <2>2. QED
    BY <1>1, <2>1 DEF Open
<1>6. \A b \in Box : b # g + 1 => box'[b] = box[b]
  BY DEF Push, Pushed, Types
<1>7. \A h \in Stage : h # g + 1 => box'[h] = box[h] /\ Ahead(h)' = Ahead(h)
  BY <1>5, <1>6 DEF Ahead
\* The next stage, when its mailbox is open.
<1>8. ASSUME g + 1 \in Stage, Open(g + 1)
      PROVE  /\ box[g + 1] \in Seq(Entry) /\ box'[g + 1] = Append(box[g + 1], e)
             /\ Len(box'[g + 1]) = Len(box[g + 1]) + 1
             /\ Ahead(g + 1) = Passed(g) /\ Ahead(g + 1)' = Passed(g) + 1
             /\ Took(g + 1) + Len(box[g + 1]) = Passed(g)
             /\ Took(g + 1) \in Nat /\ Len(box[g + 1]) \in Nat
  <2>1. g < NGPU - 1 /\ g + 1 \notin stopped /\ g + 1 # 0 /\ (g + 1) - 1 = g
    BY <1>8 DEF Open
  <2>2. box'[g + 1] = Append(box[g + 1], e)
    BY <2>1 DEF Push, Passes, Pushed, Types, Carried
  <2>3. box[g + 1] \in Seq(Entry)
    BY <1>8, PartTypes
  <2>4. Len(box'[g + 1]) = Len(box[g + 1]) + 1 /\ Len(box[g + 1]) \in Nat
    <3>1. e \in Entry
      BY <1>2
    <3>2. Len(Append(box[g + 1], e)) = Len(box[g + 1]) + 1 /\ Len(box[g + 1]) \in Nat
      BY <2>3, <3>1, SeqFacts
    <3>3. QED
      BY <2>2, <3>2
  <2>5. Ahead(g + 1) = Passed(g)
    BY <1>1, <1>8, <2>1 DEF Tokens, InOrder
  <2>6. Took(g + 1) + Len(box[g + 1]) = Ahead(g + 1) /\ Took(g + 1) \in Nat
    BY <1>8, CountFacts
  <2>7. Ahead(g + 1)' = Took(g + 1) + (Len(box[g + 1]) + 1)
    BY <1>5, <1>8, <2>4 DEF Ahead
  <2>8. \A a, b \in Nat : a + (b + 1) = a + b + 1
    OBVIOUS
  <2>9. QED
    BY <2>2, <2>3, <2>4, <2>5, <2>6, <2>7, <2>8
\* The element that is new there.
<1>9. ASSUME g + 1 \in Stage, Open(g + 1), NEW i \in 1 .. Len(box'[g + 1])
      PROVE  \/ i \in 1 .. Len(box[g + 1]) /\ box'[g + 1][i] = box[g + 1][i]
             \/ i = Len(box[g + 1]) + 1 /\ box'[g + 1][i] = e
  <2>0. Len(box'[g + 1]) = Len(box[g + 1]) + 1 /\ Len(box[g + 1]) \in Nat
    BY <1>8, <1>9
  <2>1. i \in 1 .. Len(box[g + 1]) \/ i = Len(box[g + 1]) + 1
    <3>1. i \in 1 .. Len(box[g + 1]) + 1
      BY <1>9, <2>0
    <3>2. QED
      BY <2>0, <3>1
  <2>2. /\ Append(box[g + 1], e)[Len(box[g + 1]) + 1] = e
        /\ \A j \in 1 .. Len(box[g + 1]) : Append(box[g + 1], e)[j] = box[g + 1][j]
    <3>1. e \in Entry /\ box[g + 1] \in Seq(Entry)
      BY <1>2, <1>8, <1>9
    <3>2. QED
      BY <3>1, SeqFacts
  <2>3. QED
    BY <1>8, <1>9, <2>1, <2>2
<1>10. QED
  BY <1>1, <1>2, <1>3, <1>4, <1>5, <1>6, <1>7, <1>8, <1>9

\* The other stages, and the mailboxes that are not the next one's.
LEMMA PushOther ==
  ASSUME Types, NEW g \in Stage, Push(g)
  PROVE  /\ \A h \in Stage : h # g => pc'[h] = pc[h] /\ cur'[h] = cur[h] /\ Passed(h)' = Passed(h)
         /\ \A h \in Stage : (Open(h)' <=> Open(h))
<1>1. /\ UNCHANGED <<text, stopped>> /\ pc[g] = "push" /\ pc'[g] = "pop"
      /\ \A h \in Stage : h # g => pc'[h] = pc[h] /\ cur'[h] = cur[h]
  BY DEF Push, Types
<1>2. ASSUME NEW h \in Stage, h # g PROVE Passed(h)' = Passed(h)
  BY <1>1, <1>2 DEF Passed
<1>3. ASSUME NEW h \in Stage PROVE Open(h)' <=> Open(h)
  BY <1>1 DEF Open, Live
<1>4. QED
  BY <1>1, <1>2, <1>3

\* What is in the mailbox of the next stage.
LEMMA PushMail ==
  ASSUME Types, NEW r \in Nat, Tokens(r), NEW g \in Stage, Push(g), g + 1 \in Stage, Open(g + 1),
         NEW i \in 1 .. Len(box'[g + 1])
  PROVE  \/ i \in 1 .. Len(box[g + 1]) /\ box'[g + 1][i] = box[g + 1][i]
         \/ i = Len(box[g + 1]) + 1 /\ box'[g + 1][i] = Carried(g)
<1>1. g + 1 \in Stage /\ Open(g + 1) =>
        \A j \in 1 .. Len(box'[g + 1]) :
          \/ j \in 1 .. Len(box[g + 1]) /\ box'[g + 1][j] = box[g + 1][j]
          \/ j = Len(box[g + 1]) + 1 /\ box'[g + 1][j] = Carried(g)
  BY PushEffect
<1>2. QED
  BY <1>1

\* A card passes its token on: the tokens stay in order.
LEMMA TokensPush ==
  ASSUME Types, Control, NEW r \in Nat, Tokens(r), NEW g \in Stage, Push(g)
  PROVE  Tokens(r)'
<1> USE StageFacts
<1> DEFINE e == Carried(g)
<1>1. /\ pc[g] = "push" /\ Works(g) /\ Live(g) /\ pc'[g] = "pop" /\ ~Works(g)' /\ Live(g)'
      /\ UNCHANGED <<err, stopped, text, phase, req, pos>>
      /\ \A h \in Stage : h # g => pc'[h] = pc[h] /\ cur'[h] = cur[h]
  BY PushEffect
<1>2. /\ e \in Entry /\ e.req = r /\ e.pos = Passed(g) /\ e.want = cur[g].want
      /\ cur[g].pos = Passed(g) /\ cur[g].pos # Reset
  BY PushEffect
<1>3. /\ Passed(g) \in Nat /\ Took(g) = Passed(g) + 1 /\ Took(g)' = Took(g)
      /\ Passed(g)' = Passed(g) + 1
  BY PushEffect
<1>4. \A h \in Stage : h # g => Passed(h)' = Passed(h) /\ (Works(h)' <=> Works(h))
  BY PushEffect
<1>5. \A h \in Stage : (Open(h)' <=> Open(h)) /\ (Live(h)' <=> Live(h)) /\ Took(h)' = Took(h)
  BY PushEffect
<1>6. \A b \in Box : b # g + 1 => box'[b] = box[b]
  BY PushEffect
<1>7. \A h \in Stage : h # g + 1 => box'[h] = box[h] /\ Ahead(h)' = Ahead(h)
  BY PushEffect
<1>8. ASSUME g + 1 \in Stage, Open(g + 1)
      PROVE  /\ Ahead(g + 1) = Passed(g) /\ Ahead(g + 1)' = Passed(g) + 1
             /\ Took(g + 1) + Len(box[g + 1]) = Passed(g)
             /\ Took(g + 1) \in Nat /\ Len(box[g + 1]) \in Nat
  BY <1>8, PushEffect
<1>9. ASSUME g + 1 \in Stage, Open(g + 1), NEW i \in 1 .. Len(box'[g + 1])
      PROVE  \/ i \in 1 .. Len(box[g + 1]) /\ box'[g + 1][i] = box[g + 1][i]
             \/ i = Len(box[g + 1]) + 1 /\ box'[g + 1][i] = e
  <2>1. g + 1 \in Stage /\ Open(g + 1) =>
          \A j \in 1 .. Len(box'[g + 1]) :
            \/ j \in 1 .. Len(box[g + 1]) /\ box'[g + 1][j] = box[g + 1][j]
            \/ j = Len(box[g + 1]) + 1 /\ box'[g + 1][j] = Carried(g)
    BY PushEffect, Zenon
  <2>2. QED
    BY <1>9, <2>1
<1>10. InOrder(r)'
  <2>1. \A h \in Stage : Works(h)' => /\ cur'[h].req = r /\ cur'[h].pos = Passed(h)'
                                      /\ Passed(h)' \in Nat
    BY <1>1, <1>4 DEF Tokens, InOrder
  <2>2. ASSUME NEW b \in Stage, Open(b)', NEW i \in 1 .. Len(box'[b])
        PROVE  box'[b][i].req = r /\ box'[b][i].pos = Took(b)' + i - 1
    <3>1. Open(b) /\ Took(b)' = Took(b)
      BY <1>5, <2>2
    <3>2. CASE b # g + 1 \/ (i \in 1 .. Len(box[b]) /\ box'[b][i] = box[b][i])
      <4>1. i \in 1 .. Len(box[b]) /\ box'[b][i] = box[b][i]
        BY <1>6, <2>2, <3>2
      <4>2. QED
        BY <3>1, <4>1 DEF Tokens, InOrder
    <3>3. CASE b = g + 1 /\ i = Len(box[b]) + 1 /\ box'[b][i] = e
      <4>1. /\ Took(b) + Len(box[b]) = Passed(g) /\ Took(b) \in Nat /\ Len(box[b]) \in Nat
        BY <1>8, <3>1, <3>3
      <4>2. Took(b) + i - 1 = Passed(g)
        BY <3>3, <4>1
      <4>3. QED
        BY <1>2, <3>1, <3>3, <4>2
    <3>4. QED
      BY <1>9, <2>2, <3>1, <3>2, <3>3
  <2>3. ASSUME NEW b \in Stage, b # 0, Open(b)', Live(b - 1)' PROVE Ahead(b)' = Passed(b - 1)'
    <3>1. Open(b) /\ Live(b - 1) /\ b - 1 \in Stage
      BY <1>5, <2>3
    <3>2. CASE b = g + 1
      <4>1. b - 1 = g
        BY <3>2
      <4>2. QED
        BY <1>3, <1>8, <3>1, <3>2, <4>1
    <3>3. CASE b # g + 1
      <4>1. b - 1 # g
        BY <3>3
      <4>2. Passed(b - 1)' = Passed(b - 1) /\ Ahead(b)' = Ahead(b)
        BY <1>4, <1>7, <3>1, <3>3, <4>1
      <4>3. QED
        BY <2>3, <3>1, <4>2 DEF Tokens, InOrder
    <3>4. QED
      BY <3>2, <3>3
  <2>4. ASSUME ~err', NEW f \in Stage, NEW h \in Stage, f < h PROVE Ahead(h)' <= Passed(f)'
    <3>1. ~err /\ \A x, y \in Stage : x < y => Ahead(y) <= Passed(x)
      BY <1>1, <2>4 DEF Tokens, InOrder
    <3>2. /\ Ahead(h) \in Nat /\ Passed(f) \in Int
          /\ Passed(f)' = Passed(f) \/ (f = g /\ Passed(f)' = Passed(f) + 1)
      BY <1>3, <1>4, CountFacts
    <3>3. CASE h # g + 1
      <4>1. Ahead(h)' = Ahead(h) /\ Ahead(h) <= Passed(f)
        BY <1>7, <2>4, <3>1, <3>3
      <4>2. QED
        BY <3>2, <4>1
    <3>4. CASE h = g + 1
      <4>1. Open(h)
        BY <3>1, AllOpen DEF Tokens
      <4>2. Ahead(h)' = Passed(g) + 1
        BY <1>8, <3>4, <4>1
      <4>3. CASE f = g
        BY <1>3, <4>2, <4>3
      <4>4. CASE f # g
        <5>1. f < g
          BY <2>4, <3>4, <4>4
        <5>2. Ahead(g) <= Passed(f) /\ Took(g) <= Ahead(g) /\ Took(g) = Passed(g) + 1
          BY <1>3, <3>1, <5>1, CountFacts
        <5>3. Ahead(g) \in Nat /\ Passed(f)' = Passed(f)
          BY <1>4, <4>4, CountFacts
        <5>4. QED
          BY <1>3, <3>2, <4>2, <5>2, <5>3
      <4>5. QED
        BY <4>3, <4>4
    <3>5. QED
      BY <3>3, <3>4
  <2>5. QED
    BY <2>1, <2>2, <2>3, <2>4 DEF InOrder
<1>11. Fed(r)'
  <2>1. Ahead(0)' = Ahead(0) /\ (Open(0)' <=> Open(0))
    BY <1>5, <1>7
  <2>2. QED
    BY <1>1, <2>1 DEF Tokens, Fed, Feeding
<1>12. Wants'
  <2>1. SUFFICES ASSUME ~err \/ phase = "wait" PROVE Wants'
    BY <1>1 DEF Wants
  <2>2. \A h \in Stage : Works(h)' /\ cur'[h].want => phase = "wait" /\ cur'[h].pos = pos - 1
    BY <1>1, <1>4, <2>1 DEF Tokens, Wants
  <2>3. ASSUME NEW b \in Stage, Open(b)', NEW i \in 1 .. Len(box'[b]), box'[b][i].want
        PROVE  phase = "wait" /\ box'[b][i].pos = pos - 1
    <3>1. Open(b)
      BY <1>5, <2>3
    <3>2. CASE b # g + 1 \/ (i \in 1 .. Len(box[b]) /\ box'[b][i] = box[b][i])
      <4>1. i \in 1 .. Len(box[b]) /\ box'[b][i] = box[b][i]
        BY <1>6, <2>3, <3>2
      <4>2. QED
        BY <2>1, <2>3, <3>1, <4>1 DEF Tokens, Wants
    <3>3. CASE b = g + 1 /\ box'[b][i] = e
      <4>1. cur[g].want
        BY <1>2, <2>3, <3>3
      <4>2. phase = "wait" /\ cur[g].pos = pos - 1
        BY <1>1, <2>1, <4>1 DEF Tokens, Wants
      <4>3. QED
        BY <1>2, <3>3, <4>2
    <3>4. QED
      BY <1>9, <2>3, <3>1, <3>2, <3>3
  <2>4. QED
    BY <1>1, <2>2, <2>3 DEF Wants
<1>13. Answered'
  <2>1. phase # "got" /\ (phase = "wait" => pos > 0)
    BY <1>1 DEF Tokens, Answered
  <2>2. ASSUME NEW f \in Stage, Behind(f)
        PROVE  Behind(f)' /\ (f < g => Took(g) < pos)
    <3>1. ~Live(f)'
      BY <1>5, <2>2 DEF Behind
    <3>2. f < g => Took(g) < pos
      BY <1>1, <2>2 DEF Behind
    <3>3. ASSUME NEW h \in Stage, f < h, Live(h)'
          PROVE  Took(h)' < pos /\ (h \notin stopped => Ahead(h)' < pos)
      <4>1. /\ Live(h) /\ Took(h) < pos /\ (h \notin stopped => Ahead(h) < pos)
            /\ Took(h)' = Took(h)
        BY <1>5, <2>2, <3>3 DEF Behind
      <4>2. CASE h # g + 1
        BY <1>7, <4>1, <4>2
      <4>3. CASE h = g + 1 /\ h \notin stopped
        <5>1. Open(h)
          BY <4>1, <4>3 DEF Open
        <5>2. Ahead(h)' = Took(g)
          BY <1>3, <1>8, <4>3, <5>1
        <5>3. f < g
          <6>1. f # g /\ f \in Int /\ g \in Int /\ f < g + 1
            BY <1>1, <2>2, <3>3, <4>3 DEF Behind
          <6>2. QED
            BY <6>1
        <5>4. QED
          BY <3>2, <4>1, <5>2, <5>3
      <4>4. QED
        BY <4>1, <4>2, <4>3
    <3>4. QED
      BY <1>1, <3>1, <3>2, <3>3 DEF Behind
  <2>3. CASE g # NGPU - 1
    <3>1. NGPU # g + 1
      BY <2>3
    <3>2. box'[NGPU] = box[NGPU] /\ Passed(NGPU - 1)' = Passed(NGPU - 1)
      BY <1>4, <1>6, <2>3, <3>1
    <3>3. QED
      BY <1>1, <2>1, <2>2, <3>2 DEF Tokens, Answered
  <2>4. CASE g = NGPU - 1
    <3>1. g + 1 = NGPU /\ ~(g < NGPU - 1)
      BY <2>4
    <3>2. ~err => box[NGPU] = <<>>
      <4>1. ~err => Took(g) <= pos
        <5>1. ~err => Ahead(g) <= pos
          BY Bounds
        <5>2. Took(g) <= Ahead(g) /\ Took(g) \in Nat /\ Ahead(g) \in Nat /\ pos \in Nat
          BY CountFacts DEF Types
        <5>3. QED
          BY <5>1, <5>2
      <4>2. ~err => Passed(g) # pos
        BY <1>3, <4>1 DEF Types
      <4>3. QED
        BY <2>4, <4>2 DEF Tokens, Answered
    <3>3. CASE cur[g].want /\ (~err \/ phase = "wait")
      <4>1. phase = "wait" /\ Passed(g) = pos - 1
        BY <1>1, <1>2, <3>3 DEF Tokens, Wants
      <4>2. ~err
        <5>1. SUFFICES ASSUME err PROVE FALSE
          OBVIOUS
        <5>2. PICK f \in Stage : Behind(f)
          BY <4>1, <5>1 DEF Tokens, Answered
        <5>3. f < g
          <6>1. f # g
            BY <1>1, <5>2 DEF Behind
          <6>2. QED
            BY <2>4, <6>1
        <5>4. Took(g) < pos
          BY <2>2, <5>2, <5>3
        <5>5. QED
          BY <1>3, <4>1, <5>4 DEF Types
      <4>3. box'[NGPU] = Append(box[NGPU], e)
        <5>1. NGPU \notin stopped
          BY <4>2, AllOpen DEF Tokens
        <5>2. Passes(g)
          BY <3>3 DEF Passes, Answers
        <5>3. QED
          BY <3>1, <5>1, <5>2 DEF Push, Pushed, Types, Carried
      <4>4. Len(box'[NGPU]) = 1 /\ box'[NGPU][1] = e
        <5>1. box[NGPU] \in Seq(Entry)
          BY PartTypes
        <5>2. QED
          <6>1. e \in Entry /\ box[NGPU] = <<>>
            BY <1>2, <3>2, <4>2
          <6>2. Len(Append(box[NGPU], e)) = 1 /\ Append(box[NGPU], e)[1] = e
            BY <5>1, <6>1, OneFacts
          <6>3. QED
            BY <4>3, <6>2
      <4>5. Passed(NGPU - 1)' = pos
        BY <1>3, <2>4, <4>1 DEF Types
      <4>6. QED
        BY <1>1, <1>2, <2>1, <4>1, <4>2, <4>4, <4>5 DEF Answered
    <3>4. CASE ~cur[g].want
      <4>1. ~Passes(g)
        BY <1>2, <3>1, <3>4 DEF Passes, Answers
      <4>2. box' = box
        BY <4>1 DEF Push
      <4>3. QED
        BY <1>1, <2>1, <2>2, <3>2, <4>2 DEF Tokens, Answered
    <3>5. CASE err /\ phase # "wait"
      BY <1>1, <2>1, <3>5 DEF Answered
    <3>6. QED
      BY <3>3, <3>4, <3>5
  <2>5. QED
    BY <2>3, <2>4
<1>14. QED
  BY <1>1, <1>10, <1>11, <1>12, <1>13 DEF Tokens

\* A card fails: the tokens that live on stay in order, and nobody answers.
LEMMA TokensFail ==
  ASSUME Types, Control, NEW r \in Nat, Tokens(r), NEW g \in Stage, StageFail(g)
  PROVE  Tokens(r)'
<1> USE StageFacts
<1>1. /\ pc[g] \in {"recv", "run", "send"} /\ Works(g) /\ Live(g) /\ ~Works(g)' /\ ~Live(g)' /\ err'
      /\ UNCHANGED <<box, stopped, cur, text, phase, req, pos>>
      /\ \A h \in Stage : h # g => pc'[h] = pc[h]
  BY DEF StageFail, Works, Live, workVars, Types
<1>2. \A h \in Stage : h # g => /\ Took(h)' = Took(h) /\ Passed(h)' = Passed(h)
                                /\ Ahead(h)' = Ahead(h)
                                /\ (Works(h)' <=> Works(h)) /\ (Live(h)' <=> Live(h))
                                /\ (Open(h)' <=> Open(h))
  BY <1>1 DEF Took, Passed, Ahead, Works, Live, Open
<1>3. ~Open(g)'
  BY <1>1 DEF Open
<1>4. InOrder(r)'
  <2>1. \A h \in Stage : Works(h)' => /\ cur'[h].req = r /\ cur'[h].pos = Passed(h)'
                                      /\ Passed(h)' \in Nat
    BY <1>1, <1>2 DEF Tokens, InOrder
  <2>2. \A b \in Stage : Open(b)' => \A i \in 1 .. Len(box'[b]) :
          box'[b][i].req = r /\ box'[b][i].pos = Took(b)' + i - 1
    <3>1. SUFFICES ASSUME NEW b \in Stage, Open(b)', NEW i \in 1 .. Len(box[b])
                   PROVE  box[b][i].req = r /\ box[b][i].pos = Took(b)' + i - 1
      BY <1>1
    <3>2. Open(b) /\ Took(b)' = Took(b)
      BY <1>2, <1>3, <3>1
    <3>3. QED
      BY <3>1, <3>2 DEF Tokens, InOrder
  <2>3. \A b \in Stage : b # 0 /\ Open(b)' /\ Live(b - 1)' => Ahead(b)' = Passed(b - 1)'
    <3>1. SUFFICES ASSUME NEW b \in Stage, b # 0, Open(b)', Live(b - 1)'
                   PROVE  Ahead(b)' = Passed(b - 1)'
      OBVIOUS
    <3>2. b # g /\ b - 1 \in Stage /\ b - 1 # g
      BY <1>1, <1>3, <3>1
    <3>3. QED
      BY <1>2, <3>1, <3>2 DEF Tokens, InOrder
  <2>4. QED
    BY <1>1, <2>1, <2>2, <2>3 DEF InOrder
<1>5. Fed(r)'
  <2>1. Feeding' => Feeding
    BY <1>1 DEF Feeding
  <2>2. Open(0)' => Open(0) /\ Ahead(0)' = Ahead(0)
    BY <1>2, <1>3
  <2>3. QED
    BY <1>1, <2>1, <2>2 DEF Tokens, Fed
<1>6. Wants'
  BY <1>1, <1>2, <1>3 DEF Tokens, Wants
<1>7. Answered'
  <2>1. phase # "got" /\ (phase = "wait" => pos > 0)
    BY <1>1 DEF Tokens, Answered
  <2>2. SUFFICES ASSUME phase = "wait" PROVE box[NGPU] = <<>> /\ \E f \in Stage : Behind(f)'
    BY <1>1, <2>1 DEF Answered
  <2>3. CASE err
    <3>1. box[NGPU] = <<>> /\ \E f \in Stage : Behind(f)
      BY <2>2, <2>3 DEF Tokens, Answered
    <3>2. \A f \in Stage : Behind(f) => Behind(f)'
      <4>1. SUFFICES ASSUME NEW f \in Stage, Behind(f) PROVE Behind(f)'
        OBVIOUS
      <4>2. ~Live(f)'
        BY <1>1, <1>2, <4>1 DEF Behind
      <4>3. \A h \in Stage : f < h /\ Live(h)' =>
              /\ Took(h)' < pos /\ (h \notin stopped => Ahead(h)' < pos)
        BY <1>1, <1>2, <4>1 DEF Behind
      <4>4. QED
        BY <1>1, <4>2, <4>3 DEF Behind
    <3>3. QED
      BY <3>1, <3>2
  <2>4. CASE ~err
    <3>1. box[NGPU] = <<>>
      <4>1. Passed(NGPU - 1) = pos => pc[g] = "pop"
        BY <2>4, Drained
      <4>2. QED
        BY <1>1, <2>4, <4>1 DEF Tokens, Answered
    <3>2. Passed(g) < pos
      <4>1. Passed(g) + 1 = Took(g) /\ Took(g) <= Ahead(g) /\ Ahead(g) \in Nat /\ Took(g) \in Nat
            /\ Passed(g) \in Int
        BY <1>1, CountFacts
      <4>2. Ahead(g) <= pos /\ pos \in Nat
        BY <2>4, Bounds DEF Types
      <4>3. QED
        BY <4>1, <4>2
    <3>3. \A h \in Stage : g < h => Took(h)' < pos /\ Ahead(h)' < pos
      <4>1. SUFFICES ASSUME NEW h \in Stage, g < h PROVE Took(h)' < pos /\ Ahead(h)' < pos
        OBVIOUS
      <4>2. h # g
        BY <4>1
      <4>3. Took(h)' = Took(h) /\ Ahead(h)' = Ahead(h)
        BY <1>2, <4>2
      <4>4. Ahead(h) <= Passed(g)
        BY <2>4, <4>1 DEF Tokens, InOrder
      <4>5. Took(h) <= Ahead(h) /\ Took(h) \in Nat /\ Ahead(h) \in Nat /\ Passed(g) \in Int
            /\ pos \in Nat
        BY CountFacts DEF Types
      <4>6. QED
        BY <3>2, <4>3, <4>4, <4>5
    <3>4. Behind(g)'
      BY <1>1, <3>3 DEF Behind
    <3>5. QED
      BY <3>1, <3>4
  <2>5. QED
    BY <2>3, <2>4
<1>8. QED
  BY <1>1, <1>4, <1>5, <1>6, <1>7 DEF Tokens

\* What the other steps of a stage do to the counts: nothing.
LEMMA RunEffect ==
  ASSUME Types, NEW r \in Nat, Tokens(r), NEW g \in Stage, Run(g)
  PROVE  /\ pc[g] = "run" /\ Works(g) /\ Live(g) /\ pc'[g] = "send"
         /\ recv[g] = NoCopy /\ emit[g] = NoCopy
         /\ cur[g].req = r /\ cur[g].pos = Passed(g) /\ Passed(g) = Len(text[g])
         /\ Took(g) = Len(text[g]) + 1 /\ Len(text[g]) \in Nat
         /\ text'[g] = Append(text[g], R[g]) /\ Len(text'[g]) = Len(text[g]) + 1
         /\ R'[g] = Layers(g) /\ \A h \in Stage : h # g => R'[h] = R[h]
         /\ Took(g)' = Took(g) /\ Passed(g)' = Passed(g)
         /\ UNCHANGED <<handoff, box, stopped, err, cur, hand, emit, recv, phase, req, pos>>
         /\ \A h \in Stage : h # g => pc'[h] = pc[h] /\ text'[h] = text[h]
<1>1. pc[g] = "run" /\ Works(g) /\ Live(g)
  BY DEF Run, Works, Live
<1>2. cur[g].req = r /\ cur[g].pos = Passed(g) /\ cur[g].pos # Reset
  <2>1. cur[g].req = r /\ cur[g].pos = Passed(g) /\ Passed(g) \in Nat
    BY <1>1 DEF Tokens, InOrder
  <2>2. QED
    BY <2>1 DEF Reset
<1>3. /\ UNCHANGED <<handoff, box, stopped, err, cur, hand, emit, recv, phase, req, pos>>
      /\ recv[g] = NoCopy /\ emit[g] = NoCopy
  BY DEF Run, boxVars, workVars
<1>4. /\ pc' = [pc EXCEPT ![g] = "send"]
      /\ text' = [text EXCEPT ![g] = Append(@, R[g])] /\ R' = [R EXCEPT ![g] = Layers(g)]
  BY <1>2 DEF Run
<1>5. /\ pc'[g] = "send" /\ text'[g] = Append(text[g], R[g]) /\ R'[g] = Layers(g)
      /\ \A h \in Stage : h # g => pc'[h] = pc[h] /\ text'[h] = text[h] /\ R'[h] = R[h]
  BY <1>4 DEF Types
<1>6. Len(text'[g]) = Len(text[g]) + 1 /\ Len(text[g]) \in Nat
  <2>1. text[g] \in Seq(Residual) /\ R[g] \in Residual
    BY PartTypes
  <2>2. Len(Append(text[g], R[g])) = Len(text[g]) + 1 /\ Len(text[g]) \in Nat
    BY <2>1, SeqFacts
  <2>3. QED
    BY <1>5, <2>2
<1>7. Took(g) = Len(text[g]) + 1 /\ Passed(g) = Len(text[g])
  BY <1>1 DEF Took, Passed
<1>8. Took(g)' = Took(g) /\ Passed(g)' = Passed(g)
  <2>1. Took(g)' = Len(text[g]) + 1 /\ Passed(g)' = Len(text[g]) + 1 - 1
    BY <1>5, <1>6 DEF Took, Passed
  <2>2. \A n \in Nat : n + 1 - 1 = n
    OBVIOUS
  <2>3. QED
    BY <1>6, <1>7, <2>1, <2>2
<1>9. QED
  BY <1>1, <1>2, <1>3, <1>5, <1>6, <1>7, <1>8

Keeps(g) == \/ PopStopped(g) \/ Receive(g) \/ RecvResidualDev(g) \/ Run(g) \/ Send(g)
            \/ StopBox(g) \/ Copies(g)

\* The other steps of a card move no token between mailboxes.
LEMMA KeepEffect ==
  ASSUME Types, Control, NEW r \in Nat, Tokens(r), NEW g \in Stage, Keeps(g)
  PROVE  /\ UNCHANGED <<handoff, box, err, cur, phase, req, pos>> /\ stopped \subseteq stopped'
         /\ \A h \in Stage :
              /\ Took(h)' = Took(h) /\ Passed(h)' = Passed(h) /\ Ahead(h)' = Ahead(h)
              /\ (Works(h)' => Works(h)) /\ (Live(h)' => Live(h)) /\ (Open(h)' => Open(h))
              /\ pc[h] = "pop" => pc'[h] = "pop" \/ err
              /\ text'[h] = text[h] \/ (Live(h) /\ Len(text'[h]) = Len(text[h]) + 1
                                        /\ Took(h) = Len(text[h]) + 1)
<1> USE StageFacts
<1> DEFINE Kept(h) ==
      /\ Took(h)' = Took(h) /\ Passed(h)' = Passed(h)
      /\ (Works(h)' => Works(h)) /\ (Live(h)' => Live(h))
      /\ pc[h] = "pop" => pc'[h] = "pop" \/ err
      /\ text'[h] = text[h] \/ (Live(h) /\ Len(text'[h]) = Len(text[h]) + 1
                                /\ Took(h) = Len(text[h]) + 1)
<1>1. /\ UNCHANGED <<handoff, box, err, cur, phase, req, pos>> /\ stopped \subseteq stopped'
      /\ \A h \in Stage : h # g => pc'[h] = pc[h] /\ text'[h] = text[h]
  BY DEF Keeps, PopStopped, Receive, RecvResidualDev, Run, Send, StopBox, Copies, CopyIn, CopyOut,
     boxVars, workVars, Types
<1>2. \A h \in Stage : h # g => Kept(h)
  BY <1>1 DEF Took, Passed, Works, Live
<1>3. Kept(g)
  <2>1. CASE PopStopped(g)
    <3>1. err /\ pc[g] = "pop" /\ pc'[g] = "exited" /\ text' = text
      BY <2>1, AllOpen DEF PopStopped, Tokens, Types
    <3>2. QED
      BY <3>1 DEF Took, Passed, Works, Live
  <2>2. CASE Receive(g) \/ RecvResidualDev(g)
    <3>1. pc[g] = "recv" /\ pc'[g] = "run" /\ text' = text
      BY <2>2 DEF Receive, RecvResidualDev, Types
    <3>2. QED
      BY <3>1 DEF Took, Passed, Works, Live
  <2>3. CASE Run(g)
    <3>1. /\ Works(g) /\ Live(g) /\ pc[g] = "run" /\ Took(g)' = Took(g) /\ Passed(g)' = Passed(g)
          /\ Len(text'[g]) = Len(text[g]) + 1 /\ Took(g) = Len(text[g]) + 1
      BY <2>3, RunEffect
    <3>2. QED
      BY <3>1
  <2>4. CASE Send(g)
    <3>1. pc[g] = "send" /\ pc'[g] = "push" /\ text' = text
      BY <2>4 DEF Send, Types
    <3>2. QED
      BY <3>1 DEF Took, Passed, Works, Live
  <2>5. CASE StopBox(g)
    <3>1. pc[g] = "fail" /\ pc'[g] \in {"fail", "exited"} /\ text' = text
      BY <2>5 DEF StopBox, Types
    <3>2. QED
      BY <3>1 DEF Took, Passed, Works, Live
  <2>6. CASE Copies(g)
    <3>1. pc' = pc /\ text' = text
      BY <2>6 DEF Copies, CopyIn, CopyOut
    <3>2. QED
      BY <3>1 DEF Took, Passed, Works, Live
  <2>7. QED
    BY <2>1, <2>2, <2>3, <2>4, <2>5, <2>6 DEF Keeps
<1>4. \A h \in Stage : Kept(h)
  BY <1>2, <1>3
<1>5. \A h \in Stage : Ahead(h)' = Ahead(h) /\ (Open(h)' => Open(h))
  BY <1>1, <1>4 DEF Ahead, Open
<1>6. QED
  BY <1>1, <1>4, <1>5

\* A step of a card keeps the tokens in order.
LEMMA TokensStage ==
  ASSUME Types, Control, NEW r \in Nat, Tokens(r), NEW g \in Stage,
         Runs(g) \/ Copies(g) \/ StageFail(g)
  PROVE  Tokens(r)'
<1>1. CASE Keeps(g)
  BY <1>1, KeepEffect, SameCounts
<1>2. QED
  BY <1>1, TokensPopped, TokensPush, TokensFail DEF Runs, Keeps

\* With the engine broken and nobody waiting for an answer, the order in the
\* mailboxes is all that matters.
LEMMA ErrIdle ==
  ASSUME NEW r \in Nat, err', phase' \in {"reset", "show", "free", "freed"}, InOrder(r)'
  PROVE  Tokens(r)'
BY DEF Tokens, Fed, Feeding, Wants, Answered

\* Steps of the holder that touch no mailbox keep the tokens in order.
LEMMA SameOrder ==
  ASSUME Types, NEW r \in Nat, InOrder(r), UNCHANGED <<pc, cur, text, stopped, err>>,
         \A g \in Stage : box'[g] = box[g]
  PROVE  /\ InOrder(r)'
         /\ \A g \in Stage : /\ (Works(g)' <=> Works(g)) /\ (Open(g)' <=> Open(g))
                             /\ Ahead(g)' = Ahead(g) /\ Passed(g)' = Passed(g)
<1> USE StageFacts
<1>1. \A g \in Stage : /\ (Works(g)' <=> Works(g)) /\ (Live(g)' <=> Live(g))
                       /\ (Open(g)' <=> Open(g))
                       /\ Took(g)' = Took(g) /\ Passed(g)' = Passed(g) /\ Ahead(g)' = Ahead(g)
  BY DEF Works, Live, Open, Took, Passed, Ahead
<1>2. \A b \in Stage : b # 0 => /\ b - 1 \in Stage /\ Passed(b - 1)' = Passed(b - 1)
                                /\ (Live(b - 1)' <=> Live(b - 1))
  BY <1>1
<1>3. \A b \in Stage : Open(b)' => \A i \in 1 .. Len(box'[b]) :
        box'[b][i].req = r /\ box'[b][i].pos = Took(b)' + i - 1
  <2>1. SUFFICES ASSUME NEW b \in Stage, Open(b)', NEW i \in 1 .. Len(box'[b])
                 PROVE  box'[b][i].req = r /\ box'[b][i].pos = Took(b)' + i - 1
    OBVIOUS
  <2>2. Open(b) /\ box'[b] = box[b] /\ Took(b)' = Took(b)
    BY <1>1, <2>1
  <2>3. i \in 1 .. Len(box[b])
    BY <2>1, <2>2
  <2>4. box[b][i].req = r /\ box[b][i].pos = Took(b) + i - 1
    BY <2>2, <2>3 DEF InOrder
  <2>5. QED
    BY <2>2, <2>4
<1>4. /\ \A g \in Stage : Works(g)' => /\ cur'[g].req = r /\ cur'[g].pos = Passed(g)'
                                      /\ Passed(g)' \in Nat
      /\ \A b \in Stage : b # 0 /\ Open(b)' /\ Live(b - 1)' => Ahead(b)' = Passed(b - 1)'
      /\ ~err' => \A g, h \in Stage : g < h => Ahead(h)' <= Passed(g)'
  <2>1. \A g \in Stage : Works(g)' => /\ cur'[g].req = r /\ cur'[g].pos = Passed(g)'
                                      /\ Passed(g)' \in Nat
    BY <1>1 DEF InOrder
  <2>2. \A b \in Stage : b # 0 /\ Open(b)' /\ Live(b - 1)' => Ahead(b)' = Passed(b - 1)'
    BY <1>1, <1>2 DEF InOrder
  <2>3. ~err' => \A g, h \in Stage : g < h => Ahead(h)' <= Passed(g)'
    BY <1>1 DEF InOrder
  <2>4. QED
    BY <2>1, <2>2, <2>3
<1>5. QED
  BY <1>1, <1>3, <1>4 DEF InOrder

\* A token is put into the first mailbox.
LEMMA TokensShow ==
  ASSUME Types, Control, NEW r \in Nat, Tokens(r), Show
  PROVE  Tokens(r)'
<1> USE StageFacts
<1> DEFINE e == Token(req, pos, Wanted)
<1>1. /\ UNCHANGED <<pc, cur, text, stopped, err, req>> /\ phase = "submit"
      /\ \A b \in Box : b # 0 => box'[b] = box[b]
      /\ 0 \notin stopped => box'[0] = Append(box[0], e)
      /\ 0 \in stopped => box' = box
  BY DEF Show, Release, Pushed, stageVars, Types
<1>2. e \in Entry /\ e.req = req /\ e.pos = pos /\ e.want = Wanted
  <2>1. e \in Entry
    BY TokenType
  <2>2. QED
    BY <2>1 DEF Token
<1> HIDE DEF e
<1>3. r = req /\ (Open(0) => Ahead(0) = pos)
  BY <1>1 DEF Tokens, Fed, Feeding
<1>4. \A g \in Stage : /\ (Works(g)' <=> Works(g)) /\ (Live(g)' <=> Live(g))
                       /\ (Open(g)' <=> Open(g))
                       /\ Took(g)' = Took(g) /\ Passed(g)' = Passed(g)
  BY <1>1 DEF Works, Live, Open, Took, Passed
<1>5. \A g \in Stage : g # 0 => Ahead(g)' = Ahead(g)
  BY <1>1, <1>4 DEF Ahead
<1>6. ASSUME Open(0)
      PROVE  /\ Len(box'[0]) = Len(box[0]) + 1 /\ Len(box[0]) \in Nat
             /\ Took(0) \in Nat /\ Took(0) + Len(box[0]) = pos /\ Ahead(0)' = pos + 1
             /\ \A i \in 1 .. Len(box'[0]) :
                  \/ i \in 1 .. Len(box[0]) /\ box'[0][i] = box[0][i]
                  \/ i = Len(box[0]) + 1 /\ box'[0][i] = e
  <2>1. box[0] \in Seq(Entry) /\ box'[0] = Append(box[0], e)
    BY <1>1, <1>6, PartTypes DEF Open
  <2>2. /\ Len(Append(box[0], e)) = Len(box[0]) + 1 /\ Len(box[0]) \in Nat
        /\ Append(box[0], e)[Len(box[0]) + 1] = e
        /\ \A i \in 1 .. Len(box[0]) : Append(box[0], e)[i] = box[0][i]
    BY <1>2, <2>1, SeqFacts
  <2>3. Len(box'[0]) = Len(box[0]) + 1
    BY <2>1, <2>2
  <2>4. Took(0) + Len(box[0]) = pos /\ Took(0) \in Nat
    BY <1>3, <1>6, CountFacts
  <2>5. Ahead(0)' = pos + 1
    <3>1. Ahead(0)' = Took(0) + (Len(box[0]) + 1)
      BY <1>4, <2>3 DEF Ahead
    <3>2. \A a, b \in Nat : a + (b + 1) = a + b + 1
      OBVIOUS
    <3>3. QED
      BY <2>2, <2>4, <3>1, <3>2
  <2>6. \A n \in Nat : \A i \in 1 .. n + 1 : i \in 1 .. n \/ i = n + 1
    OBVIOUS
  <2>7. ASSUME NEW i \in 1 .. Len(box'[0])
        PROVE  \/ i \in 1 .. Len(box[0]) /\ box'[0][i] = box[0][i]
               \/ i = Len(box[0]) + 1 /\ box'[0][i] = e
    <3>1. i \in 1 .. Len(box[0]) + 1
      BY <2>3, <2>7
    <3>2. i \in 1 .. Len(box[0]) \/ i = Len(box[0]) + 1
      BY <2>2, <2>6, <3>1
    <3>3. QED
      BY <2>1, <2>2, <3>2
  <2>8. QED
    BY <2>2, <2>3, <2>4, <2>5, <2>7
<1>7. InOrder(r)'
  <2>1. \A h \in Stage : Works(h)' => /\ cur'[h].req = r /\ cur'[h].pos = Passed(h)'
                                      /\ Passed(h)' \in Nat
    BY <1>1, <1>4 DEF Tokens, InOrder
  <2>2. ASSUME NEW b \in Stage, Open(b)', NEW i \in 1 .. Len(box'[b])
        PROVE  box'[b][i].req = r /\ box'[b][i].pos = Took(b)' + i - 1
    <3>1. Open(b) /\ Took(b)' = Took(b)
      BY <1>4, <2>2
    <3>2. CASE i \in 1 .. Len(box[b]) /\ box'[b][i] = box[b][i]
      <4>1. box[b][i].req = r /\ box[b][i].pos = Took(b) + i - 1
        BY <3>1, <3>2 DEF Tokens, InOrder
      <4>2. QED
        BY <3>1, <3>2, <4>1
    <3>3. CASE b = 0 /\ i = Len(box[b]) + 1 /\ box'[b][i] = e
      <4>1. Took(0) + Len(box[0]) = pos /\ Took(0) \in Nat /\ Len(box[0]) \in Nat
        BY <1>6, <3>1, <3>3
      <4>2. Took(b) + i - 1 = pos
        BY <3>3, <4>1
      <4>3. QED
        BY <1>2, <1>3, <3>1, <3>3, <4>2
    <3>4. CASE b # 0
      <4>1. box'[b] = box[b]
        BY <1>1, <3>4
      <4>2. QED
        BY <2>2, <3>2, <4>1
    <3>5. QED
      BY <1>6, <2>2, <3>1, <3>2, <3>3, <3>4
  <2>3. \A b \in Stage : b # 0 /\ Open(b)' /\ Live(b - 1)' => Ahead(b)' = Passed(b - 1)'
    <3>1. \A b \in Stage : b # 0 => /\ b - 1 \in Stage /\ Passed(b - 1)' = Passed(b - 1)
                                    /\ (Live(b - 1)' <=> Live(b - 1))
      BY <1>4
    <3>2. QED
      BY <1>4, <1>5, <3>1 DEF Tokens, InOrder
  <2>4. ~err' => \A f, h \in Stage : f < h => Ahead(h)' <= Passed(f)'
    <3>1. \A f, h \in Stage : f < h => h # 0
      OBVIOUS
    <3>2. QED
      <4>1. ASSUME ~err, NEW f \in Stage, NEW h \in Stage, f < h PROVE Ahead(h)' <= Passed(f)'
        <5>1. Ahead(h) <= Passed(f)
          BY <4>1 DEF Tokens, InOrder
        <5>2. Ahead(h)' = Ahead(h) /\ Passed(f)' = Passed(f)
          BY <1>4, <1>5, <3>1, <4>1
        <5>3. QED
          BY <5>1, <5>2
      <4>2. QED
        BY <1>1, <4>1
  <2>5. QED
    BY <2>1, <2>2, <2>3, <2>4 DEF InOrder
<1>8. CASE err
  BY <1>1, <1>7, <1>8, ErrIdle DEF Show, Release
<1>9. CASE ~err
  <2>1. pos' = pos + 1 /\ phase' = IF Wanted THEN "wait" ELSE "show"
    BY <1>9 DEF Show
  <2>2. Fed(r)'
    BY <1>1, <1>3, <1>4, <1>6, <2>1 DEF Fed
  <2>3. Wanted => phase' = "wait" /\ pos = pos' - 1
    BY <2>1 DEF Types
  <2>4. Wants'
    <3>1. \A g \in Stage : ~(Works(g)' /\ cur'[g].want)
      BY <1>1, <1>4, <1>9 DEF Tokens, Wants
    <3>2. ASSUME NEW b \in Stage, Open(b)', NEW i \in 1 .. Len(box'[b]), box'[b][i].want
          PROVE  phase' = "wait" /\ box'[b][i].pos = pos' - 1
      <4>1. Open(b)
        BY <1>4, <3>2
      <4>2. ~(i \in 1 .. Len(box[b]) /\ box'[b][i] = box[b][i])
        BY <1>1, <1>9, <3>2, <4>1 DEF Tokens, Wants
      <4>3. b = 0 /\ box'[b][i] = e
        BY <1>1, <1>6, <3>2, <4>1, <4>2
      <4>4. QED
        BY <1>2, <2>3, <3>2, <4>3
    <3>3. QED
      BY <3>1, <3>2 DEF Wants
  <2>5. Answered'
    <3>1. box'[NGPU] = <<>>
      BY <1>1, <1>9 DEF Tokens, Answered
    <3>2. pos' > 0 /\ phase' # "got"
      BY <2>1 DEF Types
    <3>3. QED
      BY <1>1, <1>9, <3>1, <3>2 DEF Answered
  <2>6. phase' \in {"show", "wait"}
    BY <2>1
  <2>7. QED
    BY <1>7, <2>2, <2>4, <2>5, <2>6 DEF Tokens
<1>10. QED
  BY <1>8, <1>9

\* The logits come.
LEMMA TokensWait ==
  ASSUME Types, Control, NEW r \in Nat, Tokens(r), Wait
  PROVE  /\ Tokens(r)' /\ phase' = "got" /\ ~err /\ Head(box[NGPU]) = box[NGPU][1]
         /\ logits' = box[NGPU][1].load /\ \A g \in Stage : Len(text[g]) = pos
         /\ UNCHANGED <<holder, stageVars, req, pos>>
<1> USE StageFacts
<1>1. /\ UNCHANGED <<pc, cur, text, stopped, err, req>> /\ phase = "wait" /\ box[NGPU] # <<>>
      /\ box' = [box EXCEPT ![NGPU] = Tail(@)]
  BY DEF Wait, Release, stageVars
<1>2. ~err /\ Len(box[NGPU]) = 1 /\ box[NGPU][1].pos = pos - 1 /\ Passed(NGPU - 1) = pos
  BY <1>1 DEF Tokens, Answered
<1>3. Tail(box[NGPU]) = <<>> /\ Head(box[NGPU]) = box[NGPU][1]
  <2>1. box[NGPU] \in Seq(Entry)
    BY PartTypes
  <2>2. QED
    BY <1>2, <2>1, OneFacts
<1>4. phase' = "got" /\ logits' = box[NGPU][1].load /\ UNCHANGED <<holder, pos, req, stageVars>>
  BY <1>2, <1>3 DEF Wait
<1>5. \A g \in Stage : pc[g] = "pop" /\ box[g] = <<>> /\ Len(text[g]) = pos
  BY <1>2, Drained
<1>6. box'[NGPU] = <<>> /\ \A g \in Stage : box'[g] = box[g]
  BY <1>1, <1>3 DEF Types
<1>7. InOrder(r)' /\ \A g \in Stage : Ahead(g)' = Ahead(g) /\ (Open(g)' <=> Open(g))
  BY <1>1, <1>6, SameOrder DEF Tokens
<1>8. Fed(r)'
  BY <1>1, <1>2, <1>4, <1>7 DEF Tokens, Fed, Feeding
<1>9. \A b \in Box : box'[b] = <<>>
  BY <1>5, <1>6
<1>10. Wants'
  <2>1. \A g \in Stage : ~Works(g)' /\ 1 .. Len(box'[g]) = {}
    <3>1. Len(<<>>) = 0 /\ 1 .. 0 = {}
      OBVIOUS
    <3>2. QED
      BY <1>1, <1>5, <1>9, <3>1 DEF Works
  <2>2. QED
    BY <2>1 DEF Wants
<1>11. Answered'
  BY <1>1, <1>2, <1>4, <1>5, <1>9 DEF Answered, Empty
<1>12. QED
  BY <1>2, <1>3, <1>4, <1>5, <1>7, <1>8, <1>10, <1>11 DEF Tokens

\* The other steps of the holder, of main and of the workers.
LEMMA TokensHolder ==
  ASSUME Types, Control, NEW r \in Nat, Tokens(r), Drives \/ Frees \/ \E w \in Worker : Lock(w)
  PROVE  Tokens(r)' \/ (EndRequest /\ Rest')
<1> USE StageFacts
<1>1. ASSUME UNCHANGED <<boxVars, stageVars>> PROVE InOrder(r)'
  BY <1>1, SameOrder DEF boxVars, stageVars, Tokens
<1>2. ASSUME UNCHANGED <<boxVars, stageVars>>, err, phase' \in {"reset", "show", "free", "freed"}
      PROVE  Tokens(r)'
  BY <1>1, <1>2, ErrIdle DEF boxVars
<1>3. CASE ResetBegin
  BY <1>2, <1>3 DEF ResetBegin, Tokens
<1>4. CASE SendReset \/ Ack
  BY <1>4 DEF SendReset, Ack, Tokens
<1>5. CASE ShowBegin
  <2>1. CASE err
    BY <1>2, <1>5, <2>1 DEF ShowBegin, Release
  <2>2. CASE ~err
    <3>1. phase = "show" /\ phase' = "submit" /\ UNCHANGED <<boxVars, stageVars, req, pos>>
      BY <1>5, <2>2 DEF ShowBegin
    <3>2. InOrder(r)' /\ \A g \in Stage : /\ (Works(g)' <=> Works(g)) /\ (Open(g)' <=> Open(g))
                                          /\ Ahead(g)' = Ahead(g)
      BY <3>1, SameOrder DEF boxVars, stageVars, Tokens
    <3>3. Fed(r)'
      BY <2>2, <3>1, <3>2 DEF Tokens, Fed, Feeding
    <3>4. Wants'
      BY <2>2, <3>1, <3>2 DEF Tokens, Wants, boxVars, stageVars
    <3>5. Answered'
      BY <2>2, <3>1 DEF Tokens, Answered, boxVars
    <3>6. QED
      BY <3>1, <3>2, <3>3, <3>4, <3>5 DEF Tokens
  <2>3. QED
    BY <2>1, <2>2
<1>6. CASE WaitFails
  <2>1. err
    BY <1>6, AllOpen DEF WaitFails, Tokens
  <2>2. QED
    BY <1>2, <1>6, <2>1 DEF WaitFails, Release
<1>7. CASE Sample
  <2>1. /\ phase = "got" /\ phase' = "show" /\ UNCHANGED <<boxVars, stageVars, req, pos>>
        /\ ~err /\ box[NGPU] = <<>>
    BY <1>7 DEF Sample, Tokens, Answered, Empty
  <2>2. InOrder(r)' /\ \A g \in Stage : /\ (Works(g)' <=> Works(g)) /\ (Open(g)' <=> Open(g))
                                        /\ Ahead(g)' = Ahead(g)
    BY <2>1, SameOrder DEF boxVars, stageVars, Tokens
  <2>3. Fed(r)'
    BY <2>1, <2>2 DEF Tokens, Fed, Feeding
  <2>4. Wants'
    BY <2>1, <2>2 DEF Tokens, Wants, boxVars, stageVars
  <2>5. Answered'
    BY <2>1 DEF Answered, boxVars
  <2>6. QED
    BY <2>1, <2>2, <2>3, <2>4, <2>5 DEF Tokens
<1>8. CASE EndRequest
  <2>1. phase = "got" /\ ~err /\ Empty /\ \A g \in Stage : pc[g] = "pop"
    BY <1>8 DEF EndRequest, MayEnd, Tokens, Answered
  <2>2. phase' = "reset" /\ pos' = 0 /\ UNCHANGED <<boxVars, stageVars>>
    BY <1>8 DEF EndRequest, Release
  <2>3. QED
    BY <1>8, <2>1, <2>2 DEF Rest, Empty, boxVars, stageVars
<1>9. CASE FreeBegin \/ Freed
  BY <1>2, <1>9 DEF FreeBegin, Freed, Tokens
<1>10. CASE StopBox(Main)
  <2>1. phase = "free" /\ UNCHANGED <<box, err, cur, pc, text, phase, req, pos>>
        /\ stopped \subseteq stopped'
    BY <1>10 DEF StopBox, workVars
  <2>2. \A g \in Stage : /\ Took(g)' = Took(g) /\ Passed(g)' = Passed(g)
                         /\ (Works(g)' => Works(g))
                         /\ (Live(g)' => Live(g))
                         /\ (pc[g] = "pop" => pc'[g] = "pop" \/ err)
    BY <2>1 DEF Took, Passed, Works, Live
  <2>3. QED
    BY <2>1, <2>2, SameCounts
<1>11. ASSUME NEW w \in Worker, Lock(w) PROVE Tokens(r)'
  <2>1. err
    BY <1>11 DEF Lock, Control, Tokens
  <2>2. QED
    BY <1>2, <1>11, <2>1 DEF Lock
<1>12. QED
  BY <1>3, <1>4, <1>5, <1>6, <1>7, <1>8, <1>9, <1>10, <1>11, TokensShow, TokensWait DEF Drives, Frees

\* Every step keeps Flow.
LEMMA FlowStep ==
  ASSUME Types, Control, Flow, [Next]_vars
  PROVE  Flow'
<1>1. CASE UNCHANGED flowVars
  BY <1>1, FlowQuiet DEF Flow
<1>2. ASSUME ~UNCHANGED flowVars, Rest PROVE Flow'
  BY <1>2, RestStep DEF Flow
<1>3. ASSUME ~UNCHANGED flowVars, Lost PROVE Flow'
  BY <1>3, LostStep DEF Flow
<1>4. ASSUME ~UNCHANGED flowVars, Resetting PROVE Flow'
  <2>1. CASE Resetting' \/ Lost'
    BY <2>1 DEF Flow
  <2>2. CASE /\ Ack /\ \A g \in Stage : pc'[g] = "pop" /\ text'[g] = <<>> /\ box'[g] = <<>>
             /\ box'[NGPU] = <<>> /\ phase' = "show" /\ pos' = 0
             /\ UNCHANGED <<handoff, req, err, stageVars>>
    <3>1. Types' /\ ~err' /\ req \in Nat /\ req = req'
      BY <1>4, <2>2, TypesHolder DEF Drives, Resetting, Types
    <3>2. \E r \in Nat : Tokens(r)'
      BY <2>2, <3>1, TokensBegin
    <3>3. QED
      BY <3>2 DEF Flow
  <2>3. QED
    BY <1>4, <2>1, <2>2, ResettingStep
<1>5. ASSUME ~UNCHANGED flowVars, NEW r \in Nat, Tokens(r) PROVE Flow'
  <2>1. CASE \E g \in Stage : Runs(g) \/ Copies(g) \/ StageFail(g)
    BY <1>5, <2>1, TokensStage DEF Flow
  <2>2. CASE Drives \/ Frees \/ \E w \in Worker : Lock(w)
    BY <1>5, <2>2, TokensHolder DEF Flow
  <2>3. QED
    BY <1>5, <2>1, <2>2, ElsewhereQuiet DEF Next, Serves, Elsewhere
<1>6. QED
  BY <1>1, <1>2, <1>3, <1>4, <1>5 DEF Flow

\* Flow holds in every reachable state.
LEMMA FlowHolds == Spec => []Flow
<1>1. Init => Flow
  BY StageFacts DEF Init, Flow, Rest, Empty
<1>2. QED
  BY <1>1, FlowStep, TypesHold, ControlHolds, PTL DEF Spec

-----------------------------------------------------------------------------
\* "Only legal when the pipeline is idle (server contract)": in either handoff
\* mode and whichever cards fail, whoever takes the engine finds every mailbox
\* empty and every stage waiting, unless the engine is broken.
THEOREM IdleWhenFreeHolds == Spec => []IdleWhenFree
<1>1. Types /\ Control /\ Flow => IdleWhenFree
  <2>1. SUFFICES ASSUME Types, Control, Flow, holder = Nobody, ~err, phase \notin {"free", "freed"}
                 PROVE  /\ \A b \in Box : box[b] = <<>>
                        /\ \A g \in Stage : pc[g] = "pop"
    BY DEF IdleWhenFree
  <2>2. phase = "reset"
    BY <2>1 DEF Control
  <2>3. Rest
    BY <2>1, <2>2 DEF Flow, Resetting, Lost, Tokens
  <2>4. QED
    BY <2>1, <2>3, AllOpen DEF Rest, Empty, Works
<1>2. QED
  BY <1>1, TypesHold, ControlHolds, FlowHolds, PTL

-----------------------------------------------------------------------------
(* What the tokens carry.                                                  *)

\* In the two-buffer mode prompts have one token or two: a card may then not run
\* more than two tokens ahead of the next.
Paced == "p2p" \in DOMAIN LongestPrompt => LongestPrompt["p2p"] <= 2
\* The request under way is such a prompt.
Short == handoff = "p2p" /\ holder # Nobody => plen <= 2

\* A state is made from the tokens before the one at hand and no others, and the
\* residual on a card is that of the token it works on.
Folded(r) ==
  /\ r > 0
  /\ \A g \in Stage : text[g] = Before(r, Len(text[g]))
  /\ \A g \in Stage : pc[g] \in {"send", "push"} => R[g] = <<r, Passed(g)>>
  /\ \A g \in Stage : pc[g] = "run" /\ recv[g] = NoCopy => R[g] = <<r, Passed(g)>>
  /\ ~err /\ box[NGPU] # <<>> => box[NGPU][1].load = <<r, pos - 1>>
  /\ phase = "got" => logits = <<r, pos - 1>>

\* The residuals travel in the mailboxes.
InMail(r) ==
  \A b \in Stage : b # 0 =>
    /\ Open(b) => \A i \in 1 .. Len(box[b]) : box[b][i].load = <<r, box[b][i].pos>>
    /\ pc[b] = "recv" => cur[b].load = <<r, Passed(b)>>

\* Of two cards the one behind has taken no token that the other has not passed
\* on, and is at most two behind.
Apart(g, h) ==
  Live(h) => /\ Took(h) <= Passed(g)
             /\ Open(h) => Ahead(h) <= Passed(g)
             /\ Len(text[g]) <= Len(text[h]) + 2
             /\ Live(g) => Took(g) <= Len(text[h]) + 2
             /\ Open(g) => Ahead(g) <= Len(text[h]) + 2
\* Apart for every pair of cards, and for the holder, which is one ahead at most.
Pace ==
  /\ \A g, h \in Stage : g < h => Apart(g, h)
  /\ phase \in {"show", "submit", "got"} /\ Feeding => \A h \in Stage : pos <= Len(text[h]) + 1

\* Card g has the residual of position p in its buffer, or is copying it there.
Sent(r, g, p) == \/ emit[g] # NoCopy /\ Len(text[g]) = p + 1
                 \/ hand[g][p % 2] = <<r, p>>

\* The residuals travel in the buffers.
Emitted(r) ==
  \A g \in Stage : emit[g] # NoCopy => /\ emit[g].val = <<r, Len(text[g]) - 1>>
                                       /\ emit[g].slot = (Len(text[g]) - 1) % 2
\* The next stage has yet to read the residual of position p from card g.
Due(g, p) ==
  /\ g < NGPU - 1
  /\ \/ pc[g] = "push" /\ p = Passed(g)
     \/ pc[g + 1] = "recv" /\ p = Passed(g + 1)
     \/ pc[g + 1] = "run" /\ recv[g + 1] # NoCopy /\ p = Passed(g + 1)
     \/ Open(g + 1) /\ \E i \in 1 .. Len(box[g + 1]) : p = box[g + 1][i].pos
\* What is yet to be read is there.
Offered(r) == \A g \in Stage : \A p \in Int : Due(g, p) => Sent(r, g, p)
\* A card that copies in waits for the copy out of the same buffer.
Copied ==
  \A g \in Stage : g # 0 /\ pc[g] = "run" /\ recv[g] # NoCopy =>
    /\ recv[g].slot = Passed(g) % 2
    /\ emit[g - 1] # NoCopy /\ emit[g - 1].slot = recv[g].slot => recv[g].wait

\* Contents, the third layer, by the way the residuals travel.
Contents(r) ==
  /\ Folded(r)
  /\ handoff = "pinned" => InMail(r)
  /\ handoff = "p2p" => Pace /\ Emitted(r) /\ Offered(r) /\ Copied

\* Flow with Contents.
FullFlow == Rest \/ Resetting \/ Lost \/ \E r \in Nat : Tokens(r) /\ Contents(r)

\* The logits that the holder has are older than those it waits for.
Older == /\ logits # Junk => logits[2] < pos /\ (phase = "wait" => logits[2] < pos - 1)
         /\ phase \in {"wait", "got"} => pos > 0

-----------------------------------------------------------------------------
(* The contents: how far the cards are apart.                              *)

\* A step of a card keeps Pace.
LEMMA PaceStage ==
  ASSUME Types, Control, NEW r \in Nat, Tokens(r), Tokens(r)', Pace, NEW g \in Stage,
         Runs(g) \/ Copies(g) \/ StageFail(g)
  PROVE  Pace'
<1> USE StageFacts
<1>1. ASSUME NEW x \in Stage
      PROVE  /\ Took(x) \in Nat /\ Passed(x) \in Int /\ Ahead(x) \in Nat /\ Len(text[x]) \in Nat
             /\ Took(x) <= Ahead(x) /\ Passed(x) <= Len(text[x]) /\ pos \in Nat
  BY CountFacts DEF Types
<1>2. ASSUME phase' = phase, pos' = pos, Feeding' => Feeding,
             \A h \in Stage : Len(text[h]) <= Len(text'[h]) /\ Len(text'[h]) \in Nat,
             \A x, h \in Stage : x < h => Apart(x, h)'
      PROVE  Pace'
  <2>1. ASSUME phase \in {"show", "submit", "got"}, Feeding', NEW h \in Stage
        PROVE  pos <= Len(text'[h]) + 1
    <3>1. pos <= Len(text[h]) + 1
      BY <1>2, <2>1 DEF Pace
    <3>2. Len(text[h]) <= Len(text'[h]) /\ Len(text'[h]) \in Nat
      BY <1>2
    <3>3. pos \in Nat /\ Len(text[h]) \in Nat
      BY <1>1
    <3> HIDE StageFacts
    <3>4. \A a, b, c \in Nat : a <= b + 1 /\ b <= c => a <= c + 1
      OBVIOUS
    <3>5. QED
      BY <3>1, <3>2, <3>3, <3>4
  <2>2. QED
    BY <1>2, <2>1 DEF Pace
\* The texts do not change.
<1>0. ASSUME text' = text, NEW h \in Stage
      PROVE  Len(text[h]) <= Len(text'[h]) /\ Len(text'[h]) \in Nat
  <2>1. Len(text[h]) \in Nat /\ text'[h] = text[h]
    BY <1>0, <1>1
  <2>2. QED
    BY <2>1
<1>3. CASE Keeps(g)
  <2>1. /\ UNCHANGED <<err, phase, pos>>
        /\ \A h \in Stage :
              /\ Took(h)' = Took(h) /\ Passed(h)' = Passed(h) /\ Ahead(h)' = Ahead(h)
              /\ (Live(h)' => Live(h)) /\ (Open(h)' => Open(h))
              /\ text'[h] = text[h] \/ (Live(h) /\ Len(text'[h]) = Len(text[h]) + 1
                                        /\ Took(h) = Len(text[h]) + 1)
    BY <1>3, KeepEffect
  <2>2. ASSUME NEW h \in Stage
        PROVE  /\ Len(text[h]) <= Len(text'[h]) /\ Len(text'[h]) \in Nat
               /\ Len(text'[h]) = Len(text[h]) \/ (Live(h) /\ Len(text'[h]) = Took(h))
    <3>1. Len(text[h]) \in Nat
      BY <1>1
    <3>2. CASE text'[h] = text[h]
      BY <3>1, <3>2
    <3>3. CASE Live(h) /\ Len(text'[h]) = Len(text[h]) + 1 /\ Took(h) = Len(text[h]) + 1
      BY <3>1, <3>3
    <3>4. QED
      BY <2>1, <3>2, <3>3
  <2>3. ASSUME NEW x \in Stage, NEW h \in Stage, x < h, Live(h)'
        PROVE  /\ Took(h)' <= Passed(x)'
               /\ Open(h)' => Ahead(h)' <= Passed(x)'
               /\ Len(text'[x]) <= Len(text'[h]) + 2
               /\ Live(x)' => Took(x)' <= Len(text'[h]) + 2
               /\ Open(x)' => Ahead(x)' <= Len(text'[h]) + 2
    <3>1. /\ Took(h) <= Passed(x)
          /\ Open(h) => Ahead(h) <= Passed(x)
          /\ Len(text[x]) <= Len(text[h]) + 2
          /\ Live(x) => Took(x) <= Len(text[h]) + 2
          /\ Open(x) => Ahead(x) <= Len(text[h]) + 2
      BY <2>1, <2>3 DEF Pace, Apart
    <3>0. /\ Len(text[h]) \in Nat /\ Len(text'[h]) \in Nat /\ Len(text[h]) <= Len(text'[h])
          /\ Len(text'[x]) \in Nat /\ Took(x) \in Nat /\ Ahead(x) \in Nat
      BY <1>1, <2>2
    <3>t. \A a, b, c \in Nat : a <= b + 2 /\ b <= c => a <= c + 2
      OBVIOUS
    <3>2. Took(h)' <= Passed(x)' /\ (Open(h)' => Ahead(h)' <= Passed(x)')
      BY <2>1, <3>1
    <3>3. Len(text'[x]) <= Len(text'[h]) + 2
      <4>1. Len(text'[x]) <= Len(text[h]) + 2
        BY <2>2, <3>1
      <4>2. QED
        BY <3>0, <3>t, <4>1
    <3>4. Live(x)' => Took(x)' <= Len(text'[h]) + 2
      <4>1. Live(x)' => Took(x)' <= Len(text[h]) + 2 /\ Took(x)' \in Nat
        BY <1>1, <2>1, <3>1
      <4>2. QED
        BY <3>0, <3>t, <4>1
    <3>5. Open(x)' => Ahead(x)' <= Len(text'[h]) + 2
      <4>1. Open(x)' => Ahead(x)' <= Len(text[h]) + 2 /\ Ahead(x)' \in Nat
        BY <1>1, <2>1, <3>1
      <4>2. QED
        BY <3>0, <3>t, <4>1
    <3>6. QED
      BY <3>2, <3>3, <3>4, <3>5
  <2>4. Feeding' => Feeding
    BY <2>1 DEF Feeding
  <2>5. QED
    BY <1>2, <2>1, <2>2, <2>3, <2>4 DEF Apart
<1>4. CASE Popped(g)
  <2>1. /\ UNCHANGED <<err, text, phase, pos>> /\ Open(g) /\ Live(g)
        /\ Took(g)' = Took(g) + 1 /\ Passed(g)' = Passed(g) /\ Ahead(g)' = Ahead(g)
        /\ Took(g)' <= Ahead(g)
        /\ \A h \in Stage : h # g =>
              /\ Took(h)' = Took(h) /\ Passed(h)' = Passed(h) /\ Ahead(h)' = Ahead(h)
              /\ (Live(h)' <=> Live(h)) /\ (Open(h)' <=> Open(h))
    BY <1>4, PoppedEffect
  <2>2. ASSUME NEW h \in Stage
        PROVE  /\ Passed(h)' = Passed(h) /\ Ahead(h)' = Ahead(h)
               /\ Live(h)' => Live(h)
               /\ Open(h)' => Open(h)
               /\ Took(h)' = Took(h) \/ (Open(h) /\ Live(h) /\ Took(h)' <= Ahead(h))
               /\ Took(h)' \in Nat
    <3>1. CASE h = g
      <4>1. Took(g) \in Nat
        BY <1>1
      <4>2. Took(g) + 1 \in Nat
        BY <4>1
      <4>3. QED
        BY <2>1, <3>1, <4>2
    <3>2. CASE h # g
      <4>1. Took(h) \in Nat
        BY <1>1
      <4>2. QED
        BY <2>1, <3>2, <4>1
    <3>3. QED
      BY <3>1, <3>2
  <2>3. ASSUME NEW x \in Stage, NEW h \in Stage, x < h PROVE Apart(x, h)'
    <3>1. Apart(x, h)
      BY <2>3 DEF Pace
    <3>0. /\ Ahead(h) \in Nat /\ Ahead(x) \in Nat /\ Took(h)' \in Nat /\ Took(x)' \in Nat
          /\ Passed(x) \in Int /\ Len(text[h]) \in Nat /\ Took(h) \in Nat /\ Took(x) \in Nat
      BY <1>1, <2>2
    <3>2. Live(h)' => Took(h)' <= Passed(x)
      <4>1. Took(h)' = Took(h) \/ (Open(h) /\ Live(h) /\ Took(h)' <= Ahead(h))
        BY <2>2
      <4>2. Live(h)' => Live(h)
        BY <2>2
      <4>3. Live(h) => Took(h) <= Passed(x) /\ (Open(h) => Ahead(h) <= Passed(x))
        BY <3>1 DEF Apart
      <4>4. \A a, b \in Nat, c \in Int : a <= b /\ b <= c => a <= c
        OBVIOUS
      <4>5. CASE Took(h)' = Took(h)
        BY <4>2, <4>3, <4>5
      <4>6. CASE Open(h) /\ Live(h) /\ Took(h)' <= Ahead(h)
        BY <3>0, <4>3, <4>4, <4>6
      <4>7. QED
        BY <4>1, <4>5, <4>6
    <3>3. Live(h)' /\ Live(x)' => Took(x)' <= Len(text[h]) + 2
      <4>1. Took(x)' = Took(x) \/ (Open(x) /\ Live(x) /\ Took(x)' <= Ahead(x))
        BY <2>2
      <4>2. (Live(h)' => Live(h)) /\ (Live(x)' => Live(x))
        BY <2>2
      <4>3. Live(h) => /\ Live(x) => Took(x) <= Len(text[h]) + 2
                       /\ Open(x) => Ahead(x) <= Len(text[h]) + 2
        BY <3>1 DEF Apart
      <4>4. \A a, b, c \in Nat : a <= b /\ b <= c + 2 => a <= c + 2
        OBVIOUS
      <4>5. CASE Took(x)' = Took(x)
        BY <4>2, <4>3, <4>5
      <4>6. CASE Open(x) /\ Live(x) /\ Took(x)' <= Ahead(x)
        BY <3>0, <4>2, <4>3, <4>4, <4>6
      <4>7. QED
        BY <4>1, <4>5, <4>6
    <3>4. QED
      BY <2>1, <2>2, <3>1, <3>2, <3>3 DEF Apart
  <2>4. Feeding' => Feeding
    BY <2>1 DEF Feeding
  <2>5. QED
    BY <1>0, <1>2, <2>1, <2>3, <2>4
<1>5. CASE Push(g)
  <2>1. /\ UNCHANGED <<err, text, phase, pos>> /\ Live(g)
        /\ Took(g) = Passed(g) + 1 /\ Passed(g)' = Passed(g) + 1
        /\ \A h \in Stage : h # g => Passed(h)' = Passed(h)
        /\ \A h \in Stage : (Open(h)' <=> Open(h)) /\ (Live(h)' <=> Live(h)) /\ Took(h)' = Took(h)
        /\ \A h \in Stage : h # g + 1 => Ahead(h)' = Ahead(h)
        /\ g + 1 \in Stage /\ Open(g + 1) => Ahead(g + 1)' = Took(g)
    <3>1. /\ UNCHANGED <<err, text, phase, pos>> /\ Live(g)
          /\ Took(g) = Passed(g) + 1 /\ Passed(g)' = Passed(g) + 1
          /\ g + 1 \in Stage /\ Open(g + 1) => Ahead(g + 1)' = Passed(g) + 1
      BY <1>5, PushEffect
    <3>2. \A h \in Stage : h # g => Passed(h)' = Passed(h)
      BY <1>5, PushOther
    <3>3. \A h \in Stage : (Open(h)' <=> Open(h)) /\ (Live(h)' <=> Live(h)) /\ Took(h)' = Took(h)
      BY <1>5, PushEffect
    <3>4. \A h \in Stage : h # g + 1 => Ahead(h)' = Ahead(h)
      BY <1>5, PushEffect
    <3>5. QED
      BY <3>1, <3>2, <3>3, <3>4
  <2>2. ASSUME NEW h \in Stage
        PROVE  /\ Passed(h)' \in Int /\ Passed(h) <= Passed(h)'
               /\ Open(h) => Ahead(h)' = Ahead(h) \/ (h = g + 1 /\ Ahead(h)' = Took(g))
    <3>1. Passed(h) \in Int /\ (Passed(h)' = Passed(h) \/ Passed(h)' = Passed(h) + 1)
      BY <1>1, <2>1
    <3>2. Passed(h)' \in Int /\ Passed(h) <= Passed(h)'
      BY <3>1
    <3>3. QED
      BY <2>1, <3>2
  <2>3. ASSUME NEW x \in Stage, NEW h \in Stage, x < h PROVE Apart(x, h)'
    <3>1. Apart(x, h)
      BY <2>3 DEF Pace
    <3>0. /\ Took(h) \in Nat /\ Passed(x) \in Int /\ Passed(x)' \in Int /\ Passed(x) <= Passed(x)'
          /\ Ahead(h) \in Nat
      BY <1>1, <2>2
    <3>2. Live(h) => Took(h) <= Passed(x)'
      <4>1. Live(h) => Took(h) <= Passed(x)
        BY <3>1 DEF Apart
      <4>2. QED
        BY <3>0, <4>1
    <3>3. Live(h) /\ Open(h) => Ahead(h)' <= Passed(x)'
      <4>1. CASE h # g + 1
        <5>1. Ahead(h)' = Ahead(h) /\ (Live(h) /\ Open(h) => Ahead(h) <= Passed(x))
          BY <2>1, <3>1, <4>1 DEF Apart
        <5>2. QED
          BY <3>0, <5>1
      <4>2. CASE h = g + 1 /\ x = g
        <5>1. /\ Open(h) => Ahead(h)' = Took(g)
              /\ Passed(x)' = Passed(g) + 1 /\ Took(g) = Passed(g) + 1 /\ Took(g) \in Nat
          BY <1>1, <2>1, <4>2
        <5>2. QED
          BY <5>1
      <4>3. CASE h = g + 1 /\ x # g
        <5>1. x < g
          BY <2>3, <4>3
        <5>2. Took(g) <= Passed(x)
          BY <2>1, <5>1 DEF Pace, Apart
        <5>3. /\ Open(h) => Ahead(h)' = Took(g)
              /\ Took(g) \in Nat
          BY <1>1, <2>1, <4>3
        <5>4. QED
          BY <3>0, <5>2, <5>3
      <4>4. QED
        BY <4>1, <4>2, <4>3
    <3>4. Live(h) /\ Open(x) => Ahead(x)' <= Len(text[h]) + 2
      <4>1. CASE x # g + 1
        BY <2>1, <3>1, <4>1 DEF Apart
      <4>2. CASE x = g + 1
        <5>1. g < h
          BY <2>3, <4>2
        <5>2. Live(h) => Took(g) <= Len(text[h]) + 2
          BY <2>1, <5>1 DEF Pace, Apart
        <5>3. QED
          BY <2>1, <4>2, <5>2
      <4>3. QED
        BY <4>1, <4>2
    <3>5. QED
      BY <2>1, <3>1, <3>2, <3>3, <3>4 DEF Apart
  <2>4. Feeding' => Feeding
    BY <2>1 DEF Feeding
  <2>5. QED
    BY <1>0, <1>2, <2>1, <2>3, <2>4
<1>6. CASE StageFail(g)
  <2>1. /\ ~Live(g)' /\ err' /\ ~Open(g)' /\ Passed(g)' = Len(text[g])
        /\ UNCHANGED <<text, phase, pos>>
        /\ \A h \in Stage : h # g => /\ Took(h)' = Took(h) /\ Passed(h)' = Passed(h)
                                     /\ Ahead(h)' = Ahead(h)
                                     /\ (Live(h)' <=> Live(h)) /\ (Open(h)' <=> Open(h))
    BY <1>6 DEF StageFail, Took, Passed, Ahead, Live, Open, workVars, Types
  <2>2. ASSUME NEW h \in Stage PROVE Passed(h)' \in Int /\ Passed(h) <= Passed(h)'
    <3>1. Passed(h) \in Int /\ Passed(h) <= Len(text[h]) /\ Len(text[h]) \in Nat
      BY <1>1
    <3>2. Passed(h)' = Passed(h) \/ Passed(h)' = Len(text[h])
      BY <2>1
    <3> HIDE StageFacts
    <3>3. CASE Passed(h)' = Passed(h)
      BY <3>1, <3>3
    <3>4. CASE Passed(h)' = Len(text[h])
      BY <3>1, <3>4
    <3>5. QED
      BY <3>2, <3>3, <3>4
  <2>3. ASSUME NEW x \in Stage, NEW h \in Stage, x < h PROVE Apart(x, h)'
    <3>1. Apart(x, h)
      BY <2>3 DEF Pace
    <3>2. CASE h = g
      BY <2>1, <3>2 DEF Apart
    <3>3. CASE h # g
      <4>1. Live(h) => Took(h)' <= Passed(x)' /\ (Open(h) => Ahead(h)' <= Passed(x)')
        <5>1. /\ Took(h) \in Nat /\ Ahead(h) \in Nat /\ Passed(x) \in Int /\ Passed(x)' \in Int
              /\ Passed(x) <= Passed(x)' /\ Took(h)' = Took(h) /\ Ahead(h)' = Ahead(h)
          BY <1>1, <2>1, <2>2, <3>3
        <5>2. Live(h) => Took(h) <= Passed(x) /\ (Open(h) => Ahead(h) <= Passed(x))
          BY <3>1 DEF Apart
        <5>3. (Live(h)' <=> Live(h)) /\ (Open(h)' <=> Open(h))
          BY <2>1, <3>3
        <5>4. QED
          BY <5>1, <5>2, <5>3
      <4>2. QED
        BY <2>1, <3>1, <3>3, <4>1 DEF Apart
    <3>4. QED
      BY <3>2, <3>3
  <2>4. Feeding' => Feeding
    BY <2>1 DEF Feeding
  <2>5. QED
    BY <1>0, <1>2, <2>1, <2>3, <2>4
<1>7. QED
  BY <1>3, <1>4, <1>5, <1>6 DEF Runs, Keeps

-----------------------------------------------------------------------------
(* The contents: the states of the cards and the residuals on them.        *)

\* Before(r, n): the tokens of r before position n, one more at the end.
LEMMA BeforeFacts ==
  ASSUME NEW r \in Nat, NEW p \in Nat
  PROVE  /\ Before(r, p) \in Seq(Residual) /\ Len(Before(r, p)) = p
         /\ Before(r, 0) = <<>>
         /\ Append(Before(r, p), <<r, p>>) = Before(r, p + 1)
<1>1. \A n \in Nat : Before(r, n) \in [1 .. n -> Residual]
  <2>1. SUFFICES ASSUME NEW n \in Nat PROVE Before(r, n) \in [1 .. n -> Residual]
    OBVIOUS
  <2>2. \A i \in 1 .. n : <<r, i - 1>> \in Residual
    BY DEF Residual
  <2>3. QED
    BY <2>2 DEF Before
<1>2. \A n \in Nat : Before(r, n) \in Seq(Residual) /\ Len(Before(r, n)) = n
  BY <1>1
<1>3. \A n \in Nat : \A i \in 1 .. n : Before(r, n)[i] = <<r, i - 1>>
  BY DEF Before
<1>4. Before(r, 0) = <<>>
  <2>1. Before(r, 0) \in Seq(Residual) /\ Len(Before(r, 0)) = 0
    BY <1>2
  <2>2. QED
    BY <2>1, SeqFacts
<1>5. Append(Before(r, p), <<r, p>>) = Before(r, p + 1)
  <2> DEFINE s == Before(r, p)
             e == <<r, p>>
             t == Before(r, p + 1)
  <2>1. e \in Residual /\ s \in Seq(Residual) /\ Len(s) = p /\ t \in Seq(Residual) /\ Len(t) = p + 1
    <3>1. e \in Residual /\ p + 1 \in Nat
      BY DEF Residual
    <3>2. QED
      BY <1>2, <3>1
  <2>2. /\ Append(s, e) \in Seq(Residual) /\ Len(Append(s, e)) = p + 1
        /\ Append(s, e)[p + 1] = e /\ \A i \in 1 .. p : Append(s, e)[i] = s[i]
    <3>1. /\ Append(s, e) \in Seq(Residual) /\ Len(Append(s, e)) = Len(s) + 1
          /\ Append(s, e)[Len(s) + 1] = e /\ \A i \in 1 .. Len(s) : Append(s, e)[i] = s[i]
      BY <2>1, SeqFacts
    <3>2. QED
      BY <2>1, <3>1
  <2>3. ASSUME NEW i \in 1 .. p + 1 PROVE Append(s, e)[i] = t[i]
    <3>1. t[i] = <<r, i - 1>>
      BY <1>3
    <3>2. CASE i \in 1 .. p
      BY <1>3, <2>2, <3>1, <3>2
    <3>3. CASE i = p + 1
      <4>1. i - 1 = p
        BY <3>3
      <4>2. QED
        BY <2>2, <3>1, <3>3, <4>1
    <3>4. i \in 1 .. p \/ i = p + 1
      OBVIOUS
    <3>5. QED
      BY <3>2, <3>3, <3>4
  <2> HIDE DEF s, e, t
  <2>4. Append(s, e) = t
    BY <2>1, <2>2, <2>3, SeqEqual
  <2>5. QED
    BY <2>4 DEF s, e, t
<1>6. QED
  BY <1>2, <1>4, <1>5

\* Of a residual of the request, on the state made from the tokens before it, the
\* layers make one that is right again.
LEMMA LayersFacts ==
  ASSUME NEW r \in Nat, r > 0, NEW g \in Stage, NEW p \in Nat,
         R[g] = <<r, p>>, text[g] = Before(r, p)
  PROVE  Layers(g) = <<r, p>>
<1>1. <<r, p>> # Junk
  BY DEF Junk
<1>2. QED
  BY <1>1 DEF Layers

\* A step of a card folds the token at hand into its state and no other.
LEMMA FoldedStage ==
  ASSUME Types, Control, Copying, NEW r \in Nat, Tokens(r), Contents(r), NEW g \in Stage,
         Runs(g) \/ Copies(g) \/ StageFail(g)
  PROVE  Folded(r)'
<1> USE StageFacts
<1>0. /\ Folded(r) /\ r > 0 /\ handoff \in {"pinned", "p2p"}
      /\ handoff = "pinned" => InMail(r)
      /\ handoff = "p2p" => Pace /\ Emitted(r) /\ Offered(r) /\ Copied
  BY PromptFacts DEF Contents, Folded, Types
\* The logits mailbox.
<1>1. /\ ~err' /\ box'[NGPU] # <<>> => box'[NGPU][1].load = <<r, pos' - 1>>
      /\ phase' = "got" => logits' = <<r, pos' - 1>>
  <2>1. UNCHANGED <<phase, logits, pos>> /\ (~err' => ~err)
    <3>1. UNCHANGED workVars
      BY DEF Runs, Copies, Popped, PopStopped, Receive, RecvResidualDev, Run, Send, Push, StopBox,
         CopyIn, CopyOut, StageFail
    <3>2. err' = err \/ err'
      BY DEF Runs, Copies, Popped, PopStopped, Receive, RecvResidualDev, Run, Send, Push, StopBox,
         CopyIn, CopyOut, StageFail, boxVars
    <3>3. QED
      BY <3>1, <3>2 DEF workVars
  <2>2. CASE box'[NGPU] = box[NGPU]
    BY <1>0, <2>1, <2>2 DEF Folded
  <2>3. CASE box'[NGPU] # box[NGPU]
    <3>1. Push(g) /\ g + 1 = NGPU /\ Passes(g) /\ box'[NGPU] = Append(box[NGPU], Carried(g))
      <4>1. Push(g)
        <5>1. ASSUME Popped(g) PROVE box'[NGPU] = box[NGPU]
          BY <5>1 DEF Popped, Types
        <5>2. ASSUME ~Push(g), ~Popped(g) PROVE box'[NGPU] = box[NGPU]
          <6>1. CASE PopStopped(g) \/ Receive(g) \/ RecvResidualDev(g) \/ Run(g) \/ Send(g)
            BY <6>1 DEF PopStopped, Receive, RecvResidualDev, Run, Send, boxVars
          <6>2. CASE StopBox(g)
            BY <6>2 DEF StopBox
          <6>3. CASE CopyIn(g) \/ CopyOut(g) \/ StageFail(g)
            BY <6>3 DEF CopyIn, CopyOut, StageFail, boxVars
          <6>4. QED
            BY <5>2, <6>1, <6>2, <6>3 DEF Runs, Copies
        <5>3. QED
          BY <2>3, <5>1, <5>2
      <4>2. QED
        BY <2>3, <4>1 DEF Push, Pushed, Carried, Types
    <3>2. SUFFICES ASSUME ~err PROVE box'[NGPU][1].load = <<r, pos - 1>>
      BY <1>0, <2>1 DEF Folded
    <3>3. /\ Carried(g) \in Entry /\ Carried(g).load = R[g] /\ Carried(g).pos = Passed(g)
          /\ cur[g].pos = Passed(g) /\ cur[g].pos # Reset /\ pc[g] = "push" /\ Works(g)
      BY <3>1, PushEffect
    <3>4. phase = "wait" /\ Passed(g) = pos - 1
      <4>1. cur[g].want
        BY <3>1, <3>3 DEF Passes, Answers
      <4>2. QED
        BY <3>2, <3>3, <4>1 DEF Tokens, Wants
    <3>5. box[NGPU] = <<>>
      <4>1. Passed(NGPU - 1) # pos
        <5>1. g = NGPU - 1
          BY <3>1
        <5>2. QED
          BY <3>4, <5>1 DEF Types
      <4>2. QED
        BY <3>2, <4>1 DEF Tokens, Answered
    <3>6. box'[NGPU][1] = Carried(g)
      <4>1. box[NGPU] \in Seq(Entry)
        BY PartTypes
      <4>2. Append(box[NGPU], Carried(g))[1] = Carried(g)
        BY <3>3, <3>5, <4>1, OneFacts
      <4>3. QED
        BY <3>1, <4>2
    <3>7. R[g] = <<r, Passed(g)>>
      BY <1>0, <3>3 DEF Folded
    <3>8. QED
      BY <3>3, <3>4, <3>6, <3>7
  <2>4. QED
    BY <2>2, <2>3
\* Steps that change no state and no residual of a card.
<1>2. ASSUME UNCHANGED <<text, R>>,
             \A h \in Stage :
               /\ pc'[h] \in {"send", "push"} =>
                    pc[h] \in {"send", "push"} /\ Passed(h)' = Passed(h)
               /\ pc'[h] = "run" /\ recv'[h] = NoCopy =>
                    pc[h] = "run" /\ recv[h] = NoCopy /\ Passed(h)' = Passed(h)
      PROVE  Folded(r)'
  BY <1>0, <1>1, <1>2 DEF Folded
<1>3. CASE Popped(g)
  <2>1. UNCHANGED <<text, R, recv>>
    BY <1>3 DEF Popped
  <2>2. pc'[g] = "recv" /\ \A h \in Stage : h # g => pc'[h] = pc[h] /\ Passed(h)' = Passed(h)
    BY <1>3, PoppedEffect
  <2>3. QED
    BY <1>2, <2>1, <2>2
<1>4. CASE Push(g)
  <2>1. UNCHANGED <<text, R, recv>>
    BY <1>4 DEF Push
  <2>2. pc'[g] = "pop" /\ \A h \in Stage : h # g => pc'[h] = pc[h] /\ Passed(h)' = Passed(h)
    <3>1. pc'[g] = "pop"
      BY <1>4 DEF Push, Types
    <3>2. QED
      BY <1>4, <3>1, PushOther
  <2>3. QED
    BY <1>2, <2>1, <2>2
<1>5. CASE StageFail(g)
  <2>1. UNCHANGED <<text, R, recv>> /\ pc'[g] = "fail" /\ \A h \in Stage : h # g => pc'[h] = pc[h]
    BY <1>5 DEF StageFail, Types
  <2>2. \A h \in Stage : h # g => Passed(h)' = Passed(h)
    BY <2>1 DEF Passed
  <2>3. QED
    BY <1>2, <2>1, <2>2
<1>6. ASSUME Keeps(g) PROVE \A h \in Stage : Passed(h)' = Passed(h) /\ Took(h)' = Took(h)
  BY <1>6, KeepEffect
<1>7. CASE PopStopped(g) \/ StopBox(g)
  <2>1. /\ UNCHANGED <<text, R, recv>>
        /\ \A h \in Stage : pc'[h] = pc[h] \/ pc'[h] = "exited"
    BY <1>7 DEF PopStopped, StopBox, Types
  <2>2. QED
    BY <1>2, <1>6, <1>7, <2>1 DEF Keeps
<1>8. CASE Send(g)
  <2>1. /\ UNCHANGED <<text, R, recv>> /\ pc[g] = "send" /\ pc'[g] = "push"
        /\ \A h \in Stage : h # g => pc'[h] = pc[h]
    BY <1>8 DEF Send, Types
  <2>2. QED
    BY <1>2, <1>6, <1>8, <2>1 DEF Keeps
<1>9. CASE RecvResidualDev(g)
  <2>1. /\ UNCHANGED <<text, R>> /\ pc'[g] = "run" /\ recv'[g] # NoCopy
        /\ \A h \in Stage : h # g => pc'[h] = pc[h] /\ recv'[h] = recv[h]
    <3>1. /\ UNCHANGED <<text, R>> /\ pc'[g] = "run" /\ recv'[g].slot = cur[g].pos % 2
          /\ \A h \in Stage : h # g => pc'[h] = pc[h] /\ recv'[h] = recv[h]
      BY <1>9 DEF RecvResidualDev, Types
    <3>2. cur[g].pos % 2 \in {0, 1} /\ NoCopy.slot = 2
      BY PartTypes, EntryFacts
    <3>3. recv'[g].slot # NoCopy.slot
      BY <3>1, <3>2
    <3>4. QED
      BY <3>1, <3>3
  <2>2. QED
    BY <1>2, <1>6, <1>9, <2>1 DEF Keeps
<1>10. CASE CopyOut(g)
  <2>1. UNCHANGED <<text, R, pc>> /\ \A h \in Stage : recv'[h] = NoCopy => recv[h] = NoCopy
    <3>1. UNCHANGED <<text, R, pc>>
      BY <1>10 DEF CopyOut
    <3>2. \A h \in Stage :
            \/ recv'[h] = recv[h]
            \/ recv[h].slot = emit[g].slot /\ recv'[h] = [recv[h] EXCEPT !.wait = FALSE]
      BY <1>10 DEF CopyOut, Types
    <3>3. ASSUME NEW h \in Stage, recv[h].slot = emit[g].slot, recv'[h] = [recv[h] EXCEPT !.wait = FALSE]
          PROVE  recv'[h] # NoCopy
      <4>1. emit[g].slot \in {0, 1} /\ NoCopy.slot = 2
        BY <1>10, PartTypes DEF CopyOut
      <4>2. recv[h] # NoCopy /\ recv[h] \in Copy
        <5>1. recv[h].slot # NoCopy.slot
          BY <3>3, <4>1
        <5>2. recv[h] \in Copy
          BY PartTypes
        <5>3. QED
          BY <5>1, <5>2
      <4>3. recv'[h].slot = recv[h].slot
        BY <3>3, <4>2 DEF Copy
      <4>4. recv'[h].slot # NoCopy.slot
        BY <3>3, <4>1, <4>3
      <4>5. QED
        BY <4>4
    <3>4. QED
      BY <3>1, <3>2, <3>3
  <2>2. QED
    BY <1>2, <1>6, <1>10, <2>1 DEF Keeps, Copies
\* Steps that change the residual of a card.
<1>11. ASSUME text' = text, Keeps(g),
              \A h \in Stage : h # g => R'[h] = R[h] /\ pc'[h] = pc[h] /\ recv'[h] = recv[h],
              pc'[g] \notin {"send", "push"}, pc'[g] = "run" => R'[g] = <<r, Passed(g)>>
       PROVE  Folded(r)'
  <2>1. \A h \in Stage : pc'[h] \in {"send", "push"} => R'[h] = <<r, Passed(h)'>>
    BY <1>0, <1>6, <1>11 DEF Folded
  <2>2. \A h \in Stage : pc'[h] = "run" /\ recv'[h] = NoCopy => R'[h] = <<r, Passed(h)'>>
    <3>1. ASSUME NEW h \in Stage, pc'[h] = "run", recv'[h] = NoCopy PROVE R'[h] = <<r, Passed(h)'>>
      <4>1. Passed(h)' = Passed(h)
        BY <1>6, <1>11
      <4>2. CASE h = g
        BY <1>11, <3>1, <4>1, <4>2
      <4>3. CASE h # g
        <5>1. pc[h] = "run" /\ recv[h] = NoCopy /\ R'[h] = R[h]
          BY <1>11, <3>1, <4>3
        <5>2. QED
          BY <1>0, <4>1, <5>1 DEF Folded
      <4>4. QED
        BY <4>2, <4>3
    <3>2. QED
      BY <3>1
  <2>3. QED
    BY <1>0, <1>1, <1>11, <2>1, <2>2 DEF Folded
<1>12. CASE Receive(g)
  <2>1. /\ text' = text /\ pc[g] = "recv" /\ pc'[g] = "run" /\ Works(g)
        /\ \A h \in Stage : h # g => R'[h] = R[h] /\ pc'[h] = pc[h] /\ recv'[h] = recv[h]
        /\ R'[g] = IF g = 0 THEN <<cur[g].req, cur[g].pos>> ELSE cur[g].load
        /\ g = 0 \/ handoff = "pinned"
    BY <1>12 DEF Receive, Works, Types
  <2>2. cur[g].req = r /\ cur[g].pos = Passed(g)
    BY <2>1 DEF Tokens, InOrder
  <2>3. g # 0 => cur[g].load = <<r, Passed(g)>>
    BY <1>0, <2>1 DEF InMail
  <2>4. R'[g] = <<r, Passed(g)>>
    BY <2>1, <2>2, <2>3
  <2>5. QED
    BY <1>11, <1>12, <2>1, <2>4 DEF Keeps
<1>13. CASE CopyIn(g)
  <2>1. /\ text' = text /\ pc' = pc /\ recv[g] # NoCopy /\ ~recv[g].wait
        /\ R'[g] = hand[g - 1][recv[g].slot]
        /\ \A h \in Stage : h # g => R'[h] = R[h] /\ pc'[h] = pc[h] /\ recv'[h] = recv[h]
    BY <1>13 DEF CopyIn, Types
  <2>2. handoff = "p2p" /\ g # 0 /\ pc[g] \in {"run", "fail", "exited"}
    BY <1>0, <2>1, PartTypes DEF Copying
  <2>3. ASSUME pc[g] = "run" PROVE hand[g - 1][recv[g].slot] = <<r, Passed(g)>>
    <3>1. /\ recv[g].slot = Passed(g) % 2
          /\ emit[g - 1] # NoCopy => emit[g - 1].slot # recv[g].slot
      BY <1>0, <2>1, <2>2, <2>3 DEF Copied
    <3>2. Passed(g) \in Int /\ g - 1 \in Stage /\ g - 1 < NGPU - 1 /\ (g - 1) + 1 = g
      <4>1. g \in Int /\ NGPU \in Int /\ g < NGPU /\ g - 1 \in Stage /\ Passed(g) \in Int
        BY <2>2, CountFacts
      <4>2. QED
        BY <4>1
    <3>3. Due(g - 1, Passed(g))
      BY <2>1, <2>3, <3>2 DEF Due
    <3>4. Sent(r, g - 1, Passed(g))
      BY <1>0, <2>2, <3>2, <3>3 DEF Offered
    <3>5. ~(emit[g - 1] # NoCopy /\ Len(text[g - 1]) = Passed(g) + 1)
      <4>1. SUFFICES ASSUME emit[g - 1] # NoCopy, Len(text[g - 1]) = Passed(g) + 1 PROVE FALSE
        OBVIOUS
      <4>2. emit[g - 1].slot = (Len(text[g - 1]) - 1) % 2
        BY <1>0, <2>2, <3>2, <4>1 DEF Emitted
      <4>3. Len(text[g - 1]) - 1 = Passed(g)
        BY <3>2, <4>1
      <4>4. QED
        BY <3>1, <4>1, <4>2, <4>3
    <3>6. QED
      BY <3>1, <3>4, <3>5 DEF Sent
  <2>4. QED
    BY <1>11, <1>13, <2>1, <2>2, <2>3 DEF Keeps, Copies
<1>14. CASE Run(g)
  <2>1. /\ pc[g] = "run" /\ pc'[g] = "send" /\ recv[g] = NoCopy /\ Passed(g) = Len(text[g])
        /\ Len(text[g]) \in Nat /\ text'[g] = Append(text[g], R[g])
        /\ Len(text'[g]) = Len(text[g]) + 1 /\ R'[g] = Layers(g) /\ Passed(g)' = Passed(g)
        /\ recv' = recv
        /\ \A h \in Stage : h # g => pc'[h] = pc[h] /\ text'[h] = text[h] /\ R'[h] = R[h]
    <3>1. /\ pc[g] = "run" /\ pc'[g] = "send" /\ recv[g] = NoCopy /\ Passed(g) = Len(text[g])
          /\ Len(text[g]) \in Nat /\ text'[g] = Append(text[g], R[g])
          /\ Len(text'[g]) = Len(text[g]) + 1 /\ R'[g] = Layers(g) /\ Passed(g)' = Passed(g)
      BY <1>14, RunEffect
    <3>2. recv' = recv
      BY <1>14 DEF Run
    <3>3. \A h \in Stage : h # g => pc'[h] = pc[h] /\ text'[h] = text[h] /\ R'[h] = R[h]
      BY <1>14, RunEffect
    <3>4. QED
      BY <3>1, <3>2, <3>3
  <2>2. text[g] = Before(r, Len(text[g])) /\ R[g] = <<r, Len(text[g])>>
    BY <1>0, <2>1 DEF Folded
  <2>3. R'[g] = <<r, Passed(g)'>>
    <3>1. Layers(g) = <<r, Len(text[g])>>
      BY <1>0, <2>1, <2>2, LayersFacts
    <3>2. QED
      BY <2>1, <3>1
  <2>4. text'[g] = Before(r, Len(text'[g]))
    <3>1. Append(Before(r, Len(text[g])), <<r, Len(text[g])>>) = Before(r, Len(text[g]) + 1)
      BY <2>1, BeforeFacts
    <3>2. QED
      BY <2>1, <2>2, <3>1
  <2>5. \A h \in Stage : text'[h] = Before(r, Len(text'[h]))
    BY <1>0, <2>1, <2>4 DEF Folded
  <2>6. \A h \in Stage : Passed(h)' = Passed(h)
    BY <1>6, <1>14 DEF Keeps
  <2>7. \A h \in Stage : /\ pc'[h] \in {"send", "push"} => R'[h] = <<r, Passed(h)'>>
                         /\ pc'[h] = "run" /\ recv'[h] = NoCopy => R'[h] = <<r, Passed(h)'>>
    <3>1. ASSUME NEW h \in Stage
          PROVE  /\ pc'[h] \in {"send", "push"} => R'[h] = <<r, Passed(h)'>>
                 /\ pc'[h] = "run" /\ recv'[h] = NoCopy => R'[h] = <<r, Passed(h)'>>
      <4>1. CASE h = g
        BY <2>1, <2>3, <4>1
      <4>2. CASE h # g
        <5>1. pc'[h] = pc[h] /\ R'[h] = R[h] /\ recv'[h] = recv[h] /\ Passed(h)' = Passed(h)
          BY <2>1, <2>6, <4>2
        <5>2. /\ pc[h] \in {"send", "push"} => R[h] = <<r, Passed(h)>>
              /\ pc[h] = "run" /\ recv[h] = NoCopy => R[h] = <<r, Passed(h)>>
          BY <1>0 DEF Folded
        <5>3. QED
          BY <5>1, <5>2
      <4>3. QED
        BY <4>1, <4>2
    <3>2. QED
      BY <3>1
  <2>8. QED
    BY <1>0, <1>1, <2>5, <2>7 DEF Folded
<1>15. QED
  BY <1>3, <1>4, <1>5, <1>7, <1>8, <1>9, <1>10, <1>12, <1>13, <1>14 DEF Runs, Copies

\* A token is put into a mailbox with the residual on the card, and taken out with
\* what was put in.
LEMMA InMailStage ==
  ASSUME Types, Control, Copying, NEW r \in Nat, Tokens(r), Folded(r), InMail(r), NEW g \in Stage,
         Runs(g) \/ Copies(g) \/ StageFail(g)
  PROVE  InMail(r)'
<1> USE StageFacts
\* Steps that leave the mailboxes alone.
<1>1. ASSUME box' = box,
             \A h \in Stage : /\ Open(h)' => Open(h)
                              /\ pc'[h] = "recv" => /\ pc[h] = "recv" /\ cur'[h] = cur[h]
                                                    /\ Passed(h)' = Passed(h)
      PROVE  InMail(r)'
  BY <1>1 DEF InMail
<1>2. CASE Keeps(g)
  <2>1. UNCHANGED <<box, cur>> /\ \A h \in Stage : Passed(h)' = Passed(h) /\ (Open(h)' => Open(h))
    BY <1>2, KeepEffect
  <2>2. \A h \in Stage : pc'[h] = "recv" => pc[h] = "recv"
    <3>1. CASE PopStopped(g) \/ Receive(g) \/ RecvResidualDev(g) \/ Run(g) \/ Send(g)
      BY <3>1 DEF PopStopped, Receive, RecvResidualDev, Run, Send, Types
    <3>2. CASE StopBox(g)
      BY <3>2 DEF StopBox, Types
    <3>3. CASE CopyIn(g) \/ CopyOut(g)
      BY <3>3 DEF CopyIn, CopyOut
    <3>4. QED
      BY <1>2, <3>1, <3>2, <3>3 DEF Keeps, Copies
  <2>3. QED
    BY <1>1, <2>1, <2>2
<1>3. CASE StageFail(g)
  <2>1. /\ UNCHANGED <<box, cur, text, stopped>> /\ pc'[g] = "fail"
        /\ \A h \in Stage : h # g => pc'[h] = pc[h]
    BY <1>3 DEF StageFail, Types
  <2>2. ASSUME NEW h \in Stage
        PROVE  /\ Open(h)' => Open(h)
               /\ pc'[h] = "recv" => /\ pc[h] = "recv" /\ cur'[h] = cur[h]
                                     /\ Passed(h)' = Passed(h)
    BY <2>1 DEF Open, Live, Passed
  <2>3. QED
    BY <1>1, <2>1, <2>2
<1>4. CASE Popped(g)
  <2>1. /\ pc'[g] = "recv" /\ Open(g) /\ Open(g)' /\ Passed(g)' = Passed(g) /\ Took(g) = Passed(g)
        /\ 1 \in 1 .. Len(box[g]) /\ cur'[g] = box[g][1] /\ box[g][1].pos = Took(g)
        /\ \A b \in Box : b # g => box'[b] = box[b]
    BY <1>4, PoppedEffect
  <2>h. \A h \in Stage : h # g => /\ pc'[h] = pc[h] /\ cur'[h] = cur[h]
                                  /\ Passed(h)' = Passed(h) /\ (Open(h)' <=> Open(h))
    BY <1>4, PoppedOther
  <2>2. ASSUME NEW b \in Stage, b # 0, Open(b)', NEW i \in 1 .. Len(box'[b])
        PROVE  box'[b][i].load = <<r, box'[b][i].pos>>
    <3>1. CASE b = g
      <4>1. i + 1 \in 1 .. Len(box[b]) /\ box'[b][i] = box[b][i + 1] /\ Open(b)
        BY <1>4, <2>1, <2>2, <3>1, PoppedMail
      <4>2. QED
        <5>1. box[b][i + 1].load = <<r, box[b][i + 1].pos>>
          BY <2>2, <4>1 DEF InMail
        <5>2. QED
          BY <4>1, <5>1
    <3>2. CASE b # g
      <4>1. box'[b] = box[b] /\ Open(b)
        BY <2>1, <2>h, <2>2, <3>2
      <4>2. QED
        BY <2>2, <4>1 DEF InMail
    <3>3. QED
      BY <3>1, <3>2
  <2>3. ASSUME NEW b \in Stage, b # 0, pc'[b] = "recv" PROVE cur'[b].load = <<r, Passed(b)'>>
    <3>1. CASE b = g
      <4>1. box[g][1].load = <<r, box[g][1].pos>>
        BY <2>1, <2>3, <3>1 DEF InMail
      <4>2. QED
        BY <2>1, <3>1, <4>1
    <3>2. CASE b # g
      <4>1. pc[b] = "recv" /\ cur'[b] = cur[b] /\ Passed(b)' = Passed(b)
        BY <2>h, <2>3, <3>2
      <4>2. cur[b].load = <<r, Passed(b)>>
        BY <2>3, <4>1 DEF InMail
      <4>3. QED
        BY <4>1, <4>2
    <3>3. QED
      BY <3>1, <3>2
  <2>4. QED
    BY <2>2, <2>3 DEF InMail
<1>5. CASE Push(g)
  <2>1. /\ pc[g] = "push" /\ pc'[g] = "pop"
        /\ Carried(g).pos = Passed(g) /\ Carried(g).load = R[g]
        /\ \A h \in Stage : h # g => pc'[h] = pc[h] /\ cur'[h] = cur[h] /\ Passed(h)' = Passed(h)
        /\ \A h \in Stage : (Open(h)' <=> Open(h))
        /\ \A b \in Box : b # g + 1 => box'[b] = box[b]
    <3>1. /\ pc[g] = "push" /\ pc'[g] = "pop"
          /\ Carried(g).pos = Passed(g) /\ Carried(g).load = R[g]
      BY <1>5, PushEffect
    <3>2. \A h \in Stage : h # g => pc'[h] = pc[h] /\ cur'[h] = cur[h]
      BY <1>5, PushOther
    <3>3. \A h \in Stage : h # g => Passed(h)' = Passed(h)
      BY <1>5, PushOther
    <3>4. \A h \in Stage : (Open(h)' <=> Open(h))
      BY <1>5, PushOther
    <3>5. \A b \in Box : b # g + 1 => box'[b] = box[b]
      BY <1>5, PushEffect
    <3>6. QED
      BY <3>1, <3>2, <3>3, <3>4, <3>5
  <2>2. R[g] = <<r, Passed(g)>>
    BY <2>1 DEF Folded
  <2>3. ASSUME NEW b \in Stage, b # 0, Open(b)', NEW i \in 1 .. Len(box'[b])
        PROVE  box'[b][i].load = <<r, box'[b][i].pos>>
    <3>1. CASE b # g + 1
      <4>1. box'[b] = box[b] /\ Open(b)
        BY <2>1, <2>3, <3>1
      <4>2. QED
        BY <2>3, <4>1 DEF InMail
    <3>2. CASE b = g + 1 /\ i \in 1 .. Len(box[b]) /\ box'[b][i] = box[b][i]
      <4>1. Open(b)
        BY <2>1, <2>3
      <4>2. QED
        <5>1. box[b][i].load = <<r, box[b][i].pos>>
          BY <2>3, <3>2, <4>1 DEF InMail
        <5>2. QED
          BY <3>2, <5>1
    <3>3. CASE b = g + 1 /\ box'[b][i] = Carried(g)
      BY <2>1, <2>2, <3>3
    <3>4. QED
      <4>1. ASSUME b = g + 1
            PROVE  \/ i \in 1 .. Len(box[b]) /\ box'[b][i] = box[b][i]
                   \/ box'[b][i] = Carried(g)
        <5>1. g + 1 \in Stage /\ Open(g + 1) /\ i \in 1 .. Len(box'[g + 1])
          BY <2>1, <2>3, <4>1
        <5>2. \/ i \in 1 .. Len(box[g + 1]) /\ box'[g + 1][i] = box[g + 1][i]
              \/ box'[g + 1][i] = Carried(g)
          BY <1>5, <5>1, PushMail
        <5>3. QED
          BY <4>1, <5>2
      <4>2. QED
        BY <3>1, <3>2, <3>3, <4>1
  <2>4. ASSUME NEW b \in Stage, b # 0, pc'[b] = "recv" PROVE cur'[b].load = <<r, Passed(b)'>>
    BY <2>1, <2>4 DEF InMail
  <2>5. QED
    BY <2>3, <2>4 DEF InMail
<1>6. QED
  BY <1>2, <1>3, <1>4, <1>5 DEF Runs, Keeps

-----------------------------------------------------------------------------
(* The contents: the two buffers of a card.                                *)

\* What the next stage has yet to read is the token folded last or the one before:
\* the buffers hold both.
LEMMA DueBounds ==
  ASSUME Types, Control, NEW r \in Nat, Tokens(r), Pace, NEW g \in Stage, NEW p \in Int, Due(g, p)
  PROVE  p = Len(text[g]) - 1 \/ p = Len(text[g]) - 2
<1> USE StageFacts
<1>1. /\ g + 1 \in Stage /\ g < g + 1
      /\ Len(text[g]) \in Nat /\ Passed(g) \in Int /\ Passed(g) <= Len(text[g])
      /\ Len(text[g + 1]) \in Nat /\ Took(g + 1) \in Nat /\ Len(text[g + 1]) <= Took(g + 1)
      /\ Ahead(g + 1) = Took(g + 1) + Len(box[g + 1]) /\ Len(box[g + 1]) \in Nat
  <2>1. g < NGPU - 1
    BY DEF Due
  <2>2. g + 1 \in Stage /\ g < g + 1
    BY <2>1
  <2>3. QED
    BY <2>2, CountFacts
<1>2. CASE pc[g] = "push" /\ p = Passed(g)
  BY <1>1, <1>2 DEF Passed
<1>3. CASE pc[g + 1] \in {"recv", "run"} /\ p = Passed(g + 1)
  <2>1. p = Len(text[g + 1]) /\ Took(g + 1) = Len(text[g + 1]) + 1 /\ Live(g + 1)
    BY <1>3 DEF Passed, Took, Live
  <2>2. Took(g + 1) <= Passed(g) /\ Len(text[g]) <= Len(text[g + 1]) + 2
    BY <1>1, <2>1 DEF Pace, Apart
  <2>3. \A n, m \in Nat, q \in Int : m + 1 <= q /\ q <= n /\ n <= m + 2 => m = n - 1 \/ m = n - 2
    OBVIOUS
  <2>a. Len(text[g + 1]) + 1 <= Passed(g)
    BY <2>1, <2>2
  <2>4. Len(text[g + 1]) = Len(text[g]) - 1 \/ Len(text[g + 1]) = Len(text[g]) - 2
    <3> HIDE StageFacts
    <3>1. /\ Len(text[g]) \in Nat /\ Len(text[g + 1]) \in Nat /\ Passed(g) \in Int
          /\ Passed(g) <= Len(text[g])
      BY <1>1
    <3>2. QED
      BY <2>2, <2>3, <2>a, <3>1
  <2>5. QED
    BY <2>1, <2>4
<1>4. CASE Open(g + 1) /\ \E i \in 1 .. Len(box[g + 1]) : p = box[g + 1][i].pos
  <2>1. PICK i \in 1 .. Len(box[g + 1]) : p = box[g + 1][i].pos
    BY <1>4
  <2>2. p = Took(g + 1) + i - 1
    BY <1>1, <1>4, <2>1 DEF Tokens, InOrder
  <2>3. Ahead(g + 1) <= Passed(g) /\ Len(text[g]) <= Len(text[g + 1]) + 2
    BY <1>1, <1>4 DEF Pace, Apart, Open
  <2>4. i \in Int /\ 1 <= i /\ i <= Len(box[g + 1])
    BY <1>1, <2>1
  <2>6. Took(g + 1) + Len(box[g + 1]) <= Passed(g)
    BY <1>1, <2>3
  <2>7. Took(g + 1) + i - 1 = Len(text[g]) - 1 \/ Took(g + 1) + i - 1 = Len(text[g]) - 2
    <3> HIDE StageFacts
    <3> DEFINE n == Len(text[g])
               m == Len(text[g + 1])
               k == Took(g + 1)
               l == Len(box[g + 1])
               q == Passed(g)
    <3>1. /\ n \in Nat /\ m \in Nat /\ k \in Nat /\ l \in Nat /\ q \in Int /\ i \in Int
          /\ k + l <= q /\ q <= n /\ n <= m + 2 /\ m <= k /\ 1 <= i /\ i <= l
      BY <1>1, <2>3, <2>4, <2>6
    <3> HIDE DEF n, m, k, l, q
    <3>2. k + i - 1 = n - 1 \/ k + i - 1 = n - 2
      BY <3>1
    <3>3. QED
      BY <3>2 DEF n, m, k, l, q
  <2>8. QED
    BY <2>2, <2>7
<1>5. QED
  BY <1>2, <1>3, <1>4 DEF Due

\* A residual becomes due when a card sends it.
LEMMA DueStage ==
  ASSUME Types, Control, Copying, NEW r \in Nat, Tokens(r), NEW g \in Stage,
         Runs(g) \/ Copies(g) \/ StageFail(g),
         NEW x \in Stage, NEW p \in Int, Due(x, p)'
  PROVE  Due(x, p) \/ (Send(g) /\ x = g /\ p = Passed(g))
<1> USE StageFacts
<1>0. x < NGPU - 1 /\ x + 1 \in Stage
  <2>1. x < NGPU - 1
    BY DEF Due
  <2>2. QED
    BY <2>1
\* Steps that leave the mailboxes alone.
<1>1. ASSUME box' = box,
             \A h \in Stage :
               /\ Open(h)' => Open(h)
               /\ pc'[h] \in {"push", "recv", "run"} => Passed(h)' = Passed(h)
               /\ pc'[h] = "push" => pc[h] = "push" \/ (Send(g) /\ h = g)
               /\ pc'[h] = "recv" => pc[h] = "recv"
               /\ pc'[h] = "run" /\ recv'[h] # NoCopy =>
                    pc[h] = "recv" \/ (pc[h] = "run" /\ recv[h] # NoCopy)
      PROVE  Due(x, p) \/ (Send(g) /\ x = g /\ p = Passed(g))
  BY <1>0, <1>1 DEF Due
<1>2. CASE Keeps(g)
  <2>1. box' = box /\ \A h \in Stage : Passed(h)' = Passed(h) /\ (Open(h)' => Open(h))
    BY <1>2, KeepEffect
  <2>2. ASSUME NEW h \in Stage
        PROVE  /\ pc'[h] = "push" => pc[h] = "push" \/ (Send(g) /\ h = g) \/ Run(g)
               /\ pc'[h] = "recv" => pc[h] = "recv"
               /\ pc'[h] = "run" /\ recv'[h] # NoCopy =>
                    pc[h] = "recv" \/ (pc[h] = "run" /\ recv[h] # NoCopy)
    <3>1. CASE PopStopped(g) \/ Receive(g) \/ RecvResidualDev(g)
      BY <3>1 DEF PopStopped, Receive, RecvResidualDev, Types
    <3>2. CASE Send(g) \/ Run(g)
      BY <3>2 DEF Send, Run, Types
    <3>3. CASE StopBox(g)
      BY <3>3 DEF StopBox, Types
    <3>4. CASE CopyIn(g)
      BY <3>4 DEF CopyIn, Types
    <3>5. CASE CopyOut(g)
      <4>1. pc' = pc
        BY <3>5 DEF CopyOut
      <4>2. recv[h] = NoCopy => recv'[h] = NoCopy
        <5>1. emit[g].slot \in {0, 1} /\ NoCopy.slot = 2
          BY <3>5, PartTypes DEF CopyOut
        <5>2. SUFFICES ASSUME recv[h] = NoCopy PROVE recv'[h] = recv[h]
          OBVIOUS
        <5>3. recv[h].slot # emit[g].slot
          BY <5>1, <5>2
        <5>4. CASE h = g + 1
          <6>1. recv[g + 1].slot # emit[g].slot
            BY <5>3, <5>4
          <6>2. recv' = recv
            BY <3>5, <6>1 DEF CopyOut
          <6>3. QED
            BY <6>2
        <5>5. CASE h # g + 1
          BY <3>5, <5>5 DEF CopyOut, Types
        <5>6. QED
          BY <5>4, <5>5
      <4>3. QED
        BY <4>1, <4>2
    <3>6. QED
      BY <1>2, <3>1, <3>2, <3>3, <3>4, <3>5 DEF Keeps, Copies
  <2>3. CASE Run(g)
    <3>1. pc'[g] = "send" /\ \A h \in Stage : h # g => pc'[h] = pc[h]
      BY <2>3, RunEffect
    <3>2. QED
      BY <1>1, <2>1, <2>2, <3>1
  <2>4. CASE ~Run(g)
    BY <1>1, <2>1, <2>2, <2>4
  <2>5. QED
    BY <2>3, <2>4
<1>3. CASE StageFail(g)
  <2>1. /\ UNCHANGED <<box, text, stopped, recv>> /\ pc'[g] = "fail"
        /\ \A h \in Stage : h # g => pc'[h] = pc[h]
    BY <1>3 DEF StageFail, Types
  <2>2. \A h \in Stage : /\ Open(h)' => Open(h)
                         /\ pc'[h] \in {"push", "recv", "run"} => Passed(h)' = Passed(h) /\ pc'[h] = pc[h]
    BY <2>1 DEF Open, Live, Passed
  <2>3. QED
    BY <1>1, <2>1, <2>2
<1>4. CASE Popped(g)
  <2>1. /\ pc'[g] = "recv" /\ Open(g) /\ Passed(g)' = Passed(g) /\ Took(g) = Passed(g)
        /\ 1 \in 1 .. Len(box[g]) /\ box[g][1].pos = Took(g)
        /\ \A b \in Box : b # g => box'[b] = box[b]
    BY <1>4, PoppedEffect
  <2>h. \A h \in Stage : h # g => pc'[h] = pc[h] /\ Passed(h)' = Passed(h) /\ (Open(h)' <=> Open(h))
    BY <1>4, PoppedOther
  <2>2. recv' = recv
    BY <1>4 DEF Popped
  <2>3. CASE pc'[x] = "push" /\ p = Passed(x)'
    BY <1>0, <2>1, <2>h, <2>3 DEF Due
  <2>4. CASE x + 1 # g
    BY <1>0, <2>1, <2>h, <2>2, <2>3, <2>4 DEF Due
  <2>5. CASE x + 1 = g /\ p = Passed(g)'
    BY <1>0, <2>1, <2>5 DEF Due
  <2>6. CASE x + 1 = g /\ \E i \in 1 .. Len(box'[g]) : p = box'[g][i].pos
    <3>1. PICK i \in 1 .. Len(box'[g]) : p = box'[g][i].pos
      BY <2>6
    <3>2. i + 1 \in 1 .. Len(box[g]) /\ p = box[g][i + 1].pos
      BY <1>4, <3>1, PoppedMail
    <3>3. QED
      BY <1>0, <2>1, <2>6, <3>2 DEF Due
  <2>7. QED
    BY <2>3, <2>4, <2>5, <2>6 DEF Due
<1>5. CASE Push(g)
  <2>1. /\ pc[g] = "push" /\ pc'[g] = "pop" /\ Carried(g).pos = Passed(g)
        /\ \A h \in Stage : h # g => pc'[h] = pc[h] /\ Passed(h)' = Passed(h)
        /\ \A h \in Stage : (Open(h)' <=> Open(h))
        /\ \A b \in Box : b # g + 1 => box'[b] = box[b]
    <3>1. pc[g] = "push" /\ pc'[g] = "pop" /\ Carried(g).pos = Passed(g)
      BY <1>5, PushEffect
    <3>2. \A h \in Stage : h # g => pc'[h] = pc[h]
      BY <1>5, PushOther
    <3>3. \A h \in Stage : h # g => Passed(h)' = Passed(h)
      BY <1>5, PushOther
    <3>4. \A h \in Stage : (Open(h)' <=> Open(h))
      BY <1>5, PushOther
    <3>5. \A b \in Box : b # g + 1 => box'[b] = box[b]
      BY <1>5, PushEffect
    <3>6. QED
      BY <3>1, <3>2, <3>3, <3>4, <3>5
  <2>2. recv' = recv
    BY <1>5 DEF Push
  <2>3. ASSUME \/ pc'[x] = "push" /\ p = Passed(x)'
               \/ pc'[x + 1] = "recv" /\ p = Passed(x + 1)'
               \/ pc'[x + 1] = "run" /\ recv'[x + 1] # NoCopy /\ p = Passed(x + 1)'
        PROVE  Due(x, p)
    BY <1>0, <2>1, <2>2, <2>3 DEF Due
  <2>4. ASSUME Open(x + 1)', NEW i \in 1 .. Len(box'[x + 1]), p = box'[x + 1][i].pos
        PROVE  Due(x, p)
    <3>1. CASE x = g
      <4>1. Open(g + 1)
        BY <1>0, <2>1, <2>4, <3>1
      <4>2. CASE i \in 1 .. Len(box[g + 1]) /\ box'[g + 1][i] = box[g + 1][i]
        BY <1>0, <2>4, <3>1, <4>1, <4>2 DEF Due
      <4>3. CASE box'[g + 1][i] = Carried(g)
        BY <1>0, <2>1, <2>4, <3>1, <4>3 DEF Due
      <4>4. QED
        <5>1. g + 1 \in Stage /\ i \in 1 .. Len(box'[g + 1])
          BY <1>0, <2>4, <3>1
        <5>2. \/ i \in 1 .. Len(box[g + 1]) /\ box'[g + 1][i] = box[g + 1][i]
              \/ box'[g + 1][i] = Carried(g)
          BY <1>5, <4>1, <5>1, PushMail
        <5>3. QED
          BY <4>2, <4>3, <5>2
    <3>2. CASE x # g
      <4>1. x + 1 # g + 1
        BY <3>2
      <4>2. box'[x + 1] = box[x + 1] /\ Open(x + 1)
        BY <1>0, <2>1, <2>4, <4>1
      <4>3. QED
        BY <1>0, <2>4, <4>2 DEF Due
    <3>3. QED
      BY <3>1, <3>2
  <2>5. QED
    BY <2>3, <2>4 DEF Due
<1>6. QED
  BY <1>2, <1>3, <1>4, <1>5 DEF Runs, Keeps

\* What is being copied out is the residual of the card's last token.
LEMMA EmittedStage ==
  ASSUME Types, Control, Copying, NEW r \in Nat, Tokens(r), Folded(r), Emitted(r), NEW g \in Stage,
         Runs(g) \/ Copies(g) \/ StageFail(g)
  PROVE  Emitted(r)'
<1> USE StageFacts
<1>1. ASSUME \A h \in Stage : emit'[h] # NoCopy => emit'[h] = emit[h] /\ text'[h] = text[h]
      PROVE  Emitted(r)'
  BY <1>1 DEF Emitted
<1>2. CASE \/ Popped(g) \/ PopStopped(g) \/ Receive(g) \/ RecvResidualDev(g) \/ Push(g)
           \/ StopBox(g) \/ CopyIn(g) \/ StageFail(g)
  <2>1. UNCHANGED <<emit, text>>
    BY <1>2 DEF Popped, PopStopped, Receive, RecvResidualDev, Push, StopBox, CopyIn, StageFail
  <2>2. QED
    BY <1>1, <2>1
<1>3. CASE Run(g)
  <2>1. emit' = emit /\ emit[g] = NoCopy /\ \A h \in Stage : h # g => text'[h] = text[h]
    BY <1>3, RunEffect
  <2>2. QED
    BY <1>1, <2>1
<1>4. CASE CopyOut(g)
  <2>1. text' = text /\ emit'[g] = NoCopy /\ \A h \in Stage : h # g => emit'[h] = emit[h]
    BY <1>4 DEF CopyOut, Types
  <2>2. QED
    BY <1>1, <2>1
<1>5. CASE Send(g)
  <2>1. /\ text' = text /\ pc[g] = "send" /\ Works(g)
        /\ \A h \in Stage : h # g => emit'[h] = emit[h]
        /\ emit'[g] = emit[g] \/ emit'[g] = [slot |-> SlotOf(g), val |-> R[g], wait |-> FALSE]
    BY <1>5 DEF Send, Works, Types
  <2>2. CASE emit'[g] = emit[g]
    BY <1>1, <2>1, <2>2
  <2>3. CASE emit'[g] = [slot |-> SlotOf(g), val |-> R[g], wait |-> FALSE]
    <3>1. Passed(g) = Len(text[g]) - 1 /\ cur[g].pos = Passed(g)
      BY <2>1 DEF Tokens, InOrder, Passed
    <3>2. R[g] = <<r, Passed(g)>>
      BY <2>1 DEF Folded
    <3>3. emit'[g].val = <<r, Len(text[g]) - 1>> /\ emit'[g].slot = (Len(text[g]) - 1) % 2
      BY <2>3, <3>1, <3>2 DEF SlotOf
    <3>4. QED
      BY <2>1, <3>3 DEF Emitted
  <2>4. QED
    BY <2>1, <2>2, <2>3
<1>6. QED
  BY <1>2, <1>3, <1>4, <1>5 DEF Runs, Copies

\* A card that begins to copy a residual out is exactly one token ahead of a card
\* that is still copying one in: it does so from the other buffer.
LEMMA CopiedStage ==
  ASSUME Types, Control, Copying, NEW r \in Nat, Tokens(r), Pace, Copied, NEW g \in Stage,
         Runs(g) \/ Copies(g) \/ StageFail(g)
  PROVE  Copied'
<1> USE StageFacts
<1>p. \A h \in Stage : h # 0 => h - 1 \in Stage /\ h - 1 < h /\ (h - 1) + 1 = h
  OBVIOUS
<1>1. ASSUME \A h \in Stage : pc'[h] = "run" /\ recv'[h] # NoCopy =>
                 /\ pc[h] = "run" /\ recv[h] # NoCopy /\ Passed(h)' = Passed(h)
                 /\ recv'[h] = recv[h]
                 /\ h # 0 => emit'[h - 1] = emit[h - 1] \/ emit'[h - 1] = NoCopy
      PROVE  Copied'
  BY <1>1 DEF Copied
<1>2. CASE Popped(g) \/ Push(g) \/ StageFail(g)
  <2>1. UNCHANGED <<emit, recv, text>>
    BY <1>2 DEF Popped, Push, StageFail
  <2>2. ASSUME NEW h \in Stage, pc'[h] = "run" PROVE pc[h] = "run" /\ Passed(h)' = Passed(h)
    <3>1. pc'[g] # "run"
      BY <1>2, PoppedEffect, PushEffect DEF StageFail, Types
    <3>2. pc'[h] = pc[h]
      BY <1>2, <2>2, <3>1 DEF Popped, Push, StageFail, Types
    <3>3. QED
      BY <2>1, <2>2, <3>2 DEF Passed
  <2>3. QED
    BY <1>1, <2>1, <2>2
<1>3. ASSUME Keeps(g) PROVE \A h \in Stage : Passed(h)' = Passed(h)
  BY <1>3, KeepEffect
<1>4. CASE PopStopped(g) \/ StopBox(g) \/ Run(g)
  <2>1. UNCHANGED <<emit, recv>> /\ \A h \in Stage : pc'[h] = "run" => pc[h] = "run"
    BY <1>4 DEF PopStopped, StopBox, Run, Types
  <2>2. QED
    BY <1>1, <1>3, <1>4, <2>1 DEF Keeps
<1>5. CASE CopyIn(g) \/ Receive(g)
  <2>1. CASE CopyIn(g)
    <3>1. UNCHANGED <<emit, pc>> /\ recv'[g] = NoCopy /\ \A h \in Stage : h # g => recv'[h] = recv[h]
      BY <2>1 DEF CopyIn, Types
    <3>2. QED
      BY <1>1, <1>3, <2>1, <3>1 DEF Keeps, Copies
  <2>2. CASE Receive(g)
    <3>1. UNCHANGED <<emit, recv>> /\ pc[g] = "recv" /\ \A h \in Stage : h # g => pc'[h] = pc[h]
      BY <2>2 DEF Receive, Types
    <3>2. recv[g] = NoCopy
      BY <3>1 DEF Copying
    <3>3. QED
      BY <1>1, <1>3, <2>2, <3>1, <3>2 DEF Keeps
  <2>3. QED
    BY <1>5, <2>1, <2>2
<1>6. CASE RecvResidualDev(g)
  <2>1. /\ emit' = emit /\ g # 0 /\ Works(g)
        /\ recv'[g] = [slot |-> cur[g].pos % 2, val |-> Junk,
                        wait |-> emit[g - 1].slot = cur[g].pos % 2]
        /\ \A h \in Stage : h # g => pc'[h] = pc[h] /\ recv'[h] = recv[h]
    BY <1>6 DEF RecvResidualDev, Works, Types
  <2>2. cur[g].pos = Passed(g) /\ Passed(g)' = Passed(g)
    BY <1>3, <1>6, <2>1 DEF Tokens, InOrder, Keeps
  <2>3. recv'[g].slot = Passed(g)' % 2 /\ (emit'[g - 1].slot = recv'[g].slot => recv'[g].wait)
    <3>1. recv'[g].slot = cur[g].pos % 2
      BY <2>1
    <3>2. ASSUME emit[g - 1].slot = cur[g].pos % 2 PROVE recv'[g].wait
      <4>1. (emit[g - 1].slot = cur[g].pos % 2) = TRUE
        BY <3>2
      <4>2. recv'[g] = [slot |-> cur[g].pos % 2, val |-> Junk, wait |-> TRUE]
        BY <2>1, <4>1, Zenon
      <4>3. QED
        BY <4>2
    <3>3. emit'[g - 1].slot = recv'[g].slot => recv'[g].wait
      BY <2>1, <3>1, <3>2
    <3>4. QED
      BY <2>2, <3>1, <3>3
  <2>4. ASSUME NEW h \in Stage, h # 0, pc'[h] = "run", recv'[h] # NoCopy
        PROVE  /\ recv'[h].slot = Passed(h)' % 2
               /\ emit'[h - 1] # NoCopy /\ emit'[h - 1].slot = recv'[h].slot => recv'[h].wait
    <3>1. CASE h = g
      BY <2>3, <3>1
    <3>2. CASE h # g
      <4>1. pc[h] = "run" /\ recv'[h] = recv[h] /\ Passed(h)' = Passed(h)
        BY <1>3, <1>6, <2>1, <2>4, <3>2 DEF Keeps
      <4>2. QED
        BY <2>1, <2>4, <4>1 DEF Copied
    <3>3. QED
      BY <3>1, <3>2
  <2>5. QED
    BY <2>4 DEF Copied
<1>7. CASE Send(g)
  <2>1. /\ recv' = recv /\ pc[g] = "send" /\ pc'[g] = "push" /\ Works(g)
        /\ \A h \in Stage : h # g => pc'[h] = pc[h] /\ emit'[h] = emit[h]
        /\ emit'[g] = emit[g] \/ emit'[g].slot = cur[g].pos % 2
    BY <1>7 DEF Send, SlotOf, Works, Types
  <2>2. cur[g].pos = Passed(g) /\ Passed(g) = Len(text[g]) - 1
    BY <2>1 DEF Tokens, InOrder, Passed
  <2>3. \A h \in Stage : Passed(h)' = Passed(h)
    BY <1>3, <1>7 DEF Keeps
  <2>4. ASSUME NEW h \in Stage, h # 0, pc'[h] = "run", recv'[h] # NoCopy
        PROVE  /\ recv'[h].slot = Passed(h)' % 2
               /\ emit'[h - 1] # NoCopy /\ emit'[h - 1].slot = recv'[h].slot => recv'[h].wait
    <3>1. /\ pc[h] = "run" /\ recv'[h] = recv[h] /\ recv[h].slot = Passed(h) % 2 /\ h - 1 \in Stage
          /\ emit[h - 1] # NoCopy /\ emit[h - 1].slot = recv[h].slot => recv[h].wait
      <4>1. pc[h] = "run" /\ recv'[h] = recv[h]
        BY <2>1, <2>4
      <4>2. QED
        BY <1>p, <2>4, <4>1 DEF Copied
    <3>2. CASE emit'[h - 1] = emit[h - 1]
      BY <2>3, <3>1, <3>2
    <3>3. CASE h - 1 = g /\ emit'[g].slot = cur[g].pos % 2
      <4>1. h = g + 1 /\ g < h
        BY <3>3
      <4>2. /\ Passed(h) = Len(text[h]) /\ Took(h) = Len(text[h]) + 1 /\ Live(h)
            /\ Len(text[h]) \in Nat /\ Len(text[g]) \in Nat
        BY <3>1, CountFacts DEF Passed, Took, Live
      <4>3. Took(h) <= Passed(g) /\ Len(text[g]) <= Len(text[h]) + 2
        BY <4>1, <4>2 DEF Pace, Apart
      <4>4. Passed(g) = Passed(h) + 1 /\ Passed(h) \in Int
        <5> HIDE StageFacts
        <5>1. QED
          BY <2>2, <4>2, <4>3
      <4>5. Passed(g) % 2 # Passed(h) % 2
        BY <4>4, HalfOf
      <4>6. QED
        BY <2>2, <2>3, <3>1, <3>3, <4>5
    <3>4. QED
      BY <2>1, <3>1, <3>2, <3>3
  <2>5. QED
    BY <2>4 DEF Copied
<1>8. CASE CopyOut(g)
  <2>1. /\ pc' = pc /\ emit'[g] = NoCopy /\ emit[g] # NoCopy
        /\ \A h \in Stage : h # g => emit'[h] = emit[h]
        /\ \A h \in Stage : h # g + 1 => recv'[h] = recv[h]
        /\ g < NGPU - 1 =>
             recv'[g + 1] = recv[g + 1] \/ (recv[g + 1].slot = emit[g].slot
                                            /\ recv'[g + 1] = [recv[g + 1] EXCEPT !.wait = FALSE])
    BY <1>8 DEF CopyOut, Types
  <2>2. ASSUME NEW h \in Stage
        PROVE  \/ recv'[h] = recv[h]
               \/ h = g + 1 /\ recv[h] # NoCopy /\ recv'[h].slot = recv[h].slot
    <3>1. CASE h # g + 1
      BY <2>1, <3>1
    <3>2. CASE h = g + 1 /\ recv[h].slot = emit[g].slot /\ recv'[h] = [recv[h] EXCEPT !.wait = FALSE]
      <4>1. emit[g].slot \in {0, 1} /\ NoCopy.slot = 2 /\ recv[h] \in Copy
        BY <2>1, PartTypes
      <4>2. recv[h].slot # NoCopy.slot
        BY <3>2, <4>1
      <4>3. recv[h] # NoCopy
        BY <4>2
      <4>4. recv'[h].slot = recv[h].slot
        BY <3>2, <4>1, <4>3 DEF Copy
      <4>5. QED
        BY <3>2, <4>3, <4>4
    <3>3. CASE h = g + 1
      <4>1. g < NGPU - 1
        BY <3>3
      <4>2. QED
        BY <2>1, <3>2, <3>3, <4>1
    <3>4. QED
      BY <3>1, <3>3
  <2>3. ASSUME NEW h \in Stage, h # 0, pc'[h] = "run", recv'[h] # NoCopy
        PROVE  /\ recv'[h].slot = Passed(h)' % 2
               /\ emit'[h - 1] # NoCopy /\ emit'[h - 1].slot = recv'[h].slot => recv'[h].wait
    <3>1. pc[h] = "run" /\ Passed(h)' = Passed(h)
      BY <1>3, <1>8, <2>1, <2>3 DEF Keeps, Copies
    <3>2. CASE recv'[h] = recv[h]
      <4>1. emit'[h - 1] = emit[h - 1] \/ emit'[h - 1] = NoCopy
        BY <1>p, <2>1, <2>3
      <4>2. QED
        BY <2>3, <3>1, <3>2, <4>1 DEF Copied
    <3>3. CASE h = g + 1 /\ recv[h] # NoCopy /\ recv'[h].slot = recv[h].slot
      <4>1. recv[h].slot = Passed(h) % 2
        BY <2>3, <3>1, <3>3 DEF Copied
      <4>2. h - 1 = g
        BY <3>3
      <4>3. QED
        BY <2>1, <3>1, <3>3, <4>1, <4>2
    <3>4. QED
      BY <2>2, <3>2, <3>3
  <2>4. QED
    BY <2>3 DEF Copied
<1>9. QED
  BY <1>2, <1>4, <1>5, <1>6, <1>7, <1>8 DEF Runs, Copies

\* What is due is in its buffer, or on the way there, until it is no longer due.
LEMMA OfferedStage ==
  ASSUME Types, Control, Copying, NEW r \in Nat, Tokens(r), Folded(r), Pace, Emitted(r), Offered(r),
         handoff = "p2p", NEW g \in Stage,
         Runs(g) \/ Copies(g) \/ StageFail(g)
  PROVE  Offered(r)'
<1> USE StageFacts
<1>1. SUFFICES ASSUME NEW x \in Stage, NEW p \in Int, Due(x, p)' PROVE Sent(r, x, p)'
  BY DEF Offered
<1>2. Due(x, p) \/ (Send(g) /\ x = g /\ p = Passed(g))
  BY <1>1, DueStage
<1>3. Due(x, p) => Sent(r, x, p)
  BY DEF Offered
<1>4. x < NGPU - 1
  BY <1>1 DEF Due
<1>5. CASE \/ Popped(g) \/ PopStopped(g) \/ Receive(g) \/ RecvResidualDev(g) \/ Push(g)
           \/ StopBox(g) \/ CopyIn(g) \/ StageFail(g)
  <2>1. UNCHANGED <<emit, text, hand>>
    BY <1>5 DEF Popped, PopStopped, Receive, RecvResidualDev, Push, StopBox, CopyIn, StageFail
  <2>2. ~Send(g)
    BY <1>5 DEF Popped, PopStopped, Receive, RecvResidualDev, Push, StopBox, CopyIn, StageFail, Send,
       Types
  <2>3. QED
    BY <1>2, <1>3, <2>1, <2>2 DEF Sent
<1>6. CASE Run(g)
  <2>1. /\ UNCHANGED <<emit, hand>> /\ emit[g] = NoCopy /\ pc[g] = "run"
        /\ \A h \in Stage : h # g => text'[h] = text[h]
    BY <1>6, RunEffect
  <2>2. ~Send(g)
    BY <2>1 DEF Send
  <2>3. QED
    BY <1>2, <1>3, <2>1, <2>2 DEF Sent
<1>7. CASE Send(g)
  <2>1. /\ UNCHANGED <<text, hand>> /\ pc[g] = "send"
        /\ \A h \in Stage : h # g => emit'[h] = emit[h]
        /\ g < NGPU - 1 => emit'[g] = [slot |-> SlotOf(g), val |-> R[g], wait |-> FALSE]
    BY <1>7 DEF Send, Types
  <2>2. emit[g] = NoCopy /\ Passed(g) = Len(text[g]) - 1 /\ Len(text[g]) \in Nat
    BY <2>1, CountFacts DEF Copying, Passed
  <2>3. CASE Due(x, p)
    BY <1>3, <2>1, <2>2, <2>3 DEF Sent
  <2>4. CASE x = g /\ p = Passed(g)
    <3>1. emit'[g] # NoCopy
      <4>1. SlotOf(g) \in {0, 1} /\ NoCopy.slot = 2
        BY PartTypes, EntryFacts DEF SlotOf
      <4>2. emit'[g].slot # NoCopy.slot
        BY <1>4, <2>1, <2>4, <4>1
      <4>3. QED
        BY <4>2
    <3>2. Len(text'[g]) = p + 1
      <4>1. \A n \in Nat : n = n - 1 + 1
        OBVIOUS
      <4>2. QED
        BY <2>1, <2>2, <2>4, <4>1
    <3>3. QED
      BY <2>4, <3>1, <3>2 DEF Sent
  <2>5. QED
    BY <1>2, <2>3, <2>4
<1>8. CASE CopyOut(g)
  <2>1. /\ text' = text /\ emit[g] # NoCopy /\ pc' = pc
        /\ \A h \in Stage : h # g => emit'[h] = emit[h] /\ hand'[h] = hand[h]
        /\ hand'[g] = [hand[g] EXCEPT ![emit[g].slot] = emit[g].val]
    BY <1>8 DEF CopyOut, Types
  <2>2. Due(x, p)
    BY <1>2, <2>1 DEF Send, Types
  <2>3. CASE x # g
    BY <1>3, <2>1, <2>2, <2>3 DEF Sent
  <2>4. CASE x = g
    <3>1. /\ emit[g].slot \in {0, 1} /\ emit[g].slot = (Len(text[g]) - 1) % 2
          /\ emit[g].val = <<r, Len(text[g]) - 1>> /\ Len(text[g]) - 1 \in Int
          /\ Len(text[g]) - 2 \in Int /\ Len(text[g]) \in Nat
      <4>1. emit[g].slot \in {0, 1}
        BY <2>1, PartTypes
      <4>2. Len(text[g]) \in Nat
        BY CountFacts
      <4>3. emit[g].slot = (Len(text[g]) - 1) % 2 /\ emit[g].val = <<r, Len(text[g]) - 1>>
        BY <2>1 DEF Emitted
      <4>4. Len(text[g]) - 1 \in Int /\ Len(text[g]) - 2 \in Int
        BY <4>2
      <4>5. QED
        BY <4>1, <4>2, <4>3, <4>4
    <3>2. hand[g] \in [{0, 1} -> Residual]
      BY DEF Types
    <3>3. p = Len(text[g]) - 1 \/ p = Len(text[g]) - 2
      BY <2>2, <2>4, DueBounds
    <3>4. CASE p = Len(text[g]) - 1
      <4>1. hand'[g][emit[g].slot] = emit[g].val
        BY <2>1, <3>1, <3>2
      <4>2. hand'[g][p % 2] = <<r, p>>
        BY <3>1, <3>4, <4>1
      <4>3. QED
        BY <2>4, <4>2 DEF Sent
    <3>5. CASE p = Len(text[g]) - 2
      <4>1. p + 1 = Len(text[g]) - 1 /\ Len(text[g]) # p + 1
        <5> HIDE StageFacts
        <5>1. QED
          BY <3>1, <3>5
      <4>2. hand[g][p % 2] = <<r, p>>
        BY <1>3, <2>2, <2>4, <4>1 DEF Sent
      <4>3. p % 2 \in {0, 1} /\ p % 2 # emit[g].slot
        BY <3>1, <4>1, HalfOf
      <4>4. hand'[g][p % 2] = hand[g][p % 2]
        BY <2>1, <3>2, <4>3
      <4>5. QED
        BY <2>4, <4>2, <4>4 DEF Sent
    <3>6. QED
      BY <3>3, <3>4, <3>5
  <2>5. QED
    BY <2>3, <2>4
<1>9. QED
  BY <1>5, <1>6, <1>7, <1>8 DEF Runs, Copies

\* A step of a card keeps Contents.
LEMMA ContentsStage ==
  ASSUME Types, Control, Copying, NEW r \in Nat, Tokens(r), Contents(r), NEW g \in Stage,
         Runs(g) \/ Copies(g) \/ StageFail(g)
  PROVE  Contents(r)'
<1>1. handoff' = handoff
  BY DEF Runs, Copies, Popped, PopStopped, Receive, RecvResidualDev, Run, Send, Push, StopBox,
     CopyIn, CopyOut, StageFail
<1>2. Folded(r)'
  BY FoldedStage
<1>3. ASSUME handoff = "pinned" PROVE InMail(r)'
  <2>1. Folded(r) /\ InMail(r)
    BY <1>3 DEF Contents
  <2>2. QED
    BY <2>1, InMailStage
<1>4. ASSUME handoff = "p2p" PROVE Pace' /\ Emitted(r)' /\ Offered(r)' /\ Copied'
  <2>1. Folded(r) /\ Pace /\ Emitted(r) /\ Offered(r) /\ Copied
    BY <1>4 DEF Contents
  <2>2. Tokens(r)'
    BY TokensStage
  <2>3. Pace'
    BY <2>1, <2>2, PaceStage
  <2>4. Emitted(r)'
    BY <2>1, EmittedStage
  <2>5. Copied'
    BY <2>1, CopiedStage
  <2>6. Offered(r)'
    BY <1>4, <2>1, OfferedStage
  <2>7. QED
    BY <2>3, <2>4, <2>5, <2>6
<1>5. QED
  BY <1>1, <1>2, <1>3, <1>4 DEF Contents

-----------------------------------------------------------------------------
(* The contents: the holder.                                               *)

\* Its steps leave alone what the cards have.
LEMMA ContentsFrame ==
  ASSUME Types, NEW r \in Nat, Contents(r), UNCHANGED <<handoff, stageVars>>,
         stopped \subseteq stopped',
         \A b \in Stage : b # 0 => box'[b] = box[b],
         ~err' /\ box'[NGPU] # <<>> => box'[NGPU][1].load = <<r, pos' - 1>>,
         phase' = "got" => logits' = <<r, pos' - 1>>,
         handoff = "p2p" => Pace'
  PROVE  Contents(r)'
<1> USE StageFacts
<1>1. \A h \in Stage : /\ Open(h)' => Open(h)
                       /\ Passed(h)' = Passed(h) /\ Took(h)' = Took(h) /\ (Live(h)' <=> Live(h))
  BY DEF Open, Live, Passed, Took, stageVars
<1>2. UNCHANGED <<pc, cur, R, text, hand, emit, recv>>
  BY DEF stageVars
<1>3. Folded(r)'
  BY <1>1, <1>2 DEF Contents, Folded
<1>4. ASSUME InMail(r) PROVE InMail(r)'
  <2>1. ASSUME NEW b \in Stage, b # 0, Open(b)', NEW i \in 1 .. Len(box'[b])
        PROVE  box'[b][i].load = <<r, box'[b][i].pos>>
    <3>1. Open(b) /\ box'[b] = box[b]
      BY <1>1, <2>1
    <3>2. QED
      BY <1>4, <2>1, <3>1 DEF InMail
  <2>2. \A b \in Stage : b # 0 /\ pc'[b] = "recv" => cur'[b].load = <<r, Passed(b)'>>
    BY <1>1, <1>2, <1>4 DEF InMail
  <2>3. QED
    BY <2>1, <2>2 DEF InMail
<1>5. Emitted(r) => Emitted(r)'
  BY <1>2 DEF Emitted
<1>6. Copied => Copied'
  BY <1>1, <1>2 DEF Copied
<1>7. Offered(r) => Offered(r)'
  <2>1. ASSUME NEW x \in Stage, NEW p \in Int, Due(x, p)' PROVE Due(x, p)
    <3>1. x < NGPU - 1
      BY <2>1 DEF Due
    <3>2. x + 1 \in Stage /\ x + 1 # 0
      BY <3>1
    <3>3. box'[x + 1] = box[x + 1]
      BY <3>2
    <3>4. QED
      BY <1>1, <1>2, <2>1, <3>2, <3>3 DEF Due
  <2>2. QED
    BY <1>2, <2>1 DEF Offered, Sent
<1>8. QED
  BY <1>3, <1>4, <1>5, <1>6, <1>7 DEF Contents

\* The two buffers are enough for the tokens that the holder shows in advance.
LEMMA PaceHolder ==
  ASSUME Types, Control, Short, NEW r \in Nat, Tokens(r), Pace, handoff = "p2p",
         Drives \/ Frees \/ \E w \in Worker : Lock(w), Tokens(r)'
  PROVE  Pace'
<1> USE StageFacts
<1>0. /\ UNCHANGED stageVars /\ pos \in Nat
      /\ \A h \in Stage : Len(text[h]) \in Nat
  <2>1. UNCHANGED stageVars
    <3>1. CASE Drives \/ FreeBegin \/ Freed \/ \E w \in Worker : Lock(w)
      BY <3>1 DEF Drives, ResetBegin, SendReset, Ack, ShowBegin, Show, Wait, WaitFails, Sample,
         EndRequest, FreeBegin, Freed, Lock
    <3>2. CASE StopBox(Main)
      BY <3>2 DEF StopBox, stageVars
    <3>3. QED
      BY <3>1, <3>2 DEF Frees
  <2>2. QED
    BY <2>1, CountFacts DEF Types
<1>1. UNCHANGED <<pc, text>>
  BY <1>0 DEF stageVars
<1>2. \A h \in Stage : /\ Passed(h)' = Passed(h) /\ Took(h)' = Took(h) /\ (Live(h)' <=> Live(h))
  BY <1>1 DEF Passed, Took, Live
<1>3. ASSUME \A h \in Stage : (Open(h)' => Open(h)) /\ (Open(h)' => Ahead(h)' = Ahead(h)),
             ~(phase' \in {"show", "submit", "got"} /\ Feeding')
             \/ \A h \in Stage : pos' <= Len(text[h]) + 1
      PROVE  Pace'
  <2>1. ASSUME NEW x \in Stage, NEW h \in Stage, x < h PROVE Apart(x, h)'
    <3>1. Apart(x, h)
      BY <2>1 DEF Pace
    <3>2. /\ Open(h)' => Open(h) /\ Ahead(h)' = Ahead(h)
          /\ Open(x)' => Open(x) /\ Ahead(x)' = Ahead(x)
      BY <1>3
    <3>3. QED
      BY <1>1, <1>2, <3>1, <3>2 DEF Apart
  <2>2. ASSUME phase' \in {"show", "submit", "got"}, Feeding', NEW h \in Stage
        PROVE  pos' <= Len(text'[h]) + 1
    BY <1>1, <1>3, <2>2
  <2>3. QED
    BY <2>1, <2>2 DEF Pace
<1>4. ASSUME box' = box \/ (box' = [box EXCEPT ![NGPU] = Tail(@)]), stopped \subseteq stopped',
             ~(phase' \in {"show", "submit", "got"} /\ Feeding')
             \/ \A h \in Stage : pos' <= Len(text[h]) + 1
      PROVE  Pace'
  <2>1. \A h \in Stage : box'[h] = box[h]
    BY <1>4 DEF Types
  <2>2. \A h \in Stage : (Open(h)' => Open(h)) /\ (Open(h)' => Ahead(h)' = Ahead(h))
    BY <1>2, <1>4, <2>1 DEF Ahead, Open
  <2>3. QED
    BY <1>3, <1>4, <2>2
<1>5. CASE ResetBegin
  BY <1>4, <1>5 DEF ResetBegin, boxVars, Feeding, Tokens
<1>6. CASE SendReset \/ Ack
  BY <1>6 DEF SendReset, Ack, Tokens
<1>7. CASE ShowBegin
  <2>1. UNCHANGED boxVars /\ phase = "show"
    BY <1>7 DEF ShowBegin
  <2>2. CASE err
    BY <1>4, <1>7, <2>1, <2>2 DEF ShowBegin, Release, boxVars
  <2>3. CASE ~err
    BY <1>4, <1>7, <2>1, <2>3 DEF ShowBegin, boxVars, Pace, Feeding
  <2>4. QED
    BY <2>2, <2>3
<1>8. CASE WaitFails \/ EndRequest
  BY <1>4, <1>8 DEF WaitFails, EndRequest, Release, boxVars
<1>9. CASE Sample
  BY <1>4, <1>9 DEF Sample, boxVars, Pace, Feeding, Tokens, Answered
<1>10. CASE Wait
  <2>1. box' = [box EXCEPT ![NGPU] = Tail(@)] /\ UNCHANGED <<stopped, pos>>
    BY <1>10, TokensWait DEF Wait
  <2>2. \A h \in Stage : Len(text[h]) = pos
    BY <1>10, TokensWait
  <2>3. \A h \in Stage : pos <= Len(text[h]) + 1
    BY <1>0, <2>2
  <2>4. QED
    BY <1>4, <2>1, <2>3
<1>11. CASE FreeBegin \/ Freed \/ StopBox(Main)
  <2>1. box' = box /\ stopped \subseteq stopped' /\ phase' \in {"free", "freed"}
    BY <1>11 DEF FreeBegin, Freed, StopBox, boxVars, workVars
  <2>2. QED
    BY <1>4, <2>1
<1>12. ASSUME NEW w \in Worker, Lock(w) PROVE Pace'
  <2>1. UNCHANGED boxVars /\ phase' = "reset"
    BY <1>12 DEF Lock
  <2>2. QED
    BY <1>4, <2>1 DEF boxVars
<1>13. CASE Show
  <2>1. /\ phase = "submit" /\ stopped' = stopped /\ err' = err /\ holder # Nobody
        /\ \A h \in Stage : h # 0 => box'[h] = box[h]
        /\ 0 \in stopped => box' = box
    BY <1>13 DEF Show, Pushed, Types
  <2>2. \A h \in Stage : pos <= Len(text[h]) + 1
    BY <2>1 DEF Pace, Feeding
  <2>3. \A h \in Stage : (Open(h)' <=> Open(h)) /\ (h # 0 => Ahead(h)' = Ahead(h))
    BY <1>2, <2>1 DEF Open, Ahead
  <2>4. Open(0) => Ahead(0)' = pos + 1
    <3>1. SUFFICES ASSUME Open(0) PROVE Ahead(0)' = pos + 1
      OBVIOUS
    <3>2. Took(0) + Len(box[0]) = pos /\ Took(0) \in Nat /\ Len(box[0]) \in Nat
      BY <2>1, <3>1, CountFacts DEF Tokens, Fed, Feeding
    <3>3. Len(box'[0]) = Len(box[0]) + 1
      <4>1. box'[0] = Append(box[0], Token(req, pos, Wanted))
        BY <1>13, <3>1 DEF Show, Pushed, Open, Types
      <4>2. box[0] \in Seq(Entry) /\ Token(req, pos, Wanted) \in Entry
        BY PartTypes, TokenType
      <4>3. Len(Append(box[0], Token(req, pos, Wanted))) = Len(box[0]) + 1
        BY <4>2, SeqFacts
      <4>4. QED
        BY <4>1, <4>3
    <3>4. Ahead(0)' = Took(0) + (Len(box[0]) + 1)
      BY <1>2, <3>3 DEF Ahead
    <3>5. \A a, b \in Nat : a + (b + 1) = a + b + 1
      OBVIOUS
    <3>6. QED
      BY <3>2, <3>4, <3>5
  <2>5. ASSUME NEW x \in Stage, NEW h \in Stage, x < h PROVE Apart(x, h)'
    <3>1. h # 0 /\ Apart(x, h)
      BY <2>5 DEF Pace
    <3>2. Open(x) /\ Live(h) => Ahead(x)' <= Len(text[h]) + 2
      <4>1. CASE x = 0
        <5>1. pos <= Len(text[h]) + 1 /\ pos \in Nat /\ Len(text[h]) \in Nat
          BY <1>0, <2>2
        <5>2. pos + 1 <= Len(text[h]) + 2
          <6> HIDE StageFacts
          <6>1. \A a, b \in Nat : a <= b + 1 => a + 1 <= b + 2
            OBVIOUS
          <6>2. QED
            BY <5>1, <6>1
        <5>3. QED
          BY <2>4, <4>1, <5>2
      <4>2. CASE x # 0
        BY <2>3, <3>1, <4>2 DEF Apart
      <4>3. QED
        BY <4>1, <4>2
    <3>3. QED
      BY <1>1, <1>2, <2>3, <3>1, <3>2 DEF Apart
  <2>6. ASSUME phase' \in {"show", "submit", "got"}, NEW h \in Stage PROVE pos' <= Len(text[h]) + 1
    <3>1. ~err /\ ~Wanted /\ pos' = pos + 1
      BY <1>13, <2>6 DEF Show, Release
    <3>2. plen <= 2 /\ plen \in Nat
      BY <2>1 DEF Short, Types
    <3>3. pos = 0
      BY <1>0, <3>1, <3>2 DEF Wanted
    <3>4. Len(text[h]) \in Nat
      BY <1>0
    <3>5. QED
      BY <3>1, <3>3, <3>4
  <2>7. QED
    BY <1>1, <2>5, <2>6 DEF Pace
<1>14. QED
  BY <1>5, <1>6, <1>7, <1>8, <1>9, <1>10, <1>11, <1>12, <1>13 DEF Drives, Frees

\* A step of the holder keeps Contents.
LEMMA ContentsHolder ==
  ASSUME Types, Control, Short, NEW r \in Nat, Tokens(r), Contents(r),
         Drives \/ Frees \/ \E w \in Worker : Lock(w), Tokens(r)'
  PROVE  Contents(r)'
<1> USE StageFacts
<1>1. handoff = "p2p" => Pace'
  BY PaceHolder DEF Contents
<1>2. /\ ~err /\ box[NGPU] # <<>> => box[NGPU][1].load = <<r, pos - 1>>
      /\ phase = "got" => logits = <<r, pos - 1>>
  BY DEF Contents, Folded
<1>3. ASSUME UNCHANGED <<handoff, boxVars, stageVars>>, err \/ pos' = pos,
             phase' = "got" => phase = "got" /\ logits' = logits /\ pos' = pos
      PROVE  Contents(r)'
  BY <1>1, <1>2, <1>3, ContentsFrame DEF boxVars
<1>4. CASE ResetBegin \/ Sample \/ FreeBegin \/ Freed
  BY <1>3, <1>4 DEF ResetBegin, Sample, FreeBegin, Freed
<1>5. CASE SendReset \/ Ack
  BY <1>5 DEF SendReset, Ack, Tokens
<1>6. CASE ShowBegin
  BY <1>3, <1>6 DEF ShowBegin, Release
<1>7. CASE WaitFails \/ \E w \in Worker : Lock(w)
  <2>1. err
    BY <1>7, AllOpen DEF WaitFails, Lock, Control, Tokens
  <2>2. UNCHANGED <<handoff, boxVars, stageVars>> /\ phase' = "reset"
    BY <1>7 DEF WaitFails, Release, Lock
  <2>3. QED
    BY <1>3, <2>1, <2>2
<1>8. CASE EndRequest
  <2>1. ~err /\ err' = err /\ phase' = "reset"
    BY <1>8 DEF EndRequest, MayEnd, Release, boxVars, Tokens, Answered
  <2>2. QED
    BY <2>1 DEF Tokens
<1>9. CASE StopBox(Main)
  <2>1. UNCHANGED <<handoff, box, err, stageVars, workVars>> /\ stopped \subseteq stopped'
    BY <1>9 DEF StopBox, stageVars
  <2>2. QED
    BY <1>1, <1>2, <2>1, ContentsFrame DEF workVars
<1>10. CASE Show
  <2>1. /\ UNCHANGED <<handoff, stageVars, stopped, err>> /\ phase = "submit" /\ phase' # "got"
        /\ \A b \in Box : b # 0 => box'[b] = box[b]
    BY <1>10 DEF Show, Pushed, Release, Types
  <2>2. ~err => box'[NGPU] = <<>>
    BY <2>1 DEF Tokens, Answered
  <2>3. QED
    BY <1>1, <2>1, <2>2, ContentsFrame
<1>11. CASE Wait
  <2>1. /\ UNCHANGED <<handoff, stageVars, stopped, err>> /\ phase = "wait"
        /\ box' = [box EXCEPT ![NGPU] = Tail(@)] /\ box[NGPU] # <<>>
    BY <1>11 DEF Wait
  <2>2. /\ ~err /\ phase' = "got" /\ logits' = box[NGPU][1].load /\ pos' = pos
    BY <1>11, TokensWait
  <2>3. Tail(box[NGPU]) = <<>>
    <3>1. Len(box[NGPU]) = 1 /\ box[NGPU] \in Seq(Entry)
      BY <2>1, <2>2, PartTypes DEF Tokens, Answered
    <3>2. QED
      BY <3>1, OneFacts
  <2>4. box'[NGPU] = <<>> /\ \A b \in Stage : box'[b] = box[b]
    BY <2>1, <2>3 DEF Types
  <2>5. logits' = <<r, pos' - 1>>
    BY <1>2, <2>1, <2>2
  <2>6. QED
    BY <1>1, <2>1, <2>4, <2>5, ContentsFrame
<1>12. QED
  BY <1>4, <1>5, <1>6, <1>7, <1>8, <1>9, <1>10, <1>11 DEF Drives, Frees

\* The cards begin a request with clear states.
LEMMA ContentsBegin ==
  ASSUME Types', Copying', NEW r \in Nat, r > 0, phase' = "show", pos' = 0, box'[NGPU] = <<>>,
         \A g \in Stage : pc'[g] = "pop" /\ text'[g] = <<>> /\ box'[g] = <<>>
  PROVE  Contents(r)'
<1> USE StageFacts
<1>1. Len(<<>>) = 0 /\ 1 .. Len(<<>>) = {} /\ Before(r, 0) = <<>>
  BY BeforeFacts
<1>2. \A g \in Stage : /\ Took(g)' = 0 /\ Passed(g)' = 0 /\ Ahead(g)' = 0 /\ Len(text'[g]) = 0
                       /\ emit'[g] = NoCopy /\ 1 .. Len(box'[g]) = {}
  <2>1. SUFFICES ASSUME NEW g \in Stage
                 PROVE  /\ Took(g)' = 0 /\ Passed(g)' = 0 /\ Ahead(g)' = 0 /\ Len(text'[g]) = 0
                        /\ emit'[g] = NoCopy /\ 1 .. Len(box'[g]) = {}
    OBVIOUS
  <2>2. pc'[g] = "pop" /\ Len(text'[g]) = 0 /\ Len(box'[g]) = 0 /\ 1 .. Len(box'[g]) = {}
    BY <1>1
  <2>3. Took(g)' = 0 /\ Passed(g)' = 0
    BY <2>2 DEF Took, Passed
  <2>4. Ahead(g)' = 0
    BY <2>2, <2>3 DEF Ahead
  <2>5. emit'[g] = NoCopy
    BY DEF Copying
  <2>6. QED
    BY <2>2, <2>3, <2>4, <2>5
<1>3. Folded(r)'
  <2>1. \A g \in Stage : text'[g] = Before(r, Len(text'[g]))
    BY <1>1, <1>2
  <2>2. QED
    BY <2>1 DEF Folded
<1>4. InMail(r)'
  BY <1>2 DEF InMail
<1>5. Pace'
  <2>1. 0 <= 0 /\ 0 <= 0 + 1 /\ 0 <= 0 + 2
    OBVIOUS
  <2>2. ASSUME NEW g \in Stage, NEW h \in Stage PROVE Apart(g, h)'
    BY <1>2, <2>1 DEF Apart
  <2>3. \A h \in Stage : pos' <= Len(text'[h]) + 1
    BY <1>2, <2>1
  <2>4. QED
    BY <2>2, <2>3 DEF Pace
<1>6. Emitted(r)' /\ Copied'
  BY <1>2 DEF Emitted, Copied
<1>7. Offered(r)'
  <2>1. ASSUME NEW g \in Stage, NEW p \in Int, Due(g, p)' PROVE FALSE
    <3>1. g < NGPU - 1
      BY <2>1 DEF Due
    <3>2. g + 1 \in Stage
      BY <3>1
    <3>3. QED
      BY <1>2, <2>1, <3>2 DEF Due
  <2>2. QED
    BY <2>1 DEF Offered
<1>8. QED
  BY <1>3, <1>4, <1>5, <1>6, <1>7 DEF Contents

\* Steps of the other workers and of the signal handler.
LEMMA ContentsQuiet ==
  ASSUME NEW r \in Nat, Contents(r), UNCHANGED <<handoff, boxVars, stageVars, phase, pos, logits>>
  PROVE  Contents(r)'
<1> USE DEF boxVars, stageVars
<1>1. Folded(r)'
  BY DEF Contents, Folded, Passed
<1>2. InMail(r) => InMail(r)'
  BY DEF InMail, Open, Live, Passed
<1>3. Pace => Pace'
  <2>1. \A g \in Stage : /\ Took(g)' = Took(g) /\ Ahead(g)' = Ahead(g) /\ Passed(g)' = Passed(g)
                         /\ (Open(g)' <=> Open(g)) /\ (Live(g)' <=> Live(g))
    BY DEF Took, Ahead, Passed, Open, Live
  <2>2. Feeding' <=> Feeding
    BY DEF Feeding
  <2>3. \A g, h \in Stage : Apart(g, h) => Apart(g, h)'
    BY <2>1 DEF Apart
  <2>4. QED
    BY <2>2, <2>3 DEF Pace
<1>4. (Emitted(r) => Emitted(r)') /\ (Copied => Copied')
  BY DEF Emitted, Copied, Passed
<1>5. Offered(r) => Offered(r)'
  BY DEF Offered, Due, Sent, Passed, Open, Live
<1>6. QED
  BY <1>1, <1>2, <1>3, <1>4, <1>5 DEF Contents

\* With paced prompts every request that travels in the buffers is short.
LEMMA ShortHolds ==
  ASSUME Paced
  PROVE  Spec => []Short
<1>1. Init => Short
  BY StageFacts DEF Init, Short
<1>2. Types /\ Short /\ [Next]_vars => Short'
  <2>1. SUFFICES ASSUME Types, Short, [Next]_vars PROVE Short'
    OBVIOUS
  <2>2. ASSUME handoff' = handoff, (plen' = plen /\ holder' = holder) \/ holder' = Nobody
        PROVE  Short'
    BY <2>1, <2>2 DEF Short
  <2>3. CASE UNCHANGED vars
    BY <2>2, <2>3 DEF vars, workVars
  <2>4. CASE \E g \in Stage : Runs(g) \/ Copies(g) \/ StageFail(g)
    BY <2>2, <2>4 DEF Runs, Copies, Popped, PopStopped, Receive, RecvResidualDev, Run, Send, Push,
       StopBox, CopyIn, CopyOut, StageFail, workVars
  <2>5. CASE Drives
    BY <2>2, <2>5 DEF Drives, ResetBegin, SendReset, Ack, ShowBegin, Show, Wait, WaitFails, Sample,
       EndRequest, Release
  <2>6. CASE Frees \/ Signal
    BY <2>2, <2>6 DEF Frees, FreeBegin, StopBox, Freed, Signal, workVars
  <2>7. ASSUME NEW w \in Worker, Busy(w) \/ Accept(w) \/ Interrupted(w) PROVE Short'
    BY <2>2, <2>7 DEF Busy, Accept, Interrupted, workVars
  <2>8. ASSUME NEW w \in Worker, Lock(w) PROVE Short'
    <3>1. handoff' = handoff /\ plen' \in 1 .. LongestPrompt[handoff] /\ handoff \in DOMAIN LongestPrompt
      BY <2>1, <2>8 DEF Lock, Types
    <3>2. SUFFICES ASSUME handoff = "p2p" PROVE plen' <= 2
      BY <3>1 DEF Short
    <3>3. LongestPrompt["p2p"] <= 2 /\ LongestPrompt["p2p"] \in Nat
      BY <3>1, <3>2, PromptFacts DEF Paced
    <3>4. QED
      BY <3>1, <3>2, <3>3
  <2>9. QED
    BY <2>1, <2>3, <2>4, <2>5, <2>6, <2>7, <2>8 DEF Next, Serves
<1>3. QED
  BY <1>1, <1>2, TypesHold, PTL DEF Spec

\* Every step keeps FullFlow.
LEMMA FullFlowStep ==
  ASSUME Types, Control, Copying, Types', Copying', Short, FullFlow, [Next]_vars
  PROVE  FullFlow'
<1>1. ASSUME NEW r \in Nat, Tokens(r), Contents(r) PROVE FullFlow'
  <2>1. CASE \E g \in Stage : Runs(g) \/ Copies(g) \/ StageFail(g)
    <3>1. Tokens(r)' /\ Contents(r)'
      BY <1>1, <2>1, TokensStage, ContentsStage
    <3>2. QED
      BY <3>1 DEF FullFlow
  <2>2. CASE Drives \/ Frees \/ \E w \in Worker : Lock(w)
    <3>1. Tokens(r)' \/ Rest'
      BY <1>1, <2>2, TokensHolder
    <3>2. Tokens(r)' => Contents(r)'
      BY <1>1, <2>2, ContentsHolder
    <3>3. QED
      BY <3>1, <3>2 DEF FullFlow
  <2>3. CASE Signal \/ (\E w \in Worker : Elsewhere(w)) \/ UNCHANGED vars
    <3>1. UNCHANGED flowVars /\ UNCHANGED <<handoff, boxVars, stageVars, phase, pos, logits>>
      BY <2>3, ElsewhereQuiet DEF Signal, Elsewhere, Busy, Accept, Interrupted, vars, workVars
    <3>2. Tokens(r)' /\ Contents(r)'
      BY <1>1, <3>1, FlowQuiet, ContentsQuiet
    <3>3. QED
      BY <3>2 DEF FullFlow
  <2>4. QED
    BY <2>1, <2>2, <2>3 DEF Next, Serves, Elsewhere
<1>2. ASSUME UNCHANGED flowVars, Rest \/ Resetting \/ Lost PROVE FullFlow'
  BY <1>2, FlowQuiet DEF FullFlow
<1>3. ASSUME ~UNCHANGED flowVars, Rest PROVE FullFlow'
  BY <1>3, RestStep DEF FullFlow
<1>4. ASSUME ~UNCHANGED flowVars, Lost PROVE FullFlow'
  BY <1>4, LostStep DEF FullFlow
<1>5. ASSUME ~UNCHANGED flowVars, Resetting PROVE FullFlow'
  <2>1. CASE Resetting' \/ Lost'
    BY <2>1 DEF FullFlow
  <2>2. CASE /\ Ack /\ \A g \in Stage : pc'[g] = "pop" /\ text'[g] = <<>> /\ box'[g] = <<>>
             /\ box'[NGPU] = <<>> /\ phase' = "show" /\ pos' = 0
             /\ UNCHANGED <<handoff, req, err, stageVars>>
    <3>1. ~err' /\ req \in Nat /\ req = req' /\ req > 0
      BY <1>5, <2>2 DEF Resetting, Types, Control, Ack
    <3>2. Tokens(req)' /\ Contents(req)'
      <4>1. ASSUME NEW r \in Nat, r = req' PROVE Tokens(r)'
        BY <2>2, <3>1, <4>1, TokensBegin
      <4>2. ASSUME NEW r \in Nat, r > 0 PROVE Contents(r)'
        BY <2>2, <4>2, ContentsBegin
      <4>3. PICK r \in Nat : r = req' /\ r > 0
        BY <3>1
      <4>4. Tokens(r)' /\ Contents(r)'
        BY <4>1, <4>2, <4>3
      <4>5. QED
        BY <3>1, <4>3, <4>4
    <3>3. QED
      BY <3>1, <3>2 DEF FullFlow
  <2>3. QED
    BY <1>5, <2>1, <2>2, ResettingStep
<1>6. QED
  BY <1>1, <1>2, <1>3, <1>4, <1>5 DEF FullFlow

\* FullFlow holds in every reachable state.
LEMMA FullFlowHolds ==
  ASSUME Paced
  PROVE  Spec => []FullFlow
<1>1. Init => FullFlow
  BY StageFacts DEF Init, FullFlow, Rest, Empty
<1>2. QED
  BY <1>1, FullFlowStep, ShortHolds, TypesHold, ControlHolds, CopyingHolds, PTL DEF Spec

-----------------------------------------------------------------------------
\* "this double buffering is race-free": with prompts of one token or two in the
\* two-buffer mode, and of any length in the mailbox mode, a card runs a token with
\* the residual of that token and on a state made from the tokens before it.
THEOREM HandoffRaceFreeHolds ==
  ASSUME Paced
  PROVE  Spec => []HandoffRaceFree
<1>1. Types /\ FullFlow => HandoffRaceFree
  <2>1. SUFFICES ASSUME Types, FullFlow, NEW g \in Stage, pc[g] = "run", recv[g] = NoCopy,
                        emit[g] = NoCopy, cur[g].pos # Reset
                 PROVE  /\ R[g] = <<cur[g].req, cur[g].pos>>
                        /\ text[g] = Before(cur[g].req, cur[g].pos)
    BY DEF HandoffRaceFree
  <2>2. Works(g)
    BY <2>1 DEF Works
  <2>3. ~Rest /\ ~Lost
    BY <2>1, <2>2 DEF Rest, Lost
  <2>4. ~Resetting
    BY <2>1 DEF Resetting, InBox, InStage
  <2>5. PICK r \in Nat : Tokens(r) /\ Contents(r)
    BY <2>1, <2>3, <2>4 DEF FullFlow
  <2>6. cur[g].req = r /\ cur[g].pos = Passed(g) /\ Passed(g) = Len(text[g])
    BY <2>1, <2>2, <2>5 DEF Tokens, InOrder, Passed
  <2>7. R[g] = <<r, Passed(g)>> /\ text[g] = Before(r, Len(text[g]))
    BY <2>1, <2>5 DEF Contents, Folded
  <2>8. QED
    BY <2>6, <2>7
<1>2. QED
  BY <1>1, FullFlowHolds, TypesHold, PTL

-----------------------------------------------------------------------------
(* The promise of SerialEngine.                                            *)

\* The answer that comes is that of the position shown last.
LEMMA WaitAnswers ==
  ASSUME Types, Control, FullFlow, Wait
  PROVE  /\ ~err /\ phase = "wait" /\ phase' = "got" /\ logits' = <<req, pos - 1>>
         /\ UNCHANGED <<holder, req, pos, err>>
<1>1. phase = "wait" /\ box[NGPU] # <<>> /\ err' = err
  BY DEF Wait
<1>2. PICK r \in Nat : Tokens(r) /\ Contents(r)
  BY <1>1 DEF FullFlow, Rest, Resetting, Lost
<1>3. /\ ~err /\ phase' = "got" /\ logits' = box[NGPU][1].load
      /\ UNCHANGED <<holder, req, pos>>
  BY <1>2, TokensWait
<1>4. r = req
  BY <1>1, <1>2, <1>3 DEF Tokens, Fed, Feeding
<1>5. box[NGPU][1].load = <<r, pos - 1>>
  BY <1>1, <1>2, <1>3 DEF Contents, Folded
<1>6. QED
  BY <1>1, <1>3, <1>4, <1>5

\* Every step keeps Older.
LEMMA OlderStep ==
  ASSUME Types, Control, FullFlow, Older, [Next]_vars
  PROVE  Older'
<1> USE StageFacts
<1>1. ASSUME logits' = logits, pos' = pos, phase' = phase \/ phase' \notin {"wait", "got"}
      PROVE  Older'
  BY <1>1 DEF Older
<1>2. ASSUME Release PROVE Older'
  BY <1>2 DEF Release, Older
<1>3. CASE UNCHANGED workVars
  BY <1>1, <1>3 DEF workVars
<1>4. CASE ResetBegin \/ SendReset \/ Ack \/ Sample \/ FreeBegin \/ Freed
  BY <1>1, <1>4 DEF ResetBegin, SendReset, Ack, Sample, FreeBegin, Freed
<1>5. CASE WaitFails \/ EndRequest
  BY <1>2, <1>5 DEF WaitFails, EndRequest
<1>6. CASE ShowBegin
  BY <1>1, <1>2, <1>6 DEF ShowBegin
<1>7. CASE Show
  <2>1. CASE err
    BY <1>2, <1>7, <2>1 DEF Show
  <2>2. CASE ~err
    <3>1. pos' = pos + 1 /\ logits' = logits /\ phase' \in {"wait", "show"} /\ pos \in Nat
      BY <1>7, <2>2 DEF Show, Types
    <3>2. logits[2] \in Int
      BY DEF Types, Residual
    <3>3. logits # Junk => logits[2] < pos
      BY DEF Older
    <3>4. pos' > 0 /\ (logits # Junk => logits[2] < pos' /\ logits[2] < pos' - 1)
      BY <3>1, <3>2, <3>3
    <3>5. QED
      BY <3>1, <3>4 DEF Older
  <2>3. QED
    BY <2>1, <2>2
<1>8. CASE Wait
  <2>1. logits' = <<req, pos - 1>> /\ pos' = pos /\ phase' = "got" /\ phase = "wait" /\ pos \in Nat
    BY <1>8, WaitAnswers DEF Types
  <2>2. pos > 0
    BY <2>1 DEF Older
  <2>3. logits'[2] < pos'
    BY <2>1
  <2>4. QED
    BY <2>1, <2>2, <2>3 DEF Older
<1>9. ASSUME NEW w \in Worker, Lock(w) PROVE Older'
  <2>1. logits' = logits /\ phase' = "reset" /\ logits = Junk
    BY <1>9 DEF Lock, Control
  <2>2. QED
    BY <2>1 DEF Older
<1>10. QED
  <2>1. CASE UNCHANGED vars
    BY <1>3, <2>1 DEF vars
  <2>2. CASE \E g \in Stage : Runs(g) \/ Copies(g) \/ StageFail(g)
    BY <1>3, <2>2 DEF Runs, Copies, Popped, PopStopped, Receive, RecvResidualDev, Run, Send, Push,
       StopBox, CopyIn, CopyOut, StageFail
  <2>3. CASE Signal \/ StopBox(Main) \/ \E w \in Worker : Busy(w) \/ Accept(w) \/ Interrupted(w)
    BY <1>3, <2>3 DEF Signal, StopBox, Busy, Accept, Interrupted
  <2>4. QED
    BY <1>4, <1>5, <1>6, <1>7, <1>8, <1>9, <2>1, <2>2, <2>3 DEF Next, Drives, Frees, Serves

\* Older holds in every reachable state.
LEMMA OlderHolds ==
  ASSUME Paced
  PROVE  Spec => []Older
<1>1. Init => Older
  BY DEF Init, Older
<1>2. QED
  BY <1>1, OlderStep, FullFlowHolds, TypesHold, ControlHolds, PTL DEF Spec

\* Every step of the engine is one of SerialEngine, or none of it.
LEMMA EngineStep ==
  ASSUME Types, Control, FullFlow, Older, [Next]_vars
  PROVE  [Engine!Next]_(Engine!vars)
<1> USE StageFacts
<1>1. ASSUME UNCHANGED <<holder, req, pos, logits, err>> PROVE [Engine!Next]_(Engine!vars)
  BY <1>1 DEF Engine!vars
<1>2. ASSUME holder # Nobody, Release, err' = err, err \/ (pos > 0 /\ logits = <<req, pos - 1>>)
      PROVE  [Engine!Next]_(Engine!vars)
  BY <1>2 DEF Release, Engine!Next, Engine!Give
<1>3. ASSUME NEW g \in Stage, Runs(g) \/ Copies(g) \/ StageFail(g)
      PROVE  [Engine!Next]_(Engine!vars)
  <2>1. UNCHANGED workVars
    BY <1>3 DEF Runs, Copies, Popped, PopStopped, Receive, RecvResidualDev, Run, Send, Push, StopBox,
       CopyIn, CopyOut, StageFail
  <2>2. err' = err \/ err' = TRUE
    BY <1>3 DEF Runs, Copies, Popped, PopStopped, Receive, RecvResidualDev, Run, Send, Push, StopBox,
       CopyIn, CopyOut, StageFail, boxVars
  <2>3. CASE err' = err
    BY <1>1, <2>1, <2>3 DEF workVars
  <2>4. CASE ~err /\ err' = TRUE
    BY <2>1, <2>4 DEF workVars, Engine!Next, Engine!Break
  <2>5. QED
    BY <2>2, <2>3, <2>4 DEF Types
<1>4. CASE ResetBegin \/ SendReset \/ Ack \/ Sample \/ FreeBegin \/ Freed
  BY <1>1, <1>4 DEF ResetBegin, SendReset, Ack, Sample, FreeBegin, Freed, boxVars
<1>5. CASE StopBox(Main) \/ Signal \/ UNCHANGED vars
  BY <1>1, <1>5 DEF StopBox, Signal, vars, workVars, boxVars
<1>6. CASE ShowBegin
  BY <1>1, <1>2, <1>6 DEF ShowBegin, boxVars
<1>7. CASE Show
  <2>1. CASE err
    BY <1>2, <1>7, <2>1 DEF Show
  <2>2. CASE ~err
    BY <1>7, <2>2 DEF Show, Engine!Next, Engine!Show
  <2>3. QED
    BY <2>1, <2>2
<1>8. CASE Wait
  <2>1. /\ ~err /\ phase = "wait" /\ logits' = <<req, pos - 1>> /\ holder # Nobody
        /\ UNCHANGED <<holder, req, pos, err>>
    BY <1>8, WaitAnswers DEF Wait
  <2>2. pos > 0 /\ (logits # Junk => logits[2] < pos - 1)
    BY <2>1 DEF Older
  <2>3. req > 0 /\ pos \in Nat /\ req \in Nat /\ logits \in Residual
    BY <2>1 DEF Control, Types
  <2>4. logits # <<req, pos - 1>>
    BY <2>2, <2>3 DEF Junk, Residual
  <2>5. QED
    BY <2>1, <2>2, <2>4 DEF Engine!Next, Engine!Answer
<1>9. CASE WaitFails
  <2>1. err
    BY <1>9, AllOpen DEF WaitFails
  <2>2. QED
    BY <1>2, <1>9, <2>1 DEF WaitFails, boxVars
<1>10. CASE EndRequest
  <2>1. phase = "got" /\ holder # Nobody /\ Release /\ err' = err
    BY <1>10 DEF EndRequest, MayEnd, boxVars
  <2>2. PICK r \in Nat : Tokens(r) /\ Contents(r)
    BY <2>1 DEF FullFlow, Rest, Resetting, Lost
  <2>3. r = req /\ logits = <<r, pos - 1>>
    BY <2>1, <2>2 DEF Tokens, Fed, Feeding, Answered, Contents, Folded
  <2>4. pos > 0
    BY <2>1 DEF Older
  <2>5. QED
    BY <1>2, <2>1, <2>3, <2>4
<1>11. ASSUME NEW w \in Worker, Lock(w) PROVE [Engine!Next]_(Engine!vars)
  <2>1. holder = Nobody /\ logits = Junk
    BY <1>11 DEF Lock, Control
  <2>2. Engine!Take(w)
    BY <1>11, <2>1 DEF Lock, boxVars, Engine!Take
  <2>3. QED
    BY <2>2 DEF Engine!Next
<1>12. ASSUME NEW w \in Worker, Busy(w) \/ Accept(w) \/ Interrupted(w)
       PROVE  [Engine!Next]_(Engine!vars)
  BY <1>1, <1>12 DEF Busy, Accept, Interrupted, workVars, boxVars
<1>13. QED
  BY <1>3, <1>4, <1>5, <1>6, <1>7, <1>8, <1>9, <1>10, <1>11, <1>12 DEF Next, Drives, Frees, Serves

\* The four-card engine keeps the promise of SerialEngine, for any number of cards
\* and workers and whichever cards fail, with the prompts that HandoffRaceFreeHolds
\* allows: whoever holds it gets the logits of the position it showed last, made
\* from exactly the tokens it has shown, once per wait, and gives it back only with
\* an answer or broken.
THEOREM EngineImplements ==
  ASSUME Paced
  PROVE  Spec => EngineSpec
<1>1. Init => Engine!Init
  BY DEF Init, Engine!Init
<1>2. QED
  BY <1>1, EngineStep, OlderHolds, FullFlowHolds, TypesHold, ControlHolds, PTL
     DEF Spec, EngineSpec, Engine!Spec
=============================================================================
