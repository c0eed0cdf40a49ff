-------------------------- MODULE ExpertCache_proofs --------------------------
(***************************************************************************)
(* Proofs about ExpertCache, for any number of layers, experts, slots and  *)
(* tokens, and uploads that may fail.                                      *)
(*                                                                         *)
(* Queue says what the compute stream can hold at each step of the host:   *)
(* waits for copies, then the experts of the layer before, then the router *)
(* and the dispatch of the layer at hand.  Fill says of every mapped       *)
(* expert that the last write to its slot, made, queued or still to be     *)
(* asked for by the host, is its own.  Routing says that the slots of the  *)
(* token at hand are still those of its experts when the experts run; it   *)
(* needs as many slots as a token has experts, for then the coldest slot   *)
(* is never one that this dispatch has just given out (Fresh).             *)
(***************************************************************************)
EXTENDS ExpertCache, FiniteSetTheorems, WellFoundedInduction, TLAPS

Op    == {"route", "dispatch", "wait", "moe"}
Value == Nat \X (Expert \cup {None})

MapTypes ==
  /\ slots \in SlotChoices
  /\ slot_for_expert \in [Layer -> [Expert -> Slot \cup {None}]]
  /\ expert_in_slot \in [Layer -> [Slot -> Expert \cup {None}]]
  /\ age \in [Layer -> [Slot -> Nat]] /\ clock \in [Layer -> Nat]
  /\ route_slot \in [Layer -> [1 .. TOPK -> Slot \cup {None}]]
  /\ sel \in Selections /\ at \in 0 .. TOPK + 1
Miss      == [expert : Expert, slot : Slot]
MailTypes == mb \in [Layer -> [seq : Nat, miss_n : Nat, misses : Seq(Miss)]]
Operation == [op : Op, layer : Layer, n : Nat]
Write     == [buf : Buffer, layer : Layer, slot : Slot]
StreamTypes ==
  /\ compute \in Seq(Operation)
  /\ content \in [Layer -> [Slot -> Value]]
  /\ copies \in Seq(Write) /\ done \in Nat
  /\ buf \in [Buffer -> Value] /\ cur \in Buffer
HostTypes ==
  /\ hpc \in {"prefill", "token", "spin", "serve", "moe", "sync", "failed"}
  /\ layer \in Layer /\ miss \in Nat \ {0} /\ expected_seq \in [Layer -> Nat] /\ ntok \in Nat

CacheTypes == MapTypes /\ MailTypes /\ StreamTypes /\ HostTypes

-----------------------------------------------------------------------------
(* The compute stream. *)

\* The first k operations of q: waits, and behind them perhaps the experts of layer l.
Pattern(q, k, l) ==
  \A i \in 1 .. k : \/ q[i].op = "wait"
                    \/ q[i].op = "moe" /\ q[i].layer = l /\ i = k
AllWaits(q) == \A i \in 1 .. Len(q) : q[i].op = "wait"
NoWaits(q)  == \A i \in 1 .. Len(q) : q[i].op \in {"route", "moe"}
\* Behind what is left of the layer before, the router and the dispatch of layer l.
Dispatching(q, l, n) ==
  /\ q[Len(q)] = [op |-> "dispatch", layer |-> l, n |-> n]
  /\ Len(q) > 1 => q[Len(q) - 1].op = "route"
  /\ Pattern(q, Len(q) - 2, l - 1)

\* What the host has launched and the card has not executed.
Queue ==
  /\ hpc = "failed" => AllWaits(compute)
  /\ IF Resident
     THEN /\ hpc \notin {"spin", "serve"} /\ at = 0
          /\ hpc = "prefill" => AllWaits(compute)
          /\ hpc \in {"token", "moe"} => NoWaits(compute)
          /\ hpc = "sync" => AllWaits(compute) \/ NoWaits(compute)
     ELSE /\ hpc # "prefill"
          /\ at > 0 => Running("dispatch")
          /\ hpc \in {"serve", "moe"} => AllWaits(compute)
          /\ hpc = "token" => Pattern(compute, Len(compute), layer - 1)
          /\ hpc = "sync" => layer = 1 /\ Pattern(compute, Len(compute), NL)
          /\ hpc = "spin" /\ compute # <<>> => Dispatching(compute, layer, expected_seq[layer])

\* The last copy asked for has a wait of its own in the compute stream.
WaitsUpTo(q, n) == \A i \in 1 .. Len(q) : q[i].op = "wait" => q[i].n <= n
WaitsFor(q, n)  == \E i \in 1 .. Len(q) : q[i].op = "wait" /\ q[i].n = n
Waited ==
  /\ WaitsUpTo(compute, done + Len(copies))
  /\ copies # <<>> => WaitsFor(compute, done + Len(copies))

\* The mailbox: the stamp of the last dispatch, and the number of its misses.
Mail ==
  /\ ~Resident => \A l \in Layer :
       mb[l].seq = IF l = layer /\ hpc = "spin" /\ compute # <<>> THEN expected_seq[l] - 1
                   ELSE expected_seq[l]
  /\ Resident => \A l \in Layer : mb[l].misses = <<>>
  /\ hpc = "serve" \/ (hpc = "spin" /\ (at = TOPK + 1 \/ compute = <<>>)) =>
       mb[layer].miss_n = Len(mb[layer].misses)

-----------------------------------------------------------------------------
(* The map. *)

\* The two maps are inverse.
Inverses ==
  \A l \in Layer : \A e \in Expert : \A s \in Slot :
    slot_for_expert[l][e] = s <=> expert_in_slot[l][s] = e

\* With a slot for every expert the map is the identity, as far as it was filled.
Identity ==
  Resident => \A l \in Layer : \A e \in Expert :
    /\ slot_for_expert[l][e] \in {None, e}
    /\ hpc = "prefill" => (slot_for_expert[l][e] # None <=> l < layer \/ (l = layer /\ e < miss - 1))
    /\ hpc \notin {"prefill", "failed"} => slot_for_expert[l][e] = e

\* The first miss of layer l that the host has still to serve.
First(l) ==
  IF l = layer /\ hpc = "serve" THEN miss
  ELSE IF l = layer /\ hpc = "spin" /\ (at > 0 \/ compute = <<>>) THEN 1
  ELSE Len(mb[l].misses) + 1

\* What a slot holds in the end is the last thing written to it: by a miss of the list q
\* that is still to be served, the k-th or a later one, ...
Listed(q, k, e, s) ==
  \E i \in k .. Len(q) : /\ q[i] = [expert |-> e, slot |-> s]
                         /\ \A j \in i + 1 .. Len(q) : q[j].slot # s
Unlisted(q, k, s) == \A i \in k .. Len(q) : q[i].slot # s
\* ... or by a copy under way, or by one that was made.
Into(c, l, s) == c.layer = l /\ c.slot = s
Uploading(l, e, s) ==
  \E i \in 1 .. Len(copies) : /\ Into(copies[i], l, s) /\ buf[copies[i].buf] = <<l, e>>
                              /\ \A j \in i + 1 .. Len(copies) : ~Into(copies[j], l, s)
Uploaded(l, e, s) == /\ content[l][s] = <<l, e>>
                     /\ \A i \in 1 .. Len(copies) : ~Into(copies[i], l, s)
Arriving(l, e, s) == Uploading(l, e, s) \/ Uploaded(l, e, s)
Provided(l, e, s) == \/ Listed(mb[l].misses, First(l), e, s)
                     \/ Unlisted(mb[l].misses, First(l), s) /\ Arriving(l, e, s)

\* Every expert that is mapped is there in the end.
Fill == hpc # "failed" =>
  \A l \in Layer : \A e \in Expert : \A s \in Slot :
    slot_for_expert[l][e] = s => Provided(l, e, s)

-----------------------------------------------------------------------------
(* The routing of the token at hand, when a layer has a slot for each of its *)
(* experts.                                                                 *)

Routed(l, k) ==
  \A j \in 1 .. k : route_slot[l][j] \in Slot /\ slot_for_expert[l][sel[j]] = route_slot[l][j]
\* The slots of the experts dispatched are the last ones used.
Fresh(l) ==
  /\ at <= clock[l]
  /\ \A j \in 1 .. at : age[l][route_slot[l][j]] > clock[l] - at
  /\ \A s \in Slot : (\A j \in 1 .. at : route_slot[l][j] # s) => age[l][s] <= clock[l] - at

Ages == \A l \in Layer : \A s \in Slot : age[l][s] <= clock[l]

Routing ==
  ~Resident /\ slots >= TOPK =>
    /\ at > 0 => Routed(layer, IF at <= TOPK THEN at ELSE TOPK)
    /\ at > 0 /\ at <= TOPK => Fresh(layer)
    /\ hpc \in {"serve", "moe"} \/ (hpc = "spin" /\ compute = <<>>) => Routed(layer, TOPK)
    /\ \A i \in 1 .. Len(compute) : compute[i].op = "moe" => Routed(compute[i].layer, TOPK)

-----------------------------------------------------------------------------
(* Data. *)

\* The constants.
LEMMA ConstantFacts ==
  /\ NL \in Nat \ {0} /\ NEXP \in Nat \ {0} /\ TOPK \in Nat \ {0} /\ TOPK <= NEXP
  /\ 1 \in Layer /\ NL \in Layer /\ \A l \in Layer : l \in Nat /\ 1 <= l /\ l <= NL
  /\ \A l \in Layer : l < NL => l + 1 \in Layer
  /\ \A e \in Expert : e \in Nat /\ e < NEXP /\ e # None
  /\ 0 \in Expert
BY CacheAssumption DEF CacheAssumption, Layer, Expert, None

\* The slots of a layer: one at least, and no more than there are experts.
LEMMA SlotFacts ==
  ASSUME slots \in SlotChoices
  PROVE  /\ slots \in Nat \ {0} /\ slots <= NEXP
         /\ \A s \in Slot : s \in Nat /\ s < slots /\ s # None
         /\ Slot \subseteq Expert
         /\ Resident => Slot = Expert
BY CacheAssumption, ConstantFacts DEF CacheAssumption, Slot, Resident, Expert, None

\* What append, tail and head do to a sequence.
LEMMA SeqFacts ==
  ASSUME NEW S, NEW s \in Seq(S)
  PROVE  /\ Len(s) \in Nat /\ (s = <<>> <=> Len(s) = 0) /\ DOMAIN s = 1 .. Len(s)
         /\ \A i \in 1 .. Len(s) : s[i] \in S
         /\ \A e \in S : /\ Append(s, e) \in Seq(S) /\ Len(Append(s, e)) = Len(s) + 1
                         /\ Append(s, e)[Len(s) + 1] = e
                         /\ \A i \in 1 .. Len(s) : Append(s, e)[i] = s[i]
         /\ s # <<>> => /\ Tail(s) \in Seq(S) /\ Len(Tail(s)) = Len(s) - 1
                        /\ Head(s) = s[1] /\ Head(s) \in S
                        /\ \A i \in 1 .. Len(s) - 1 : Tail(s)[i] = s[i + 1]
<1>1. Len(s) \in Nat /\ (s = <<>> <=> Len(s) = 0) /\ DOMAIN s = 1 .. Len(s)
  OBVIOUS
<1>2. QED
  BY <1>1

\* The experts of a token are experts, each once.
LEMMA SelectionFacts ==
  ASSUME NEW s \in Selections
  PROVE  /\ \A k \in 1 .. TOPK : s[k] \in Expert
         /\ \A i, j \in 1 .. TOPK : s[i] = s[j] => i = j
BY DEF Selections

\* The coldest slot is a slot, and none is colder.
LEMMA ColdestFacts ==
  ASSUME slots \in SlotChoices, NEW a \in [Slot -> Nat]
  PROVE  Coldest(a) \in Slot /\ \A t \in Slot : a[Coldest(a)] <= a[t]
<1> DEFINE colder(t, s) == a[t] < a[s] \/ (a[t] = a[s] /\ t <= s)
           upto(s) == {t \in Slot : colder(t, s)}
           T == {upto(s) : s \in Slot}
<1>1. IsFiniteSet(Slot) /\ 0 \in Slot
  BY SlotFacts, FS_Interval DEF Slot
<1>2. T \subseteq FiniteSubsetsOf(Slot) /\ T # {}
  <2>1. \A s \in Slot : upto(s) \in SUBSET Slot
    OBVIOUS
  <2>2. \A s \in Slot : upto(s) \in FiniteSubsetsOf(Slot)
    BY <1>1, <2>1, FS_Subset DEF FiniteSubsetsOf
  <2>3. T \subseteq FiniteSubsetsOf(Slot)
    BY <2>2, Zenon
  <2>4. upto(0) \in T
    BY <1>1, Zenon
  <2>5. QED
    BY <2>3, <2>4, Zenon
<1>3. PICK x \in T : \A y \in T : <<y, x>> \notin StrictSubsetOrdering(Slot)
  BY <1>2, WFMin, FS_StrictSubsetOrderingWellFounded
<1>4. PICK s \in Slot : x = upto(s)
  BY <1>3
<1>5. ASSUME NEW t \in Slot, ~colder(s, t) PROVE FALSE
  <2>1. s \in Int /\ t \in Int /\ a[s] \in Nat /\ a[t] \in Nat
    BY DEF Slot
  <2>2. colder(s, s) /\ colder(t, s)
    BY <1>5, <2>1
  <2>3. \A u \in Slot : colder(u, t) => colder(u, s)
    <3>1. SUFFICES ASSUME NEW u \in Slot, colder(u, t) PROVE colder(u, s)
      OBVIOUS
    <3>2. u \in Int /\ a[u] \in Nat
      BY DEF Slot
    <3>3. QED
      BY <2>1, <2>2, <3>1, <3>2
  <2>4. upto(t) \subseteq upto(s) /\ s \in upto(s) /\ s \notin upto(t)
    BY <1>5, <2>2, <2>3
  <2>5. <<upto(t), upto(s)>> \in StrictSubsetOrdering(Slot)
    BY <2>4 DEF StrictSubsetOrdering
  <2>6. QED
    BY <1>3, <1>4, <2>5
<1>6. \E r \in Slot : \A t \in Slot : a[r] < a[t] \/ (a[r] = a[t] /\ r <= t)
  BY <1>5
<1>7. Coldest(a) \in Slot /\ \A t \in Slot : a[Coldest(a)] < a[t] \/ (a[Coldest(a)] = a[t] /\ Coldest(a) <= t)
  BY <1>6 DEF Coldest
<1>8. \A t \in Slot : a[t] \in Nat
  OBVIOUS
<1>9. QED
  BY <1>7, <1>8

-----------------------------------------------------------------------------
(* Types. *)

\* The types of the cells of the arrays.
LEMMA CellTypes ==
  ASSUME CacheTypes, NEW l \in Layer
  PROVE  /\ clock[l] \in Nat /\ clock[l] + 1 \in Nat /\ expected_seq[l] \in Nat
         /\ age[l] \in [Slot -> Nat]
         /\ slot_for_expert[l] \in [Expert -> Slot \cup {None}]
         /\ expert_in_slot[l] \in [Slot -> Expert \cup {None}]
         /\ route_slot[l] \in [1 .. TOPK -> Slot \cup {None}]
         /\ mb[l].seq \in Nat /\ mb[l].miss_n \in Nat /\ mb[l].misses \in Seq(Miss)
         /\ mb[l] \in [seq : Nat, miss_n : Nat, misses : Seq(Miss)]
<1>1. /\ clock[l] \in Nat
      /\ age[l] \in [Slot -> Nat]
      /\ slot_for_expert[l] \in [Expert -> Slot \cup {None}]
      /\ expert_in_slot[l] \in [Slot -> Expert \cup {None}]
      /\ route_slot[l] \in [1 .. TOPK -> Slot \cup {None}]
  BY DEF CacheTypes, MapTypes
<1>2. mb[l] \in [seq : Nat, miss_n : Nat, misses : Seq(Miss)]
  BY DEF CacheTypes, MailTypes
<1>3. expected_seq[l] \in Nat
  BY DEF CacheTypes, HostTypes
<1>4. QED
  BY <1>1, <1>2, <1>3

\* The first operation of the compute stream, when it runs.
LEMMA RunningFacts ==
  ASSUME StreamTypes, NEW op, Running(op)
  PROVE  /\ compute # <<>> /\ Head(compute) = compute[1] /\ compute[1].op = op
         /\ Head(compute).layer \in Layer /\ Head(compute).n \in Nat
         /\ Len(compute) \in Nat \ {0} /\ Len(Tail(compute)) = Len(compute) - 1
         /\ Tail(compute) \in Seq(Operation)
         /\ \A i \in 1 .. Len(compute) - 1 : Tail(compute)[i] = compute[i + 1]
<1>1. compute \in Seq(Operation) /\ compute # <<>> /\ Head(compute).op = op
  BY DEF StreamTypes, Running
<1>2. /\ Head(compute) = compute[1] /\ Head(compute) \in Operation
      /\ Len(compute) \in Nat /\ Len(compute) # 0 /\ Len(Tail(compute)) = Len(compute) - 1
      /\ Tail(compute) \in Seq(Operation)
      /\ \A i \in 1 .. Len(compute) - 1 : Tail(compute)[i] = compute[i + 1]
  BY <1>1, SeqFacts
<1>3. Head(compute).layer \in Layer /\ Head(compute).n \in Nat
  BY <1>2 DEF Operation
<1>4. QED
  BY <1>1, <1>2, <1>3

LEMMA TypesInit == Init => CacheTypes
<1>1. SUFFICES ASSUME Init PROVE CacheTypes
  OBVIOUS
<1>2. slots \in SlotChoices
  BY <1>1 DEF Init
<1>3. [k \in 1 .. TOPK |-> k - 1] \in Selections
  BY ConstantFacts DEF Selections, Expert
<1>4. <<0, None>> \in Value
  BY DEF Value
<1>5. MapTypes
  BY <1>1, <1>2, <1>3, ConstantFacts DEF Init, MapTypes
<1>6. MailTypes /\ HostTypes
  BY <1>1, ConstantFacts DEF Init, MailTypes, HostTypes
<1>7. StreamTypes
  BY <1>1, <1>4 DEF Init, StreamTypes, Nothing, Buffer
<1>8. QED
  BY <1>5, <1>6, <1>7 DEF CacheTypes

\* An upload keeps the types.
LEMMA XferTypes ==
  ASSUME StreamTypes, NEW l \in Layer, NEW e \in Expert, NEW s \in Slot, Xfer(l, e, s), Slot' = Slot
  PROVE  StreamTypes'
<1>0. Write' = Write
  BY DEF Write
<1>1. content' \in [Layer -> [Slot -> Value]] /\ done' \in Nat
  BY DEF Xfer, StreamTypes
<1>2. cur' \in Buffer
  BY DEF Xfer, StreamTypes, Buffer
<1>3. buf' \in [Buffer -> Value]
  <2>1. <<l, e>> \in Value
    BY ConstantFacts DEF Value
  <2>2. QED
    BY <2>1 DEF Xfer, StreamTypes
<1>4. copies' \in Seq(Write)
  <2>1. [buf |-> cur, layer |-> l, slot |-> s] \in Write
    BY DEF StreamTypes, Write
  <2>2. QED
    BY <2>1, SeqFacts DEF Xfer, StreamTypes
<1>5. compute' \in Seq(Operation)
  <2>1. done + Len(copies) + 1 \in Nat
    BY SeqFacts DEF StreamTypes
  <2>2. [op |-> "wait", layer |-> l, n |-> done + Len(copies) + 1] \in Operation
    BY <2>1 DEF Op, Operation
  <2>3. QED
    BY <2>2, SeqFacts DEF Xfer, StreamTypes
<1>6. QED
  BY <1>0, <1>1, <1>2, <1>3, <1>4, <1>5 DEF StreamTypes

\* Steps that leave a part of the state alone.
LEMMA KeptTypes ==
  ASSUME CacheTypes, slots' = slots, Slot' = Slot
  PROVE  /\ UNCHANGED devVars => MapTypes'
         /\ mb' = mb => MailTypes'
         /\ UNCHANGED <<compute, copyVars, bufVars>> => StreamTypes'
         /\ UNCHANGED hostVars => HostTypes'
         /\ UNCHANGED <<copyVars, bufVars>> /\ compute' \in Seq(Operation) => StreamTypes'
         /\ slots \in SlotChoices
<1>1. Miss' = Miss /\ Write' = Write
  BY DEF Miss, Write
<1>2. QED
  BY <1>1 DEF CacheTypes, MapTypes, MailTypes, StreamTypes, HostTypes, devVars, mapVars, copyVars,
     bufVars, hostVars

\* Every step keeps the types: the number of slots is fixed.
LEMMA SlotsStep ==
  ASSUME [Next]_vars
  PROVE  slots' = slots /\ Slot' = Slot /\ Resident' = Resident
BY DEF Next, HostStep, CardStep, Prefill, Prefilled, Launch, Stamped, Serve, Served, LaunchMoe,
   Sync, Route, DispatchHit, DispatchMiss, Report, PassWait, RunMoe, Copy, XferFails, vars, Slot,
   Resident

\* A step of the host keeps the types: the miss it serves is one that was listed.
LEMMA TypesHost ==
  ASSUME CacheTypes, Queue, Mail, HostStep \/ XferFails
  PROVE  CacheTypes'
<1> USE ConstantFacts DEF bufVars, copyVars, devVars, mapVars, hostVars
<1>0. slots' = slots /\ Slot' = Slot /\ Resident' = Resident /\ slots \in SlotChoices
  BY SlotsStep DEF Next, CacheTypes, MapTypes
<1>1. CASE Prefill
  <2>1. miss - 1 \in Expert /\ miss - 1 \in Nat
    BY <1>1 DEF Prefill, Expert, CacheTypes, HostTypes
  <2>2. miss - 1 \in Slot
    BY <1>0, <1>1, <2>1, SlotFacts DEF Prefill, Queue
  <2>3. StreamTypes'
    BY <1>0, <1>1, <2>1, <2>2, XferTypes DEF Prefill, CacheTypes, HostTypes
  <2>4. MapTypes'
    BY <1>0, <1>1, <2>1, <2>2 DEF Prefill, CacheTypes, MapTypes, HostTypes
  <2>5. HostTypes'
    BY <1>1 DEF Prefill, CacheTypes, HostTypes
  <2>6. QED
    BY <1>0, <1>1, <2>3, <2>4, <2>5, KeptTypes DEF Prefill, CacheTypes
<1>2. CASE Prefilled
  <2>1. HostTypes'
    BY <1>2 DEF Prefilled, CacheTypes, HostTypes
  <2>2. QED
    BY <1>0, <1>2, <2>1, KeptTypes DEF Prefilled, CacheTypes
<1>3. CASE Launch
  <2>1. HostTypes'
    BY <1>3 DEF Launch, CacheTypes, HostTypes
  <2>2. compute' \in Seq(Operation)
    <3>1. expected_seq[layer] + 1 \in Nat /\ layer \in Layer
      BY DEF CacheTypes, HostTypes
    <3>2. /\ [op |-> "route", layer |-> layer, n |-> 0] \in Operation
          /\ [op |-> "dispatch", layer |-> layer, n |-> expected_seq[layer] + 1] \in Operation
      BY <3>1 DEF Operation, Op
    <3>3. compute \in Seq(Operation)
      BY DEF CacheTypes, StreamTypes
    <3>4. QED
      BY <1>3, <3>2, <3>3 DEF Launch
  <2>3. QED
    BY <1>0, <1>3, <2>1, <2>2, KeptTypes DEF Launch, CacheTypes
<1>4. CASE Stamped
  <2>1. HostTypes'
    BY <1>4 DEF Stamped, CacheTypes, HostTypes
  <2>2. QED
    BY <1>0, <1>4, <2>1, KeptTypes DEF Stamped, CacheTypes
<1>5. CASE Serve
  <2>1. mb[layer].misses \in Seq(Miss) /\ miss \in 1 .. Len(mb[layer].misses)
    BY <1>5 DEF Serve, CacheTypes, HostTypes, MailTypes, Mail
  <2>2. mb[layer].misses[miss] \in Miss /\ layer \in Layer
    BY <2>1, SeqFacts DEF CacheTypes, HostTypes
  <2>3. StreamTypes'
    BY <1>0, <1>5, <2>2, XferTypes DEF Serve, CacheTypes, Miss
  <2>4. HostTypes'
    BY <1>5 DEF Serve, CacheTypes, HostTypes
  <2>5. QED
    BY <1>0, <1>5, <2>3, <2>4, KeptTypes DEF Serve, CacheTypes
<1>6. CASE Served
  <2>1. HostTypes'
    BY <1>6 DEF Served, CacheTypes, HostTypes
  <2>2. MailTypes'
    BY <1>0, <1>6 DEF Served, CacheTypes, HostTypes, MailTypes, Miss
  <2>3. QED
    BY <1>0, <1>6, <2>1, <2>2, KeptTypes DEF Served, CacheTypes
<1>7. CASE LaunchMoe
  <2>1. HostTypes'
    BY <1>7 DEF LaunchMoe, CacheTypes, HostTypes
  <2>2. [op |-> "moe", layer |-> layer, n |-> 0] \in Operation
    BY DEF CacheTypes, HostTypes, Operation, Op
  <2>3. compute' \in Seq(Operation)
    BY <1>7, <2>2, SeqFacts DEF LaunchMoe, CacheTypes, StreamTypes
  <2>4. QED
    BY <1>0, <1>7, <2>1, <2>3, KeptTypes DEF LaunchMoe, CacheTypes
<1>8. CASE Sync
  <2>1. HostTypes'
    BY <1>8 DEF Sync, CacheTypes, HostTypes
  <2>2. QED
    BY <1>0, <1>8, <2>1, KeptTypes DEF Sync, CacheTypes
<1>9. CASE XferFails
  <2>1. HostTypes'
    BY <1>9 DEF XferFails, CacheTypes, HostTypes
  <2>2. MailTypes'
    BY <1>0, <1>9 DEF XferFails, CacheTypes, HostTypes, MailTypes, Miss
  <2>3. QED
    BY <1>0, <1>9, <2>1, <2>2, KeptTypes DEF XferFails, CacheTypes
<1>10. QED
  BY <1>1, <1>2, <1>3, <1>4, <1>5, <1>6, <1>7, <1>8, <1>9 DEF HostStep

\* A step of one of the streams keeps the types.
LEMMA TypesCard ==
  ASSUME CacheTypes, CardStep \/ Copy
  PROVE  CacheTypes'
<1> USE ConstantFacts DEF bufVars, copyVars, devVars, mapVars, hostVars
<1>0. slots' = slots /\ Slot' = Slot /\ Resident' = Resident /\ slots \in SlotChoices
  BY SlotsStep DEF Next, CacheTypes, MapTypes
<1>1. CASE Route
  <2>1. compute' \in Seq(Operation)
    BY <1>1, RunningFacts DEF Route, CacheTypes
  <2>2. MapTypes'
    BY <1>0, <1>1 DEF Route, CacheTypes, MapTypes
  <2>3. QED
    BY <1>0, <1>1, <2>1, <2>2, KeptTypes DEF Route, CacheTypes
<1>2. ASSUME Running("dispatch"), at < TOPK
      PROVE  /\ Head(compute).layer \in Layer /\ at + 1 \in 1 .. TOPK /\ at + 1 \in 0 .. TOPK + 1
             /\ sel[at + 1] \in Expert /\ clock[Head(compute).layer] + 1 \in Nat
  <2>1. Head(compute).layer \in Layer
    BY <1>2, RunningFacts DEF CacheTypes
  <2>2. at + 1 \in 1 .. TOPK /\ at + 1 \in 0 .. TOPK + 1
    BY <1>2 DEF CacheTypes, MapTypes
  <2>3. sel[at + 1] \in Expert
    BY <2>2, SelectionFacts DEF CacheTypes, MapTypes
  <2>4. clock[Head(compute).layer] + 1 \in Nat
    BY <2>1, CellTypes
  <2>5. QED
    BY <2>1, <2>2, <2>3, <2>4
<1>3. CASE DispatchHit
  <2> DEFINE l == Head(compute).layer
             s == slot_for_expert[l][sel[at + 1]]
  <2>1. l \in Layer /\ at + 1 \in 1 .. TOPK /\ sel[at + 1] \in Expert /\ clock[l] + 1 \in Nat
    BY <1>2, <1>3 DEF DispatchHit
  <2>2. s \in Slot
    BY <1>3, <2>1 DEF DispatchHit, CacheTypes, MapTypes
  <2>3. age' \in [Layer -> [Slot -> Nat]]
    BY <1>3, <2>1, <2>2 DEF DispatchHit, CacheTypes, MapTypes, Touch
  <2>4. route_slot' \in [Layer -> [1 .. TOPK -> Slot \cup {None}]]
    BY <1>3, <2>1, <2>2 DEF DispatchHit, CacheTypes, MapTypes
  <2>5. clock' \in [Layer -> Nat] /\ at' \in 0 .. TOPK + 1
    BY <1>2, <1>3, <2>1 DEF DispatchHit, CacheTypes, MapTypes
  <2>6. MapTypes'
    BY <1>0, <1>3, <2>3, <2>4, <2>5 DEF DispatchHit, CacheTypes, MapTypes
  <2>7. MailTypes'
    <3>1. <<>> \in Seq(Miss) /\ Miss' = Miss
      BY <1>0 DEF Miss
    <3>2. mb' = mb \/ mb' = [mb EXCEPT ![l].misses = <<>>]
      BY <1>3 DEF DispatchHit
    <3>3. mb \in [Layer -> [seq : Nat, miss_n : Nat, misses : Seq(Miss)]] /\ Layer' = Layer
      BY DEF CacheTypes, MailTypes, Layer
    <3> HIDE DEF l
    <3>4. [mb EXCEPT ![l].misses = <<>>] \in [Layer -> [seq : Nat, miss_n : Nat, misses : Seq(Miss)]]
      BY <2>1, <3>1, <3>3
    <3>5. mb' \in [Layer -> [seq : Nat, miss_n : Nat, misses : Seq(Miss)]]
      BY <3>2, <3>3, <3>4
    <3>6. QED
      BY <3>1, <3>3, <3>5 DEF MailTypes
  <2>8. QED
    BY <1>0, <1>3, <2>6, <2>7, KeptTypes DEF DispatchHit, CacheTypes
<1>4. CASE DispatchMiss
  <2> DEFINE l == Head(compute).layer
             e == sel[at + 1]
             s == Coldest(age[l])
  <2>1. l \in Layer /\ at + 1 \in 1 .. TOPK /\ e \in Expert /\ clock[l] + 1 \in Nat
    BY <1>2, <1>4 DEF DispatchMiss
  <2>2. s \in Slot
    BY <1>0, <2>1, ColdestFacts DEF CacheTypes, MapTypes
  <2>3. age' \in [Layer -> [Slot -> Nat]]
    BY <1>4, <2>1, <2>2 DEF DispatchMiss, CacheTypes, MapTypes
  <2>4. route_slot' \in [Layer -> [1 .. TOPK -> Slot \cup {None}]]
    BY <1>4, <2>1, <2>2 DEF DispatchMiss, CacheTypes, MapTypes
  <2>5. clock' \in [Layer -> Nat] /\ at' \in 0 .. TOPK + 1
    BY <1>2, <1>4, <2>1 DEF DispatchMiss, CacheTypes, MapTypes
  <2>6. expert_in_slot' \in [Layer -> [Slot -> Expert \cup {None}]]
    BY <1>4, <2>1, <2>2 DEF DispatchMiss, CacheTypes, MapTypes
  <2>7. slot_for_expert' \in [Layer -> [Expert -> Slot \cup {None}]]
    <3> DEFINE m == Unmap(slot_for_expert[l], expert_in_slot[l][s])
    <3>1. m \in [Expert -> Slot \cup {None}]
      BY <2>1, <2>2 DEF Unmap, CacheTypes, MapTypes
    <3>2. [m EXCEPT ![e] = s] \in [Expert -> Slot \cup {None}]
      BY <2>1, <2>2, <3>1
    <3>3. slot_for_expert' = [slot_for_expert EXCEPT ![l] = [m EXCEPT ![e] = s]]
      BY <1>4 DEF DispatchMiss
    <3>4. QED
      BY <2>1, <3>2, <3>3 DEF CacheTypes, MapTypes
  <2>8. MapTypes'
    BY <1>0, <1>4, <2>3, <2>4, <2>5, <2>6, <2>7 DEF DispatchMiss, CacheTypes, MapTypes
  <2>9. MailTypes'
    <3> DEFINE old == IF at = 0 THEN <<>> ELSE mb[l].misses
               new == [expert |-> e, slot |-> s]
    <3>a. mb[l].misses \in Seq(Miss)
      BY <2>1, CellTypes
    <3>0. <<>> \in Seq(Miss) /\ mb[l].misses \in Seq(Miss)
      BY <3>a
    <3>1. old \in Seq(Miss) /\ new \in Miss
      BY <2>1, <2>2, <3>0 DEF Miss
    <3>2. Append(old, new) \in Seq(Miss)
      BY <3>1
    <3>3. mb' = [mb EXCEPT ![l].misses = Append(old, new)]
      BY <1>4 DEF DispatchMiss
    <3>4. QED
      BY <1>0, <2>1, <3>2, <3>3 DEF CacheTypes, MailTypes, Miss
  <2>10. QED
    BY <1>0, <1>4, <2>8, <2>9, KeptTypes DEF DispatchMiss, CacheTypes
<1>5. CASE Report
  <2>1. Head(compute).layer \in Layer /\ Head(compute).n \in Nat /\ Tail(compute) \in Seq(Operation)
    BY <1>5, RunningFacts DEF Report, CacheTypes
  <2>2. compute' \in Seq(Operation)
    BY <1>5, <2>1 DEF Report, CacheTypes, StreamTypes
  <2>3. at' \in 0 .. TOPK + 1
    BY <1>5 DEF Report, CacheTypes, MapTypes
  <2>4. MapTypes'
    BY <1>0, <1>5, <2>3 DEF Report, CacheTypes, MapTypes
  <2>5. Len(mb[Head(compute).layer].misses) \in Nat
    BY <2>1, SeqFacts DEF CacheTypes, MailTypes
  <2>6. MailTypes'
    BY <1>0, <1>5, <2>1, <2>5 DEF Report, StampOf, CacheTypes, MailTypes, Miss
  <2>7. QED
    BY <1>0, <1>5, <2>2, <2>4, <2>6, KeptTypes DEF Report, CacheTypes
<1>6. CASE PassWait \/ RunMoe
  <2>1. compute' \in Seq(Operation)
    BY <1>6, RunningFacts DEF PassWait, RunMoe, CacheTypes
  <2>2. QED
    BY <1>0, <1>6, <2>1, KeptTypes DEF PassWait, RunMoe, CacheTypes
<1>7. CASE Copy
  <2>1. /\ copies \in Seq(Write) /\ copies # <<>> /\ done \in Nat
        /\ Head(copies) \in Write /\ Tail(copies) \in Seq(Write)
    BY <1>7, SeqFacts DEF Copy, CacheTypes, StreamTypes
  <2>2. Write' = Write
    BY <1>0 DEF Write
  <2>3. content' \in [Layer -> [Slot -> Value]]
    BY <1>7, <2>1 DEF Copy, Write, CacheTypes, StreamTypes
  <2>4. StreamTypes'
    BY <1>0, <1>7, <2>1, <2>2, <2>3 DEF Copy, CacheTypes, StreamTypes
  <2>5. QED
    BY <1>0, <1>7, <2>4, KeptTypes DEF Copy, CacheTypes
<1>8. QED
  BY <1>1, <1>3, <1>4, <1>5, <1>6, <1>7 DEF CardStep

-----------------------------------------------------------------------------
(* The compute stream. *)

\* The compute stream as an array.
LEMMA StreamFacts ==
  ASSUME StreamTypes
  PROVE  /\ Len(compute) \in Nat /\ (compute = <<>> <=> Len(compute) = 0)
         /\ DOMAIN compute = 1 .. Len(compute)
         /\ \A i \in 1 .. Len(compute) :
              compute[i].op \in Op /\ compute[i].layer \in Layer /\ compute[i].n \in Nat
         /\ Len(copies) \in Nat /\ (copies = <<>> <=> Len(copies) = 0)
         /\ DOMAIN copies = 1 .. Len(copies)
<1>1. compute \in Seq(Operation) /\ copies \in Seq(Write)
  BY DEF StreamTypes
<1>2. \A i \in 1 .. Len(compute) : compute[i] \in Operation
  BY <1>1, SeqFacts
<1>3. QED
  BY <1>1, <1>2, SeqFacts DEF Operation

\* The first operation leaves the stream.
LEMMA TailFacts ==
  ASSUME NEW q \in Seq(Operation), q # <<>>
  PROVE  /\ Len(Tail(q)) = Len(q) - 1 /\ Len(q) \in Nat \ {0} /\ Tail(q) \in Seq(Operation)
         /\ Tail(q) = <<>> <=> Len(q) = 1
         /\ \A i \in 1 .. Len(q) - 1 : i + 1 \in 1 .. Len(q) /\ Tail(q)[i] = q[i + 1]
         /\ AllWaits(q) => AllWaits(Tail(q))
         /\ NoWaits(q) => NoWaits(Tail(q))
         /\ \A l : Pattern(q, Len(q), l) => Pattern(Tail(q), Len(Tail(q)), l)
         /\ \A l, n : Dispatching(q, l, n) /\ Tail(q) # <<>> => Dispatching(Tail(q), l, n)
<1> DEFINE t == Tail(q)
<1>1. /\ Len(q) \in Nat \ {0} /\ Len(t) = Len(q) - 1 /\ t \in Seq(Operation) /\ Len(t) \in Nat
      /\ \A i \in 1 .. Len(q) - 1 : t[i] = q[i + 1]
      /\ t = <<>> <=> Len(q) = 1
  <2>1. Len(q) \in Nat /\ Len(q) # 0
    BY SeqFacts
  <2>2. Len(t) = Len(q) - 1 /\ t \in Seq(Operation) /\ \A i \in 1 .. Len(q) - 1 : t[i] = q[i + 1]
    BY SeqFacts
  <2>3. t = <<>> <=> Len(t) = 0
    BY <2>2, SeqFacts
  <2>4. QED
    BY <2>1, <2>2, <2>3
<1> HIDE DEF t
<1>2. \A i \in 1 .. Len(q) - 1 : i + 1 \in 1 .. Len(q) /\ t[i] = q[i + 1]
  BY <1>1
<1>3. (AllWaits(q) => AllWaits(t)) /\ (NoWaits(q) => NoWaits(t))
  BY <1>1, <1>2 DEF AllWaits, NoWaits
<1>4. ASSUME NEW k \in Int, k < Len(q), NEW l, Pattern(q, k + 1, l)
      PROVE  Pattern(t, k, l)
  <2>1. SUFFICES ASSUME NEW i \in 1 .. k
                 PROVE  t[i].op = "wait" \/ (t[i].op = "moe" /\ t[i].layer = l /\ i = k)
    BY DEF Pattern
  <2>2. i \in 1 .. Len(q) - 1 /\ i + 1 \in 1 .. k + 1
    BY <1>1, <1>4
  <2>3. q[i + 1].op = "wait" \/ (q[i + 1].op = "moe" /\ q[i + 1].layer = l /\ i + 1 = k + 1)
    BY <1>4, <2>2 DEF Pattern
  <2>4. QED
    BY <1>2, <2>2, <2>3
<1>5. ASSUME NEW l, Pattern(q, Len(q), l) PROVE Pattern(t, Len(t), l)
  <2>1. Len(t) \in Int /\ Len(t) < Len(q) /\ Len(q) = Len(t) + 1
    BY <1>1
  <2>2. Pattern(q, Len(t) + 1, l)
    BY <1>5, <2>1
  <2>3. QED
    BY <1>4, <2>1, <2>2
<1>6. ASSUME NEW l, NEW n, Dispatching(q, l, n), t # <<>> PROVE Dispatching(t, l, n)
  <2>1. Len(t) \in 1 .. Len(q) - 1 /\ Len(t) + 1 = Len(q)
    BY <1>1, <1>6
  <2>2. t[Len(t)] = q[Len(q)]
    BY <1>2, <2>1
  <2>3. Len(t) > 1 => t[Len(t) - 1] = q[Len(q) - 1]
    BY <1>2, <2>1
  <2>4. Len(t) - 2 \in Int /\ Len(t) - 2 < Len(q) /\ Len(q) - 2 = (Len(t) - 2) + 1
    BY <2>1
  <2>5. Pattern(q, (Len(t) - 2) + 1, l - 1)
    BY <1>6, <2>4 DEF Dispatching
  <2>6. Pattern(t, Len(t) - 2, l - 1)
    BY <1>4, <2>4, <2>5
  <2>7. Len(t) > 1 => Len(q) > 1
    BY <2>1
  <2>8. QED
    BY <1>6, <2>2, <2>3, <2>6, <2>7 DEF Dispatching
<1>7. QED
  BY <1>1, <1>2, <1>3, <1>5, <1>6 DEF t

\* An operation is added to the stream.
LEMMA AppendFacts ==
  ASSUME NEW q \in Seq(Operation), NEW o \in Operation
  PROVE  /\ Len(Append(q, o)) = Len(q) + 1 /\ Append(q, o)[Len(q) + 1] = o
         /\ \A i \in 1 .. Len(q) : Append(q, o)[i] = q[i]
         /\ AllWaits(q) /\ o.op = "wait" => AllWaits(Append(q, o))
         /\ NoWaits(q) /\ o.op \in {"route", "moe"} => NoWaits(Append(q, o))
         /\ AllWaits(q) /\ o.op = "moe" => Pattern(Append(q, o), Len(Append(q, o)), o.layer)
<1> DEFINE t == Append(q, o)
<1>1. /\ Len(t) = Len(q) + 1 /\ t[Len(q) + 1] = o /\ Len(q) \in Nat
      /\ \A i \in 1 .. Len(q) : t[i] = q[i]
  BY SeqFacts
<1> HIDE DEF t
<1>2. \A i \in 1 .. Len(t) : i \in 1 .. Len(q) \/ i = Len(q) + 1
  BY <1>1
<1>3. AllWaits(q) /\ o.op = "wait" => AllWaits(t)
  BY <1>1, <1>2 DEF AllWaits
<1>4. NoWaits(q) /\ o.op \in {"route", "moe"} => NoWaits(t)
  BY <1>1, <1>2 DEF NoWaits
<1>5. AllWaits(q) /\ o.op = "moe" => Pattern(t, Len(t), o.layer)
  BY <1>1, <1>2 DEF AllWaits, Pattern
<1>6. QED
  BY <1>1, <1>3, <1>4, <1>5 DEF t

\* Where the host is, by what is at the head of the stream.
LEMMA HeadFacts ==
  ASSUME CacheTypes, Queue, compute # <<>>
  PROVE  /\ compute[1].op = "dispatch" =>
              /\ ~Resident /\ hpc = "spin" /\ Len(compute) = 1
              /\ compute[1].layer = layer /\ compute[1].n = expected_seq[layer]
         /\ compute[1].op = "route" => hpc # "failed" /\ (~Resident => hpc = "spin" /\ Len(compute) = 2)
         /\ compute[1].op = "moe" =>
              /\ hpc # "failed" /\ \A i \in 1 .. Len(compute) : compute[i].op # "wait"
              /\ Resident => hpc # "prefill"
              /\ ~Resident => /\ hpc \in {"token", "sync", "spin"}
                              /\ hpc = "spin" => Len(compute) = 3
                              /\ hpc # "spin" => Len(compute) = 1
                              /\ compute[1].layer = IF hpc = "sync" THEN NL ELSE layer - 1
         /\ compute[1].op # "dispatch" => at = 0
<1>1. /\ Len(compute) \in Nat \ {0} /\ DOMAIN compute = 1 .. Len(compute)
      /\ 1 \in 1 .. Len(compute) /\ Len(compute) \in 1 .. Len(compute)
  BY StreamFacts DEF CacheTypes
<1>2. hpc \in {"prefill", "token", "spin", "serve", "moe", "sync", "failed"} /\ at \in Nat
  BY DEF CacheTypes, HostTypes, MapTypes
<1>3. compute[1].op # "dispatch" => at = 0
  BY <1>2 DEF Queue, Running
<1>6. CASE Resident
  BY <1>1, <1>2, <1>3, <1>6 DEF Queue, AllWaits, NoWaits
<1>7. CASE ~Resident /\ AllWaits(compute)
  BY <1>1, <1>3, <1>7 DEF AllWaits
<1>8. CASE ~Resident /\ hpc = "spin"
  <2>1. /\ compute[Len(compute)] = [op |-> "dispatch", layer |-> layer, n |-> expected_seq[layer]]
        /\ Len(compute) > 1 => compute[Len(compute) - 1].op = "route"
        /\ Pattern(compute, Len(compute) - 2, layer - 1)
    BY <1>8, <1>1 DEF Queue, Dispatching
  <2>2. CASE Len(compute) = 1
    BY <1>3, <1>8, <2>1, <2>2
  <2>3. CASE Len(compute) = 2
    BY <1>3, <1>8, <2>1, <2>3
  <2>4. CASE Len(compute) > 2
    <3>1. 1 \in 1 .. Len(compute) - 2
      BY <1>1, <2>4
    <3>2. \/ compute[1].op = "wait"
          \/ compute[1].op = "moe" /\ compute[1].layer = layer - 1 /\ 1 = Len(compute) - 2
      BY <2>1, <3>1 DEF Pattern
    <3>3. compute[1].op = "moe" => /\ Len(compute) = 3
                                   /\ \A i \in 1 .. Len(compute) : compute[i].op # "wait"
      <4>1. SUFFICES ASSUME compute[1].op = "moe"
                     PROVE  Len(compute) = 3 /\ \A i \in 1 .. Len(compute) : compute[i].op # "wait"
        OBVIOUS
      <4>0. 1 = Len(compute) - 2
        BY <3>2, <4>1
      <4>2. Len(compute) = 3
        BY <2>4, <4>0, <1>1
      <4>3. compute[3].op = "dispatch" /\ compute[2].op = "route"
        BY <2>1, <4>2
      <4>4. \A i \in 1 .. 3 : i = 1 \/ i = 2 \/ i = 3
        OBVIOUS
      <4>5. QED
        BY <4>1, <4>2, <4>3, <4>4
    <3>4. QED
      BY <1>3, <1>8, <3>2, <3>3
  <2>5. QED
    BY <1>1, <2>2, <2>3, <2>4
<1>9. CASE ~Resident /\ hpc \in {"token", "sync"}
  <2>1. PICK l \in Int : /\ Pattern(compute, Len(compute), l)
                         /\ l = IF hpc = "sync" THEN NL ELSE layer - 1
    <3>1. NL \in Int /\ layer - 1 \in Int
      BY ConstantFacts DEF CacheTypes, HostTypes
    <3>2. QED
      BY <1>9, <3>1 DEF Queue
  <2>2. \/ compute[1].op = "wait"
        \/ compute[1].op = "moe" /\ compute[1].layer = l /\ 1 = Len(compute)
    BY <1>1, <2>1 DEF Pattern
  <2>3. QED
    BY <1>1, <1>3, <1>9, <2>1, <2>2
<1>10. QED
  BY <1>2, <1>6, <1>7, <1>8, <1>9 DEF Queue

\* While the host waits for a stamp, only its dispatch leaves the stream empty.
LEMMA SpinTail ==
  ASSUME CacheTypes, Queue, compute # <<>>, compute[1].op # "dispatch"
  PROVE  at = 0 /\ (hpc = "spin" => Tail(compute) # <<>>)
<1>1. at = 0
  BY HeadFacts
<1>2. ASSUME hpc = "spin" PROVE Len(compute) # 1
  <2>1. ~Resident /\ Dispatching(compute, layer, expected_seq[layer])
    BY <1>2 DEF Queue
  <2>2. QED
    BY <2>1 DEF Dispatching
<1>3. compute \in Seq(Operation)
  BY DEF CacheTypes, StreamTypes
<1>4. QED
  BY <1>1, <1>2, <1>3, TailFacts

\* Steps that leave the stream, the host and the progress of the dispatch alone.
LEMMA QueueKept ==
  ASSUME Queue, UNCHANGED <<compute, hpc, layer, expected_seq>>, Resident' = Resident,
         at' = at \/ (Running("dispatch") /\ ~Resident)
  PROVE  Queue'
<1>1. Running("dispatch")' <=> Running("dispatch")
  BY DEF Running
<1>2. QED
  BY <1>1 DEF Queue

\* An upload adds a wait.
LEMMA XferWaits ==
  ASSUME StreamTypes, AllWaits(compute), NEW l \in Layer, NEW e, NEW s, Xfer(l, e, s)
  PROVE  AllWaits(compute')
<1>1. done + Len(copies) + 1 \in Nat /\ compute \in Seq(Operation)
  BY StreamFacts DEF StreamTypes
<1>2. [op |-> "wait", layer |-> l, n |-> done + Len(copies) + 1] \in Operation
  BY <1>1 DEF Op, Operation
<1>3. QED
  BY <1>1, <1>2, AppendFacts DEF Xfer

\* The host keeps the shape of the stream.
LEMMA QueueHost ==
  ASSUME CacheTypes, Queue, Mail, HostStep \/ XferFails
  PROVE  Queue'
<1> USE ConstantFacts DEF bufVars, copyVars, devVars, mapVars, hostVars
<1>0. /\ slots' = slots /\ Slot' = Slot /\ Resident' = Resident /\ StreamTypes /\ layer \in Layer
      /\ at \in Nat /\ hpc \in {"prefill", "token", "spin", "serve", "moe", "sync", "failed"}
      /\ compute \in Seq(Operation) /\ Len(compute) \in Nat
  BY SlotsStep, StreamFacts DEF Next, CacheTypes, MapTypes, HostTypes, StreamTypes
<1>1. AllWaits(compute) \/ NoWaits(compute) \/ hpc = "token" => Resident \/ at = 0
  <2>1. CASE compute = <<>>
    BY <1>0, <2>1 DEF Queue, Running
  <2>2. CASE compute # <<>> /\ hpc = "token"
    BY <1>0, <2>2, HeadFacts DEF Queue, Running
  <2>3. CASE compute # <<>> /\ (AllWaits(compute) \/ NoWaits(compute))
    <3>1. 1 \in 1 .. Len(compute) /\ Head(compute) = compute[1]
      BY <1>0, <2>3, SeqFacts, StreamFacts DEF StreamTypes
    <3>2. compute[1].op # "dispatch"
      BY <2>3, <3>1 DEF AllWaits, NoWaits
    <3>3. QED
      BY <2>3, <3>2, HeadFacts
  <2>4. QED
    BY <2>1, <2>2, <2>3
<1>2. CASE Prefill
  <2>1. Resident /\ AllWaits(compute) /\ hpc' = "prefill" /\ at' = at
    BY <1>0, <1>2 DEF Prefill, Queue
  <2>2. AllWaits(compute')
    BY <1>0, <1>2, <2>1, XferWaits DEF Prefill
  <2>4. QED
    BY <1>0, <2>1, <2>2 DEF Queue
<1>3. CASE Prefilled
  <2>1. Resident /\ AllWaits(compute) /\ hpc' \in {"prefill", "sync"} /\ UNCHANGED <<at, compute>>
    BY <1>0, <1>3 DEF Prefilled, Queue
  <2>2. AllWaits(compute')
    BY <2>1 DEF AllWaits
  <2>3. QED
    BY <1>0, <2>1, <2>2 DEF Queue
<1>4. CASE Launch /\ Resident
  <2>1. /\ NoWaits(compute) /\ hpc' = "moe" /\ at' = at
        /\ compute' = Append(compute, [op |-> "route", layer |-> layer, n |-> 0])
    BY <1>0, <1>4 DEF Launch, Queue, StreamTypes
  <2>2. NoWaits(compute')
    BY <1>0, <2>1, AppendFacts DEF Operation, Op
  <2>3. QED
    BY <1>0, <1>4, <2>1, <2>2 DEF Queue
<1>5. CASE Launch /\ ~Resident
  <2> DEFINE o1 == [op |-> "route", layer |-> layer, n |-> 0]
             o2 == [op |-> "dispatch", layer |-> layer, n |-> expected_seq[layer] + 1]
  <2>1. /\ Pattern(compute, Len(compute), layer - 1) /\ hpc' = "spin" /\ layer' = layer /\ at' = at
        /\ expected_seq' = [expected_seq EXCEPT ![layer] = expected_seq[layer] + 1]
        /\ compute' = Append(Append(compute, o1), o2) /\ o1 \in Operation /\ o2 \in Operation
    <3>1. Pattern(compute, Len(compute), layer - 1)
      BY <1>5 DEF Launch, Queue
    <3>2. /\ hpc' = "spin" /\ layer' = layer /\ at' = at
          /\ expected_seq' = [expected_seq EXCEPT ![layer] = expected_seq[layer] + 1]
      BY <1>0, <1>5 DEF Launch
    <3>3. compute' = Append(Append(compute, o1), o2)
      BY <1>0, <1>5 DEF Launch
    <3>4. expected_seq[layer] + 1 \in Nat
      BY <1>0, CellTypes
    <3>5. o1 \in Operation /\ o2 \in Operation
      BY <1>0, <3>4 DEF Operation, Op
    <3>6. QED
      BY <3>1, <3>2, <3>3, <3>5
  <2>2. at = 0
    BY <1>1, <1>5 DEF Launch
  <2> HIDE DEF o1, o2
  <2>3. /\ Len(compute') = Len(compute) + 2 /\ compute'[Len(compute) + 1] = o1
        /\ compute'[Len(compute) + 2] = o2
        /\ \A i \in 1 .. Len(compute) : compute'[i] = compute[i]
        /\ compute' # <<>> /\ Len(compute) \in Nat
    <3> DEFINE t == Append(compute, o1)
    <3>1. /\ t \in Seq(Operation) /\ Len(t) = Len(compute) + 1 /\ t[Len(compute) + 1] = o1
          /\ \A i \in 1 .. Len(compute) : t[i] = compute[i]
      BY <1>0, <2>1, AppendFacts
    <3>2. compute' = Append(t, o2)
      BY <2>1
    <3> HIDE DEF t
    <3>3. /\ Len(compute') = Len(t) + 1 /\ compute'[Len(t) + 1] = o2
          /\ \A i \in 1 .. Len(t) : compute'[i] = t[i]
      BY <2>1, <3>1, <3>2, AppendFacts
    <3>4. compute' # <<>>
      BY <2>1, <3>1, <3>2
    <3>5. Len(compute) \in Nat
      BY <1>0
    <3>6. QED
      BY <3>1, <3>3, <3>4, <3>5
  <2>4. expected_seq'[layer] = expected_seq[layer] + 1
    BY <1>0, <2>1 DEF CacheTypes, HostTypes
  <2>5. Pattern(compute', Len(compute') - 2, layer - 1)
    <3>1. Len(compute') - 2 = Len(compute)
      BY <2>3
    <3>2. QED
      BY <2>1, <2>3, <3>1 DEF Pattern
  <2>6. Dispatching(compute', layer, expected_seq[layer] + 1)
    <3>1. compute'[Len(compute')] = o2 /\ compute'[Len(compute') - 1] = o1
      BY <2>3
    <3>2. QED
      BY <2>5, <3>1 DEF Dispatching, o1, o2
  <2>7. QED
    BY <1>0, <1>5, <2>1, <2>2, <2>4, <2>6 DEF Queue
<1>6. CASE Stamped
  <2>1. hpc = "spin" /\ ~Resident /\ hpc' = "serve" /\ UNCHANGED <<compute, at>>
    BY <1>0, <1>6 DEF Stamped, Queue
  <2>2. compute = <<>>
    <3>1. expected_seq[layer] \in Nat /\ mb[layer].seq = expected_seq[layer]
      BY <1>0, <1>6, CellTypes DEF Stamped
    <3>2. mb[layer].seq = IF compute # <<>> THEN expected_seq[layer] - 1 ELSE expected_seq[layer]
      BY <1>0, <2>1 DEF Mail
    <3>3. QED
      BY <3>1, <3>2
  <2>3. AllWaits(compute') /\ at = 0
    BY <1>0, <2>1, <2>2 DEF AllWaits, Queue, Running
  <2>4. QED
    BY <1>0, <2>1, <2>3 DEF Queue
<1>7. CASE Serve
  <2>1. ~Resident /\ AllWaits(compute) /\ hpc' = "serve" /\ at' = at /\ at = 0
    BY <1>0, <1>1, <1>7 DEF Serve, Queue
  <2>2. AllWaits(compute')
    BY <1>0, <1>7, <2>1, XferWaits DEF Serve
  <2>4. QED
    BY <1>0, <2>1, <2>2 DEF Queue
<1>8. CASE Served
  <2>1. ~Resident /\ AllWaits(compute) /\ hpc' = "moe" /\ UNCHANGED <<at, compute>> /\ at = 0
    BY <1>0, <1>1, <1>8 DEF Served, Queue
  <2>2. AllWaits(compute')
    BY <2>1 DEF AllWaits
  <2>3. QED
    BY <1>0, <2>1, <2>2 DEF Queue
<1>9. CASE LaunchMoe
  <2> DEFINE o == [op |-> "moe", layer |-> layer, n |-> 0]
  <2>1. /\ compute' = Append(compute, o) /\ at' = at /\ o \in Operation
        /\ hpc' = (IF layer < NL THEN "token" ELSE "sync")
        /\ layer' = (IF layer < NL THEN layer + 1 ELSE 1)
    BY <1>0, <1>9 DEF LaunchMoe, Operation, Op
  <2>2. CASE Resident
    <3>1. NoWaits(compute')
      BY <1>0, <1>9, <2>1, <2>2, AppendFacts DEF LaunchMoe, Queue
    <3>2. QED
      BY <1>0, <2>1, <2>2, <3>1 DEF Queue
  <2>3. CASE ~Resident
    <3>1. AllWaits(compute) /\ at = 0
      BY <1>0, <1>1, <1>9, <2>3 DEF LaunchMoe, Queue
    <3>2. Pattern(compute', Len(compute'), layer)
      BY <1>0, <2>1, <3>1, AppendFacts
    <3>3. Pattern(compute', Len(compute'), IF layer < NL THEN layer' - 1 ELSE NL)
      <4>1. layer = IF layer < NL THEN layer' - 1 ELSE NL
        BY <1>0, <2>1
      <4>2. QED
        BY <3>2, <4>1
    <3>4. QED
      BY <1>0, <2>1, <2>3, <3>1, <3>3 DEF Queue
  <2>4. QED
    BY <2>2, <2>3
<1>10. CASE Sync
  <2>1. hpc' = "token" /\ compute = <<>> /\ UNCHANGED <<compute, at, layer>>
    BY <1>10 DEF Sync
  <2>2. at = 0
    BY <1>0, <2>1 DEF Queue, Running
  <2>3. NoWaits(compute') /\ Pattern(compute', Len(compute'), layer' - 1)
    BY <2>1 DEF NoWaits, Pattern
  <2>4. QED
    BY <1>0, <2>1, <2>2, <2>3 DEF Queue
<1>11. CASE XferFails
  <2>1. hpc' = "failed" /\ AllWaits(compute) /\ UNCHANGED <<compute, at>>
    BY <1>0, <1>11 DEF XferFails, Queue
  <2>2. AllWaits(compute')
    BY <2>1 DEF AllWaits
  <2>3. Resident \/ at = 0
    BY <1>1, <2>1
  <2>4. QED
    BY <1>0, <2>1, <2>2, <2>3 DEF Queue
<1>12. QED
  BY <1>2, <1>3, <1>4, <1>5, <1>6, <1>7, <1>8, <1>9, <1>10, <1>11 DEF HostStep

\* So do the streams.
LEMMA QueueCard ==
  ASSUME CacheTypes, Queue, CardStep \/ Copy
  PROVE  Queue'
<1> USE ConstantFacts DEF bufVars, copyVars, devVars, mapVars, hostVars
<1>0. /\ slots' = slots /\ Slot' = Slot /\ Resident' = Resident /\ StreamTypes /\ layer \in Layer
      /\ at \in Nat /\ hpc \in {"prefill", "token", "spin", "serve", "moe", "sync", "failed"}
      /\ compute \in Seq(Operation)
  BY SlotsStep DEF Next, CacheTypes, MapTypes, HostTypes, StreamTypes
<1>1. ASSUME compute # <<>>, compute' = Tail(compute), at' = 0, UNCHANGED <<hpc, layer, expected_seq>>
      PROVE  Queue'
  <2>1. /\ AllWaits(compute) => AllWaits(compute')
        /\ NoWaits(compute) => NoWaits(compute')
        /\ \A l : Pattern(compute, Len(compute), l) => Pattern(compute', Len(compute'), l)
        /\ \A l, n : Dispatching(compute, l, n) /\ compute' # <<>> => Dispatching(compute', l, n)
    BY <1>0, <1>1, TailFacts
  <2>2. CASE Resident
    BY <1>0, <1>1, <2>1, <2>2 DEF Queue
  <2>3. CASE ~Resident
    BY <1>0, <1>1, <2>1, <2>3 DEF Queue
  <2>4. QED
    BY <2>2, <2>3
<1>2. CASE Route
  BY <1>1, <1>2 DEF Route, Running
<1>3. CASE DispatchHit \/ DispatchMiss
  <2>1. Running("dispatch") /\ UNCHANGED <<compute, hpc, layer, expected_seq>>
    BY <1>3 DEF DispatchHit, DispatchMiss
  <2>2. ~Resident
    BY <1>0, <2>1, HeadFacts, RunningFacts
  <2>3. QED
    BY <1>0, <2>1, <2>2, QueueKept
<1>4. CASE Report
  <2>1. Running("dispatch") /\ UNCHANGED <<hpc, layer, expected_seq>>
    BY <1>4 DEF Report
  <2>2. CASE at = TOPK + 1
    BY <1>1, <1>4, <2>1, <2>2 DEF Report, Running
  <2>3. CASE at # TOPK + 1
    <3>1. ~Resident
      BY <1>0, <2>1, HeadFacts, RunningFacts
    <3>2. QED
      BY <1>0, <1>4, <2>1, <2>3, <3>1, QueueKept DEF Report
  <2>4. QED
    BY <2>2, <2>3
<1>5. CASE PassWait \/ RunMoe
  <2>1. compute # <<>> /\ compute[1].op # "dispatch" /\ compute' = Tail(compute) /\ at' = at
    BY <1>0, <1>5, RunningFacts DEF PassWait, RunMoe
  <2>2. at = 0
    BY <1>0, <2>1, HeadFacts
  <2>3. QED
    BY <1>1, <1>5, <2>1, <2>2 DEF PassWait, RunMoe
<1>6. CASE Copy
  BY <1>0, <1>6, QueueKept DEF Copy
<1>7. QED
  BY <1>2, <1>3, <1>4, <1>5, <1>6 DEF CardStep

-----------------------------------------------------------------------------
(* The waits of the compute stream. *)

\* What leaving and joining the stream do to its waits.
LEMMA WaitFacts ==
  ASSUME NEW q \in Seq(Operation), NEW n \in Nat
  PROVE  /\ q # <<>> /\ WaitsUpTo(q, n) => WaitsUpTo(Tail(q), n)
         /\ q # <<>> /\ WaitsFor(q, n) /\ (q[1].op = "wait" => q[1].n # n) => WaitsFor(Tail(q), n)
         /\ \A o \in Operation :
              /\ WaitsUpTo(q, n) /\ (o.op = "wait" => o.n <= n) => WaitsUpTo(Append(q, o), n)
              /\ WaitsFor(q, n) => WaitsFor(Append(q, o), n)
              /\ o.op = "wait" /\ o.n = n => WaitsFor(Append(q, o), n)
<1>1. ASSUME q # <<>>, WaitsUpTo(q, n) PROVE WaitsUpTo(Tail(q), n)
  BY <1>1, TailFacts DEF WaitsUpTo
<1>2. ASSUME q # <<>>, WaitsFor(q, n), q[1].op = "wait" => q[1].n # n PROVE WaitsFor(Tail(q), n)
  <2>1. PICK i \in 1 .. Len(q) : q[i].op = "wait" /\ q[i].n = n
    BY <1>2 DEF WaitsFor
  <2>2. /\ Len(q) \in Nat /\ Len(Tail(q)) = Len(q) - 1
        /\ \A j \in 1 .. Len(q) - 1 : Tail(q)[j] = q[j + 1]
    BY <1>2, TailFacts
  <2>3. i # 1
    BY <1>2, <2>1
  <2>4. i - 1 \in 1 .. Len(q) - 1 /\ (i - 1) + 1 = i
    BY <2>1, <2>2, <2>3
  <2>5. i - 1 \in 1 .. Len(Tail(q)) /\ Tail(q)[i - 1] = q[i]
    BY <2>2, <2>4
  <2>6. QED
    BY <2>1, <2>5 DEF WaitsFor
<1>3. ASSUME NEW o \in Operation
      PROVE  /\ WaitsUpTo(q, n) /\ (o.op = "wait" => o.n <= n) => WaitsUpTo(Append(q, o), n)
             /\ WaitsFor(q, n) => WaitsFor(Append(q, o), n)
             /\ o.op = "wait" /\ o.n = n => WaitsFor(Append(q, o), n)
  <2> DEFINE t == Append(q, o)
  <2>1. /\ Len(t) = Len(q) + 1 /\ t[Len(q) + 1] = o /\ Len(q) \in Nat
        /\ \A i \in 1 .. Len(q) : t[i] = q[i]
    BY AppendFacts, SeqFacts
  <2> HIDE DEF t
  <2>2. \A i \in 1 .. Len(t) : i \in 1 .. Len(q) \/ i = Len(q) + 1
    BY <2>1
  <2>3. WaitsUpTo(q, n) /\ (o.op = "wait" => o.n <= n) => WaitsUpTo(t, n)
    BY <2>1, <2>2 DEF WaitsUpTo
  <2>4. (WaitsFor(q, n) => WaitsFor(t, n)) /\ (o.op = "wait" /\ o.n = n => WaitsFor(t, n))
    BY <2>1 DEF WaitsFor
  <2>5. QED
    BY <2>3, <2>4 DEF t
<1>4. QED
  BY <1>1, <1>2, <1>3

\* An upload has a wait of its own.
LEMMA WaitedXfer ==
  ASSUME StreamTypes, Waited, NEW l \in Layer, NEW e, NEW s, Xfer(l, e, s)
  PROVE  Waited'
<1> DEFINE n == done + Len(copies)
           o == [op |-> "wait", layer |-> l, n |-> n + 1]
<1>1. n \in Nat /\ n + 1 \in Nat /\ compute \in Seq(Operation)
  BY StreamFacts DEF StreamTypes
<1>2. o \in Operation
  BY <1>1 DEF Op, Operation
<1>3. compute' = Append(compute, o) /\ done' = done
  BY DEF Xfer
<1>4. Len(copies') = Len(copies) + 1
  BY DEF Xfer, StreamTypes
<1>5. done' + Len(copies') = n + 1
  BY <1>1, <1>3, <1>4, StreamFacts DEF StreamTypes
<1>6. WaitsUpTo(compute, n + 1)
  <2>1. SUFFICES ASSUME NEW i \in 1 .. Len(compute), compute[i].op = "wait" PROVE compute[i].n <= n + 1
    BY DEF WaitsUpTo
  <2>2. compute[i].n <= n /\ compute[i].n \in Nat
    BY <2>1, StreamFacts DEF Waited, WaitsUpTo
  <2>3. QED
    BY <1>1, <2>2
<1>7. WaitsUpTo(compute', n + 1) /\ WaitsFor(compute', n + 1)
  <2>1. o.op = "wait" /\ o.n = n + 1 /\ o.n <= n + 1
    BY <1>1
  <2>2. QED
    BY <1>1, <1>2, <1>3, <1>6, <2>1, WaitFacts
<1>8. QED
  BY <1>5, <1>7 DEF Waited

LEMMA WaitedStep ==
  ASSUME CacheTypes, Queue, Mail, Waited, Next
  PROVE  Waited'
<1> USE ConstantFacts DEF bufVars, copyVars, devVars, mapVars, hostVars
<1>0. /\ StreamTypes /\ compute \in Seq(Operation) /\ layer \in Layer /\ slots \in SlotChoices
      /\ done + Len(copies) \in Nat /\ expected_seq[layer] + 1 \in Nat
  <2>1. StreamTypes /\ compute \in Seq(Operation) /\ layer \in Layer /\ slots \in SlotChoices /\ done \in Nat
    BY DEF CacheTypes, StreamTypes, HostTypes, MapTypes
  <2>2. Len(copies) \in Nat
    BY <2>1, StreamFacts
  <2>3. expected_seq[layer] \in Nat
    BY <2>1, CellTypes
  <2>4. QED
    BY <2>1, <2>2, <2>3
<1>1. ASSUME compute # <<>>, compute' = Tail(compute), UNCHANGED copyVars,
             compute[1].op = "wait" => done >= compute[1].n
      PROVE  Waited'
  <2>1. copies # <<>> /\ compute[1].op = "wait" => compute[1].n # done + Len(copies)
    <3>1. compute[1].n \in Nat
      <4>1. 1 \in 1 .. Len(compute)
        BY <1>0, <1>1, StreamFacts
      <4>2. QED
        BY <1>0, <4>1, StreamFacts
    <3>2. copies # <<>> => Len(copies) \in Nat /\ Len(copies) # 0
      BY <1>0, StreamFacts
    <3>3. done \in Nat
      BY <1>0 DEF StreamTypes
    <3>4. QED
      BY <1>1, <3>1, <3>2, <3>3
  <2>2. QED
    BY <1>0, <1>1, <2>1, WaitFacts DEF Waited
<1>2. CASE Prefill
  BY <1>0, <1>2, WaitedXfer DEF Prefill
<1>3. CASE Serve
  BY <1>0, <1>3, WaitedXfer DEF Serve
<1>4. CASE Launch
  <2> DEFINE o1 == [op |-> "route", layer |-> layer, n |-> 0]
             o2 == [op |-> "dispatch", layer |-> layer, n |-> expected_seq[layer] + 1]
  <2>1. o1 \in Operation /\ o2 \in Operation
    BY <1>0 DEF Op, Operation
  <2>2. \/ compute' = Append(compute, o1)
        \/ compute' = Append(Append(compute, o1), o2)
    BY <1>0, <1>4, <2>1 DEF Launch
  <2>3. Append(compute, o1) \in Seq(Operation)
    BY <1>0, <2>1
  <2>4. o1.op # "wait" /\ o2.op # "wait"
    OBVIOUS
  <2>5. /\ WaitsUpTo(Append(compute, o1), done + Len(copies))
        /\ copies # <<>> => WaitsFor(Append(compute, o1), done + Len(copies))
    BY <1>0, <2>1, <2>4, WaitFacts DEF Waited
  <2>6. /\ WaitsUpTo(Append(Append(compute, o1), o2), done + Len(copies))
        /\ copies # <<>> => WaitsFor(Append(Append(compute, o1), o2), done + Len(copies))
    BY <1>0, <2>1, <2>3, <2>4, <2>5, WaitFacts
  <2> HIDE DEF o1, o2
  <2>7. QED
    BY <1>4, <2>2, <2>5, <2>6 DEF Launch, Waited
<1>5. CASE LaunchMoe
  <2> DEFINE o == [op |-> "moe", layer |-> layer, n |-> 0]
  <2>1. o \in Operation /\ o.op # "wait"
    BY <1>0 DEF Op, Operation
  <2>2. compute' = Append(compute, o) /\ UNCHANGED copyVars
    BY <1>5 DEF LaunchMoe
  <2> HIDE DEF o
  <2>3. QED
    BY <1>0, <2>1, <2>2, WaitFacts DEF Waited
<1>6. CASE Copy
  <2>1. copies \in Seq(Write) /\ copies # <<>> /\ done' = done + 1 /\ copies' = Tail(copies)
    BY <1>0, <1>6 DEF Copy, StreamTypes
  <2>2. Len(copies') = Len(copies) - 1
    BY <2>1, SeqFacts
  <2>3. done' + Len(copies') = done + Len(copies)
    BY <2>1, <2>2, <1>0, StreamFacts DEF StreamTypes
  <2>4. compute' = compute
    BY <1>6 DEF Copy
  <2>5. QED
    BY <2>1, <2>3, <2>4 DEF Waited
<1>7. CASE Route \/ RunMoe \/ PassWait
  <2>1. /\ compute # <<>> /\ compute' = Tail(compute) /\ UNCHANGED copyVars
        /\ Head(compute) = compute[1] /\ (Head(compute).op = "wait" => done >= Head(compute).n)
    BY <1>0, <1>7, RunningFacts DEF Route, RunMoe, PassWait, Running
  <2>2. QED
    BY <1>1, <2>1
<1>8. CASE Report
  <2>1. compute # <<>> /\ compute[1].op = "dispatch"
    BY <1>0, <1>8, RunningFacts DEF Report
  <2>2. (compute' = Tail(compute) \/ compute' = compute) /\ UNCHANGED copyVars
    BY <1>8 DEF Report
  <2>3. QED
    BY <1>1, <2>1, <2>2 DEF Waited
<1>9. CASE \/ Prefilled \/ Stamped \/ Served \/ Sync \/ XferFails \/ DispatchHit \/ DispatchMiss
  <2>1. UNCHANGED <<compute, copies, done>>
    BY <1>9 DEF Prefilled, Stamped, Served, Sync, XferFails, DispatchHit, DispatchMiss
  <2>2. QED
    BY <2>1 DEF Waited
<1>10. QED
  BY <1>2, <1>3, <1>4, <1>5, <1>6, <1>7, <1>8, <1>9 DEF Next, HostStep, CardStep

-----------------------------------------------------------------------------
(* The mailbox. *)

\* The stamp of the mailbox of layer l is that of the last dispatch executed.
LEMMA MailStep ==
  ASSUME CacheTypes, Queue, Mail, Next
  PROVE  Mail'
<1> USE ConstantFacts DEF bufVars, copyVars, devVars, mapVars, hostVars
<1>0. /\ slots' = slots /\ Slot' = Slot /\ Resident' = Resident /\ StreamTypes /\ layer \in Layer
      /\ compute \in Seq(Operation) /\ at \in Nat /\ slots \in SlotChoices
      /\ \A l \in Layer : expected_seq[l] \in Nat
      /\ hpc \in {"prefill", "token", "spin", "serve", "moe", "sync", "failed"}
  <2>1. slots' = slots /\ Slot' = Slot /\ Resident' = Resident
    BY SlotsStep
  <2>2. \A l \in Layer : expected_seq[l] \in Nat
    BY CellTypes
  <2>3. QED
    BY <2>1, <2>2 DEF CacheTypes, StreamTypes, HostTypes, MapTypes
<1>1. ASSUME UNCHANGED <<mb, expected_seq>>, hpc # "spin", hpc' \notin {"spin", "serve"}
      PROVE  Mail'
  BY <1>0, <1>1 DEF Mail
<1>2. CASE Prefill \/ Prefilled \/ LaunchMoe \/ Sync
  BY <1>1, <1>2 DEF Prefill, Prefilled, LaunchMoe, Sync
<1>3. CASE Launch
  <2>1. /\ mb' = mb /\ layer' = layer /\ hpc = "token" /\ hpc' = (IF Resident THEN "moe" ELSE "spin")
        /\ expected_seq' = [expected_seq EXCEPT ![layer] = expected_seq[layer] + 1]
        /\ at' = at
    BY <1>3 DEF Launch
  <2>2. CASE Resident
    BY <1>0, <2>1, <2>2 DEF Mail
  <2>3. CASE ~Resident
    <3>1. compute' # <<>> /\ at = 0
      <4>1. compute' # <<>>
        BY <1>0, <1>3, <2>3 DEF Launch
      <4>2. at = 0
        BY <1>0, <2>1, <2>3, RunningFacts, HeadFacts DEF Queue
      <4>3. QED
        BY <4>1, <4>2
    <3>2. /\ \A l \in Layer : mb[l].seq = expected_seq[l]
          /\ \A l \in Layer : expected_seq'[l] = IF l = layer THEN expected_seq[l] + 1 ELSE expected_seq[l]
      BY <1>0, <2>1, <2>3 DEF Mail, CacheTypes, HostTypes
    <3>3. \A l \in Layer : mb'[l].seq = IF l = layer THEN expected_seq'[l] - 1 ELSE expected_seq'[l]
      BY <1>0, <2>1, <3>2
    <3>4. QED
      BY <1>0, <2>1, <2>3, <3>1, <3>3 DEF Mail
  <2>4. QED
    BY <2>2, <2>3
<1>4. CASE Stamped
  <2>1. hpc = "spin" /\ ~Resident /\ hpc' = "serve" /\ UNCHANGED <<compute, at, mb, layer, expected_seq>>
    BY <1>0, <1>4 DEF Stamped, Queue
  <2>2. compute = <<>>
    <3>1. expected_seq[layer] \in Nat /\ mb[layer].seq = expected_seq[layer]
      BY <1>0, <1>4 DEF Stamped
    <3>2. mb[layer].seq = IF compute # <<>> THEN expected_seq[layer] - 1 ELSE expected_seq[layer]
      BY <1>0, <2>1 DEF Mail
    <3>3. QED
      BY <3>1, <3>2
  <2>3. QED
    BY <1>0, <2>1, <2>2 DEF Mail
<1>5. CASE Serve
  <2>1. hpc = "serve" /\ hpc' = "serve" /\ UNCHANGED <<mb, layer, expected_seq>>
    BY <1>5 DEF Serve
  <2>2. QED
    BY <1>0, <2>1 DEF Mail
<1>6. CASE Served \/ XferFails
  <2>1. /\ hpc # "spin" /\ hpc' \notin {"spin", "serve"} /\ UNCHANGED <<layer, expected_seq>>
        /\ mb' = mb \/ mb' = [mb EXCEPT ![layer].miss_n = 0]
    BY <1>6 DEF Served, XferFails
  <2>2. \A l \in Layer : mb'[l].seq = mb[l].seq /\ mb'[l].misses = mb[l].misses
    <3>1. CASE mb' = mb
      BY <3>1
    <3>2. CASE mb' = [mb EXCEPT ![layer].miss_n = 0]
      BY <1>0, <3>2 DEF CacheTypes, MailTypes
    <3>3. QED
      BY <2>1, <3>1, <3>2
  <2>3. QED
    BY <1>0, <2>1, <2>2 DEF Mail
<1>7. ASSUME Running("dispatch")
      PROVE  /\ ~Resident /\ hpc = "spin" /\ Head(compute).layer = layer /\ Len(compute) = 1
             /\ Head(compute).n = expected_seq[layer] /\ Tail(compute) = <<>> /\ compute # <<>>
  <2>1. compute # <<>> /\ Head(compute) = compute[1] /\ compute[1].op = "dispatch"
    BY <1>0, <1>7, RunningFacts
  <2>2. QED
    BY <1>0, <2>1, HeadFacts, TailFacts
<1>8. CASE DispatchHit \/ DispatchMiss
  <2>1. /\ Running("dispatch") /\ at < TOPK /\ at' = at + 1
        /\ UNCHANGED <<compute, hpc, layer, expected_seq>>
    BY <1>8 DEF DispatchHit, DispatchMiss
  <2>2. \A l \in Layer : mb'[l].seq = mb[l].seq
    <3>1. Head(compute).layer \in Layer
      BY <1>0, <2>1, RunningFacts
    <3>2. CASE DispatchHit
      BY <3>1, <3>2 DEF DispatchHit, CacheTypes, MailTypes
    <3>3. CASE DispatchMiss
      BY <3>1, <3>3 DEF DispatchMiss, CacheTypes, MailTypes
    <3>4. QED
      BY <1>8, <3>2, <3>3
  <2>3. at' # TOPK + 1
    BY <1>0, <2>1
  <2>4. QED
    BY <1>0, <1>7, <2>1, <2>2, <2>3 DEF Mail
<1>9. CASE Report /\ at # TOPK + 1
  <2>1. /\ Running("dispatch") /\ UNCHANGED <<compute, hpc, layer, expected_seq>>
        /\ mb' = [mb EXCEPT ![layer].miss_n = Len(mb[layer].misses)]
    BY <1>7, <1>9 DEF Report
  <2>2. /\ \A l \in Layer : mb'[l].seq = mb[l].seq
        /\ mb'[layer].miss_n = Len(mb'[layer].misses)
    BY <1>0, <2>1 DEF CacheTypes, MailTypes
  <2>3. QED
    BY <1>0, <1>7, <2>1, <2>2 DEF Mail
<1>10. CASE Report /\ at = TOPK + 1
  <2>1. /\ Running("dispatch") /\ UNCHANGED <<hpc, layer, expected_seq>> /\ compute' = <<>>
        /\ mb' = [mb EXCEPT ![layer].seq = expected_seq[layer]]
    BY <1>7, <1>10 DEF Report, StampOf
  <2>2. /\ \A l \in Layer : mb'[l].seq = (IF l = layer THEN expected_seq[l] ELSE mb[l].seq)
        /\ mb'[layer].miss_n = mb[layer].miss_n /\ mb'[layer].misses = mb[layer].misses
    BY <1>0, <2>1 DEF CacheTypes, MailTypes
  <2>3. mb[layer].miss_n = Len(mb[layer].misses)
    BY <1>7, <1>10, <2>1 DEF Mail
  <2>4. \A l \in Layer : l # layer => mb[l].seq = expected_seq[l]
    BY <1>7, <2>1 DEF Mail
  <2>5. QED
    BY <1>0, <1>7, <2>1, <2>2, <2>3, <2>4 DEF Mail
<1>11. CASE Route \/ RunMoe \/ PassWait
  <2>1. /\ compute # <<>> /\ compute' = Tail(compute) /\ compute[1].op # "dispatch"
        /\ UNCHANGED <<mb, hpc, layer, expected_seq>> /\ at' \in {0, at}
    BY <1>0, <1>11, RunningFacts DEF Route, RunMoe, PassWait
  <2>2. at = 0 /\ (hpc = "spin" => compute' # <<>>)
    BY <1>0, <2>1, SpinTail
  <2>3. QED
    BY <1>0, <2>1, <2>2 DEF Mail
<1>12. CASE Copy
  <2>1. UNCHANGED <<mb, hpc, layer, expected_seq, compute, at>>
    BY <1>12 DEF Copy
  <2>2. QED
    BY <1>0, <2>1 DEF Mail
<1>13. QED
  BY <1>2, <1>3, <1>4, <1>5, <1>6, <1>8, <1>9, <1>10, <1>11, <1>12 DEF Next, HostStep, CardStep

-----------------------------------------------------------------------------
(* The map. *)

\* What is dispatched when the kernel runs.
LEMMA DispatchFacts ==
  ASSUME CacheTypes, Queue, Running("dispatch"), at < TOPK
  PROVE  /\ ~Resident /\ hpc = "spin" /\ Head(compute).layer = layer /\ layer \in Layer
         /\ Len(compute) = 1 /\ compute # <<>> /\ compute[1].op = "dispatch"
         /\ at \in Nat /\ at + 1 \in 1 .. TOPK /\ sel[at + 1] \in Expert
         /\ Coldest(age[layer]) \in Slot /\ \A t \in Slot : age[layer][Coldest(age[layer])] <= age[layer][t]
<1>1. StreamTypes /\ layer \in Layer /\ slots \in SlotChoices /\ age[layer] \in [Slot -> Nat]
  BY DEF CacheTypes, HostTypes, MapTypes
<1>2. compute # <<>> /\ Head(compute) = compute[1] /\ compute[1].op = "dispatch"
  BY <1>1, RunningFacts
<1>3. ~Resident /\ hpc = "spin" /\ Head(compute).layer = layer /\ Len(compute) = 1
  BY <1>2, HeadFacts
<1>4. at \in Nat /\ at + 1 \in 1 .. TOPK
  BY ConstantFacts DEF CacheTypes, MapTypes
<1>5. sel[at + 1] \in Expert
  BY <1>4, SelectionFacts DEF CacheTypes, MapTypes
<1>6. QED
  BY <1>1, <1>2, <1>3, <1>4, <1>5, ColdestFacts

\* A miss: the map gains the expert, and loses the one that was in the slot.
LEMMA MissFacts ==
  ASSUME CacheTypes, Queue, Inverses, DispatchMiss,
         NEW e, e = sel[at + 1], NEW s, s = Coldest(age[layer])
  PROVE  /\ e \in Expert /\ s \in Slot /\ slot_for_expert[layer][e] = None
         /\ slot_for_expert'[layer][e] = s
         /\ \A x \in Expert : x # e => \/ slot_for_expert'[layer][x] = slot_for_expert[layer][x]
                                       \/ slot_for_expert'[layer][x] = None
         /\ \A x \in Expert : /\ x # e /\ slot_for_expert[layer][x] # s
                              => slot_for_expert'[layer][x] = slot_for_expert[layer][x]
         /\ \A x \in Expert : x # e => slot_for_expert'[layer][x] # s
         /\ expert_in_slot'[layer][s] = e
         /\ \A t \in Slot : t # s => expert_in_slot'[layer][t] = expert_in_slot[layer][t]
         /\ \A l \in Layer : l # layer => /\ slot_for_expert'[l] = slot_for_expert[l]
                                          /\ expert_in_slot'[l] = expert_in_slot[l]
<1> DEFINE old == expert_in_slot[layer][s]
           m   == Unmap(slot_for_expert[layer], old)
<1>1. Running("dispatch") /\ at < TOPK
  BY DEF DispatchMiss
<1>2. layer \in Layer /\ e \in Expert /\ s \in Slot /\ Head(compute).layer = layer
  BY <1>1, DispatchFacts
<1>3. /\ slot_for_expert' = [slot_for_expert EXCEPT ![layer] = [m EXCEPT ![e] = s]]
      /\ expert_in_slot' = [expert_in_slot EXCEPT ![layer][s] = e]
      /\ slot_for_expert[layer][e] = None
  BY <1>2 DEF DispatchMiss
<1>4. /\ slot_for_expert[layer] \in [Expert -> Slot \cup {None}] /\ old \in Expert \cup {None}
      /\ expert_in_slot[layer] \in [Slot -> Expert \cup {None}]
  BY <1>2, CellTypes
<1>5. old = None \/ slot_for_expert[layer][old] = s
  BY <1>2, <1>4 DEF Inverses
<1>6. \A x \in Expert : m[x] = IF x = old THEN None ELSE slot_for_expert[layer][x]
  BY <1>4, ConstantFacts DEF Unmap
<1>7. m \in [Expert -> Slot \cup {None}]
  BY <1>4 DEF Unmap
<1>8. \A x \in Expert : slot_for_expert'[layer][x] = IF x = e THEN s ELSE m[x]
  <2>1. [m EXCEPT ![e] = s] \in [Expert -> Slot \cup {None}]
    BY <1>2, <1>7
  <2>2. slot_for_expert'[layer] = [m EXCEPT ![e] = s]
    BY <1>2, <1>3 DEF CacheTypes, MapTypes
  <2>3. QED
    BY <1>7, <2>2
<1> HIDE DEF m
<1>9. None \notin Slot
  BY SlotFacts DEF CacheTypes, MapTypes
<1>10. \A x \in Expert : slot_for_expert[layer][x] = s => x = old
  BY <1>2 DEF Inverses
<1>11. /\ expert_in_slot'[layer][s] = e
       /\ \A t \in Slot : t # s => expert_in_slot'[layer][t] = expert_in_slot[layer][t]
       /\ \A l \in Layer : l # layer => /\ slot_for_expert'[l] = slot_for_expert[l]
                                        /\ expert_in_slot'[l] = expert_in_slot[l]
  BY <1>2, <1>3 DEF CacheTypes, MapTypes
<1>12. \A x \in Expert : x # e => /\ \/ slot_for_expert'[layer][x] = slot_for_expert[layer][x]
                                     \/ slot_for_expert'[layer][x] = None
                                  /\ slot_for_expert[layer][x] # s
                                     => slot_for_expert'[layer][x] = slot_for_expert[layer][x]
                                  /\ slot_for_expert'[layer][x] # s
  <2>1. SUFFICES ASSUME NEW x \in Expert, x # e
                 PROVE  /\ \/ slot_for_expert'[layer][x] = slot_for_expert[layer][x]
                           \/ slot_for_expert'[layer][x] = None
                        /\ slot_for_expert[layer][x] # s
                           => slot_for_expert'[layer][x] = slot_for_expert[layer][x]
                        /\ slot_for_expert'[layer][x] # s
    OBVIOUS
  <2>2. slot_for_expert'[layer][x] = m[x]
    BY <1>8, <2>1
  <2>3. CASE x = old
    <3>1. m[x] = None
      BY <1>6, <2>3
    <3>2. old # None
      BY <2>3, ConstantFacts
    <3>3. slot_for_expert[layer][x] = s
      BY <1>5, <2>3, <3>2
    <3>4. QED
      BY <1>2, <1>9, <2>2, <3>1, <3>3
  <2>4. CASE x # old
    <3>1. m[x] = slot_for_expert[layer][x]
      BY <1>6, <2>4
    <3>2. slot_for_expert[layer][x] # s
      BY <1>10, <2>4
    <3>3. QED
      BY <2>2, <3>1, <3>2
  <2>5. QED
    BY <2>3, <2>4
<1>13. QED
  BY <1>2, <1>3, <1>8, <1>11, <1>12

\* With a slot for every expert the prefill fills in the identity.
LEMMA PrefillFacts ==
  ASSUME CacheTypes, Queue, Prefill
  PROVE  /\ Resident /\ layer \in Layer /\ miss - 1 \in Expert /\ miss - 1 \in Slot /\ hpc = "prefill"
         /\ slot_for_expert'[layer][miss - 1] = miss - 1 /\ expert_in_slot'[layer][miss - 1] = miss - 1
         /\ \A l \in Layer : \A x \in Expert :
              l # layer \/ x # miss - 1 => slot_for_expert'[l][x] = slot_for_expert[l][x]
         /\ \A l \in Layer : \A s \in Slot :
              l # layer \/ s # miss - 1 => expert_in_slot'[l][s] = expert_in_slot[l][s]
<1>1. Resident /\ hpc = "prefill" /\ layer \in Layer /\ slots \in SlotChoices
  BY DEF Prefill, Queue, CacheTypes, HostTypes, MapTypes
<1>2. miss - 1 \in Expert
  BY ConstantFacts DEF Prefill, CacheTypes, HostTypes, Expert
<1>3. miss - 1 \in Slot
  BY <1>1, <1>2, SlotFacts
<1>4. /\ slot_for_expert' = [slot_for_expert EXCEPT ![layer][miss - 1] = miss - 1]
      /\ expert_in_slot' = [expert_in_slot EXCEPT ![layer][miss - 1] = miss - 1]
  BY DEF Prefill
<1>5. /\ slot_for_expert'[layer][miss - 1] = miss - 1
      /\ \A l \in Layer : \A x \in Expert :
           l # layer \/ x # miss - 1 => slot_for_expert'[l][x] = slot_for_expert[l][x]
  BY <1>1, <1>2, <1>4 DEF CacheTypes, MapTypes
<1>6. /\ expert_in_slot'[layer][miss - 1] = miss - 1
      /\ \A l \in Layer : \A s \in Slot :
           l # layer \/ s # miss - 1 => expert_in_slot'[l][s] = expert_in_slot[l][s]
  BY <1>1, <1>3, <1>4 DEF CacheTypes, MapTypes
<1>7. QED
  BY <1>1, <1>2, <1>3, <1>5, <1>6

\* Only the prefill and a miss change the map.
LEMMA MapKept ==
  ASSUME Next, ~Prefill, ~DispatchMiss
  PROVE  UNCHANGED <<slot_for_expert, expert_in_slot>>
BY DEF Next, HostStep, CardStep, Prefilled, Launch, Stamped, Serve, Served, LaunchMoe,
   Sync, Route, DispatchHit, Report, PassWait, RunMoe, Copy, XferFails, devVars, mapVars

LEMMA InverseStep ==
  ASSUME CacheTypes, Queue, Inverses, Identity, Next
  PROVE  Inverses'
<1>0. /\ Slot' = Slot /\ slots \in SlotChoices
      /\ \A s \in Slot : s # None
  BY SlotsStep, SlotFacts DEF CacheTypes, MapTypes
<1>1. CASE Prefill
  <2>1. SUFFICES ASSUME NEW l \in Layer, NEW x \in Expert, NEW s \in Slot
                 PROVE  slot_for_expert'[l][x] = s <=> expert_in_slot'[l][s] = x
    BY <1>0 DEF Inverses
  <2>2. \A y \in Expert : slot_for_expert[l][y] \in {None, y}
    BY <1>1, PrefillFacts DEF Identity
  <2>3. slot_for_expert[l][x] = s <=> expert_in_slot[l][s] = x
    BY DEF Inverses
  <2>4. CASE l # layer \/ (x # miss - 1 /\ s # miss - 1)
    BY <1>1, <2>3, <2>4, PrefillFacts
  <2>5. CASE l = layer /\ x = miss - 1 /\ s = miss - 1
    BY <1>1, <2>5, PrefillFacts
  <2>6. CASE l = layer /\ x = miss - 1 /\ s # miss - 1
    BY <1>0, <1>1, <2>2, <2>3, <2>6, PrefillFacts
  <2>7. CASE l = layer /\ x # miss - 1 /\ s = miss - 1
    BY <1>0, <1>1, <2>2, <2>7, PrefillFacts
  <2>8. QED
    BY <2>4, <2>5, <2>6, <2>7
<1>2. CASE DispatchMiss
  <2> DEFINE e == sel[at + 1]
             t == Coldest(age[layer])
  <2>1. SUFFICES ASSUME NEW l \in Layer, NEW x \in Expert, NEW s \in Slot
                 PROVE  slot_for_expert'[l][x] = s <=> expert_in_slot'[l][s] = x
    BY <1>0 DEF Inverses
  <2>2. slot_for_expert[l][x] = s <=> expert_in_slot[l][s] = x
    BY DEF Inverses
  <2>3. CASE l # layer
    BY <1>2, <2>2, <2>3, MissFacts
  <2>4. CASE l = layer /\ x = e
    BY <1>0, <1>2, <2>2, <2>4, MissFacts
  <2>5. CASE l = layer /\ x # e /\ s = t
    BY <1>2, <2>5, MissFacts
  <2>6. CASE l = layer /\ x # e /\ s # t
    <3>1. CASE slot_for_expert[layer][x] = t
      <4>1. slot_for_expert'[layer][x] \in {t, None}
        BY <1>2, <2>6, <3>1, MissFacts
      <4>2. QED
        BY <1>0, <1>2, <2>2, <2>6, <3>1, <4>1, MissFacts
    <3>2. CASE slot_for_expert[layer][x] # t
      BY <1>2, <2>2, <2>6, <3>2, MissFacts
    <3>3. QED
      BY <3>1, <3>2
  <2>7. QED
    BY <2>3, <2>4, <2>5, <2>6
<1>3. CASE ~Prefill /\ ~DispatchMiss
  BY <1>0, <1>3, MapKept DEF Inverses
<1>4. QED
  BY <1>1, <1>2, <1>3

LEMMA IdentityStep ==
  ASSUME CacheTypes, Queue, Identity, Next
  PROVE  Identity'
<1>0. /\ Resident' = Resident /\ layer \in Layer /\ miss \in Nat \ {0} /\ NEXP \in Nat
      /\ \A x \in Expert : x \in Nat /\ x < NEXP
      /\ \A l \in Layer : l \in Nat /\ l <= NL /\ 1 <= l
      /\ hpc \in {"prefill", "token", "spin", "serve", "moe", "sync", "failed"}
  BY SlotsStep, ConstantFacts DEF CacheTypes, HostTypes
<1>1. CASE ~Resident
  BY <1>0, <1>1 DEF Identity
<1>2. CASE Resident /\ Prefill
  <2>1. SUFFICES ASSUME NEW l \in Layer, NEW x \in Expert
                 PROVE  /\ slot_for_expert'[l][x] \in {None, x}
                        /\ slot_for_expert'[l][x] # None <=> l < layer \/ (l = layer /\ x < miss)
    <3>1. hpc' = "prefill" /\ layer' = layer /\ miss' - 1 = miss
      BY <1>0, <1>2 DEF Prefill
    <3>2. QED
      BY <1>0, <1>2, <2>1, <3>1 DEF Identity
  <2>2. /\ slot_for_expert[l][x] \in {None, x} /\ x # None
        /\ slot_for_expert[l][x] # None <=> l < layer \/ (l = layer /\ x < miss - 1)
    BY <1>2, ConstantFacts, PrefillFacts DEF Identity
  <2>3. CASE l = layer /\ x = miss - 1
    BY <1>0, <1>2, <2>2, <2>3, PrefillFacts
  <2>4. CASE ~(l = layer /\ x = miss - 1)
    <3>1. slot_for_expert'[l][x] = slot_for_expert[l][x]
      BY <1>2, <2>4, PrefillFacts
    <3>2. (l = layer /\ x < miss) <=> (l = layer /\ x < miss - 1)
      BY <1>0, <2>4
    <3>3. QED
      BY <2>2, <3>1, <3>2
  <2>5. QED
    BY <2>3, <2>4
<1>3. CASE Resident /\ Prefilled
  <2>1. /\ hpc = "prefill" /\ miss > NEXP /\ miss' = 1 /\ UNCHANGED slot_for_expert
        /\ layer' = (IF layer < NL THEN layer + 1 ELSE 1)
        /\ hpc' = (IF layer < NL THEN "prefill" ELSE "sync")
    BY <1>3 DEF Prefilled, devVars, mapVars
  <2>2. \A x \in Expert : x < miss - 1 /\ ~(x < miss' - 1)
    BY <1>0, <2>1
  <2>3. \A l \in Layer : \A x \in Expert :
          /\ slot_for_expert[l][x] \in {None, x}
          /\ slot_for_expert[l][x] # None <=> l < layer \/ l = layer
    BY <1>3, <2>1, <2>2 DEF Identity
  <2>4. CASE layer < NL
    <3>1. \A l \in Layer : l < layer \/ l = layer <=> l < layer'
      BY <1>0, <2>1, <2>4
    <3>2. QED
      BY <1>0, <2>1, <2>2, <2>3, <2>4, <3>1 DEF Identity
  <2>5. CASE ~(layer < NL)
    <3>1. \A l \in Layer : l < layer \/ l = layer
      BY <1>0, <2>5, ConstantFacts
    <3>2. QED
      BY <1>0, <2>1, <2>3, <2>5, <3>1 DEF Identity
  <2>6. QED
    BY <2>4, <2>5
<1>4. CASE Resident /\ ~Prefill /\ ~Prefilled
  <2>1. ~Running("dispatch")
    BY <1>4, HeadFacts, RunningFacts DEF CacheTypes
  <2>2. UNCHANGED slot_for_expert
    BY <1>4, <2>1, MapKept DEF DispatchMiss
  <2>3. hpc' = "failed" \/ (hpc # "prefill" /\ hpc' # "prefill") \/ UNCHANGED <<hpc, layer, miss>>
    BY <1>4 DEF Next, HostStep, CardStep, Launch, Stamped, Serve, Served, LaunchMoe,
       Sync, Route, DispatchHit, DispatchMiss, Report, PassWait, RunMoe, Copy, XferFails, hostVars
  <2>4. hpc = "failed" => hpc' = "failed"
    BY <1>4 DEF Next, HostStep, CardStep, Launch, Stamped, Serve, Served, LaunchMoe,
       Sync, Route, DispatchHit, DispatchMiss, Report, PassWait, RunMoe, Copy, XferFails, hostVars
  <2>5. CASE hpc' = "failed"
    BY <1>0, <1>4, <2>2, <2>5 DEF Identity
  <2>6. CASE hpc # "prefill" /\ hpc' # "prefill"
    BY <1>0, <1>4, <2>2, <2>4, <2>6 DEF Identity
  <2>7. CASE UNCHANGED <<hpc, layer, miss>>
    BY <1>0, <1>4, <2>2, <2>7 DEF Identity
  <2>8. QED
    BY <2>3, <2>5, <2>6, <2>7
<1>5. QED
  BY <1>1, <1>2, <1>3, <1>4

\* The two dispatches give the slot the age of the clock, which they advance.
LEMMA DispatchMaps ==
  ASSUME CacheTypes, Queue, DispatchHit \/ DispatchMiss
  PROVE  \E s \in Slot :
           /\ DispatchHit => s = slot_for_expert[layer][sel[at + 1]]
           /\ DispatchMiss => s = Coldest(age[layer])
           /\ clock'[layer] = clock[layer] + 1 /\ at' = at + 1
           /\ age'[layer][s] = clock[layer] + 1
           /\ \A t \in Slot : t # s => age'[layer][t] = age[layer][t]
           /\ route_slot'[layer][at + 1] = s
           /\ \A j \in 1 .. TOPK : j # at + 1 => route_slot'[layer][j] = route_slot[layer][j]
           /\ \A l \in Layer : l # layer => clock'[l] = clock[l] /\ age'[l] = age[l]
           /\ UNCHANGED <<sel, compute, hpc, layer, slots>>
<1>0. Running("dispatch") /\ at < TOPK
  BY DEF DispatchHit, DispatchMiss
<1> DEFINE l == layer
<1>1. l \in Layer /\ Head(compute).layer = l /\ at + 1 \in 1 .. TOPK /\ sel[at + 1] \in Expert
  BY <1>0, DispatchFacts
<1>2. CASE DispatchHit
  <2> DEFINE s == slot_for_expert[l][sel[at + 1]]
  <2>1. s \in Slot
    BY <1>1, <1>2, CellTypes DEF DispatchHit
  <2>2. /\ age' = [age EXCEPT ![l] = [age[l] EXCEPT ![s] = clock[l] + 1]]
        /\ route_slot' = [route_slot EXCEPT ![l][at + 1] = s]
        /\ clock' = [clock EXCEPT ![l] = clock[l] + 1] /\ at' = at + 1
        /\ UNCHANGED <<sel, compute, hpc, layer, slots>>
    BY <1>1, <1>2 DEF DispatchHit, Touch, hostVars
  <2>3. /\ age'[l] = [age[l] EXCEPT ![s] = clock[l] + 1] /\ clock'[l] = clock[l] + 1
        /\ route_slot'[l] = [route_slot[l] EXCEPT ![at + 1] = s]
        /\ \A k \in Layer : k # l => clock'[k] = clock[k] /\ age'[k] = age[k]
    BY <1>1, <2>2 DEF CacheTypes, MapTypes
  <2>4. age[l] \in [Slot -> Nat] /\ route_slot[l] \in [1 .. TOPK -> Slot \cup {None}]
    BY <1>1, CellTypes
  <2>5. ~DispatchMiss
    BY <1>1, <1>2 DEF DispatchHit, DispatchMiss
  <2>6. /\ age'[l][s] = clock[l] + 1
        /\ \A t \in Slot : t # s => age'[l][t] = age[l][t]
    BY <2>1, <2>3, <2>4
  <2>7. /\ route_slot'[l][at + 1] = s
        /\ \A j \in 1 .. TOPK : j # at + 1 => route_slot'[l][j] = route_slot[l][j]
    BY <1>1, <2>3, <2>4
  <2>8. /\ DispatchHit => s = slot_for_expert[layer][sel[at + 1]]
        /\ DispatchMiss => s = Coldest(age[layer])
    BY <2>5
  <2> HIDE DEF s
  <2>9. QED
    BY <2>1, <2>2, <2>3, <2>6, <2>7, <2>8
<1>3. CASE DispatchMiss
  <2> DEFINE s == Coldest(age[l])
  <2>1. s \in Slot
    BY <1>0, DispatchFacts
  <2>2. /\ age' = [age EXCEPT ![l][s] = clock[l] + 1]
        /\ route_slot' = [route_slot EXCEPT ![l][at + 1] = s]
        /\ clock' = [clock EXCEPT ![l] = clock[l] + 1] /\ at' = at + 1
        /\ UNCHANGED <<sel, compute, hpc, layer, slots>>
    BY <1>1, <1>3 DEF DispatchMiss, hostVars
  <2>3. /\ age'[l] = [age[l] EXCEPT ![s] = clock[l] + 1] /\ clock'[l] = clock[l] + 1
        /\ route_slot'[l] = [route_slot[l] EXCEPT ![at + 1] = s]
        /\ \A k \in Layer : k # l => clock'[k] = clock[k] /\ age'[k] = age[k]
    BY <1>1, <2>2 DEF CacheTypes, MapTypes
  <2>4. age[l] \in [Slot -> Nat] /\ route_slot[l] \in [1 .. TOPK -> Slot \cup {None}]
    BY <1>1, CellTypes
  <2>5. ~DispatchHit
    BY <1>1, <1>3 DEF DispatchHit, DispatchMiss
  <2>6. /\ age'[l][s] = clock[l] + 1
        /\ \A t \in Slot : t # s => age'[l][t] = age[l][t]
    BY <2>1, <2>3, <2>4
  <2>7. /\ route_slot'[l][at + 1] = s
        /\ \A j \in 1 .. TOPK : j # at + 1 => route_slot'[l][j] = route_slot[l][j]
    BY <1>1, <2>3, <2>4
  <2>8. /\ DispatchHit => s = slot_for_expert[layer][sel[at + 1]]
        /\ DispatchMiss => s = Coldest(age[layer])
    BY <2>5
  <2> HIDE DEF s
  <2>9. QED
    BY <2>1, <2>2, <2>3, <2>6, <2>7, <2>8
<1>4. QED
  BY <1>2, <1>3

LEMMA AgesStep ==
  ASSUME CacheTypes, Queue, Ages, Next
  PROVE  Ages'
<1>0. /\ Slot' = Slot /\ \A l \in Layer : clock[l] \in Nat /\ age[l] \in [Slot -> Nat]
  BY SlotsStep, CellTypes
<1>1. CASE DispatchHit \/ DispatchMiss
  <2>1. PICK s \in Slot :
          /\ clock'[layer] = clock[layer] + 1 /\ age'[layer][s] = clock[layer] + 1
          /\ \A t \in Slot : t # s => age'[layer][t] = age[layer][t]
          /\ \A l \in Layer : l # layer => clock'[l] = clock[l] /\ age'[l] = age[l]
    BY <1>1, DispatchMaps
  <2>2. SUFFICES ASSUME NEW l \in Layer, NEW t \in Slot PROVE age'[l][t] <= clock'[l]
    BY <1>0 DEF Ages
  <2>3. clock[l] \in Nat /\ age[l][t] \in Nat /\ age[l][t] <= clock[l]
    BY <1>0 DEF Ages
  <2>4. CASE l # layer
    BY <2>1, <2>3, <2>4
  <2>5. CASE l = layer /\ t = s
    BY <2>1, <2>3, <2>5
  <2>6. CASE l = layer /\ t # s
    BY <2>1, <2>3, <2>6
  <2>7. QED
    BY <2>4, <2>5, <2>6
<1>2. CASE ~DispatchHit /\ ~DispatchMiss
  <2>1. UNCHANGED <<age, clock>>
    BY <1>2 DEF Next, HostStep, CardStep, Prefill, Prefilled, Launch, Stamped, Serve, Served, LaunchMoe,
       Sync, Route, Report, PassWait, RunMoe, Copy, XferFails, devVars, mapVars
  <2>2. QED
    BY <1>0, <2>1 DEF Ages
<1>3. QED
  BY <1>1, <1>2

-----------------------------------------------------------------------------
(* What the slots hold in the end. *)

\* The misses still to be served: none, one more, one less.
LEMMA ListFacts ==
  ASSUME NEW q \in Seq(Miss), NEW k \in Nat \ {0}, NEW e \in Expert, NEW s \in Slot
  PROVE  /\ k > Len(q) => ~Listed(q, k, e, s) /\ Unlisted(q, k, s)
         /\ \A m \in Miss :
              /\ m.slot # s /\ Listed(q, k, e, s) => Listed(Append(q, m), k, e, s)
              /\ m.slot # s /\ Unlisted(q, k, s) => Unlisted(Append(q, m), k, s)
              /\ m = [expert |-> e, slot |-> s] /\ k <= Len(q) + 1 => Listed(Append(q, m), k, e, s)
         /\ k <= Len(q) /\ Listed(q, k, e, s) =>
              \/ Listed(q, k + 1, e, s)
              \/ q[k] = [expert |-> e, slot |-> s] /\ Unlisted(q, k + 1, s)
         /\ k <= Len(q) /\ Unlisted(q, k, s) => q[k].slot # s /\ Unlisted(q, k + 1, s)
<1>0. Len(q) \in Nat
  BY SeqFacts
<1>1. k > Len(q) => ~Listed(q, k, e, s) /\ Unlisted(q, k, s)
  BY <1>0 DEF Listed, Unlisted
<1>2. ASSUME NEW m \in Miss
      PROVE  /\ m.slot # s /\ Listed(q, k, e, s) => Listed(Append(q, m), k, e, s)
             /\ m.slot # s /\ Unlisted(q, k, s) => Unlisted(Append(q, m), k, s)
             /\ m = [expert |-> e, slot |-> s] /\ k <= Len(q) + 1 => Listed(Append(q, m), k, e, s)
  <2> DEFINE t == Append(q, m)
  <2>1. /\ Len(t) = Len(q) + 1 /\ t[Len(q) + 1] = m
        /\ \A i \in 1 .. Len(q) : t[i] = q[i]
    BY SeqFacts
  <2> HIDE DEF t
  <2>2. \A i \in Int : i \in 1 .. Len(t) => i \in 1 .. Len(q) \/ i = Len(q) + 1
    BY <1>0, <2>1
  <2>3. ASSUME m.slot # s, Listed(q, k, e, s) PROVE Listed(t, k, e, s)
    <3>1. PICK i \in k .. Len(q) : /\ q[i] = [expert |-> e, slot |-> s]
                                   /\ \A j \in i + 1 .. Len(q) : q[j].slot # s
      BY <2>3 DEF Listed
    <3>2. i \in k .. Len(t) /\ i \in 1 .. Len(q) /\ t[i] = [expert |-> e, slot |-> s]
      BY <1>0, <2>1, <3>1
    <3>3. ASSUME NEW j \in i + 1 .. Len(t) PROVE t[j].slot # s
      <4>1. j \in 1 .. Len(t)
        BY <3>2, <3>3
      <4>2. CASE j \in 1 .. Len(q)
        BY <2>1, <3>1, <3>3, <4>2
      <4>3. CASE j = Len(q) + 1
        BY <2>1, <2>3, <4>3
      <4>4. QED
        BY <2>2, <4>1, <4>2, <4>3
    <3>4. QED
      BY <3>2, <3>3 DEF Listed
  <2>4. ASSUME m.slot # s, Unlisted(q, k, s) PROVE Unlisted(t, k, s)
    <3>1. SUFFICES ASSUME NEW i \in k .. Len(t) PROVE t[i].slot # s
      BY DEF Unlisted
    <3>2. i \in 1 .. Len(t)
      BY <3>1
    <3>3. CASE i \in 1 .. Len(q)
      BY <2>1, <2>4, <3>1, <3>3 DEF Unlisted
    <3>4. CASE i = Len(q) + 1
      BY <2>1, <2>4, <3>4
    <3>5. QED
      BY <2>2, <3>2, <3>3, <3>4
  <2>5. ASSUME m = [expert |-> e, slot |-> s], k <= Len(q) + 1 PROVE Listed(t, k, e, s)
    <3>1. /\ Len(t) \in k .. Len(t) /\ t[Len(t)] = [expert |-> e, slot |-> s]
          /\ \A j \in Len(t) + 1 .. Len(t) : t[j].slot # s
      BY <1>0, <2>1, <2>5
    <3>2. QED
      BY <3>1 DEF Listed
  <2>6. QED
    BY <2>3, <2>4, <2>5 DEF t
<1>3. ASSUME k <= Len(q), Listed(q, k, e, s), ~Listed(q, k + 1, e, s)
      PROVE  q[k] = [expert |-> e, slot |-> s] /\ Unlisted(q, k + 1, s)
  <2>1. PICK i \in k .. Len(q) : /\ q[i] = [expert |-> e, slot |-> s]
                                 /\ \A j \in i + 1 .. Len(q) : q[j].slot # s
    BY <1>3 DEF Listed
  <2>2. i \notin k + 1 .. Len(q)
    BY <1>3, <2>1 DEF Listed
  <2>3. i = k
    BY <1>0, <2>1, <2>2
  <2>4. QED
    BY <2>1, <2>3 DEF Unlisted
<1>4. ASSUME k <= Len(q), Unlisted(q, k, s) PROVE q[k].slot # s /\ Unlisted(q, k + 1, s)
  <2>1. k \in k .. Len(q) /\ \A i \in k + 1 .. Len(q) : i \in k .. Len(q)
    BY <1>0, <1>4
  <2>2. QED
    BY <1>4, <2>1 DEF Unlisted
<1>5. QED
  BY <1>1, <1>2, <1>3, <1>4

\* An upload: its slot has the expert under way, the other slots are as they were.
\* The buffer it fills is of no copy that is under way.
LEMMA ArrivingXfer ==
  ASSUME StreamTypes, NEW l \in Layer, NEW e \in Expert, NEW s \in Slot, Xfer(l, e, s)
  PROVE  /\ Arriving(l, e, s)'
         /\ \A k \in Layer : \A x \in Expert : \A t \in Slot :
              (k # l \/ t # s) /\ Arriving(k, x, t) => Arriving(k, x, t)'
<1> DEFINE c == [buf |-> cur, layer |-> l, slot |-> s]
<1>0. c \in Write /\ copies \in Seq(Write) /\ cur \in Buffer /\ buf \in [Buffer -> Value]
  BY DEF StreamTypes, Write
<1>1. /\ Len(copies) \in Nat /\ Len(copies') = Len(copies) + 1 /\ copies'[Len(copies) + 1] = c
      /\ \A i \in 1 .. Len(copies) : copies'[i] = copies[i]
  BY <1>0, SeqFacts DEF Xfer
<1>2. /\ content' = content /\ buf'[cur] = <<l, e>>
      /\ \A i \in 1 .. Len(copies) : buf'[copies[i].buf] = buf[copies[i].buf]
  <2>1. \A i \in 1 .. Len(copies) : copies[i] \in Write
    BY <1>0, SeqFacts
  <2>2. \A i \in 1 .. Len(copies) : copies[i].buf \in Buffer
    BY <2>1 DEF Write
  <2>3. \A i \in 1 .. Len(copies) : copies[i].buf # cur
    BY <1>0, StreamFacts DEF Xfer, BufferFree
  <2>4. QED
    BY <1>0, <2>2, <2>3 DEF Xfer
<1>3. \A i \in 1 .. Len(copies') : i \in 1 .. Len(copies) \/ i = Len(copies) + 1
  BY <1>1
<1>4. Into(c, l, s) /\ c.buf = cur /\ \A k, t : k # l \/ t # s => ~Into(c, k, t)
  BY DEF Into
<1> HIDE DEF c
<1>5. Uploading(l, e, s)'
  <2>1. /\ Len(copies) + 1 \in 1 .. Len(copies') /\ Into(copies'[Len(copies) + 1], l, s)
        /\ buf'[copies'[Len(copies) + 1].buf] = <<l, e>>
        /\ \A j \in Len(copies) + 2 .. Len(copies') : ~Into(copies'[j], l, s)
    BY <1>1, <1>2, <1>4
  <2>2. QED
    BY <1>1, <2>1 DEF Uploading
<1>6. ASSUME NEW k \in Layer, NEW x \in Expert, NEW t \in Slot, k # l \/ t # s, Uploading(k, x, t)
      PROVE  Uploading(k, x, t)'
  <2>1. PICK i \in 1 .. Len(copies) : /\ Into(copies[i], k, t) /\ buf[copies[i].buf] = <<k, x>>
                                      /\ \A j \in i + 1 .. Len(copies) : ~Into(copies[j], k, t)
    BY <1>6 DEF Uploading
  <2>2. i \in 1 .. Len(copies') /\ Into(copies'[i], k, t) /\ buf'[copies'[i].buf] = <<k, x>>
    BY <1>1, <1>2, <2>1
  <2>3. ASSUME NEW j \in i + 1 .. Len(copies') PROVE ~Into(copies'[j], k, t)
    <3>1. j \in 1 .. Len(copies')
      BY <2>3
    <3>2. CASE j \in 1 .. Len(copies)
      BY <1>1, <2>1, <2>3, <3>2
    <3>3. CASE j = Len(copies) + 1
      BY <1>1, <1>4, <1>6, <3>3
    <3>4. QED
      BY <1>3, <3>1, <3>2, <3>3
  <2>4. QED
    BY <2>2, <2>3 DEF Uploading
<1>7. ASSUME NEW k \in Layer, NEW x \in Expert, NEW t \in Slot, k # l \/ t # s, Uploaded(k, x, t)
      PROVE  Uploaded(k, x, t)'
  <2>1. \A i \in 1 .. Len(copies') : ~Into(copies'[i], k, t)
    BY <1>1, <1>3, <1>4, <1>7 DEF Uploaded
  <2>2. QED
    BY <1>2, <1>7, <2>1 DEF Uploaded
<1>8. QED
  BY <1>5, <1>6, <1>7 DEF Arriving

\* A copy: what was under way is there.
LEMMA ArrivingCopy ==
  ASSUME StreamTypes, Copy, NEW l \in Layer, NEW e \in Expert, NEW s \in Slot, Arriving(l, e, s)
  PROVE  Arriving(l, e, s)'
<1> DEFINE c == Head(copies)
<1>0. copies \in Seq(Write) /\ copies # <<>>
  BY DEF StreamTypes, Copy
<1>1. /\ c = copies[1] /\ c \in Write /\ copies' = Tail(copies) /\ Len(copies) \in Nat
      /\ Len(copies') = Len(copies) - 1 /\ buf' = buf
      /\ \A i \in 1 .. Len(copies) - 1 : copies'[i] = copies[i + 1]
  BY <1>0, SeqFacts DEF Copy, bufVars
<1>2. /\ Into(c, l, s) => content'[l][s] = buf[c.buf]
      /\ ~Into(c, l, s) => content'[l][s] = content[l][s]
  <2>1. content' = [content EXCEPT ![c.layer][c.slot] = buf[c.buf]] /\ content \in [Layer -> [Slot -> Value]]
    BY DEF Copy, StreamTypes
  <2>2. c.layer \in Layer /\ c.slot \in Slot
    BY <1>1 DEF Write
  <2>3. QED
    BY <2>1, <2>2 DEF Into
<1> HIDE DEF c
<1>3. 1 \in 1 .. Len(copies)
  BY <1>0, <1>1, SeqFacts
<1>4. CASE Uploading(l, e, s)
  <2>1. PICK i \in 1 .. Len(copies) : /\ Into(copies[i], l, s) /\ buf[copies[i].buf] = <<l, e>>
                                      /\ \A j \in i + 1 .. Len(copies) : ~Into(copies[j], l, s)
    BY <1>4 DEF Uploading
  <2>2. CASE i = 1
    <3>1. content'[l][s] = <<l, e>>
      BY <1>1, <1>2, <2>1, <2>2
    <3>2. \A j \in 1 .. Len(copies') : ~Into(copies'[j], l, s)
      BY <1>1, <2>1, <2>2
    <3>3. QED
      BY <3>1, <3>2 DEF Arriving, Uploaded
  <2>3. CASE i # 1
    <3>1. i - 1 \in 1 .. Len(copies) - 1 /\ (i - 1) + 1 = i
      BY <1>1, <2>3
    <3>2. i - 1 \in 1 .. Len(copies') /\ copies'[i - 1] = copies[i]
      BY <1>1, <3>1
    <3>3. \A j \in (i - 1) + 1 .. Len(copies') : ~Into(copies'[j], l, s)
      <4>1. SUFFICES ASSUME NEW j \in (i - 1) + 1 .. Len(copies') PROVE ~Into(copies'[j], l, s)
        OBVIOUS
      <4>2. j \in 1 .. Len(copies) - 1 /\ j + 1 \in i + 1 .. Len(copies)
        BY <1>1, <3>1
      <4>3. QED
        BY <1>1, <2>1, <4>2
    <3>4. QED
      BY <1>1, <2>1, <3>2, <3>3 DEF Arriving, Uploading
  <2>4. QED
    BY <2>2, <2>3
<1>5. CASE Uploaded(l, e, s)
  <2>1. ~Into(c, l, s) /\ content'[l][s] = <<l, e>>
    BY <1>1, <1>2, <1>3, <1>5 DEF Uploaded
  <2>2. \A i \in 1 .. Len(copies') : ~Into(copies'[i], l, s)
    <3>1. SUFFICES ASSUME NEW i \in 1 .. Len(copies') PROVE ~Into(copies'[i], l, s)
      OBVIOUS
    <3>2. i \in 1 .. Len(copies) - 1 /\ i + 1 \in 1 .. Len(copies)
      BY <1>1
    <3>3. QED
      BY <1>1, <1>5, <3>2 DEF Uploaded
  <2>3. QED
    BY <2>1, <2>2 DEF Arriving, Uploaded
<1>6. QED
  BY <1>4, <1>5 DEF Arriving

\* The first miss to serve.
LEMMA FirstFacts ==
  ASSUME CacheTypes, NEW l \in Layer
  PROVE  First(l) \in Nat \ {0} /\ mb[l].misses \in Seq(Miss) /\ Len(mb[l].misses) \in Nat
<1>1. mb[l].misses \in Seq(Miss) /\ miss \in Nat \ {0}
  BY CellTypes DEF CacheTypes, HostTypes
<1>2. Len(mb[l].misses) \in Nat
  BY <1>1, SeqFacts
<1>3. QED
  BY <1>1, <1>2 DEF First

\* A step that leaves the map alone, loses nothing that arrives and serves no miss.
LEMMA FillKept ==
  ASSUME CacheTypes, CacheTypes', Fill, hpc # "failed", Slot' = Slot, UNCHANGED slot_for_expert,
         \A l \in Layer : \A e \in Expert : \A s \in Slot : Arriving(l, e, s) => Arriving(l, e, s)',
         \A l \in Layer : \/ mb'[l].misses = mb[l].misses /\ First(l)' = First(l)
                          \/ First(l) > Len(mb[l].misses) /\ First(l)' > Len(mb'[l].misses)
  PROVE  Fill'
<1>1. SUFFICES ASSUME NEW l \in Layer, NEW e \in Expert, NEW s \in Slot, slot_for_expert[l][e] = s
               PROVE  Provided(l, e, s)'
  BY DEF Fill
<1>2. Provided(l, e, s)
  BY <1>1 DEF Fill
<1>3. First(l)' \in Nat \ {0} /\ mb'[l].misses \in Seq(Miss)
  <2>1. Miss' = Miss
    BY DEF Miss
  <2>2. miss' \in Nat \ {0} /\ mb'[l].misses \in Seq(Miss)
    BY <2>1 DEF CacheTypes, HostTypes, MailTypes
  <2>3. Len(mb'[l].misses) \in Nat
    BY <2>2, SeqFacts
  <2>4. QED
    BY <2>2, <2>3 DEF First
<1>4. CASE mb'[l].misses = mb[l].misses /\ First(l)' = First(l)
  BY <1>2, <1>4 DEF Provided
<1>5. CASE First(l) > Len(mb[l].misses) /\ First(l)' > Len(mb'[l].misses)
  <2>1. ~Listed(mb[l].misses, First(l), e, s)
    BY <1>5, FirstFacts, ListFacts
  <2>2. Unlisted(mb'[l].misses, First(l)', s)
    BY <1>3, <1>5, ListFacts
  <2>3. QED
    BY <1>2, <2>1, <2>2 DEF Provided
<1>6. QED
  BY <1>4, <1>5

\* The host lists nothing and loses nothing; serving a miss starts its copy.
LEMMA FillHost ==
  ASSUME CacheTypes, CacheTypes', Queue, Mail, Identity, Fill, HostStep \/ XferFails
  PROVE  Fill'
<1> USE DEF bufVars, copyVars, devVars, mapVars, hostVars
<1>0. /\ slots' = slots /\ Slot' = Slot /\ StreamTypes /\ layer \in Layer
      /\ \A l \in Layer : Len(mb[l].misses) \in Nat
  BY SlotsStep, FirstFacts DEF Next, CacheTypes, HostTypes
<1>1. UNCHANGED <<copyVars, bufVars>> =>
        \A l \in Layer : \A e \in Expert : \A s \in Slot : Arriving(l, e, s) => Arriving(l, e, s)'
  BY DEF Arriving, Uploading, Uploaded
<1>2. CASE Prefill
  <2>1. SUFFICES ASSUME NEW l \in Layer, NEW e \in Expert, NEW s \in Slot, slot_for_expert'[l][e] = s
                 PROVE  Provided(l, e, s)'
    BY <1>0 DEF Fill
  <2>2. Resident /\ hpc = "prefill" /\ hpc' = "prefill" /\ mb' = mb
    BY <1>2, PrefillFacts DEF Prefill
  <2>3. /\ mb[l].misses \in Seq(Miss) /\ First(l) = Len(mb[l].misses) + 1 /\ First(l)' = First(l)
    BY <2>2, FirstFacts DEF First
  <2>4. ~Listed(mb[l].misses, First(l), e, s) /\ Unlisted(mb[l].misses, First(l), s)
    <3>1. First(l) > Len(mb[l].misses) /\ First(l) \in Nat \ {0}
      BY <1>0, <2>3
    <3>2. QED
      BY <2>3, <3>1, ListFacts
  <2>5. Arriving(l, e, s)'
    <3>1. Xfer(layer, miss - 1, miss - 1) /\ miss - 1 \in Expert /\ miss - 1 \in Slot
      BY <1>2, PrefillFacts DEF Prefill
    <3>2. CASE l = layer /\ e = miss - 1
      <4>1. s = miss - 1
        BY <1>2, <2>1, <3>2, PrefillFacts
      <4>2. QED
        BY <1>0, <3>1, <3>2, <4>1, ArrivingXfer
    <3>3. CASE ~(l = layer /\ e = miss - 1)
      <4>1. slot_for_expert[l][e] = s
        BY <1>2, <2>1, <3>3, PrefillFacts
      <4>2. Arriving(l, e, s)
        BY <2>2, <2>4, <4>1 DEF Fill, Provided
      <4>3. s # None
        BY SlotFacts DEF CacheTypes, MapTypes
      <4>4. s = e
        BY <2>2, <4>1, <4>3 DEF Identity
      <4>5. QED
        BY <1>0, <3>1, <3>3, <4>2, <4>4, ArrivingXfer
    <3>4. QED
      BY <3>2, <3>3
  <2>6. QED
    BY <2>2, <2>3, <2>4, <2>5 DEF Provided
<1>3. CASE Serve
  <2> DEFINE q == mb[layer].misses
             m == q[miss]
  <2>1. /\ hpc = "serve" /\ hpc' = "serve" /\ UNCHANGED <<mb, layer, slot_for_expert>> /\ miss' = miss + 1
        /\ Xfer(layer, m.expert, m.slot)
    BY <1>3 DEF Serve
  <2>2. q \in Seq(Miss) /\ miss \in 1 .. Len(q)
    <3>1. q \in Seq(Miss) /\ Len(q) \in Nat /\ miss \in Nat \ {0}
      BY <1>0, FirstFacts DEF CacheTypes, HostTypes
    <3>2. miss <= Len(q)
      BY <1>3, <2>1 DEF Serve, Mail
    <3>3. QED
      BY <3>1, <3>2
  <2>3. m \in Miss /\ m.expert \in Expert /\ m.slot \in Slot
    <3>1. \A u \in Seq(Miss) : \A i \in 1 .. Len(u) : u[i] \in Miss
      BY SeqFacts
    <3>2. m \in Miss
      BY <2>2, <3>1
    <3> HIDE DEF m
    <3>3. QED
      BY <3>2 DEF Miss
  <2>4. SUFFICES ASSUME NEW l \in Layer, NEW e \in Expert, NEW s \in Slot, slot_for_expert[l][e] = s
                 PROVE  Provided(l, e, s)'
    BY <1>0, <2>1 DEF Fill
  <2>5. Provided(l, e, s)
    BY <2>1, <2>4 DEF Fill
  <2>6. CASE l # layer
    <3>1. First(l)' = First(l)
      BY <2>1, <2>6 DEF First
    <3>2. Arriving(l, e, s) => Arriving(l, e, s)'
      BY <1>0, <2>1, <2>3, <2>6, ArrivingXfer
    <3>3. QED
      BY <2>1, <2>5, <3>1, <3>2 DEF Provided
  <2>7. CASE l = layer
    <3>1. First(l) = miss /\ First(l)' = miss + 1 /\ miss \in Nat \ {0} /\ miss <= Len(q)
      BY <2>1, <2>2, <2>7 DEF First
    <3>2. CASE Listed(q, miss, e, s)
      <4>1. CASE Listed(q, miss + 1, e, s)
        BY <2>1, <2>7, <3>1, <4>1 DEF Provided
      <4>2. CASE m = [expert |-> e, slot |-> s] /\ Unlisted(q, miss + 1, s)
        <5>1. Arriving(l, e, s)'
          BY <1>0, <2>1, <2>3, <2>7, <4>2, ArrivingXfer
        <5>2. QED
          BY <2>1, <2>7, <3>1, <4>2, <5>1 DEF Provided
      <4>3. QED
        BY <2>2, <3>1, <3>2, <4>1, <4>2, ListFacts
    <3>3. CASE Unlisted(q, miss, s) /\ Arriving(l, e, s)
      <4>1. m.slot # s /\ Unlisted(q, miss + 1, s)
        BY <2>2, <3>1, <3>3, ListFacts
      <4>2. Arriving(l, e, s)'
        BY <1>0, <2>1, <2>3, <3>3, <4>1, ArrivingXfer
      <4>3. QED
        BY <2>1, <2>7, <3>1, <4>1, <4>2 DEF Provided
    <3>4. QED
      BY <2>5, <2>7, <3>1, <3>2, <3>3 DEF Provided
  <2>8. QED
    BY <2>6, <2>7
<1>4. CASE Prefilled \/ LaunchMoe \/ Sync
  <2>1. /\ hpc \notin {"spin", "serve", "failed"} /\ hpc' \notin {"spin", "serve"}
        /\ UNCHANGED <<mb, slot_for_expert, copyVars, bufVars>>
    BY <1>4 DEF Prefilled, LaunchMoe, Sync
  <2>2. \A l \in Layer : First(l)' = First(l)
    BY <2>1 DEF First
  <2>3. QED
    BY <1>0, <1>1, <2>1, <2>2, FillKept
<1>5. CASE Launch
  <2>1. /\ hpc = "token" /\ hpc' = (IF Resident THEN "moe" ELSE "spin")
        /\ UNCHANGED <<mb, slot_for_expert, at, layer, copyVars, bufVars>>
    BY <1>5 DEF Launch
  <2>2. ~Resident => at = 0 /\ compute' # <<>>
    <3>1. ~Resident => at = 0
      <4>1. at \in Nat
        BY ConstantFacts DEF CacheTypes, MapTypes
      <4>2. ~Running("dispatch")
        <5>1. Running("dispatch") => compute # <<>> /\ compute[1].op = "dispatch"
          BY <1>0, RunningFacts
        <5>2. QED
          BY <2>1, <5>1, HeadFacts
      <4>3. QED
        BY <4>1, <4>2 DEF Queue
    <3>2. ~Resident => compute' # <<>>
      BY <1>0, <1>5 DEF Launch, StreamTypes
    <3>3. QED
      BY <3>1, <3>2
  <2>3. \A l \in Layer : First(l)' = First(l)
    BY <2>1, <2>2 DEF First
  <2>4. QED
    BY <1>0, <1>1, <2>1, <2>3, FillKept
<1>6. CASE Stamped
  <2>1. /\ hpc = "spin" /\ hpc' = "serve" /\ miss' = 1
        /\ UNCHANGED <<mb, slot_for_expert, at, layer, compute, copyVars, bufVars>>
    BY <1>6 DEF Stamped
  <2>2. compute = <<>>
    <3>1. expected_seq[layer] \in Nat /\ mb[layer].seq = expected_seq[layer]
      BY <1>0, <1>6, CellTypes DEF Stamped
    <3>2. mb[layer].seq = IF compute # <<>> THEN expected_seq[layer] - 1 ELSE expected_seq[layer]
      BY <1>0, <2>1 DEF Mail, Queue
    <3>3. QED
      BY <3>1, <3>2
  <2>3. \A l \in Layer : First(l)' = First(l)
    BY <2>1, <2>2 DEF First
  <2>4. QED
    BY <1>0, <1>1, <2>1, <2>3, FillKept
<1>7. CASE Served
  <2>1. /\ hpc = "serve" /\ hpc' = "moe" /\ miss > mb[layer].miss_n
        /\ mb' = [mb EXCEPT ![layer].miss_n = 0]
        /\ UNCHANGED <<slot_for_expert, layer, copyVars, bufVars>>
    BY <1>7 DEF Served
  <2>2. \A l \in Layer : mb'[l].misses = mb[l].misses
    BY <1>0, <2>1 DEF CacheTypes, MailTypes
  <2>3. mb[layer].miss_n = Len(mb[layer].misses)
    BY <2>1 DEF Mail
  <2>4. \A l \in Layer : \/ mb'[l].misses = mb[l].misses /\ First(l)' = First(l)
                         \/ First(l) > Len(mb[l].misses) /\ First(l)' > Len(mb'[l].misses)
    <3>1. SUFFICES ASSUME NEW l \in Layer
                   PROVE  \/ mb'[l].misses = mb[l].misses /\ First(l)' = First(l)
                          \/ First(l) > Len(mb[l].misses) /\ First(l)' > Len(mb'[l].misses)
      OBVIOUS
    <3>2. CASE l # layer
      BY <2>1, <2>2, <3>2 DEF First
    <3>3. CASE l = layer
      <4>1. First(l) = miss /\ First(l)' = Len(mb[l].misses) + 1
        BY <2>1, <2>2, <3>3 DEF First
      <4>2. QED
        BY <1>0, <2>1, <2>2, <2>3, <3>3, <4>1
    <3>4. QED
      BY <3>2, <3>3
  <2>5. QED
    BY <1>0, <1>1, <2>1, <2>4, FillKept
<1>8. CASE XferFails
  BY <1>8 DEF XferFails, Fill
<1>9. QED
  BY <1>2, <1>3, <1>4, <1>5, <1>6, <1>7, <1>8 DEF HostStep

\* So do the streams; a miss that is dispatched is listed.
LEMMA FillCard ==
  ASSUME CacheTypes, CacheTypes', Queue, Mail, Inverses, Fill, CardStep \/ Copy
  PROVE  Fill'
<1> USE DEF bufVars, copyVars, devVars, mapVars, hostVars
<1>0. /\ slots' = slots /\ Slot' = Slot /\ StreamTypes /\ layer \in Layer /\ Miss' = Miss
      /\ TOPK \in Nat /\ at \in Nat /\ UNCHANGED <<hpc, layer, miss>>
      /\ \A l \in Layer : Len(mb[l].misses) \in Nat
  <2>1. slots' = slots /\ Slot' = Slot /\ Miss' = Miss
    BY SlotsStep DEF Next, Miss
  <2>2. UNCHANGED <<hpc, layer, miss>>
    BY DEF CardStep, Route, DispatchHit, DispatchMiss, Report, PassWait, RunMoe, Copy
  <2>3. /\ slots' = slots /\ StreamTypes /\ layer \in Layer /\ TOPK \in Nat
        /\ at \in Nat
    BY <2>1, ConstantFacts DEF CacheTypes, HostTypes, MapTypes
  <2>4. \A l \in Layer : Len(mb[l].misses) \in Nat
    BY FirstFacts
  <2>5. QED
    BY <2>1, <2>2, <2>3, <2>4
<1>1. UNCHANGED <<copyVars, bufVars>> =>
        \A l \in Layer : \A e \in Expert : \A s \in Slot : Arriving(l, e, s) => Arriving(l, e, s)'
  BY DEF Arriving, Uploading, Uploaded
<1>2. SUFFICES ASSUME hpc # "failed" PROVE Fill'
  BY <1>0 DEF Fill
<1>3. CASE Route \/ RunMoe \/ PassWait
  <2>1. /\ compute # <<>> /\ compute' = Tail(compute) /\ compute[1].op # "dispatch"
        /\ UNCHANGED <<mb, slot_for_expert, copyVars, bufVars>> /\ at' \in {0, at}
    BY <1>0, <1>3, RunningFacts DEF Route, RunMoe, PassWait
  <2>2. at = 0 /\ at' = 0 /\ (hpc = "spin" => compute' # <<>>)
    BY <2>1, SpinTail
  <2>3. \A l \in Layer : First(l)' = First(l)
    BY <1>0, <2>1, <2>2 DEF First
  <2>4. QED
    BY <1>0, <1>1, <1>2, <2>1, <2>3, FillKept
<1>4. CASE Copy
  <2>1. UNCHANGED <<mb, slot_for_expert, at, compute>>
    BY <1>4 DEF Copy
  <2>2. \A l \in Layer : First(l)' = First(l)
    BY <1>0, <2>1 DEF First
  <2>3. \A l \in Layer : \A e \in Expert : \A s \in Slot : Arriving(l, e, s) => Arriving(l, e, s)'
    BY <1>0, <1>4, ArrivingCopy
  <2>4. QED
    BY <1>0, <1>2, <2>1, <2>2, <2>3, FillKept
<1>5. CASE Report
  <2>1. /\ Running("dispatch") /\ at >= TOPK /\ UNCHANGED <<slot_for_expert, copyVars, bufVars>>
        /\ IF at = TOPK + 1 THEN at' = 0 /\ compute' = Tail(compute) ELSE at' = at + 1 /\ compute' = compute
    BY <1>5 DEF Report
  <2>2. /\ compute # <<>> /\ compute[1].op = "dispatch" /\ Head(compute) = compute[1]
        /\ hpc = "spin" /\ Len(compute) = 1 /\ Head(compute).layer = layer /\ Tail(compute) = <<>>
    BY <1>0, <2>1, RunningFacts, HeadFacts, TailFacts DEF StreamTypes
  <2>3. \A l \in Layer : mb'[l].misses = mb[l].misses
    BY <1>0, <1>5, <2>2 DEF Report, CacheTypes, MailTypes
  <2>4. at > 0 /\ (at' > 0 \/ compute' = <<>>)
    <3>1. TOPK >= 1 /\ at >= 1
      BY <1>0, <2>1, ConstantFacts
    <3>2. CASE at = TOPK + 1
      <4>1. compute' = <<>>
        BY <2>1, <2>2, <3>2
      <4>2. at > 0
        BY <1>0, <3>1
      <4>3. QED
        BY <4>1, <4>2
    <3>3. CASE at # TOPK + 1
      <4>1. at' = at + 1
        BY <2>1, <3>3
      <4>2. QED
        BY <1>0, <3>1, <4>1
    <3>4. QED
      BY <3>2, <3>3
  <2>5. \A l \in Layer : First(l)' = First(l)
    BY <1>0, <2>2, <2>3, <2>4 DEF First
  <2>6. QED
    BY <1>0, <1>1, <1>2, <2>1, <2>3, <2>5, FillKept
<1>6. CASE DispatchHit
  <2>1. /\ Running("dispatch") /\ at < TOPK /\ at' = at + 1
        /\ UNCHANGED <<slot_for_expert, compute, copyVars, bufVars>>
    BY <1>6 DEF DispatchHit
  <2>2. hpc = "spin" /\ Head(compute).layer = layer /\ compute # <<>>
    BY <2>1, DispatchFacts
  <2>3. mb' = IF at = 0 THEN [mb EXCEPT ![layer].misses = <<>>] ELSE mb
    BY <1>6, <2>2 DEF DispatchHit
  <2>4. \A l \in Layer : \/ mb'[l].misses = mb[l].misses /\ First(l)' = First(l)
                         \/ First(l) > Len(mb[l].misses) /\ First(l)' > Len(mb'[l].misses)
    <3>1. CASE at = 0
      <4>1. SUFFICES ASSUME NEW l \in Layer
                     PROVE  \/ mb'[l].misses = mb[l].misses /\ First(l)' = First(l)
                            \/ First(l) > Len(mb[l].misses) /\ First(l)' > Len(mb'[l].misses)
        OBVIOUS
      <4>2. CASE l # layer
        <5>1. mb'[l].misses = mb[l].misses
          BY <2>3, <3>1, <4>2 DEF CacheTypes, MailTypes
        <5>2. First(l)' = First(l)
          BY <1>0, <4>2, <5>1 DEF First
        <5>3. QED
          BY <5>1, <5>2
      <4>3. CASE l = layer
        <5>1. mb'[l].misses = <<>>
          BY <2>3, <3>1, <4>3 DEF CacheTypes, MailTypes
        <5>2. First(l) = Len(mb[l].misses) + 1 /\ First(l)' = 1
          BY <1>0, <2>1, <2>2, <3>1, <4>3 DEF First
        <5>3. QED
          BY <1>0, <5>1, <5>2
      <4>4. QED
        BY <4>2, <4>3
    <3>2. CASE at # 0
      <4>1. at > 0 /\ at' > 0
        BY <1>0, <2>1, <3>2
      <4>2. \A l \in Layer : mb'[l].misses = mb[l].misses
        BY <2>3, <3>2
      <4>3. QED
        BY <1>0, <2>1, <4>1, <4>2 DEF First
    <3>3. QED
      BY <3>1, <3>2
  <2>5. QED
    BY <1>0, <1>1, <1>2, <2>1, <2>4, FillKept
<1>7. CASE DispatchMiss
  <2> DEFINE e == sel[at + 1]
             s == Coldest(age[layer])
             q == IF at = 0 THEN <<>> ELSE mb[layer].misses
             m == [expert |-> e, slot |-> s]
  <2>1. /\ Running("dispatch") /\ at < TOPK /\ at' = at + 1 /\ UNCHANGED <<compute, copyVars, bufVars>>
    BY <1>7 DEF DispatchMiss
  <2>2. /\ hpc = "spin" /\ Head(compute).layer = layer /\ compute # <<>> /\ e \in Expert /\ s \in Slot
    BY <2>1, DispatchFacts
  <2>3. mb' = [mb EXCEPT ![layer].misses = Append(q, m)]
    BY <1>7, <2>2 DEF DispatchMiss
  <2>4. mb'[layer].misses = Append(q, m) /\ \A l \in Layer : l # layer => mb'[l] = mb[l]
    BY <1>0, <2>3 DEF CacheTypes, MailTypes
  <2>5. q \in Seq(Miss) /\ m \in Miss
    <3>1. mb[layer].misses \in Seq(Miss)
      BY <1>0, CellTypes
    <3>2. m \in Miss
      BY <2>2 DEF Miss
    <3>3. QED
      BY <3>1, <3>2
  <2>6. \A l \in Layer : First(l)' = IF l = layer THEN 1 ELSE First(l)
    <3>1. at' > 0
      BY <1>0, <2>1
    <3>2. QED
      BY <1>0, <2>2, <2>4, <3>1 DEF First
  <2>7. SUFFICES ASSUME NEW l \in Layer, NEW x \in Expert, NEW t \in Slot, slot_for_expert'[l][x] = t
                 PROVE  Provided(l, x, t)'
    BY <1>0 DEF Fill
  <2>8. Arriving(l, x, t) => Arriving(l, x, t)'
    BY <1>1, <2>1
  <2>9. CASE l # layer
    <3>1. slot_for_expert[l][x] = t
      BY <1>7, <2>7, <2>9, MissFacts
    <3>2. Provided(l, x, t)
      BY <1>2, <3>1 DEF Fill
    <3>3. QED
      BY <2>4, <2>6, <2>8, <2>9, <3>2 DEF Provided
  <2>a. q = IF at = 0 THEN <<>> ELSE mb[layer].misses
    OBVIOUS
  <2>b. m.slot = s /\ m = [expert |-> e, slot |-> s]
    OBVIOUS
  <2> HIDE DEF q, m, s, e
  <2>10. CASE l = layer /\ x = e
    <3>1. t = s
      BY <1>7, <2>7, <2>10, MissFacts DEF e, s
    <3>2. Listed(Append(q, m), 1, x, t)
      <4>1. m = [expert |-> x, slot |-> t] /\ 1 <= Len(q) + 1
        <5>1. Len(q) \in Nat
          BY <2>5, SeqFacts
        <5>2. QED
          BY <2>b, <2>10, <3>1, <5>1
      <4>2. 1 \in Nat \ {0}
        OBVIOUS
      <4>3. QED
        BY <2>5, <4>1, <4>2, ListFacts
    <3>3. QED
      BY <2>4, <2>6, <2>10, <3>2 DEF Provided
  <2>11. CASE l = layer /\ x # e
    <3>1. slot_for_expert[l][x] = t /\ t # s
      <4>1. t # None
        BY SlotFacts DEF CacheTypes, MapTypes
      <4>2. QED
        BY <1>7, <2>7, <2>11, <4>1, MissFacts DEF e, s
    <3>2. Provided(l, x, t)
      BY <1>2, <3>1 DEF Fill
    <3>3. Listed(q, 1, x, t) \/ (Unlisted(q, 1, t) /\ Arriving(l, x, t))
      <4>1. CASE at = 0
        <5>1. First(l) > Len(mb[l].misses)
          BY <1>0, <2>2, <2>11, <4>1 DEF First
        <5>2. ~Listed(mb[l].misses, First(l), x, t)
          BY <5>1, FirstFacts, ListFacts
        <5>3. 1 > Len(q) /\ 1 \in Nat \ {0}
          BY <4>1, <2>a
        <5>4. Unlisted(q, 1, t)
          BY <2>5, <5>3, ListFacts
        <5>5. QED
          BY <3>2, <5>2, <5>4 DEF Provided
      <4>2. CASE at # 0
        <5>1. First(l) = 1
          BY <1>0, <2>2, <2>11, <4>2 DEF First
        <5>2. QED
          BY <2>11, <2>a, <3>2, <4>2, <5>1 DEF Provided
      <4>3. QED
        BY <4>1, <4>2
    <3>4. Listed(Append(q, m), 1, x, t) \/ (Unlisted(Append(q, m), 1, t) /\ Arriving(l, x, t)')
      <4>1. m.slot # t /\ 1 \in Nat \ {0}
        BY <3>1, <2>b
      <4>2. QED
        BY <2>5, <2>8, <3>3, <4>1, ListFacts
    <3>5. QED
      BY <2>4, <2>6, <2>11, <3>4 DEF Provided
  <2>12. QED
    BY <2>9, <2>10, <2>11
<1>8. QED
  BY <1>3, <1>4, <1>5, <1>6, <1>7 DEF CardStep

-----------------------------------------------------------------------------
(* The routing. *)

\* Fewer than slots cells cannot name every slot.
LEMMA Pigeonhole ==
  ASSUME slots \in SlotChoices, NEW n \in Nat, n < slots, NEW f
  PROVE  \E t \in Slot : \A j \in 1 .. n : f[j] # t
<1> DEFINE R == {f[j] : j \in 1 .. n}
           g == [j \in 1 .. n |-> f[j]]
<1>1. slots \in Nat /\ IsFiniteSet(1 .. n) /\ Cardinality(1 .. n) = n
  <2>1. IsFiniteSet(1 .. n) /\ Cardinality(1 .. n) = (IF 1 > n THEN 0 ELSE n - 1 + 1)
    BY FS_Interval
  <2>2. QED
    BY <2>1, SlotFacts
<1>2. IsFiniteSet(R) /\ Cardinality(R) <= n
  <2>1. g \in Surjection(1 .. n, R)
    BY DEF Surjection
  <2>2. QED
    BY <1>1, <2>1, FS_Surjection
<1>3. Cardinality(Slot) = slots
  <2>1. Cardinality(0 .. slots - 1) = (IF 0 > slots - 1 THEN 0 ELSE (slots - 1) - 0 + 1)
    BY <1>1, FS_Interval
  <2>2. QED
    BY <2>1, SlotFacts DEF Slot
<1>4. ~(Slot \subseteq R)
  <2>1. Slot \subseteq R => Cardinality(Slot) <= Cardinality(R)
    BY <1>2, FS_Subset
  <2>2. Cardinality(R) \in Nat
    BY <1>2, FS_CardinalityType
  <2>3. QED
    BY <1>1, <1>2, <1>3, <2>1, <2>2
<1>5. QED
  BY <1>4

\* The slot of a miss is not one that this dispatch has just given out.
LEMMA ColdestIsOther ==
  ASSUME CacheTypes, Queue, Ages, DispatchMiss, slots >= TOPK, at > 0 => Fresh(layer),
         NEW j \in 1 .. at
  PROVE  route_slot[layer][j] # Coldest(age[layer])
<1> DEFINE s == Coldest(age[layer])
<1>1. Running("dispatch") /\ at < TOPK
  BY DEF DispatchMiss
<1>2. /\ layer \in Layer /\ at \in Nat /\ at < slots /\ s \in Slot /\ slots \in SlotChoices
      /\ \A t \in Slot : age[layer][s] <= age[layer][t]
  <2>1. slots \in SlotChoices
    BY DEF CacheTypes, MapTypes
  <2>2. slots \in Nat /\ TOPK \in Nat
    BY <2>1, SlotFacts, ConstantFacts
  <2>3. QED
    BY <1>1, <2>1, <2>2, DispatchFacts
<1>3. PICK t \in Slot : \A i \in 1 .. at : route_slot[layer][i] # t
  BY <1>2, Pigeonhole
<1>4. Fresh(layer)
  BY <1>2
<1>5. age[layer][t] <= clock[layer] - at /\ age[layer][route_slot[layer][j]] > clock[layer] - at
  BY <1>3, <1>4 DEF Fresh
<1>6. clock[layer] \in Nat /\ age[layer][s] \in Nat /\ age[layer][t] \in Nat
  BY <1>2, CellTypes
<1> HIDE DEF s
<1>7. age[layer][s] <= clock[layer] - at
  BY <1>2, <1>5, <1>6
<1>8. SUFFICES ASSUME route_slot[layer][j] = s PROVE FALSE
  BY DEF s
<1>9. age[layer][s] > clock[layer] - at
  BY <1>5, <1>8
<1>10. QED
  BY <1>2, <1>6, <1>7, <1>9

\* A dispatch adds its slot to those given out last.
LEMMA FreshStep ==
  ASSUME CacheTypes, Queue, Ages, DispatchHit \/ DispatchMiss,
         at > 0 => Fresh(layer) /\ Routed(layer, at)
  PROVE  Fresh(layer)'
<1>1. PICK s \in Slot :
        /\ clock'[layer] = clock[layer] + 1 /\ at' = at + 1
        /\ age'[layer][s] = clock[layer] + 1
        /\ \A t \in Slot : t # s => age'[layer][t] = age[layer][t]
        /\ route_slot'[layer][at + 1] = s
        /\ \A j \in 1 .. TOPK : j # at + 1 => route_slot'[layer][j] = route_slot[layer][j]
        /\ UNCHANGED <<layer, slots>>
  BY DispatchMaps
<1>2. /\ layer \in Layer /\ at \in Nat /\ at + 1 \in 1 .. TOPK /\ Slot' = Slot
      /\ clock[layer] \in Nat /\ \A t \in Slot : age[layer][t] \in Nat
  <2>1. Running("dispatch") /\ at < TOPK
    BY DEF DispatchHit, DispatchMiss
  <2>2. layer \in Layer /\ at \in Nat /\ at + 1 \in 1 .. TOPK
    BY <2>1, DispatchFacts
  <2>3. clock[layer] \in Nat /\ age[layer] \in [Slot -> Nat]
    BY <2>2, CellTypes
  <2>4. QED
    BY <1>1, <2>2, <2>3 DEF Slot
<1>3. clock'[layer] - at' = clock[layer] - at /\ at' <= clock'[layer]
  <2>1. at <= clock[layer]
    BY <1>2 DEF Fresh
  <2>2. QED
    BY <1>1, <1>2, <2>1
<1>4. ASSUME NEW j \in 1 .. at' PROVE age'[layer][route_slot'[layer][j]] > clock[layer] - at
  <2>1. CASE route_slot'[layer][j] = s
    BY <1>1, <1>2, <2>1
  <2>2. CASE route_slot'[layer][j] # s
    <3>1. j \in 1 .. at /\ j \in 1 .. TOPK /\ j # at + 1
      <4>1. j # at + 1 /\ j \in 1 .. at + 1 /\ TOPK \in Nat
        BY <1>1, <1>4, <2>2, ConstantFacts
      <4>2. QED
        BY <1>2, <4>1
    <3>2. route_slot'[layer][j] = route_slot[layer][j]
      BY <1>1, <3>1
    <3>3. age[layer][route_slot[layer][j]] > clock[layer] - at
      BY <1>2, <3>1 DEF Fresh
    <3>4. route_slot[layer][j] \in Slot
      BY <1>2, <3>1 DEF Routed
    <3>5. QED
      BY <1>1, <2>2, <3>2, <3>3, <3>4
  <2>3. QED
    BY <2>1, <2>2
<1>5. ASSUME NEW t \in Slot, \A j \in 1 .. at' : route_slot'[layer][j] # t
      PROVE  age'[layer][t] <= clock[layer] - at
  <2>1. t # s
    BY <1>1, <1>2, <1>5
  <2>2. \A j \in 1 .. at : route_slot[layer][j] # t
    <3>1. SUFFICES ASSUME NEW j \in 1 .. at PROVE route_slot[layer][j] # t
      OBVIOUS
    <3>2. j \in 1 .. at + 1 /\ j # at + 1 /\ j \in 1 .. TOPK
      BY <1>2, <3>1, ConstantFacts
    <3>3. route_slot'[layer][j] = route_slot[layer][j] /\ route_slot'[layer][j] # t
      BY <1>1, <1>5, <3>2
    <3>4. QED
      BY <3>3
  <2>3. age[layer][t] <= clock[layer]
    BY <1>2 DEF Ages
  <2>4. at > 0 => age[layer][t] <= clock[layer] - at
    BY <2>2 DEF Fresh
  <2>5. QED
    BY <1>1, <1>2, <2>1, <2>3, <2>4
<1>6. layer' = layer
  BY <1>1
<1>7. QED
  BY <1>1, <1>2, <1>3, <1>4, <1>5, <1>6 DEF Fresh

\* A dispatch gives the expert its slot, and takes none from those it has served.
LEMMA RoutedStep ==
  ASSUME CacheTypes, Queue, Inverses, Ages, DispatchHit \/ DispatchMiss, slots >= TOPK,
         at > 0 => Fresh(layer) /\ Routed(layer, at)
  PROVE  Routed(layer, at)'
<1>1. PICK s \in Slot :
        /\ DispatchHit => s = slot_for_expert[layer][sel[at + 1]]
        /\ DispatchMiss => s = Coldest(age[layer])
        /\ at' = at + 1 /\ route_slot'[layer][at + 1] = s
        /\ \A j \in 1 .. TOPK : j # at + 1 => route_slot'[layer][j] = route_slot[layer][j]
        /\ UNCHANGED <<sel, layer, slots>>
  BY DispatchMaps
<1>2. /\ layer \in Layer /\ at \in Nat /\ at + 1 \in 1 .. TOPK /\ Slot' = Slot /\ sel \in Selections
      /\ sel[at + 1] \in Expert
  <2>1. Running("dispatch") /\ at < TOPK
    BY DEF DispatchHit, DispatchMiss
  <2>2. QED
    BY <1>1, <2>1, DispatchFacts DEF Slot, CacheTypes, MapTypes
<1>3. ASSUME NEW j \in 1 .. at + 1
      PROVE  route_slot'[layer][j] \in Slot /\ slot_for_expert'[layer][sel[j]] = route_slot'[layer][j]
  <2>1. CASE j = at + 1
    <3>1. CASE DispatchHit
      <4>1. UNCHANGED slot_for_expert
        BY <3>1 DEF DispatchHit
      <4>2. QED
        BY <1>1, <2>1, <3>1, <4>1
    <3>2. CASE DispatchMiss
      <4>1. slot_for_expert'[layer][sel[at + 1]] = s
        BY <1>1, <3>2, MissFacts
      <4>2. QED
        BY <1>1, <2>1, <4>1
    <3>3. QED
      BY <3>1, <3>2
  <2>2. CASE j # at + 1
    <3>1. j \in 1 .. at /\ j \in 1 .. TOPK
      BY <1>2, <1>3, <2>2, ConstantFacts
    <3>2. /\ route_slot'[layer][j] = route_slot[layer][j] /\ route_slot[layer][j] \in Slot
          /\ slot_for_expert[layer][sel[j]] = route_slot[layer][j]
      BY <1>1, <1>2, <2>2, <3>1 DEF Routed
    <3>3. CASE DispatchHit
      <4>1. UNCHANGED slot_for_expert
        BY <3>3 DEF DispatchHit
      <4>2. QED
        BY <3>2, <4>1
    <3>4. CASE DispatchMiss
      <4>1. route_slot[layer][j] # s
        BY <1>1, <3>1, <3>4, ColdestIsOther
      <4>2. sel[j] \in Expert /\ sel[j] # sel[at + 1]
        BY <1>2, <2>2, <3>1, SelectionFacts
      <4>3. slot_for_expert'[layer][sel[j]] = slot_for_expert[layer][sel[j]]
        BY <1>1, <3>2, <3>4, <4>1, <4>2, MissFacts
      <4>4. QED
        BY <3>2, <4>3
    <3>5. QED
      BY <3>3, <3>4
  <2>3. QED
    BY <2>1, <2>2
<1>4. layer' = layer /\ sel' = sel /\ at' = at + 1
  BY <1>1
<1>5. QED
  BY <1>1, <1>2, <1>3, <1>4 DEF Routed

\* The operations of the stream that run the experts.
MoesRouted(q) == \A i \in 1 .. Len(q) : q[i].op = "moe" => Routed(q[i].layer, TOPK)

LEMMA MoesFacts ==
  ASSUME NEW q \in Seq(Operation), MoesRouted(q)
  PROVE  /\ q # <<>> => MoesRouted(Tail(q))
         /\ \A o \in Operation : (o.op = "moe" => Routed(o.layer, TOPK)) => MoesRouted(Append(q, o))
<1>1. ASSUME q # <<>> PROVE MoesRouted(Tail(q))
  BY <1>1, TailFacts DEF MoesRouted
<1>2. ASSUME NEW o \in Operation, o.op = "moe" => Routed(o.layer, TOPK) PROVE MoesRouted(Append(q, o))
  <2> DEFINE t == Append(q, o)
  <2>1. /\ Len(t) = Len(q) + 1 /\ t[Len(q) + 1] = o /\ Len(q) \in Nat
        /\ \A i \in 1 .. Len(q) : t[i] = q[i]
    BY AppendFacts, SeqFacts
  <2> HIDE DEF t
  <2>2. \A i \in 1 .. Len(t) : i \in 1 .. Len(q) \/ i = Len(q) + 1
    BY <2>1
  <2>3. MoesRouted(t)
    BY <1>2, <2>1, <2>2 DEF MoesRouted
  <2>4. QED
    BY <2>3 DEF t
<1>3. QED
  BY <1>1, <1>2

\* Steps that leave the routing alone.
LEMMA RoutedKept ==
  ASSUME Slot' = Slot, UNCHANGED <<slot_for_expert, route_slot, sel>>
  PROVE  /\ \A l, k : Routed(l, k)' <=> Routed(l, k)
         /\ \A q : MoesRouted(q)' <=> MoesRouted(q)
<1>1. \A l, k : Routed(l, k)' <=> Routed(l, k)
  BY DEF Routed
<1>2. QED
  BY <1>1 DEF MoesRouted

\* The routing of the token at hand is kept by every step.
LEMMA RoutingStep ==
  ASSUME CacheTypes, Queue, Mail, Inverses, Ages, Routing, Next
  PROVE  Routing'
<1> USE DEF bufVars, copyVars, devVars, mapVars, hostVars
<1>0. /\ slots' = slots /\ Slot' = Slot /\ Resident' = Resident /\ StreamTypes /\ layer \in Layer
      /\ TOPK \in Nat /\ TOPK >= 1 /\ at \in Nat /\ compute \in Seq(Operation) /\ slots \in Nat
  <2>1. slots' = slots /\ Slot' = Slot /\ Resident' = Resident
    BY SlotsStep
  <2>2. slots \in SlotChoices /\ at \in Nat /\ layer \in Layer /\ StreamTypes /\ compute \in Seq(Operation)
    BY ConstantFacts DEF CacheTypes, MapTypes, HostTypes, StreamTypes
  <2>3. QED
    BY <2>1, <2>2, ConstantFacts, SlotFacts
<1>1. SUFFICES ASSUME ~Resident, slots >= TOPK
               PROVE  /\ at' > 0 => Routed(layer, IF at <= TOPK THEN at ELSE TOPK)'
                      /\ at' > 0 /\ at' <= TOPK => Fresh(layer)'
                      /\ \/ hpc' \in {"serve", "moe"}
                         \/ hpc' = "spin" /\ compute' = <<>>
                         => Routed(layer, TOPK)'
                      /\ MoesRouted(compute)'
  BY <1>0 DEF Routing, MoesRouted
<1>2. /\ at > 0 => Routed(layer, IF at <= TOPK THEN at ELSE TOPK)
      /\ at > 0 /\ at <= TOPK => Fresh(layer)
      /\ hpc \in {"serve", "moe"} \/ (hpc = "spin" /\ compute = <<>>) => Routed(layer, TOPK)
      /\ MoesRouted(compute)
  BY <1>1 DEF Routing, MoesRouted
<1>3. UNCHANGED <<slot_for_expert, route_slot, sel>> =>
        /\ \A l, k : Routed(l, k)' <=> Routed(l, k)
        /\ \A q : MoesRouted(q)' <=> MoesRouted(q)
  BY <1>0, RoutedKept
<1>4. UNCHANGED <<slot_for_expert, route_slot, sel, age, clock, at, layer>> =>
        /\ at' > 0 => Routed(layer, IF at <= TOPK THEN at ELSE TOPK)'
        /\ at' > 0 /\ at' <= TOPK => Fresh(layer)'
        /\ Routed(layer, TOPK)' <=> Routed(layer, TOPK)
  BY <1>0, <1>2 DEF Routed, Fresh
<1>5. CASE HostStep \/ XferFails
  <2>1. ~Prefill /\ ~Prefilled
    BY <1>1 DEF Queue, Prefill, Prefilled
  <2>2. UNCHANGED <<slot_for_expert, route_slot, sel, age, clock, at>>
    BY <1>5, <2>1 DEF HostStep, Launch, Stamped, Serve, Served, LaunchMoe, Sync, XferFails
  <2>3. hpc # "spin" => at = 0
    <3>1. Running("dispatch") => hpc = "spin"
      BY <1>0, RunningFacts, HeadFacts
    <3>2. QED
      BY <1>0, <1>1, <3>1 DEF Queue
  <2>4. CASE Stamped \/ Served \/ Sync \/ XferFails
    <3>1. UNCHANGED <<compute, layer>>
      BY <2>4 DEF Stamped, Served, Sync, XferFails
    <3>2. MoesRouted(compute)'
      BY <1>2, <1>3, <2>2, <3>1
    <3>3. /\ hpc' \notin {"spin", "moe", "serve"} \/ hpc = "serve" \/ Stamped
          /\ hpc' # "spin"
      BY <2>4 DEF Stamped, Served, Sync, XferFails
    <3>4. Stamped => hpc = "spin" /\ compute = <<>>
      <4>1. SUFFICES ASSUME Stamped PROVE hpc = "spin" /\ compute = <<>>
        OBVIOUS
      <4>2. hpc = "spin" /\ expected_seq[layer] \in Nat /\ mb[layer].seq = expected_seq[layer]
        BY <1>0, <4>1, CellTypes DEF Stamped
      <4>3. mb[layer].seq = IF compute # <<>> THEN expected_seq[layer] - 1 ELSE expected_seq[layer]
        BY <1>0, <1>1, <4>2 DEF Mail
      <4>4. QED
        BY <4>2, <4>3
    <3>5. QED
      BY <1>2, <1>4, <2>2, <3>1, <3>2, <3>3, <3>4
  <2>5. CASE Serve
    <3> DEFINE o == [op |-> "wait", layer |-> layer, n |-> done + Len(copies) + 1]
    <3>1. hpc = "serve" /\ hpc' = "serve" /\ layer' = layer
      BY <2>5 DEF Serve
    <3>3. compute' = Append(compute, o)
      BY <2>5 DEF Serve, Xfer
    <3>4. o \in Operation /\ o.op # "moe"
      BY <1>0, StreamFacts DEF Op, Operation, StreamTypes
    <3> HIDE DEF o
    <3>5. MoesRouted(compute')
      BY <1>0, <1>2, <3>3, <3>4, MoesFacts
    <3>6. MoesRouted(compute)'
      BY <1>0, <2>2, <3>5 DEF MoesRouted, Routed
    <3>7. QED
      BY <1>2, <1>4, <2>2, <3>1, <3>6
  <2>6. CASE Launch
    <3> DEFINE o1 == [op |-> "route", layer |-> layer, n |-> 0]
               o2 == [op |-> "dispatch", layer |-> layer, n |-> expected_seq[layer] + 1]
    <3>1. hpc = "token" /\ hpc' = "spin" /\ layer' = layer /\ compute' = Append(Append(compute, o1), o2)
      BY <1>0, <1>1, <2>6 DEF Launch
    <3>2. expected_seq[layer] + 1 \in Nat
      BY <1>0, CellTypes
    <3>3. o1 \in Operation /\ o2 \in Operation /\ o1.op # "moe" /\ o2.op # "moe"
      BY <1>0, <3>2 DEF Op, Operation
    <3> HIDE DEF o1, o2
    <3>4. Append(compute, o1) \in Seq(Operation) /\ compute' # <<>>
      BY <1>0, <3>1, <3>3
    <3>5. MoesRouted(Append(compute, o1))
      BY <1>0, <1>2, <3>3, MoesFacts
    <3>6. MoesRouted(compute')
      BY <3>1, <3>3, <3>4, <3>5, MoesFacts
    <3>7. MoesRouted(compute)'
      BY <1>0, <2>2, <3>6 DEF MoesRouted, Routed
    <3>8. QED
      BY <1>4, <2>2, <3>1, <3>4, <3>7
  <2>7. CASE LaunchMoe
    <3> DEFINE o == [op |-> "moe", layer |-> layer, n |-> 0]
    <3>1. hpc = "moe" /\ hpc' \notin {"spin", "serve", "moe"} /\ compute' = Append(compute, o)
      BY <2>7 DEF LaunchMoe
    <3>2. o \in Operation /\ o.layer = layer
      BY <1>0 DEF Op, Operation
    <3> HIDE DEF o
    <3>3. MoesRouted(compute')
      BY <1>0, <1>2, <3>1, <3>2, MoesFacts
    <3>4. MoesRouted(compute)'
      BY <1>0, <2>2, <3>3 DEF MoesRouted, Routed
    <3>5. at' = 0
      BY <2>2, <2>3, <3>1
    <3>6. QED
      BY <3>1, <3>4, <3>5
  <2>8. QED
    BY <1>5, <2>1, <2>4, <2>5, <2>6, <2>7 DEF HostStep
<1>6. CASE Route
  <2>1. /\ compute # <<>> /\ compute' = Tail(compute) /\ compute[1].op = "route"
        /\ at' = 0 /\ UNCHANGED <<hpc, layer>>
    BY <1>0, <1>6, RunningFacts DEF Route
  <2>2. hpc = "spin" /\ Len(compute) = 2 /\ Dispatching(compute, layer, expected_seq[layer])
    BY <1>1, <2>1, HeadFacts DEF Queue
  <2>3. Len(compute') = 1 /\ compute'[1] = compute[2] /\ compute[2].op = "dispatch" /\ compute' # <<>>
    <3>1. compute[2].op = "dispatch"
      BY <2>2 DEF Dispatching
    <3>2. Len(compute') = 1 /\ compute'[1] = compute[2] /\ compute' # <<>>
      <4>1. 1 \in 1 .. Len(compute) - 1 /\ 1 + 1 = 2
        BY <2>2
      <4>2. Tail(compute)[1] = compute[1 + 1]
        BY <1>0, <2>1, <4>1, TailFacts
      <4>3. Len(Tail(compute)) = 1 /\ Tail(compute) # <<>>
        <5>1. Len(Tail(compute)) = Len(compute) - 1 /\ (Tail(compute) = <<>> <=> Len(compute) = 1)
          BY <1>0, <2>1, TailFacts
        <5>2. QED
          BY <2>2, <5>1
      <4>4. QED
        BY <2>1, <4>1, <4>2, <4>3
    <3>3. QED
      BY <3>1, <3>2
  <2>4. MoesRouted(compute)'
    BY <2>3 DEF MoesRouted
  <2>5. QED
    BY <2>1, <2>2, <2>3, <2>4
<1>7. CASE DispatchHit \/ DispatchMiss
  <2>1. Running("dispatch") /\ at < TOPK /\ UNCHANGED <<compute, hpc>> /\ at' = at + 1
    BY <1>7 DEF DispatchHit, DispatchMiss
  <2>2. hpc = "spin" /\ Len(compute) = 1 /\ compute # <<>> /\ compute[1].op = "dispatch"
    BY <2>1, DispatchFacts
  <2>3. MoesRouted(compute)'
    BY <2>1, <2>2 DEF MoesRouted
  <2>4. at > 0 => Fresh(layer) /\ Routed(layer, at)
    BY <1>0, <1>2, <2>1
  <2>5. Fresh(layer)' /\ Routed(layer, at)'
    BY <1>1, <1>7, <2>4, FreshStep, RoutedStep
  <2>6. at' <= TOPK
    BY <1>0, <2>1
  <2>7. Routed(layer, IF at <= TOPK THEN at ELSE TOPK)'
    BY <2>5, <2>6
  <2>8. QED
    BY <2>1, <2>2, <2>3, <2>5, <2>7
<1>8. CASE Report
  <2>1. /\ Running("dispatch") /\ at >= TOPK /\ UNCHANGED <<hpc, layer, slot_for_expert, route_slot, sel>>
        /\ IF at = TOPK + 1 THEN at' = 0 /\ compute' = Tail(compute) ELSE at' = at + 1 /\ compute' = compute
    BY <1>8 DEF Report
  <2>2. /\ hpc = "spin" /\ Len(compute) = 1 /\ compute # <<>> /\ Tail(compute) = <<>>
    BY <1>0, <2>1, RunningFacts, HeadFacts, TailFacts
  <2>3. Routed(layer, TOPK)
    <3>1. (IF at <= TOPK THEN at ELSE TOPK) = TOPK /\ at > 0
      BY <1>0, <2>1
    <3>2. QED
      BY <1>2, <3>1
  <2>4. Routed(layer, TOPK)'
    BY <1>0, <2>1, <2>3 DEF Routed
  <2>5. MoesRouted(compute)'
    <3>1. MoesRouted(compute')
      <4>1. CASE at = TOPK + 1
        <5>1. compute' = <<>>
          BY <2>1, <2>2, <4>1
        <5>2. QED
          BY <5>1 DEF MoesRouted
      <4>2. CASE at # TOPK + 1
        BY <1>2, <2>1, <4>2
      <4>3. QED
        BY <4>1, <4>2
    <3>2. QED
      BY <1>0, <2>1, <3>1 DEF MoesRouted, Routed
  <2>6. CASE at = TOPK + 1
    BY <2>1, <2>4, <2>5, <2>6
  <2>7. CASE at # TOPK + 1
    <3>1. at' = at + 1 /\ ~(at' <= TOPK) /\ compute' # <<>>
      BY <1>0, <2>1, <2>2, <2>7
    <3>2. Routed(layer, IF at <= TOPK THEN at ELSE TOPK)'
      BY <2>4, <3>1
    <3>3. QED
      BY <2>1, <2>2, <2>5, <3>1, <3>2
  <2>8. QED
    BY <2>6, <2>7
<1>9. CASE PassWait \/ RunMoe
  <2>1. /\ compute # <<>> /\ compute' = Tail(compute) /\ compute[1].op # "dispatch"
        /\ UNCHANGED <<hpc, layer, at, slot_for_expert, route_slot, sel, age, clock>>
    BY <1>0, <1>9, RunningFacts DEF PassWait, RunMoe
  <2>2. hpc = "spin" => compute' # <<>>
    BY <2>1, SpinTail
  <2>3. MoesRouted(compute')
    BY <1>0, <1>2, <2>1, MoesFacts
  <2>4. MoesRouted(compute)'
    BY <1>0, <2>1, <2>3 DEF MoesRouted, Routed
  <2>5. QED
    BY <1>2, <1>4, <2>1, <2>2, <2>4
<1>10. CASE Copy
  <2>1. UNCHANGED <<compute, hpc, layer, at, slot_for_expert, route_slot, sel, age, clock>>
    BY <1>10 DEF Copy
  <2>2. MoesRouted(compute)'
    BY <1>0, <1>2, <2>1 DEF MoesRouted, Routed
  <2>3. QED
    BY <1>2, <1>4, <2>1, <2>2
<1>11. QED
  BY <1>5, <1>6, <1>7, <1>8, <1>9, <1>10 DEF Next, CardStep

-----------------------------------------------------------------------------
(* The theorems. *)

CacheInv == CacheTypes /\ Queue /\ Waited /\ Mail /\ Inverses /\ Identity /\ Fill /\ Ages /\ Routing

LEMMA InvInit == Init => CacheInv
<1>1. SUFFICES ASSUME Init PROVE CacheInv
  OBVIOUS
<1>2. CacheTypes
  BY <1>1, TypesInit
<1>3. /\ slots \in SlotChoices /\ compute = <<>> /\ copies = <<>> /\ at = 0 /\ layer = 1 /\ miss = 1
      /\ hpc = (IF Resident THEN "prefill" ELSE "token")
      /\ \A l \in Layer : \A e \in Expert : slot_for_expert[l][e] = None
      /\ \A l \in Layer : \A s \in Slot : expert_in_slot[l][s] = None /\ age[l][s] = 0
      /\ \A l \in Layer : /\ mb[l].seq = 0 /\ mb[l].misses = <<>>
                          /\ expected_seq[l] = 0 /\ clock[l] = 0
  BY <1>1 DEF Init
<1>4. /\ \A s \in Slot : s # None
      /\ \A e \in Expert : e # None /\ e \in Nat
      /\ \A l \in Layer : l \in Nat /\ 1 <= l
      /\ Len(compute) = 0
  BY <1>3, SlotFacts, ConstantFacts
<1>5. Queue
  BY <1>3, <1>4 DEF Queue, AllWaits, NoWaits, Pattern
<1>6. Waited
  BY <1>3, <1>4 DEF Waited, WaitsUpTo
<1>7. Mail /\ Inverses /\ Ages
  BY <1>3, <1>4 DEF Mail, Inverses, Ages
<1>8. Identity
  <2>1. \A l \in Layer : \A e \in Expert : ~(l < layer) /\ ~(e < miss - 1)
    BY <1>3, <1>4
  <2>2. QED
    BY <1>3, <2>1 DEF Identity
<1>9. Fill
  BY <1>3, <1>4 DEF Fill
<1>10. Routing
  BY <1>3, <1>4 DEF Routing
<1>11. QED
  BY <1>2, <1>5, <1>6, <1>7, <1>8, <1>9, <1>10 DEF CacheInv

LEMMA InvStep == CacheInv /\ [Next]_vars => CacheInv'
<1>1. SUFFICES ASSUME CacheInv, [Next]_vars PROVE CacheInv'
  OBVIOUS
<1>2. CASE Next
  <2>1. CacheTypes' /\ Queue'
    BY <1>1, <1>2, TypesHost, TypesCard, QueueHost, QueueCard DEF CacheInv, Next
  <2>2. Waited' /\ Mail'
    BY <1>1, <1>2, WaitedStep, MailStep DEF CacheInv
  <2>3. Inverses' /\ Identity' /\ Ages'
    BY <1>1, <1>2, InverseStep, IdentityStep, AgesStep DEF CacheInv
  <2>4. Fill'
    BY <1>1, <1>2, <2>1, FillHost, FillCard DEF CacheInv, Next
  <2>5. Routing'
    BY <1>1, <1>2, RoutingStep DEF CacheInv
  <2>6. QED
    BY <2>1, <2>2, <2>3, <2>4, <2>5 DEF CacheInv
<1>3. CASE UNCHANGED vars
  <2>1. Slot' = Slot /\ Resident' = Resident
    BY <1>3 DEF vars, Slot, Resident
  <2>2. /\ UNCHANGED <<compute, hpc, layer, expected_seq, at, content, copies, done, buf, cur, miss, mb>>
        /\ UNCHANGED <<slots, slot_for_expert, expert_in_slot, age, clock, route_slot, sel, ntok>>
    BY <1>3 DEF vars, devVars, mapVars, copyVars, bufVars, hostVars
  <2>3. CacheTypes'
    BY <1>1, <2>1, <2>2 DEF CacheInv, CacheTypes, MapTypes, MailTypes, StreamTypes, HostTypes, Miss, Write
  <2>4. Queue' /\ Waited' /\ Mail' /\ Inverses' /\ Identity' /\ Ages'
    BY <1>1, <2>1, <2>2 DEF CacheInv, Queue, Running, Waited, Mail, Inverses, Identity, Ages
  <2>5. Fill'
    <3>1. \A l : First(l)' = First(l)
      BY <2>2 DEF First
    <3>2. \A l, e, s : Arriving(l, e, s)' <=> Arriving(l, e, s)
      BY <2>2 DEF Arriving, Uploading, Uploaded
    <3>3. \A l, e, s : Provided(l, e, s)' <=> Provided(l, e, s)
      BY <2>2, <3>1, <3>2 DEF Provided
    <3>4. QED
      BY <1>1, <2>1, <2>2, <3>3 DEF CacheInv, Fill
  <2>6. Routing'
    BY <1>1, <2>1, <2>2 DEF CacheInv, Routing, Routed, Fresh
  <2>7. QED
    BY <2>3, <2>4, <2>5, <2>6 DEF CacheInv
<1>4. QED
  BY <1>1, <1>2, <1>3

\* For any number of slots, tokens and experts, the inductive invariant holds in every
\* state: of the streams and the host, of the mailboxes, of the map and of the routing.
THEOREM CacheInvariant == Spec => []CacheInv
BY InvInit, InvStep, PTL DEF Spec

\* What a mapped expert is waiting for, if it is not in its slot.
LEMMA InvMapped == CacheInv => MappedIsThere
<1>1. SUFFICES ASSUME CacheInv, hpc # "failed", NEW l \in Layer, NEW e \in Expert,
                      NEW s, s = slot_for_expert[l][e], s # None
               PROVE  /\ expert_in_slot[l][s] = e
                      /\ \/ content[l][s] = <<l, e>>
                         \/ \E i \in DOMAIN copies : /\ copies[i].layer = l /\ copies[i].slot = s
                                                     /\ buf[copies[i].buf] = <<l, e>>
                         \/ \E i \in DOMAIN mb[l].misses :
                              /\ mb[l].misses[i] = [expert |-> e, slot |-> s]
                              /\ l = layer /\ (hpc = "spin" \/ (hpc = "serve" /\ miss <= i))
  BY DEF MappedIsThere
<1>2. CacheTypes /\ Inverses /\ Fill
  BY <1>1 DEF CacheInv
<1>3. s \in Slot
  BY <1>1, <1>2, CellTypes
<1>4. expert_in_slot[l][s] = e /\ Provided(l, e, s)
  BY <1>1, <1>2, <1>3 DEF Inverses, Fill
<1>5. CASE Listed(mb[l].misses, First(l), e, s)
  <2>1. /\ First(l) \in Nat \ {0} /\ Len(mb[l].misses) \in Nat
        /\ DOMAIN mb[l].misses = 1 .. Len(mb[l].misses)
    BY <1>2, FirstFacts, SeqFacts
  <2>2. PICK i \in First(l) .. Len(mb[l].misses) : mb[l].misses[i] = [expert |-> e, slot |-> s]
    BY <1>5 DEF Listed
  <2>3. i \in DOMAIN mb[l].misses /\ First(l) # Len(mb[l].misses) + 1 /\ First(l) <= i
    BY <2>1, <2>2
  <2>4. l = layer /\ (hpc = "spin" \/ (hpc = "serve" /\ miss <= i))
    BY <2>3 DEF First
  <2>5. QED
    BY <1>4, <2>2, <2>3, <2>4
<1>6. CASE Uploading(l, e, s)
  <2>1. DOMAIN copies = 1 .. Len(copies)
    BY <1>2, StreamFacts DEF CacheTypes
  <2>2. QED
    BY <1>4, <1>6, <2>1 DEF Uploading, Into
<1>7. CASE Uploaded(l, e, s)
  BY <1>4, <1>7 DEF Uploaded
<1>8. QED
  BY <1>4, <1>5, <1>6, <1>7 DEF Provided, Arriving

\* A slot the map gives to an expert holds that expert, or a copy of it is under way,
\* or the host has it on its list (qf_rtr_dispatch maps an expert before it is there).
THEOREM MappedIsThereAlways == Spec => []MappedIsThere
BY CacheInvariant, InvMapped, PTL

\* The experts read their own weights when a layer has a slot for each of them.
LEMMA InvReads == CacheInv => (slots >= TOPK => ReadsOwnExpert)
<1>1. SUFFICES ASSUME CacheInv, slots >= TOPK, Running("moe"), NEW k \in 1 .. TOPK
               PROVE  content[Head(compute).layer][SlotSrc(Head(compute).layer, k)]
                      = <<Head(compute).layer, sel[k]>>
  BY DEF ReadsOwnExpert
<1> DEFINE l == Head(compute).layer
<1>2. /\ CacheTypes /\ Queue /\ Waited /\ Identity /\ Fill /\ Routing /\ StreamTypes
      /\ slots \in SlotChoices /\ sel \in Selections
  BY <1>1 DEF CacheInv, CacheTypes, MapTypes
<1>3. /\ compute # <<>> /\ compute[1].op = "moe" /\ Head(compute) = compute[1] /\ l \in Layer
      /\ 1 \in 1 .. Len(compute)
  BY <1>1, <1>2, RunningFacts
<1>4. /\ hpc # "failed" /\ at = 0 /\ \A i \in 1 .. Len(compute) : compute[i].op # "wait"
      /\ Resident => hpc \notin {"prefill", "spin", "serve"}
      /\ hpc # "serve"
  <2>1. /\ hpc # "failed" /\ at = 0 /\ \A i \in 1 .. Len(compute) : compute[i].op # "wait"
        /\ Resident => hpc # "prefill"
        /\ ~Resident => hpc \in {"token", "sync", "spin"}
    BY <1>2, <1>3, HeadFacts
  <2>2. Resident => hpc \notin {"spin", "serve"}
    BY <1>2 DEF Queue
  <2>3. QED
    BY <2>1, <2>2
<1>5. copies = <<>>
  BY <1>2, <1>4 DEF Waited, WaitsFor
<1>6. sel[k] \in Expert
  BY <1>2, SelectionFacts
<1>7. SlotSrc(l, k) \in Slot /\ slot_for_expert[l][sel[k]] = SlotSrc(l, k)
  <2>1. CASE Resident
    <3>1. slot_for_expert[l][sel[k]] = sel[k]
      BY <1>2, <1>3, <1>4, <1>6, <2>1 DEF Identity
    <3>2. sel[k] \in Slot
      BY <1>2, <1>6, <2>1, SlotFacts
    <3>3. QED
      BY <2>1, <3>1, <3>2 DEF SlotSrc
  <2>2. CASE ~Resident
    <3>1. Routed(l, TOPK)
      BY <1>1, <1>2, <1>3, <2>2 DEF Routing
    <3>2. QED
      BY <2>2, <3>1 DEF SlotSrc, Routed
  <2>3. QED
    BY <2>1, <2>2
<1>8. Provided(l, sel[k], SlotSrc(l, k))
  BY <1>2, <1>3, <1>4, <1>6, <1>7 DEF Fill
<1>9. First(l) = Len(mb[l].misses) + 1
  BY <1>3, <1>4 DEF First
<1>10. ~Listed(mb[l].misses, First(l), sel[k], SlotSrc(l, k))
  <2>1. First(l) \in Nat \ {0} /\ First(l) > Len(mb[l].misses) /\ mb[l].misses \in Seq(Miss)
    BY <1>2, <1>3, <1>9, FirstFacts
  <2>2. QED
    BY <1>6, <1>7, <2>1, ListFacts
<1>11. ~Uploading(l, sel[k], SlotSrc(l, k))
  BY <1>5 DEF Uploading
<1>12. Uploaded(l, sel[k], SlotSrc(l, k))
  BY <1>8, <1>10, <1>11 DEF Provided, Arriving
<1>13. QED
  BY <1>12 DEF Uploaded

\* With a slot for each expert of a token, the experts of a layer never run on a slot
\* that holds another expert, or one that was not copied yet: what they read is what
\* the router chose (nothing in the code checks the identity of a slot's contents).
THEOREM ReadsOwnExpertAlways == Spec => [](slots >= TOPK => ReadsOwnExpert)
BY CacheInvariant, InvReads, PTL

\* So where every number of slots to choose from is large enough, it holds as it stands.
COROLLARY ReadsOwnExpertRoomy ==
  ASSUME \A k \in SlotChoices : k >= TOPK
  PROVE  Spec => []ReadsOwnExpert
<1>1. CacheInv => ReadsOwnExpert
  BY InvReads DEF CacheInv, CacheTypes, MapTypes
<1>2. QED
  BY <1>1, CacheInvariant, PTL
=============================================================================
