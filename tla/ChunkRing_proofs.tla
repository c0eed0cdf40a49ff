--------------------------- MODULE ChunkRing_proofs ---------------------------
(***************************************************************************)
(* Proofs about ChunkRing, for any ring, any look-ahead, any number of     *)
(* staging buffers beyond it and any prompts whose requests fit.           *)
(***************************************************************************)
EXTENDS ChunkRing, Remainders, FiniteSetTheorems, TLAPS

-----------------------------------------------------------------------------
(* Prompts. *)

LEMMA ConstantFacts ==
  /\ RING \in Nat \ {0} /\ LOOK \in Nat \ {0} /\ NBUF \in Nat \ {0} /\ LOOK < NBUF
  /\ \A p \in Plans : InOrder(p) /\ \A g \in 0 .. Chunks(p) : UnderWay(p, g) <= RING
BY RingAssumption DEF RingAssumption

\* The pieces of the first g chunks are the first Upto(p, g) pieces.
LEMMA UptoFacts ==
  ASSUME NEW p, InOrder(p), NEW g \in Int
  PROVE  /\ Upto(p, g) \in Nat /\ Upto(p, g) <= Len(p)
         /\ \A i \in 1 .. Len(p) : p[i] <= g <=> i <= Upto(p, g)
<1> DEFINE S == {i \in DOMAIN p : p[i] <= g}
<1>1. /\ p \in Seq(Nat \ {0}) /\ DOMAIN p = 1 .. Len(p) /\ Len(p) \in Nat
      /\ \A i \in 1 .. Len(p) : p[i] \in Nat
      /\ \A i, j \in 1 .. Len(p) : i < j => p[i] <= p[j]
  BY DEF InOrder
<1>2. IsFiniteSet(1 .. Len(p)) /\ Cardinality(1 .. Len(p)) = Len(p)
  BY <1>1, FS_Interval
<1>3. IsFiniteSet(S) /\ Cardinality(S) \in Nat /\ Cardinality(S) <= Len(p)
  <2>1. S \in SUBSET (1 .. Len(p))
    BY <1>1
  <2>2. QED
    BY <1>2, <2>1, FS_Subset, FS_CardinalityType
<1>4. ASSUME NEW i \in 1 .. Len(p), p[i] <= g PROVE i <= Cardinality(S)
  <2>1. \A j \in 1 .. i : j \in 1 .. Len(p) /\ p[j] <= g
    BY <1>1, <1>4
  <2>2. (1 .. i) \in SUBSET S
    BY <1>1, <2>1
  <2>3. Cardinality(1 .. i) = i
    BY <1>1, FS_Interval
  <2>4. QED
    BY <1>3, <2>2, <2>3, FS_Subset
<1>5. ASSUME NEW i \in 1 .. Len(p), ~(p[i] <= g) PROVE Cardinality(S) < i
  <2>1. \A j \in 1 .. Len(p) : p[j] <= g => j < i
    BY <1>1, <1>5
  <2>2. S \in SUBSET (1 .. i - 1)
    BY <1>1, <2>1
  <2>3. IsFiniteSet(1 .. i - 1) /\ Cardinality(1 .. i - 1) = i - 1
    <3>1. i - 1 \in Int /\ i - 1 >= 0
      BY <1>1
    <3>2. QED
      BY <3>1, FS_Interval
  <2>4. Cardinality(S) <= i - 1
    BY <2>2, <2>3, FS_Subset
  <2>5. QED
    BY <1>3, <2>4
<1>6. Upto(p, g) = Cardinality(S)
  BY DEF Upto
<1> HIDE DEF S
<1>7. QED
  BY <1>1, <1>3, <1>4, <1>5, <1>6

LEMMA UptoGrows ==
  ASSUME NEW p, InOrder(p), NEW g \in Int, NEW h \in Int, g <= h
  PROVE  Upto(p, g) <= Upto(p, h)
<1>1. /\ Len(p) \in Nat /\ \A i \in 1 .. Len(p) : p[i] \in Nat
      /\ Upto(p, g) \in Nat /\ Upto(p, h) \in Nat /\ Upto(p, g) <= Len(p)
  <2>1. Len(p) \in Nat /\ \A i \in 1 .. Len(p) : p[i] \in Nat
    BY DEF InOrder
  <2>2. QED
    BY <2>1, UptoFacts
<1>2. CASE Upto(p, g) = 0
  BY <1>1, <1>2
<1>3. CASE Upto(p, g) # 0
  <2>1. Upto(p, g) \in 1 .. Len(p)
    BY <1>1, <1>3
  <2>2. p[Upto(p, g)] <= g
    BY <2>1, UptoFacts
  <2>3. p[Upto(p, g)] <= h
    BY <1>1, <2>1, <2>2
  <2>4. QED
    BY <2>1, <2>3, UptoFacts
<1>4. QED
  BY <1>2, <1>3

\* Chunks are numbered from 1 to that of the last piece.
LEMMA UptoEnds ==
  ASSUME NEW p, InOrder(p)
  PROVE  /\ Upto(p, 0) = 0 /\ Upto(p, Chunks(p)) = Len(p)
         /\ Chunks(p) \in Nat \ {0}
         /\ \A i \in 1 .. Len(p) : p[i] \in Nat /\ 1 <= p[i] /\ p[i] <= Chunks(p)
<1>1. /\ Len(p) \in Nat /\ (p = <<>> <=> Len(p) = 0)
      /\ \A i \in 1 .. Len(p) : p[i] \in Nat \ {0}
      /\ \A i, j \in 1 .. Len(p) : i < j => p[i] <= p[j]
  BY DEF InOrder
<1>2. Chunks(p) \in Nat \ {0} /\ (p # <<>> => Chunks(p) = p[Len(p)])
  BY <1>1 DEF Chunks
<1>3. \A i \in 1 .. Len(p) : p[i] \in Nat /\ 1 <= p[i] /\ p[i] <= Chunks(p)
  BY <1>1, <1>2
<1>4. Upto(p, 0) = 0
  <2>1. Upto(p, 0) \in Nat /\ Upto(p, 0) <= Len(p)
    BY UptoFacts
  <2>2. SUFFICES ASSUME Upto(p, 0) >= 1 PROVE FALSE
    BY <2>1
  <2>3. 1 \in 1 .. Len(p)
    BY <1>1, <2>1, <2>2
  <2>4. p[1] <= 0
    BY <2>2, <2>3, UptoFacts
  <2>5. QED
    BY <1>1, <2>3, <2>4
<1>5. Upto(p, Chunks(p)) = Len(p)
  <2>1. Upto(p, Chunks(p)) \in Nat /\ Upto(p, Chunks(p)) <= Len(p)
    BY <1>2, UptoFacts
  <2>2. CASE Len(p) = 0
    BY <2>1, <2>2
  <2>3. CASE Len(p) # 0
    <3>1. Len(p) \in 1 .. Len(p) /\ p[Len(p)] <= Chunks(p)
      BY <1>1, <1>3, <2>3
    <3>2. Len(p) <= Upto(p, Chunks(p))
      BY <1>2, <3>1, UptoFacts
    <3>3. QED
      BY <1>1, <2>1, <3>2
  <2>4. QED
    BY <2>2, <2>3
<1>6. QED
  BY <1>2, <1>3, <1>4, <1>5

-----------------------------------------------------------------------------
(* The strengthened invariant. *)

Talks == mpc \in {"call", "reply"}                    \* the driver makes its own calls
Feeds == mpc \in {"submit", "send", "wait", "spark"}  \* the driver is in a prompt

Base == g_cp_head - asked                              \* chunks of the prompts before
\* Replies the receiver has read.
Read == IF rpc = "store" THEN g_cp_tail + 1 ELSE g_cp_tail

Entry == [piece : Nat \X Nat, buf : Buffer, at : Nat, err : BOOLEAN]
Msg   == [op : {"chunk", "single"}, piece : Nat \X Nat]

RingTypes ==
  /\ mpc \in {"call", "reply", "submit", "send", "wait", "spark", "gone"}
  /\ call \in Nat /\ chunk \in Nat /\ goal \in Nat /\ asked \in Nat /\ had \in Nat
  /\ InOrder(plan) /\ (plan = <<>> \/ plan \in Plans)
  /\ g_cp_head \in Nat /\ g_cp_tail \in Nat /\ g_cp_cons \in Nat
  /\ g_cp \in [0 .. RING - 1 -> Entry]
  /\ rpc \in {"take", "read", "store"} /\ got \in BOOLEAN
  /\ staging \in [Buffer -> [Piece -> Nat \X Nat]]
  /\ req \in Seq(Msg) /\ peer \in Seq(Msg) /\ rep \in Seq(Msg)
  /\ up \in BOOLEAN

\* Where the driver is in its prompt: between prompts nothing is outstanding, in one
\* it has asked for no more than the chunks of its goal and has had all the pieces of
\* the chunks before the one Spark is on.
DriverInv ==
  /\ g_cp_cons <= g_cp_tail /\ g_cp_tail <= g_cp_head /\ g_cp_head - g_cp_cons <= RING
  /\ rpc # "take" => g_cp_tail < g_cp_head
  /\ Talks => g_cp_head = g_cp_cons
  /\ Feeds => /\ g_cp_head - asked = g_cp_cons - had
              /\ asked <= Upto(plan, goal)
              /\ chunk \in 1 .. Chunks(plan)
              /\ Upto(plan, chunk - 1) <= had
  /\ mpc = "send" => asked < Upto(plan, goal) /\ g_cp_head - g_cp_cons < RING
  /\ mpc = "wait" => goal = chunk - 1 + LOOK
  /\ mpc = "spark" => goal = chunk + LOOK /\ Upto(plan, chunk) <= had
  /\ mpc \in {"submit", "send"} =>
       \/ goal = LOOK /\ chunk = 1
       \/ goal = chunk + LOOK /\ Upto(plan, chunk) <= had

\* What is on its way to, in and from the peer is what the receiver has not read: of a
\* prompt the chunks asked for, in order, and between two prompts the driver's call.
Outstanding == g_cp_head - Read + (IF mpc = "reply" THEN 1 ELSE 0)
Singles(q) == \A j \in 1 .. Len(q) : q[j].op = "single"
Follows(q, c, n) ==
  \A j \in 1 .. Len(q) : q[j] = [op |-> "chunk", piece |-> <<c, n + j>>]
NetInv ==
  /\ ~up => req = <<>> /\ peer = <<>>
  /\ mpc # "gone" =>
       /\ Len(rep) + Len(peer) + Len(req) <= Outstanding
       /\ up => Len(rep) + Len(peer) + Len(req) = Outstanding
  /\ Talks => Singles(req) /\ Singles(peer) /\ Singles(rep)
  /\ Feeds => /\ Follows(rep, call, Read - Base)
              /\ Follows(peer, call, Read - Base + Len(rep))
              /\ Follows(req, call, Read - Base + Len(rep) + Len(peer))

\* The entry of a piece says where its rows go, and the rows of a piece read are there,
\* or an error is noted that the driver has not come to.
Top == IF mpc = "send" THEN asked + 1 ELSE asked
Noted(n) == /\ n \in DOMAIN plan
            /\ g_cp[(Base + n - 1) % RING].buf = BufferOf(plan[n])
            /\ g_cp[(Base + n - 1) % RING].at = PlaceOf(n)
InPlace(n) == staging[BufferOf(plan[n])][PlaceOf(n)] = <<call, n>>
Spoilt(n) == /\ n > had
             /\ IF Base + n > g_cp_tail THEN got ELSE g_cp[(Base + n - 1) % RING].err
Kept(n) == plan[n] >= chunk => InPlace(n) \/ Spoilt(n)
RowsInv ==
  Feeds => /\ \A n \in had + 1 .. Top : Noted(n)
           /\ \A n \in 1 .. Read - Base : Kept(n)

-----------------------------------------------------------------------------
(* Types. *)

LEMMA BufferInRange == \A c \in Nat : BufferOf(c) \in Buffer
BY ConstantFacts, Division DEF BufferOf, Buffer

LEMMA RingInRange == \A i \in Nat : i % RING \in 0 .. RING - 1
BY ConstantFacts, Division

LEMMA RingEntriesDiffer ==
  \A i, j \in Nat : i < j /\ j - i < RING => i % RING # j % RING
BY ConstantFacts, WindowInjective

LEMMA BuffersDiffer ==
  \A c, d \in Nat : c < d /\ d - c <= LOOK => BufferOf(c) # BufferOf(d)
<1>1. TAKE c \in Nat, d \in Nat
<1>2. HAVE c < d /\ d - c <= LOOK
<1>3. d - c < NBUF
  BY <1>2, ConstantFacts
<1>4. QED
  BY <1>2, <1>3, ConstantFacts, WindowInjective DEF BufferOf

LEMMA TypesInit == Init => RingTypes
<1>1. SUFFICES ASSUME Init PROVE RingTypes
  OBVIOUS
<1>2. InOrder(<<>>)
  BY DEF InOrder
<1>3. Idle \in Entry
  BY ConstantFacts DEF Idle, Entry, Empty, Buffer
<1>4. g_cp \in [0 .. RING - 1 -> Entry]
  BY <1>1, <1>3 DEF Init
<1>5. staging \in [Buffer -> [Piece -> Nat \X Nat]]
  BY <1>1 DEF Init, Empty
<1>6. req \in Seq(Msg) /\ peer \in Seq(Msg) /\ rep \in Seq(Msg)
  BY <1>1 DEF Init
<1>7. QED
  BY <1>1, <1>2, <1>4, <1>5, <1>6 DEF Init, RingTypes

LEMMA TypesDriver ==
  ASSUME RingTypes, Call \/ Reply \/ Submit \/ Send \/ Submitted \/ WaitDone \/ Waited
                    \/ Computed \/ ComputeFails
  PROVE  RingTypes'
<1> USE DEF rxVars, netVars, ringVars
<1>1. CASE Call
  <2>1. Single \in Msg
    BY DEF Single, Msg, Empty
  <2>2. req' \in Seq(Msg) /\ mpc' \in {"reply", "gone"}
    <3>1. req \in Seq(Msg) /\ Append(req, Single) \in Seq(Msg)
      BY <2>1 DEF RingTypes
    <3>2. QED
      BY <1>1, <3>1 DEF Call
  <2>3. QED
    BY <1>1, <2>2 DEF Call, RingTypes
<1>2. CASE Reply
  <2>1. rep' \in Seq(Msg)
    BY <1>2 DEF Reply, RingTypes
  <2>2. UNCHANGED <<ringVars, rxVars, req, peer, up>>
    BY <1>2 DEF Reply
  <2>3. CASE rep # <<>> /\ Head(rep).op = "single"
    <3>1. /\ plan' \in Plans /\ mpc' = "submit" /\ call' = call + 1
          /\ chunk' = 1 /\ goal' = LOOK /\ asked' = 0 /\ had' = 0
      BY <1>2, <2>3 DEF Reply
    <3>2. InOrder(plan')
      BY <3>1, ConstantFacts
    <3>3. QED
      BY <2>1, <2>2, <3>1, <3>2, ConstantFacts DEF RingTypes
  <2>4. CASE ~(rep # <<>> /\ Head(rep).op = "single")
    <3>1. mpc' = "gone" /\ UNCHANGED <<call, plan, chunk, goal, asked, had>>
      BY <1>2, <2>4 DEF Reply
    <3>2. QED
      BY <2>1, <2>2, <3>1 DEF RingTypes
  <2>5. QED
    BY <2>3, <2>4
<1>3. CASE Submit
  <2>1. asked + 1 \in DOMAIN plan /\ plan[asked + 1] \in Nat
    <3>1. InOrder(plan) /\ goal \in Int /\ asked \in Nat /\ asked < Upto(plan, goal)
      BY <1>3 DEF Submit, RingTypes
    <3>2. Upto(plan, goal) \in Nat /\ Upto(plan, goal) <= Len(plan)
      BY <3>1, UptoFacts
    <3>3. QED
      BY <3>1, <3>2 DEF InOrder
  <2>2. Upto(plan, plan[asked + 1] - 1) \in Nat /\ Upto(plan, plan[asked + 1] - 1) < asked + 1
    <3>1. plan[asked + 1] - 1 \in Int /\ ~(plan[asked + 1] <= plan[asked + 1] - 1)
      BY <2>1
    <3>2. asked + 1 \in 1 .. Len(plan)
      BY <2>1 DEF RingTypes, InOrder
    <3>3. Upto(plan, plan[asked + 1] - 1) \in Nat /\ ~(asked + 1 <= Upto(plan, plan[asked + 1] - 1))
      BY <3>1, <3>2, UptoFacts DEF RingTypes
    <3>4. QED
      BY <3>2, <3>3
  <2>3. EntryOf(asked + 1) \in Entry
    BY <2>1, <2>2, BufferInRange DEF Entry, EntryOf, PlaceOf, RingTypes
  <2>4. g_cp' \in [0 .. RING - 1 -> Entry] /\ mpc' = "send"
    <3>1. g_cp' = [g_cp EXCEPT ![g_cp_head % RING] = EntryOf(asked + 1)] /\ mpc' = "send"
      BY <1>3 DEF Submit
    <3>2. g_cp \in [0 .. RING - 1 -> Entry]
      BY DEF RingTypes
    <3>3. QED
      BY <2>3, <3>1, <3>2
  <2>5. QED
    BY <1>3, <2>4 DEF Submit, RingTypes
<1>4. CASE Send
  <2>1. Chunk(asked + 1) \in Msg
    BY DEF Chunk, Msg, RingTypes
  <2>2. /\ req' \in Seq(Msg) /\ mpc' \in {"submit", "gone"}
        /\ g_cp_head' \in Nat /\ asked' \in Nat
    <3>1. req \in Seq(Msg) /\ Append(req, Chunk(asked + 1)) \in Seq(Msg)
      BY <2>1 DEF RingTypes
    <3>2. \/ req' = Append(req, Chunk(asked + 1)) /\ mpc' = "submit"
             /\ g_cp_head' = g_cp_head + 1 /\ asked' = asked + 1
          \/ UNCHANGED <<req, g_cp_head, asked>> /\ mpc' = "gone"
      BY <1>4 DEF Send
    <3>3. g_cp_head \in Nat /\ asked \in Nat /\ g_cp_head + 1 \in Nat /\ asked + 1 \in Nat
      BY DEF RingTypes
    <3>4. QED
      BY <3>1, <3>2, <3>3
  <2>3. QED
    BY <1>4, <2>2 DEF Send, RingTypes
<1>5. CASE Submitted
  BY <1>5 DEF Submitted, RingTypes
<1>6. CASE WaitDone
  BY <1>6 DEF WaitDone, RingTypes
<1>7. CASE Waited
  BY <1>7, ConstantFacts DEF Waited, RingTypes
<1>8. CASE Computed
  BY <1>8 DEF Computed, RingTypes
<1>9. CASE ComputeFails
  BY <1>9 DEF ComputeFails, RingTypes
<1>10. QED
  BY <1>1, <1>2, <1>3, <1>4, <1>5, <1>6, <1>7, <1>8, <1>9

LEMMA TypesOther ==
  ASSUME RingTypes, RxTake \/ RxRead \/ RxStore \/ PeerTakes \/ PeerAnswers \/ Breaks
  PROVE  RingTypes'
<1> USE DEF driverVars, rxVars, netVars, ringVars
<1>1. CASE RxTake
  BY <1>1 DEF RxTake, RingTypes
<1>2. CASE RxRead
  <2>1. rep' \in Seq(Msg)
    BY <1>2 DEF RxRead, RingTypes
  <2>2. staging' \in [Buffer -> [Piece -> Nat \X Nat]]
    <3>1. CASE ~(rep # <<>> /\ Head(rep).op = "chunk")
      BY <1>2, <3>1 DEF RxRead, RingTypes
    <3>2. CASE rep # <<>> /\ Head(rep).op = "chunk"
      <4>1. Head(rep).piece \in Nat \X Nat
        <5>1. Head(rep) \in Msg
          BY <3>2 DEF RingTypes
        <5>2. QED
          BY <5>1 DEF Msg
      <4>2. PICK b, k : staging' = [staging EXCEPT ![b][k] = Head(rep).piece]
        BY <1>2, <3>2 DEF RxRead
      <4>3. QED
        BY <4>1, <4>2 DEF RingTypes
    <3>3. QED
      BY <3>1, <3>2
  <2>3. rpc' = "store" /\ got' \in BOOLEAN
    BY <1>2 DEF RxRead
  <2>4. UNCHANGED <<driverVars, ringVars, req, peer, up>>
    BY <1>2 DEF RxRead
  <2>5. QED
    BY <2>1, <2>2, <2>3, <2>4 DEF RingTypes
<1>3. CASE RxStore
  <2>1. g_cp' \in [0 .. RING - 1 -> Entry]
    <3>1. g_cp \in [0 .. RING - 1 -> Entry] /\ got \in BOOLEAN
      BY DEF RingTypes
    <3>2. g_cp[g_cp_tail % RING] \in Entry
      BY <3>1, RingInRange DEF RingTypes
    <3>3. [g_cp[g_cp_tail % RING] EXCEPT !.err = got] \in Entry
      BY <3>1, <3>2 DEF Entry
    <3>4. g_cp' = [g_cp EXCEPT ![g_cp_tail % RING] = [g_cp[g_cp_tail % RING] EXCEPT !.err = got]]
      BY <1>3 DEF RxStore
    <3>5. QED
      BY <3>1, <3>3, <3>4
  <2>2. /\ rpc' = "take" /\ got' = FALSE /\ g_cp_tail' = g_cp_tail + 1
        /\ UNCHANGED <<driverVars, g_cp_head, g_cp_cons, staging, netVars>>
    BY <1>3 DEF RxStore
  <2>3. g_cp_tail' \in Nat /\ rpc' \in {"take", "read", "store"} /\ got' \in BOOLEAN
    <3>1. g_cp_tail \in Nat
      BY DEF RingTypes
    <3>2. g_cp_tail + 1 \in Nat
      BY <3>1
    <3>3. rpc' = "take" /\ got' = FALSE
      BY <2>2
    <3>4. g_cp_tail' = g_cp_tail + 1
      BY <2>2
    <3>5. QED
      BY <3>2, <3>3, <3>4
  <2>4. UNCHANGED <<driverVars, g_cp_head, g_cp_cons, staging, netVars>>
    BY <2>2
  <2>5. InOrder(plan)' /\ (plan = <<>> \/ plan \in Plans)'
    BY <2>4 DEF RingTypes
  <2>6. QED
    BY <2>1, <2>3, <2>4, <2>5 DEF RingTypes
<1>4. CASE PeerTakes
  BY <1>4 DEF PeerTakes, RingTypes
<1>5. CASE PeerAnswers
  BY <1>5 DEF PeerAnswers, RingTypes
<1>6. CASE Breaks
  <2>1. rep' \in Seq(Msg) /\ peer' \in Seq(Msg) /\ req' \in Seq(Msg)
    <3>1. rep \in Seq(Msg) /\ <<>> \in Seq(Msg)
      BY DEF RingTypes
    <3>2. QED
      BY <1>6, <3>1 DEF Breaks
  <2>2. up' = FALSE /\ UNCHANGED <<driverVars, ringVars, rxVars>>
    BY <1>6 DEF Breaks
  <2>3. QED
    BY <2>1, <2>2 DEF RingTypes
<1>7. QED
  BY <1>1, <1>2, <1>3, <1>4, <1>5, <1>6

LEMMA Types == Spec => []RingTypes
<1>1. RingTypes /\ [Next]_vars => RingTypes'
  <2>1. SUFFICES ASSUME RingTypes, [Next]_vars PROVE RingTypes'
    OBVIOUS
  <2>2. CASE Next
    BY <2>1, <2>2, TypesDriver, TypesOther DEF Next, Driver, Receiver, Peer
  <2>3. CASE UNCHANGED vars
    BY <2>1, <2>3 DEF vars, driverVars, rxVars, netVars, ringVars, RingTypes
  <2>4. QED
    BY <2>1, <2>2, <2>3
<1>2. QED
  BY <1>1, TypesInit, PTL DEF Spec

-----------------------------------------------------------------------------
(* The driver. *)

Counters == <<g_cp_head, g_cp_tail, g_cp_cons>>
Progress == <<plan, chunk, goal, asked, had>>

LEMMA PlanFacts ==
  ASSUME RingTypes
  PROVE  /\ InOrder(plan)
         /\ \A g \in Int : Upto(plan, g) \in Nat /\ Upto(plan, g) <= Len(plan)
         /\ \A g, h \in Int : g <= h => Upto(plan, g) <= Upto(plan, h)
         /\ Upto(plan, 0) = 0 /\ Upto(plan, Chunks(plan)) = Len(plan)
         /\ Chunks(plan) \in Nat \ {0} /\ Len(plan) \in Nat
<1>1. InOrder(plan)
  BY DEF RingTypes
<1>2. Len(plan) \in Nat
  BY <1>1 DEF InOrder
<1>3. QED
  BY <1>1, <1>2, UptoFacts, UptoGrows, UptoEnds

LEMMA CounterTypes ==
  ASSUME RingTypes
  PROVE  /\ chunk \in Nat /\ goal \in Nat /\ asked \in Nat /\ had \in Nat
         /\ g_cp_head \in Nat /\ g_cp_tail \in Nat /\ g_cp_cons \in Nat
BY DEF RingTypes

LEMMA DriverInit == Init => DriverInv
<1>1. SUFFICES ASSUME Init PROVE DriverInv
  OBVIOUS
<1>2. 0 <= RING
  BY ConstantFacts
<1>3. QED
  BY <1>1, <1>2 DEF Init, DriverInv, Talks, Feeds

\* A step of the receiver, of the peer or of the connection moves at most the
\* receiver's step.
LEMMA DriverQuiet ==
  ASSUME DriverInv, UNCHANGED <<mpc, Counters, Progress>>,
         rpc' # "take" => g_cp_tail < g_cp_head
  PROVE  DriverInv'
BY DEF DriverInv, Talks, Feeds, Counters, Progress

LEMMA DriverCalls ==
  ASSUME RingTypes, DriverInv, Call \/ Reply
  PROVE  DriverInv'
<1>1. UNCHANGED <<Counters, rpc>>
  BY DEF Call, Reply, ringVars, rxVars, Counters
<1>2. g_cp_head = g_cp_cons /\ g_cp_head \in Nat /\ RING \in Nat \ {0}
  BY CounterTypes, ConstantFacts DEF DriverInv, Talks, Call, Reply
<1>3. CASE Call
  BY <1>1, <1>3 DEF Call, DriverInv, Talks, Feeds, Counters
<1>4. CASE Reply
  <2>1. CASE mpc' = "gone"
    BY <1>1, <2>1 DEF DriverInv, Talks, Feeds, Counters
  <2>2. CASE mpc' # "gone"
    <3>1. /\ plan' \in Plans /\ mpc' = "submit"
          /\ chunk' = 1 /\ goal' = LOOK /\ asked' = 0 /\ had' = 0
      BY <1>4, <2>2 DEF Reply
    <3>2. InOrder(plan') /\ LOOK \in Int /\ 0 \in Int
      BY <3>1, ConstantFacts
    <3>3. Upto(plan', LOOK) \in Nat
      BY <3>2, UptoFacts
    <3>4. Upto(plan', 0) = 0 /\ Chunks(plan') \in Nat \ {0}
      BY <3>2, UptoEnds
    <3>5. Upto(plan', goal') \in Nat /\ Upto(plan', chunk' - 1) = 0 /\ chunk' \in 1 .. Chunks(plan')
      BY <3>1, <3>3, <3>4
    <3>6. QED
      BY <1>1, <1>2, <3>1, <3>5 DEF DriverInv, Talks, Feeds, Counters
  <2>3. QED
    BY <2>1, <2>2
<1>5. QED
  BY <1>3, <1>4

LEMMA DriverAsks ==
  ASSUME RingTypes, DriverInv, Submit \/ Send \/ Submitted
  PROVE  DriverInv'
<1>1. UNCHANGED <<plan, chunk, goal, had, g_cp_tail, g_cp_cons, rpc>>
  BY DEF Submit, Send, Submitted, ringVars, rxVars
<1>2. CASE Submit
  <2>1. /\ mpc = "submit" /\ mpc' = "send" /\ asked < Upto(plan, goal)
        /\ UNCHANGED <<asked, g_cp_head>> /\ ~(g_cp_head - g_cp_cons >= RING)
    BY <1>2 DEF Submit, RingFull
  <2>2. g_cp_head - g_cp_cons < RING
    BY <2>1, CounterTypes, ConstantFacts
  <2>3. QED
    BY <1>1, <2>1, <2>2 DEF DriverInv, Talks, Feeds
<1>3. CASE Send
  <2>1. CASE mpc' = "gone"
    <3>1. UNCHANGED <<asked, g_cp_head>>
      BY <1>3, <2>1 DEF Send
    <3>2. QED
      BY <1>1, <2>1, <3>1 DEF DriverInv, Talks, Feeds
  <2>2. CASE mpc' # "gone"
    <3>1. /\ mpc = "send" /\ mpc' = "submit"
          /\ g_cp_head' = g_cp_head + 1 /\ asked' = asked + 1
      BY <1>3, <2>2 DEF Send
    <3>2. asked < Upto(plan, goal) /\ g_cp_head - g_cp_cons < RING /\ Upto(plan, goal) \in Nat
      BY <3>1, PlanFacts, CounterTypes DEF DriverInv
    <3>3. /\ g_cp_tail <= g_cp_head' /\ g_cp_head' - g_cp_cons <= RING /\ g_cp_tail < g_cp_head'
          /\ asked' <= Upto(plan, goal)
          /\ g_cp_head' - asked' = g_cp_head - asked
      BY <3>1, <3>2, CounterTypes, ConstantFacts DEF DriverInv
    <3>4. QED
      BY <1>1, <3>1, <3>3 DEF DriverInv, Talks, Feeds
  <2>3. QED
    BY <2>1, <2>2
<1>4. CASE Submitted
  <2>1. /\ mpc = "submit" /\ mpc' = IF goal = LOOK THEN "wait" ELSE "spark"
        /\ UNCHANGED <<asked, g_cp_head>>
    BY <1>4 DEF Submitted, ringVars
  <2>2. /\ goal = LOOK => goal = chunk - 1 + LOOK
        /\ goal # LOOK => goal = chunk + LOOK /\ Upto(plan, chunk) <= had
    <3>1. chunk \in Nat /\ chunk >= 1 /\ LOOK \in Nat /\ goal \in Nat
      BY <2>1, CounterTypes, ConstantFacts DEF DriverInv, Feeds
    <3>2. \/ goal = LOOK /\ chunk = 1
          \/ goal = chunk + LOOK /\ Upto(plan, chunk) <= had
      BY <2>1 DEF DriverInv
    <3>3. QED
      BY <3>1, <3>2
  <2>3. QED
    BY <1>1, <2>1, <2>2 DEF DriverInv, Talks, Feeds
<1>5. QED
  BY <1>2, <1>3, <1>4

LEMMA DriverWaits ==
  ASSUME RingTypes, DriverInv, WaitDone \/ Waited
  PROVE  DriverInv'
<1>1. UNCHANGED <<plan, chunk, asked, g_cp_head, g_cp_tail, rpc>>
  BY DEF WaitDone, Waited, ringVars, rxVars
<1>2. /\ mpc = "wait" /\ goal = chunk - 1 + LOOK
      /\ g_cp_head - asked = g_cp_cons - had /\ asked <= Upto(plan, goal)
      /\ chunk \in 1 .. Chunks(plan) /\ Upto(plan, chunk - 1) <= had
  BY DEF WaitDone, Waited, DriverInv, Feeds
<1>3. CASE WaitDone
  <2>1. /\ g_cp_cons' = g_cp_cons + 1 /\ had' = had + 1 /\ g_cp_cons < g_cp_tail
        /\ goal' = goal /\ mpc' \in {"wait", "gone"}
    BY <1>3, CounterTypes DEF WaitDone
  <2>2. /\ g_cp_cons' <= g_cp_tail /\ g_cp_head - g_cp_cons' <= RING
        /\ g_cp_head - asked = g_cp_cons' - had' /\ Upto(plan, chunk - 1) <= had'
    <3>1. Upto(plan, chunk - 1) \in Nat
      BY <1>2, PlanFacts, CounterTypes
    <3>2. QED
      BY <1>2, <2>1, <3>1, CounterTypes, ConstantFacts DEF DriverInv
  <2>3. QED
    BY <1>1, <1>2, <2>1, <2>2 DEF DriverInv, Talks, Feeds
<1>4. CASE Waited
  <2>1. /\ goal' = chunk + LOOK /\ mpc' = "submit" /\ had >= Upto(plan, chunk)
        /\ UNCHANGED <<had, g_cp_cons>>
    BY <1>4 DEF Waited, ToWait, ringVars
  <2>2. Upto(plan, chunk) <= had /\ asked <= Upto(plan, goal')
    <3>1. chunk \in Int /\ goal \in Int /\ goal' \in Int /\ goal <= goal'
      BY <1>2, <2>1, CounterTypes, ConstantFacts
    <3>2. /\ Upto(plan, chunk) \in Nat /\ Upto(plan, goal) \in Nat /\ Upto(plan, goal') \in Nat
          /\ Upto(plan, goal) <= Upto(plan, goal')
      BY <3>1, PlanFacts
    <3>3. QED
      BY <1>2, <2>1, <3>2, CounterTypes
  <2>3. QED
    BY <1>1, <1>2, <2>1, <2>2 DEF DriverInv, Talks, Feeds
<1>5. QED
  BY <1>3, <1>4

\* All the pieces of the last chunk were waited for: nothing is outstanding.
LEMMA DriverComputes ==
  ASSUME RingTypes, DriverInv, Computed \/ ComputeFails
  PROVE  DriverInv'
<1>1. UNCHANGED <<plan, goal, asked, had, Counters, rpc>>
  BY DEF Computed, ComputeFails, ringVars, rxVars, Counters
<1>2. CASE mpc' = "gone"
  BY <1>1, <1>2 DEF DriverInv, Talks, Feeds, Counters
<1>3. CASE mpc' # "gone"
  <2>1. /\ mpc = "spark" /\ goal = chunk + LOOK /\ Upto(plan, chunk) <= had
        /\ g_cp_head - asked = g_cp_cons - had /\ asked <= Upto(plan, goal)
        /\ chunk \in 1 .. Chunks(plan)
    BY <1>3 DEF Computed, ComputeFails, DriverInv, Feeds
  <2>2. CASE chunk < Chunks(plan)
    <3>1. chunk' = chunk + 1 /\ mpc' = "wait"
      BY <1>3, <2>2 DEF Computed, ComputeFails
    <3>2. /\ chunk' \in 1 .. Chunks(plan) /\ chunk' - 1 = chunk /\ goal = chunk' - 1 + LOOK
      BY <2>1, <2>2, <3>1, PlanFacts, CounterTypes, ConstantFacts
    <3>3. Upto(plan, chunk' - 1) <= had
      BY <2>1, <3>2
    <3>4. QED
      BY <1>1, <2>1, <3>1, <3>2, <3>3 DEF DriverInv, Talks, Feeds, Counters
  <2>3. CASE ~(chunk < Chunks(plan))
    <3>1. mpc' = "call"
      BY <1>3, <2>3 DEF Computed, ComputeFails
    <3>2. chunk = Chunks(plan) /\ Upto(plan, chunk) = Len(plan)
      BY <2>1, <2>3, PlanFacts, CounterTypes
    <3>3. Upto(plan, goal) \in Nat /\ Upto(plan, goal) <= Len(plan) /\ Len(plan) \in Nat
      BY PlanFacts, CounterTypes
    <3>4. asked <= had
      BY <2>1, <3>2, <3>3, CounterTypes
    <3>5. g_cp_head = g_cp_cons
      BY <2>1, <3>4, CounterTypes DEF DriverInv
    <3>6. QED
      BY <1>1, <3>1, <3>5 DEF DriverInv, Talks, Feeds, Counters
  <2>4. QED
    BY <2>2, <2>3
<1>4. QED
  BY <1>2, <1>3

LEMMA DriverStore ==
  ASSUME RingTypes, DriverInv, RxStore
  PROVE  DriverInv'
<1>1. /\ UNCHANGED <<mpc, Progress, g_cp_head, g_cp_cons>>
      /\ g_cp_tail' = g_cp_tail + 1 /\ rpc = "store" /\ rpc' = "take"
  BY DEF RxStore, driverVars, Progress
<1>2. g_cp_tail < g_cp_head
  BY <1>1 DEF DriverInv
<1>3. g_cp_cons <= g_cp_tail' /\ g_cp_tail' <= g_cp_head
  BY <1>1, <1>2, CounterTypes DEF DriverInv
<1>4. QED
  BY <1>1, <1>3 DEF DriverInv, Talks, Feeds, Progress

LEMMA Drives == Spec => []DriverInv
<1>1. RingTypes /\ DriverInv /\ [Next]_vars => DriverInv'
  <2>1. SUFFICES ASSUME RingTypes, DriverInv, [Next]_vars PROVE DriverInv'
    OBVIOUS
  <2>2. CASE Driver \/ ComputeFails
    BY <2>1, <2>2, DriverCalls, DriverAsks, DriverWaits, DriverComputes DEF Driver
  <2>3. CASE RxStore
    BY <2>1, <2>3, DriverStore
  <2>4. CASE RxTake
    <3>1. g_cp_tail < g_cp_head
      BY <2>1, <2>4, CounterTypes DEF RxTake, DriverInv
    <3>2. QED
      BY <2>1, <2>4, <3>1, DriverQuiet DEF RxTake, driverVars, ringVars, Counters, Progress
  <2>5. CASE RxRead
    <3>1. g_cp_tail < g_cp_head
      BY <2>1, <2>5 DEF RxRead, DriverInv
    <3>2. QED
      BY <2>1, <2>5, <3>1, DriverQuiet DEF RxRead, driverVars, ringVars, Counters, Progress
  <2>6. CASE PeerTakes \/ PeerAnswers \/ Breaks \/ UNCHANGED vars
    <3>1. UNCHANGED <<mpc, Counters, Progress, rpc>>
      BY <2>6 DEF PeerTakes, PeerAnswers, Breaks, vars, driverVars, ringVars, rxVars, Counters,
                  Progress
    <3>2. rpc # "take" => g_cp_tail < g_cp_head
      BY <2>1 DEF DriverInv
    <3>3. QED
      BY <2>1, <3>1, <3>2, DriverQuiet
  <2>7. QED
    BY <2>1, <2>2, <2>3, <2>4, <2>5, <2>6 DEF Next, Receiver, Peer
<1>2. QED
  BY <1>1, DriverInit, Types, PTL DEF Spec

-----------------------------------------------------------------------------
(* The messages. *)

LEMMA QueueFacts ==
  ASSUME NEW q \in Seq(Msg)
  PROVE  /\ Len(q) \in Nat /\ (q = <<>> <=> Len(q) = 0)
         /\ \A j \in 1 .. Len(q) : q[j] \in Msg
         /\ q # <<>> => /\ Head(q) = q[1] /\ Head(q) \in Msg /\ 1 \in 1 .. Len(q)
                        /\ Tail(q) \in Seq(Msg) /\ Len(Tail(q)) = Len(q) - 1
                        /\ \A j \in 1 .. Len(Tail(q)) : j + 1 \in 1 .. Len(q) /\ Tail(q)[j] = q[j + 1]
OBVIOUS

LEMMA AppendFacts ==
  ASSUME NEW q \in Seq(Msg), NEW m \in Msg
  PROVE  /\ Append(q, m) \in Seq(Msg) /\ Len(Append(q, m)) = Len(q) + 1
         /\ \A j \in 1 .. Len(q) : Append(q, m)[j] = q[j]
         /\ Append(q, m)[Len(q) + 1] = m
OBVIOUS

LEMMA EmptyFacts ==
  ASSUME NEW q \in Seq(Msg), Len(q) = 0, NEW c, NEW n
  PROVE  q = <<>> /\ Singles(q) /\ Follows(q, c, n)
BY DEF Singles, Follows

\* What is left after the first message, and what is there with one more.
LEMMA SinglesFacts ==
  ASSUME NEW q \in Seq(Msg), Singles(q)
  PROVE  /\ q # <<>> => Singles(Tail(q)) /\ Head(q).op = "single"
         /\ \A m \in Msg : m.op = "single" => Singles(Append(q, m))
<1>1. q # <<>> => Singles(Tail(q)) /\ Head(q).op = "single"
  BY QueueFacts DEF Singles
<1>2. ASSUME NEW m \in Msg, m.op = "single", NEW j \in 1 .. Len(Append(q, m))
      PROVE  Append(q, m)[j].op = "single"
  <2>1. j \in 1 .. Len(q) \/ j = Len(q) + 1
    BY QueueFacts, AppendFacts
  <2>2. QED
    BY <1>2, <2>1, AppendFacts DEF Singles
<1>3. QED
  BY <1>1, <1>2 DEF Singles

LEMMA FollowsTail ==
  ASSUME NEW q \in Seq(Msg), q # <<>>, NEW c, NEW n \in Int, Follows(q, c, n)
  PROVE  /\ Head(q) = [op |-> "chunk", piece |-> <<c, n + 1>>]
         /\ Follows(Tail(q), c, n + 1)
<1>1. Head(q) = [op |-> "chunk", piece |-> <<c, n + 1>>]
  BY QueueFacts DEF Follows
<1>2. ASSUME NEW j \in 1 .. Len(Tail(q))
      PROVE  Tail(q)[j] = [op |-> "chunk", piece |-> <<c, (n + 1) + j>>]
  <2>1. j + 1 \in 1 .. Len(q) /\ Tail(q)[j] = q[j + 1] /\ Len(Tail(q)) \in Nat
    BY QueueFacts
  <2>2. n + (j + 1) = (n + 1) + j
    BY <2>1
  <2>3. QED
    BY <2>1, <2>2 DEF Follows
<1>3. QED
  BY <1>1, <1>2 DEF Follows

LEMMA FollowsAppend ==
  ASSUME NEW q \in Seq(Msg), NEW c, NEW n \in Int, Follows(q, c, n), NEW m \in Msg,
         m = [op |-> "chunk", piece |-> <<c, n + Len(q) + 1>>]
  PROVE  Follows(Append(q, m), c, n)
<1>1. SUFFICES ASSUME NEW j \in 1 .. Len(Append(q, m))
               PROVE  Append(q, m)[j] = [op |-> "chunk", piece |-> <<c, n + j>>]
  BY DEF Follows
<1>2. CASE j \in 1 .. Len(q)
  BY <1>2, AppendFacts DEF Follows
<1>3. CASE j = Len(q) + 1
  <2>1. n + Len(q) + 1 = n + j
    BY <1>3, QueueFacts
  <2>2. QED
    BY <1>3, <2>1, AppendFacts
<1>4. j \in 1 .. Len(q) \/ j = Len(q) + 1
  BY QueueFacts, AppendFacts
<1>5. QED
  BY <1>2, <1>3, <1>4

LEMMA NetTypes ==
  ASSUME RingTypes
  PROVE  /\ req \in Seq(Msg) /\ peer \in Seq(Msg) /\ rep \in Seq(Msg) /\ up \in BOOLEAN
         /\ Len(req) \in Nat /\ Len(peer) \in Nat /\ Len(rep) \in Nat
         /\ Read \in Nat /\ Base \in Int
BY DEF RingTypes, Read, Base

LEMMA Phases == RingTypes => /\ Talks \/ Feeds \/ mpc = "gone"
                             /\ ~(Talks /\ Feeds)
BY DEF RingTypes, Talks, Feeds

LEMMA NetInit == Init => NetInv
BY DEF Init, NetInv, Singles, Talks, Feeds, Outstanding, Read

\* A prompt goes on, or the process ends, and no message moves.
LEMMA NetQuiet ==
  ASSUME NetInv, UNCHANGED <<netVars, call, g_cp_head, asked, Read>>,
         mpc' = "gone" \/ (Feeds /\ mpc' \in {"submit", "send", "wait", "spark"})
  PROVE  NetInv'
<1>1. UNCHANGED <<req, peer, rep, up, call, g_cp_head, asked>> /\ Read' = Read
  BY DEF netVars
<1>2. CASE mpc' = "gone"
  BY <1>1, <1>2 DEF NetInv, Talks, Feeds
<1>3. CASE Feeds /\ mpc' \in {"submit", "send", "wait", "spark"}
  <2>1. Base' = Base /\ Outstanding' = Outstanding
    BY <1>1, <1>3 DEF Base, Outstanding, Feeds
  <2>2. mpc # "gone" /\ mpc' # "gone" /\ Feeds' /\ ~Talks'
    BY <1>3 DEF Feeds, Talks
  <2>3. QED
    BY <1>1, <1>3, <2>1, <2>2 DEF NetInv
<1>4. QED
  BY <1>2, <1>3

\* Nothing is outstanding and nothing under way, and the driver goes on.
LEMMA NetEmpty ==
  ASSUME Len(rep') = 0, Len(peer') = 0, Len(req') = 0, Outstanding' = 0,
         RingTypes'
  PROVE  NetInv'
<1>1. rep' \in Seq(Msg) /\ peer' \in Seq(Msg) /\ req' \in Seq(Msg)
  BY DEF RingTypes
<1>2. /\ req' = <<>> /\ peer' = <<>>
      /\ Singles(req') /\ Singles(peer') /\ Singles(rep')
      /\ \A c, n : Follows(req', c, n) /\ Follows(peer', c, n) /\ Follows(rep', c, n)
  BY <1>1, EmptyFacts
<1>3. Len(rep') + Len(peer') + Len(req') = Outstanding' /\ 0 <= 0
  OBVIOUS
<1>4. QED
  BY <1>2, <1>3 DEF NetInv

\* Between prompts every reply the receiver was to read has been read.
LEMMA NothingRead ==
  ASSUME RingTypes, DriverInv, Talks
  PROVE  rpc = "take" /\ g_cp_tail = g_cp_head /\ g_cp_head = g_cp_cons /\ Read = g_cp_head
<1>1. g_cp_tail = g_cp_head /\ g_cp_head = g_cp_cons
  BY CounterTypes DEF DriverInv
<1>2. rpc = "take"
  BY <1>1, CounterTypes DEF DriverInv
<1>3. QED
  BY <1>1, <1>2 DEF Read

LEMMA NetCalls ==
  ASSUME RingTypes, RingTypes', DriverInv, NetInv, Call \/ Reply
  PROVE  NetInv'
<1>1. UNCHANGED <<peer, up, Read, g_cp_head>> /\ Talks /\ mpc # "gone"
  BY DEF Call, Reply, ringVars, rxVars, Read, Talks
<1>2. Read = g_cp_head /\ Singles(req) /\ Singles(peer) /\ Singles(rep)
  BY <1>1, NothingRead DEF NetInv
<1>3. CASE Call
  <2>1. mpc = "call" /\ rep' = rep
    BY <1>3 DEF Call
  <2>2. CASE mpc' = "gone"
    BY <1>1, <1>3, <2>1, <2>2 DEF Call, NetInv, Talks, Feeds
  <2>3. CASE mpc' # "gone"
    <3>1. up /\ req' = Append(req, Single) /\ mpc' = "reply"
      BY <1>3, <2>3 DEF Call
    <3>2. Single \in Msg /\ Single.op = "single"
      BY DEF Single, Msg, Empty
    <3>3. Len(req') = Len(req) + 1 /\ Singles(req')
      BY <1>2, <3>1, <3>2, NetTypes, AppendFacts, SinglesFacts
    <3>4. Outstanding = 0 /\ Outstanding' = 1
      BY <1>1, <1>2, <2>1, <3>1, CounterTypes DEF Outstanding
    <3>5. Len(rep) + Len(peer) + Len(req) = Outstanding
      BY <1>1, <3>1 DEF NetInv
    <3>6. Len(rep') + Len(peer') + Len(req') = Outstanding'
      BY <1>1, <2>1, <3>3, <3>4, <3>5, NetTypes
    <3>7. Singles(req') /\ Singles(peer') /\ Singles(rep')
      BY <1>1, <1>2, <2>1, <3>3
    <3>8. up' /\ mpc' # "gone" /\ ~Feeds'
      BY <1>1, <3>1 DEF Feeds
    <3>9. QED
      BY <3>6, <3>7, <3>8, <1>1 DEF NetInv
  <2>4. QED
    BY <2>2, <2>3
<1>4. CASE Reply
  <2>1. mpc = "reply" /\ req' = req
    BY <1>4 DEF Reply
  <2>2. CASE mpc' = "gone"
    BY <1>1, <2>1, <2>2 DEF NetInv, Talks, Feeds
  <2>3. CASE mpc' # "gone"
    <3>1. rep # <<>> /\ rep' = Tail(rep) /\ mpc' = "submit"
      BY <1>4, <2>3 DEF Reply
    <3>2. Outstanding = 1 /\ Outstanding' = 0
      BY <1>1, <1>2, <2>1, <3>1, CounterTypes DEF Outstanding
    <3>3. Len(rep) + Len(peer) + Len(req) <= 1
      BY <1>1, <3>2 DEF NetInv
    <3>4. Len(rep) >= 1 /\ Len(rep') = Len(rep) - 1
      BY <3>1, NetTypes, QueueFacts
    <3>5. Len(rep') = 0 /\ Len(peer) = 0 /\ Len(req) = 0
      BY <3>3, <3>4, NetTypes
    <3>6. QED
      BY <1>1, <2>1, <3>2, <3>5, NetEmpty
  <2>4. QED
    BY <2>2, <2>3
<1>5. QED
  BY <1>3, <1>4

LEMMA NetSends ==
  ASSUME RingTypes, NetInv, Send
  PROVE  NetInv'
<1>1. UNCHANGED <<peer, rep, up, call>> /\ Read' = Read /\ mpc = "send"
  BY DEF Send, ringVars, rxVars, Read
<1>2. CASE mpc' = "gone"
  <2>1. UNCHANGED <<req, g_cp_head, asked>>
    BY <1>2 DEF Send
  <2>2. QED
    BY <1>1, <1>2, <2>1, NetQuiet DEF netVars
<1>3. CASE mpc' # "gone"
  <2>1. /\ up /\ req' = Append(req, Chunk(asked + 1)) /\ mpc' = "submit"
        /\ g_cp_head' = g_cp_head + 1 /\ asked' = asked + 1
    BY <1>3 DEF Send
  <2>2. Chunk(asked + 1) \in Msg
    BY DEF Chunk, Msg, RingTypes
  <2>3. Len(req') = Len(req) + 1
    BY <2>1, <2>2, NetTypes, AppendFacts
  <2>4. Base' = Base
    BY <2>1, CounterTypes DEF Base
  <2>5. Outstanding = g_cp_head - Read /\ Outstanding' = g_cp_head' - Read
    BY <1>1, <2>1, CounterTypes, NetTypes DEF Outstanding
  <2>6. Feeds /\ Feeds' /\ ~Talks' /\ mpc # "gone" /\ mpc' # "gone"
    BY <1>1, <2>1 DEF Feeds, Talks
  <2>7. Len(rep) + Len(peer) + Len(req) = g_cp_head - Read
    BY <2>1, <2>5, <2>6 DEF NetInv
  <2>8. Len(rep') + Len(peer') + Len(req') = Outstanding'
    <3>1. /\ Len(rep) \in Nat /\ Len(peer) \in Nat /\ Len(req) \in Nat /\ Read \in Nat
          /\ g_cp_head \in Nat
      BY NetTypes, CounterTypes
    <3>2. Len(rep) + Len(peer) + (Len(req) + 1) = (g_cp_head + 1) - Read
      BY <2>7, <3>1
    <3>3. QED
      BY <1>1, <2>1, <2>3, <2>5, <3>2
  <2>9. Follows(req', call, Read - Base + Len(rep) + Len(peer))
    <3>1. Read - Base + Len(rep) + Len(peer) \in Int
      BY NetTypes
    <3>2. /\ Len(rep) \in Nat /\ Len(peer) \in Nat /\ Len(req) \in Nat /\ Read \in Nat
          /\ g_cp_head \in Nat /\ asked \in Nat /\ Base = g_cp_head - asked
      BY NetTypes, CounterTypes DEF Base
    <3>3. (Read - Base + Len(rep) + Len(peer)) + Len(req) + 1 = asked + 1
      BY <2>7, <3>2
    <3>4. Follows(req, call, Read - Base + Len(rep) + Len(peer))
      BY <2>6 DEF NetInv
    <3>5. QED
      BY <2>1, <2>2, <3>1, <3>3, <3>4, NetTypes, FollowsAppend DEF Chunk
  <2>10. QED
    BY <1>1, <2>1, <2>4, <2>6, <2>8, <2>9, NetTypes DEF NetInv
<1>4. QED
  BY <1>2, <1>3

\* With the last chunk computed nothing is outstanding.
LEMMA NetComputes ==
  ASSUME RingTypes, RingTypes', DriverInv, DriverInv', NetInv, Computed
  PROVE  NetInv'
<1>1. /\ UNCHANGED <<netVars, call, g_cp_head, g_cp_tail, g_cp_cons, asked, rpc>>
      /\ mpc = "spark" /\ Feeds /\ mpc # "gone" /\ mpc' \in {"wait", "call"}
  BY DEF Computed, ringVars, rxVars, Feeds
<1>2. Read' = Read
  BY <1>1 DEF Read
<1>3. CASE mpc' = "wait"
  BY <1>1, <1>2, <1>3, NetQuiet
<1>4. CASE mpc' = "call"
  <2>1. Read = g_cp_head
    <3>1. g_cp_head = g_cp_cons /\ g_cp_cons <= g_cp_tail /\ g_cp_tail <= g_cp_head
          /\ (rpc # "take" => g_cp_tail < g_cp_head)
      BY <1>1, <1>4 DEF DriverInv, Talks
    <3>2. QED
      BY <3>1, CounterTypes DEF Read
  <2>2. Outstanding = 0 /\ Outstanding' = 0
    BY <1>1, <1>2, <1>4, <2>1, CounterTypes DEF Outstanding
  <2>3. Len(rep) + Len(peer) + Len(req) <= 0
    BY <1>1, <2>2 DEF NetInv
  <2>4. Len(rep) = 0 /\ Len(peer) = 0 /\ Len(req) = 0
    BY <2>3, NetTypes
  <2>5. QED
    BY <1>1, <2>2, <2>4, NetEmpty DEF netVars
<1>5. QED
  BY <1>1, <1>3, <1>4

LEMMA NetReads ==
  ASSUME RingTypes, DriverInv, NetInv, RxRead
  PROVE  NetInv'
<1>1. /\ UNCHANGED <<mpc, call, g_cp_head, g_cp_tail, asked, req, peer, up>>
      /\ mpc # "gone" /\ rpc = "read" /\ rpc' = "store"
  BY DEF RxRead, driverVars, ringVars
<1>2. Read' = Read + 1 /\ Read = g_cp_tail /\ g_cp_tail < g_cp_head
  BY <1>1 DEF Read, DriverInv
<1>3. Feeds /\ Feeds' /\ ~Talks' /\ mpc' # "gone" /\ mpc # "reply"
  BY <1>1, NothingRead, Phases DEF Feeds, Talks
<1>4. Base' = Base /\ Base \in Int
  BY <1>1, NetTypes DEF Base
<1>5. Outstanding = g_cp_head - Read /\ Outstanding' = g_cp_head - (Read + 1)
  BY <1>1, <1>2, <1>3, CounterTypes, NetTypes DEF Outstanding
<1>6. CASE rep = <<>>
  <2>1. ~up /\ rep' = <<>> /\ req = <<>> /\ peer = <<>>
    BY <1>6 DEF RxRead, NetInv
  <2>2. Outstanding' >= 0
    BY <1>2, <1>5, CounterTypes
  <2>3. QED
    BY <1>1, <1>3, <2>1, <2>2 DEF NetInv, Follows
<1>7. CASE rep # <<>>
  <2>1. rep' = Tail(rep) /\ Len(rep') = Len(rep) - 1
    BY <1>7, NetTypes, QueueFacts DEF RxRead
  <2>2. /\ Len(rep) + Len(peer) + Len(req) <= g_cp_head - Read
        /\ up => Len(rep) + Len(peer) + Len(req) = g_cp_head - Read
    BY <1>1, <1>5 DEF NetInv
  <2> /\ Len(rep) \in Nat /\ Len(peer) \in Nat /\ Len(req) \in Nat /\ Read \in Nat
      /\ Base \in Int /\ g_cp_head \in Nat
    BY NetTypes, CounterTypes
  <2>3. /\ Len(rep') + Len(peer) + Len(req) <= Outstanding'
        /\ up => Len(rep') + Len(peer) + Len(req) = Outstanding'
    <3>1. (Len(rep) - 1) + Len(peer) + Len(req) <= g_cp_head - (Read + 1)
      BY <2>2
    <3>2. up => (Len(rep) - 1) + Len(peer) + Len(req) = g_cp_head - (Read + 1)
      BY <2>2
    <3>3. QED
      BY <1>5, <2>1, <3>1, <3>2
  <2>4. /\ Read' - Base' = Read - Base + 1 /\ Read - Base \in Int
        /\ Read' - Base' + Len(rep') = Read - Base + Len(rep)
    <3>1. Read + 1 - Base = Read - Base + 1 /\ Read - Base \in Int
      OBVIOUS
    <3>2. Read + 1 - Base + (Len(rep) - 1) = Read - Base + Len(rep)
      OBVIOUS
    <3>3. Read' - Base' = Read - Base + 1
      BY <1>2, <1>4, <3>1
    <3>4. Read' = Read + 1 /\ Base' = Base /\ Len(rep') = Len(rep) - 1
      BY <1>2, <1>4, <2>1
    <3>5. Read' - Base' + Len(rep') = Read - Base + Len(rep)
      BY <3>2, <3>4
    <3>6. QED
      BY <3>1, <3>3, <3>5
  <2>5. Follows(rep', call, Read' - Base')
    <3>1. Follows(rep, call, Read - Base)
      BY <1>3 DEF NetInv
    <3>2. QED
      BY <1>7, <2>1, <2>4, <3>1, NetTypes, FollowsTail
  <2>6. /\ Follows(peer, call, Read' - Base' + Len(rep'))
        /\ Follows(req, call, Read' - Base' + Len(rep') + Len(peer))
    BY <1>3, <2>4 DEF NetInv
  <2>7. ~up => req = <<>> /\ peer = <<>>
    BY DEF NetInv
  <2>8. QED
    BY <1>1, <1>3, <2>3, <2>5, <2>6, <2>7 DEF NetInv
<1>8. QED
  BY <1>6, <1>7

\* A message moves one place along.
LEMMA NetTakes ==
  ASSUME RingTypes, NetInv, PeerTakes
  PROVE  NetInv'
<1>1. /\ UNCHANGED <<mpc, call, g_cp_head, asked, rep, up>> /\ Read' = Read /\ up /\ req # <<>>
      /\ req' = Tail(req) /\ peer' = Append(peer, Head(req))
  BY DEF PeerTakes, driverVars, ringVars, rxVars, Read
<1>2. Base' = Base /\ Outstanding' = Outstanding /\ Feeds' = Feeds /\ Talks' = Talks
  BY <1>1 DEF Base, Outstanding, Feeds, Talks
<1>3. /\ Head(req) \in Msg /\ Len(req') = Len(req) - 1 /\ Len(peer') = Len(peer) + 1
  BY <1>1, NetTypes, QueueFacts, AppendFacts
<1>4. Len(rep') + Len(peer') + Len(req') = Len(rep) + Len(peer) + Len(req)
  BY <1>1, <1>3, NetTypes
<1>5. ASSUME mpc # "gone"
      PROVE  /\ Len(rep') + Len(peer') + Len(req') <= Outstanding'
             /\ Len(rep') + Len(peer') + Len(req') = Outstanding'
  BY <1>1, <1>2, <1>4, <1>5 DEF NetInv
<1>6. ASSUME Talks PROVE Singles(req') /\ Singles(peer') /\ Singles(rep')
  <2>1. Singles(req) /\ Singles(peer) /\ Singles(rep)
    BY <1>6 DEF NetInv
  <2>2. QED
    BY <1>1, <1>3, <2>1, NetTypes, SinglesFacts
<1>7. ASSUME Feeds
      PROVE  /\ Follows(peer', call, Read - Base + Len(rep))
             /\ Follows(req', call, Read - Base + Len(rep) + Len(peer'))
  <2>1. /\ Follows(peer, call, Read - Base + Len(rep))
        /\ Follows(req, call, Read - Base + Len(rep) + Len(peer))
    BY <1>7 DEF NetInv
  <2>2. /\ Read - Base + Len(rep) \in Int /\ Read - Base + Len(rep) + Len(peer) \in Int
        /\ Read - Base + Len(rep) + Len(peer) + 1 = Read - Base + Len(rep) + Len(peer')
    BY <1>3, NetTypes
  <2>3. Head(req) = [op |-> "chunk", piece |-> <<call, Read - Base + Len(rep) + Len(peer) + 1>>]
    BY <1>1, <2>1, <2>2, NetTypes, FollowsTail
  <2>4. Follows(peer', call, Read - Base + Len(rep))
    BY <1>1, <1>3, <2>1, <2>2, <2>3, NetTypes, FollowsAppend
  <2>5. Follows(req', call, Read - Base + Len(rep) + Len(peer) + 1)
    BY <1>1, <2>1, <2>2, NetTypes, FollowsTail
  <2>6. QED
    BY <2>2, <2>4, <2>5
<1>8. Feeds => Follows(rep, call, Read - Base)
  BY DEF NetInv
<1>9. QED
  BY <1>1, <1>2, <1>5, <1>6, <1>7, <1>8 DEF NetInv

LEMMA NetAnswers ==
  ASSUME RingTypes, NetInv, PeerAnswers
  PROVE  NetInv'
<1>1. /\ UNCHANGED <<mpc, call, g_cp_head, asked, req, up>> /\ Read' = Read /\ up /\ peer # <<>>
      /\ peer' = Tail(peer) /\ rep' = Append(rep, Head(peer))
  BY DEF PeerAnswers, driverVars, ringVars, rxVars, Read
<1>2. Base' = Base /\ Outstanding' = Outstanding /\ Feeds' = Feeds /\ Talks' = Talks
  BY <1>1 DEF Base, Outstanding, Feeds, Talks
<1>3. /\ Head(peer) \in Msg /\ Len(peer') = Len(peer) - 1 /\ Len(rep') = Len(rep) + 1
  BY <1>1, NetTypes, QueueFacts, AppendFacts
<1>4. Len(rep') + Len(peer') = Len(rep) + Len(peer)
  BY <1>1, <1>3, NetTypes
<1>5. ASSUME mpc # "gone"
      PROVE  /\ Len(rep') + Len(peer') + Len(req') <= Outstanding'
             /\ Len(rep') + Len(peer') + Len(req') = Outstanding'
  BY <1>1, <1>2, <1>4, <1>5 DEF NetInv
<1>6. ASSUME Talks PROVE Singles(req') /\ Singles(peer') /\ Singles(rep')
  <2>1. Singles(req) /\ Singles(peer) /\ Singles(rep)
    BY <1>6 DEF NetInv
  <2>2. QED
    BY <1>1, <1>3, <2>1, NetTypes, SinglesFacts
<1>7. ASSUME Feeds
      PROVE  /\ Follows(rep', call, Read - Base)
             /\ Follows(peer', call, Read - Base + Len(rep'))
             /\ Follows(req, call, Read - Base + Len(rep') + Len(peer'))
  <2>1. /\ Follows(rep, call, Read - Base)
        /\ Follows(peer, call, Read - Base + Len(rep))
        /\ Follows(req, call, Read - Base + Len(rep) + Len(peer))
    BY <1>7 DEF NetInv
  <2>2. /\ Read - Base \in Int /\ Read - Base + Len(rep) \in Int
        /\ Read - Base + Len(rep) + 1 = Read - Base + Len(rep')
        /\ Read - Base + Len(rep) + Len(peer) = Read - Base + Len(rep') + Len(peer')
    <3>1. /\ Len(rep) \in Nat /\ Len(peer) \in Nat /\ Read - Base \in Int
      BY NetTypes
    <3>2. Read - Base + Len(rep) + Len(peer) = Read - Base + (Len(rep) + 1) + (Len(peer) - 1)
      BY <3>1
    <3>3. QED
      BY <1>3, <3>1, <3>2
  <2>3. Head(peer) = [op |-> "chunk", piece |-> <<call, Read - Base + Len(rep) + 1>>]
    BY <1>1, <2>1, <2>2, NetTypes, FollowsTail
  <2>4. Follows(rep', call, Read - Base)
    BY <1>1, <1>3, <2>1, <2>2, <2>3, NetTypes, FollowsAppend
  <2>5. Follows(peer', call, Read - Base + Len(rep) + 1)
    BY <1>1, <2>1, <2>2, NetTypes, FollowsTail
  <2>6. QED
    BY <2>1, <2>2, <2>4, <2>5
<1>8. QED
  BY <1>1, <1>2, <1>5, <1>6, <1>7 DEF NetInv

LEMMA NetBreaks ==
  ASSUME RingTypes, RingTypes', NetInv, Breaks
  PROVE  NetInv'
<1>1. /\ UNCHANGED <<mpc, call, g_cp_head, asked>> /\ Read' = Read
      /\ ~up' /\ req' = <<>> /\ peer' = <<>> /\ rep' \in {rep, <<>>} /\ mpc # "gone"
  BY DEF Breaks, driverVars, ringVars, rxVars, Read
<1>2. Base' = Base /\ Outstanding' = Outstanding /\ Feeds' = Feeds /\ Talks' = Talks
  BY <1>1 DEF Base, Outstanding, Feeds, Talks
<1>3. Len(req') = 0 /\ Len(peer') = 0 /\ Len(rep') <= Len(rep) /\ Len(rep') \in Nat
  BY <1>1, NetTypes
<1>4. Outstanding \in Int
  BY NetTypes, CounterTypes DEF Outstanding
<1>5. Len(rep') + Len(peer') + Len(req') <= Outstanding'
  <2>1. Len(rep) + Len(peer) + Len(req) <= Outstanding
    BY <1>1 DEF NetInv
  <2>2. QED
    BY <1>2, <1>3, <1>4, <2>1, NetTypes
<1>6. req' \in Seq(Msg) /\ peer' \in Seq(Msg) /\ rep' \in Seq(Msg)
  BY DEF RingTypes
<1>7. Talks => Singles(req') /\ Singles(peer') /\ Singles(rep')
  BY <1>1, <1>3, <1>6, EmptyFacts DEF NetInv, Singles
<1>8. Feeds => Follows(rep', call, Read - Base)
  BY <1>1 DEF NetInv, Follows
<1>9. \A n : Follows(req', call, n) /\ Follows(peer', call, n)
  BY <1>3, <1>6, EmptyFacts
<1>10. QED
  BY <1>1, <1>2, <1>5, <1>7, <1>8, <1>9 DEF NetInv

LEMMA Nets == Spec => []NetInv
<1>1. RingTypes /\ RingTypes' /\ DriverInv /\ DriverInv' /\ NetInv /\ [Next]_vars => NetInv'
  <2>1. SUFFICES ASSUME RingTypes, RingTypes', DriverInv, DriverInv', NetInv, [Next]_vars
                 PROVE  NetInv'
    OBVIOUS
  <2>2. CASE Call \/ Reply
    BY <2>1, <2>2, NetCalls
  <2>3. CASE Send
    BY <2>1, <2>3, NetSends
  <2>4. CASE Computed
    BY <2>1, <2>4, NetComputes
  <2>5. CASE Submit \/ Submitted \/ WaitDone \/ Waited \/ ComputeFails
    <3>1. /\ UNCHANGED <<netVars, call, g_cp_head>> /\ Read' = Read /\ Feeds
          /\ mpc' = "gone" \/ mpc' \in {"submit", "send", "wait", "spark"}
      BY <2>5 DEF Submit, Submitted, WaitDone, Waited, ComputeFails, ringVars, rxVars, Read, Feeds
    <3>2. asked' = asked
      BY <2>5 DEF Submit, Submitted, WaitDone, Waited, ComputeFails
    <3>3. QED
      BY <2>1, <3>1, <3>2, NetQuiet
  <2>6. CASE RxTake \/ RxStore \/ UNCHANGED vars
    <3>1. UNCHANGED <<req, peer, rep, up, mpc, call, g_cp_head, asked>>
      BY <2>6 DEF RxTake, RxStore, vars, driverVars, ringVars, netVars
    <3>2. Read' = Read
      BY <2>6 DEF RxTake, RxStore, vars, ringVars, rxVars, Read
    <3>3. Base' = Base /\ Outstanding' = Outstanding /\ Feeds' = Feeds /\ Talks' = Talks
      BY <3>1, <3>2 DEF Base, Outstanding, Feeds, Talks
    <3>4. QED
      BY <2>1, <3>1, <3>2, <3>3 DEF NetInv
  <2>7. CASE RxRead
    BY <2>1, <2>7, NetReads
  <2>8. CASE PeerTakes \/ PeerAnswers
    BY <2>1, <2>8, NetTakes, NetAnswers
  <2>9. CASE Breaks
    BY <2>1, <2>9, NetBreaks
  <2>10. QED
    BY <2>1, <2>2, <2>3, <2>4, <2>5, <2>6, <2>7, <2>8, <2>9
    DEF Next, Driver, Receiver, Peer
<1>2. QED
  BY <1>1, NetInit, Types, Drives, PTL DEF Spec

\* Between two prompts the receiver is idle and every message is the driver's own.
THEOREM OneReaderHolds == Spec => []OneReader
<1>1. RingTypes /\ DriverInv /\ NetInv => OneReader
  <2>1. SUFFICES ASSUME RingTypes, DriverInv, NetInv, Talks PROVE OneReader
    BY DEF OneReader, Talks
  <2>2. rpc = "take" /\ g_cp_tail = g_cp_head
    BY <2>1, NothingRead
  <2>3. \A q \in {req, peer, rep} : \A i \in DOMAIN q : q[i].op = "single"
    BY <2>1, NetTypes DEF NetInv, Singles
  <2>4. QED
    BY <2>2, <2>3 DEF OneReader
<1>2. QED
  BY <1>1, Types, Drives, Nets, PTL

-----------------------------------------------------------------------------
(* The rows. *)

\* In a prompt: what has been asked for, read and waited for, as positions in the ring.
LEMMA WindowFacts ==
  ASSUME RingTypes, DriverInv, Feeds
  PROVE  /\ Base \in Int /\ Base + had = g_cp_cons /\ Base + asked = g_cp_head
         /\ had <= Read - Base /\ Read - Base <= asked
         /\ g_cp_cons <= Read /\ Read <= g_cp_head /\ g_cp_tail <= Read
         /\ asked <= Len(plan)
<1>1. Base \in Int /\ Base + had = g_cp_cons /\ Base + asked = g_cp_head
  BY CounterTypes DEF DriverInv, Base
<1>2. g_cp_cons <= Read /\ Read <= g_cp_head /\ g_cp_tail <= Read
  BY CounterTypes DEF DriverInv, Read
<1>3. asked <= Len(plan)
  <2>1. asked <= Upto(plan, goal) /\ Upto(plan, goal) \in Nat /\ Upto(plan, goal) <= Len(plan)
        /\ Len(plan) \in Nat
    BY PlanFacts, CounterTypes DEF DriverInv
  <2>2. QED
    BY <2>1, CounterTypes
<1>4. had <= Read - Base /\ Read - Base <= asked
  BY <1>1, <1>2, CounterTypes, NetTypes
<1>5. QED
  BY <1>1, <1>2, <1>3, <1>4

LEMMA PieceFacts ==
  ASSUME RingTypes, NEW n \in 1 .. Len(plan)
  PROVE  /\ DOMAIN plan = 1 .. Len(plan) /\ plan[n] \in Nat /\ plan[n] >= 1
         /\ PlaceOf(n) \in Piece
         /\ \A i \in 1 .. Len(plan) : i < n => plan[i] \in Nat /\ plan[i] <= plan[n]
         /\ \A i \in 1 .. Len(plan) : plan[i] = plan[n] /\ i # n => PlaceOf(i) # PlaceOf(n)
<1>1. InOrder(plan) /\ Len(plan) \in Nat
  BY PlanFacts
<1>2. /\ DOMAIN plan = 1 .. Len(plan) /\ \A i \in 1 .. Len(plan) : plan[i] \in Nat /\ plan[i] >= 1
      /\ \A i \in 1 .. Len(plan) : i < n => plan[i] <= plan[n]
  BY <1>1 DEF InOrder
<1>3. DEFINE before == Upto(plan, plan[n] - 1)
             upto   == Upto(plan, plan[n])
             later  == Upto(plan, plan[n] - 1 + LOOK)
<1>4. plan[n] - 1 \in Int /\ plan[n] - 1 + LOOK \in Int /\ plan[n] <= plan[n] - 1 + LOOK
  BY <1>2, ConstantFacts
<1>5. before \in Nat /\ upto \in Nat /\ later \in Nat /\ upto <= later
  BY <1>2, <1>4, PlanFacts
<1>6. before < n /\ n <= upto
  <2>1. ~(plan[n] <= plan[n] - 1) /\ plan[n] <= plan[n]
    BY <1>2
  <2>2. ~(n <= before)
    BY <1>1, <1>4, <2>1, UptoFacts
  <2>3. n <= upto
    BY <1>1, <1>2, <2>1, UptoFacts
  <2>4. QED
    BY <1>5, <2>2, <2>3
<1>7. later - before <= RING
  <2>1. plan \in Plans
    <3>1. plan # <<>>
      BY <1>1
    <3>2. QED
      BY <3>1 DEF RingTypes
  <2>2. plan[n] <= Chunks(plan) /\ Chunks(plan) \in Nat
    BY <1>1, UptoEnds
  <2>3. plan[n] - 1 \in 0 .. Chunks(plan)
    BY <1>2, <2>2
  <2>4. UnderWay(plan, plan[n] - 1) <= RING
    BY <2>1, <2>3, ConstantFacts
  <2>5. QED
    BY <2>4 DEF UnderWay
<1>8. PlaceOf(n) = n - before
  BY DEF PlaceOf
<1> HIDE DEF before, upto, later
<1>9. PlaceOf(n) \in Piece
  BY <1>5, <1>6, <1>7, <1>8, ConstantFacts DEF Piece
<1>10. ASSUME NEW i \in 1 .. Len(plan), plan[i] = plan[n], i # n
       PROVE  PlaceOf(i) # PlaceOf(n)
  <2>1. PlaceOf(i) = i - before
    BY <1>10 DEF PlaceOf, before
  <2>2. QED
    BY <1>5, <1>8, <1>10, <2>1
<1>11. QED
  BY <1>2, <1>9, <1>10

\* The rings' entries from the first not waited for to the next one are of different pieces.
LEMMA EntryFacts ==
  ASSUME RingTypes, DriverInv, Feeds, NEW i \in Int, NEW j \in Int,
         had < i, i < j, Base + j <= g_cp_cons + RING
  PROVE  /\ Base + i - 1 \in Nat /\ Base + j - 1 \in Nat
         /\ (Base + i - 1) % RING # (Base + j - 1) % RING
<1>1. Base \in Int /\ Base + had = g_cp_cons /\ g_cp_cons \in Nat /\ had \in Nat /\ RING \in Nat
  BY WindowFacts, CounterTypes, ConstantFacts
<1>2. /\ Base + i - 1 \in Nat /\ Base + j - 1 \in Nat /\ Base + i - 1 < Base + j - 1
      /\ (Base + j - 1) - (Base + i - 1) < RING
  BY <1>1
<1>3. QED
  BY <1>2, RingEntriesDiffer

LEMMA RowsInit == Init => RowsInv
BY DEF Init, RowsInv, Feeds

\* Nothing of the prompt moves, but for chunks the driver is done with.
LEMMA RowsQuiet ==
  ASSUME RingTypes, DriverInv, RowsInv, chunk' \in Nat,
         UNCHANGED <<plan, call, had, g_cp, g_cp_tail, got, staging>>,
         Base' = Base, Read' = Read, chunk <= chunk',
         Feeds' => Feeds /\ Top' = Top
  PROVE  RowsInv'
<1>1. SUFFICES ASSUME Feeds' PROVE RowsInv'
  BY DEF RowsInv
<1>2. (\A n \in had + 1 .. Top : Noted(n)) /\ \A n \in 1 .. Read - Base : Kept(n)
  BY <1>1 DEF RowsInv
<1>3. \A n : /\ Noted(n)' <=> Noted(n)
             /\ InPlace(n)' <=> InPlace(n)
             /\ Spoilt(n)' <=> Spoilt(n)
  BY DEF Noted, InPlace, Spoilt, BufferOf, PlaceOf, Upto
<1>4. \A n \in had + 1 .. Top : Noted(n)'
  BY <1>2, <1>3
<1>5. ASSUME NEW n \in 1 .. Read - Base PROVE Kept(n)'
  <2>1. n \in 1 .. Len(plan)
    <3>1. Read - Base <= asked /\ asked <= Len(plan)
      BY <1>1, WindowFacts
    <3>2. Read \in Nat /\ Base \in Int /\ asked \in Nat /\ Len(plan) \in Nat
      BY CounterTypes, NetTypes, PlanFacts
    <3>3. QED
      BY <3>1, <3>2
  <2>2. plan[n] \in Nat /\ chunk \in Nat
    BY <2>1, PieceFacts, CounterTypes
  <2>3. plan[n] >= chunk' => plan[n] >= chunk
    BY <2>2
  <2>4. QED
    BY <1>2, <1>3, <2>3 DEF Kept
<1>6. QED
  BY <1>4, <1>5 DEF RowsInv

LEMMA RowsReply ==
  ASSUME RingTypes, RingTypes', DriverInv, DriverInv', Reply
  PROVE  RowsInv'
<1>1. CASE mpc' = "gone"
  BY <1>1 DEF RowsInv, Feeds
<1>2. CASE mpc' # "gone"
  <2>1. mpc' = "submit" /\ asked' = 0 /\ had' = 0 /\ mpc = "reply"
        /\ UNCHANGED <<g_cp_head, g_cp_tail, rpc>>
    BY <1>2 DEF Reply, ringVars, rxVars
  <2>2. Read = g_cp_head
    BY <2>1, NothingRead DEF Talks
  <2>3. Read' = g_cp_head' /\ g_cp_head' \in Nat
    BY <2>1, <2>2, CounterTypes DEF Read
  <2>4. Base' = g_cp_head'
    BY <2>1, <2>3 DEF Base
  <2>5. Top' = 0 /\ Read' - Base' = 0
    BY <2>1, <2>3, <2>4 DEF Top
  <2>6. QED
    BY <2>1, <2>5 DEF RowsInv
<1>3. QED
  BY <1>1, <1>2

LEMMA RowsSubmit ==
  ASSUME RingTypes, DriverInv, RowsInv, Submit
  PROVE  RowsInv'
<1>1. /\ mpc = "submit" /\ mpc' = "send" /\ asked < Upto(plan, goal) /\ ~RingFull
      /\ g_cp' = [g_cp EXCEPT ![g_cp_head % RING] = EntryOf(asked + 1)]
      /\ UNCHANGED <<call, plan, chunk, goal, asked, had, g_cp_head, g_cp_tail, g_cp_cons,
                     rpc, got, staging>>
  BY DEF Submit, rxVars
<1>2. Feeds /\ Base' = Base /\ Read' = Read /\ Top = asked /\ Top' = asked + 1
  BY <1>1 DEF Feeds, Base, Read, Top
<1>3. (\A n \in had + 1 .. asked : Noted(n)) /\ \A n \in 1 .. Read - Base : Kept(n)
  BY <1>2 DEF RowsInv
<1>4. /\ asked \in Nat /\ had \in Nat /\ g_cp_head \in Nat /\ g_cp_cons \in Nat /\ Base \in Int
      /\ Base + had = g_cp_cons /\ Base + asked = g_cp_head /\ Read \in Nat /\ Read - Base <= asked
  BY <1>2, CounterTypes, WindowFacts, NetTypes
<1>5. Base + (asked + 1) - 1 = g_cp_head /\ Base + (asked + 1) <= g_cp_cons + RING
  <2>1. ~(g_cp_head - g_cp_cons >= RING)
    BY <1>1 DEF RingFull
  <2>2. QED
    BY <2>1, <1>4, ConstantFacts
<1>6. asked + 1 \in DOMAIN plan
  <2>1. Upto(plan, goal) \in Nat /\ Upto(plan, goal) <= Len(plan) /\ Len(plan) \in Nat
    BY PlanFacts, CounterTypes
  <2>2. asked + 1 \in 1 .. Len(plan)
    BY <1>1, <1>4, <2>1
  <2>3. QED
    BY <2>2, PieceFacts
<1>7. g_cp \in [0 .. RING - 1 -> Entry] /\ g_cp_head % RING \in 0 .. RING - 1
  BY <1>4, RingInRange DEF RingTypes
<1>8. ASSUME NEW n \in Int, had < n, n < asked + 1
      PROVE  g_cp'[(Base + n - 1) % RING] = g_cp[(Base + n - 1) % RING]
  <2>1. Base + n - 1 \in Nat /\ (Base + n - 1) % RING # g_cp_head % RING
    <3>1. asked + 1 \in Int
      BY <1>4
    <3>2. QED
      BY <1>2, <1>5, <1>8, <3>1, EntryFacts
  <2>2. (Base + n - 1) % RING \in 0 .. RING - 1
    BY <2>1, RingInRange
  <2>3. QED
    BY <1>1, <1>7, <2>1, <2>2
<1>9. ASSUME NEW n \in had + 1 .. asked + 1 PROVE Noted(n)'
  <2>1. CASE n = asked + 1
    <3>1. g_cp'[(Base + n - 1) % RING] = EntryOf(asked + 1)
      BY <1>1, <1>5, <1>7, <2>1
    <3>2. EntryOf(asked + 1).buf = BufferOf(plan[n]) /\ EntryOf(asked + 1).at = PlaceOf(n)
      BY <2>1 DEF EntryOf
    <3>3. QED
      BY <1>1, <1>2, <1>6, <2>1, <3>1, <3>2 DEF Noted, BufferOf, PlaceOf, Upto
  <2>2. CASE n # asked + 1
    <3>1. n \in Int /\ had < n /\ n < asked + 1 /\ n \in had + 1 .. asked
      BY <1>4, <2>2
    <3>2. g_cp'[(Base + n - 1) % RING] = g_cp[(Base + n - 1) % RING] /\ Noted(n)
      BY <1>3, <1>8, <3>1
    <3>3. QED
      BY <1>1, <1>2, <3>2 DEF Noted, BufferOf, PlaceOf, Upto
  <2>3. QED
    BY <2>1, <2>2
<1>10. ASSUME NEW n \in 1 .. Read - Base PROVE Kept(n)'
  <2>1. had < n => g_cp'[(Base + n - 1) % RING] = g_cp[(Base + n - 1) % RING]
    <3>1. n \in Int /\ n < asked + 1
      BY <1>4
    <3>2. QED
      BY <1>8, <3>1
  <2>2. Spoilt(n) => Spoilt(n)'
    BY <1>1, <1>2, <1>4, <2>1 DEF Spoilt
  <2>3. InPlace(n) => InPlace(n)'
    BY <1>1 DEF InPlace, BufferOf, PlaceOf, Upto
  <2>4. QED
    BY <1>1, <1>3, <2>2, <2>3 DEF Kept
<1>11. QED
  BY <1>1, <1>2, <1>9, <1>10 DEF RowsInv

\* A piece waited for without an error is in its place.
LEMMA RowsWaited ==
  ASSUME RingTypes, DriverInv, RowsInv, WaitDone
  PROVE  RowsInv'
<1>1. CASE mpc' = "gone"
  BY <1>1 DEF RowsInv, Feeds
<1>2. CASE mpc' # "gone"
  <2>1. /\ mpc = "wait" /\ mpc' = "wait" /\ had' = had + 1 /\ g_cp_tail > g_cp_cons
        /\ ~g_cp[g_cp_cons % RING].err
        /\ UNCHANGED <<call, plan, chunk, asked, g_cp, g_cp_head, g_cp_tail, rpc, got, staging>>
    BY <1>2 DEF WaitDone, rxVars
  <2>2. Feeds /\ Base' = Base /\ Read' = Read /\ Top = asked /\ Top' = asked
    BY <2>1 DEF Feeds, Base, Read, Top
  <2>3. (\A n \in had + 1 .. asked : Noted(n)) /\ \A n \in 1 .. Read - Base : Kept(n)
    BY <2>2 DEF RowsInv
  <2>4. /\ asked \in Nat /\ had \in Nat /\ g_cp_tail \in Nat /\ g_cp_cons \in Nat
        /\ Base \in Int /\ Base + had = g_cp_cons /\ Read \in Nat
    BY <2>2, CounterTypes, WindowFacts, NetTypes
  <2>5. \A n : Noted(n)' <=> Noted(n)
    BY <2>1, <2>2 DEF Noted, BufferOf, PlaceOf, Upto
  <2>6. \A n \in had' + 1 .. asked : Noted(n)'
    BY <2>1, <2>3, <2>4, <2>5
  <2>7. ASSUME NEW n \in 1 .. Read - Base PROVE Kept(n)'
    <3>1. Spoilt(n) => Spoilt(n)'
      <4>1. CASE n = had + 1
        <5>1. Base + n - 1 = g_cp_cons /\ ~(Base + n > g_cp_tail)
          BY <2>1, <2>4, <4>1
        <5>2. ~Spoilt(n)
          BY <2>1, <5>1 DEF Spoilt
        <5>3. QED
          BY <5>2
      <4>2. CASE n # had + 1
        <5>1. n > had => n > had'
          BY <2>1, <2>4, <4>2
        <5>2. QED
          BY <2>1, <2>2, <5>1 DEF Spoilt
      <4>3. QED
        BY <4>1, <4>2
    <3>2. InPlace(n) => InPlace(n)'
      BY <2>1 DEF InPlace, BufferOf, PlaceOf, Upto
    <3>3. QED
      BY <2>1, <2>3, <3>1, <3>2 DEF Kept
  <2>8. QED
    BY <2>2, <2>6, <2>7 DEF RowsInv
<1>3. QED
  BY <1>1, <1>2

\* The entry the receiver reads for names the place of the piece whose rows come; no other
\* piece still needed has that place.
LEMMA RowsRead ==
  ASSUME RingTypes, DriverInv, NetInv, RowsInv, RxRead
  PROVE  RowsInv'
<1>1. /\ UNCHANGED <<mpc, call, plan, chunk, goal, asked, had, g_cp, g_cp_head, g_cp_tail, g_cp_cons>>
      /\ mpc # "gone" /\ rpc = "read" /\ rpc' = "store"
  BY DEF RxRead, driverVars, ringVars
<1>2. Read' = g_cp_tail + 1 /\ Read = g_cp_tail /\ g_cp_tail < g_cp_head
  BY <1>1 DEF Read, DriverInv
<1>3. Feeds /\ Feeds' /\ Base' = Base /\ Top' = Top
  BY <1>1, NothingRead, Phases DEF Feeds, Base, Top
<1>4. (\A n \in had + 1 .. Top : Noted(n)) /\ \A n \in 1 .. Read - Base : Kept(n)
  BY <1>3 DEF RowsInv
<1>5. /\ asked \in Nat /\ had \in Nat /\ g_cp_tail \in Nat /\ g_cp_cons \in Nat /\ g_cp_head \in Nat
      /\ Base \in Int /\ Base + had = g_cp_cons /\ Base + asked = g_cp_head
      /\ g_cp_cons <= g_cp_tail /\ asked <= Len(plan) /\ Len(plan) \in Nat
  BY <1>2, <1>3, CounterTypes, WindowFacts, PlanFacts
<1>6. \A n : Noted(n)' <=> Noted(n)
  BY <1>1, <1>3 DEF Noted, BufferOf, PlaceOf, Upto
<1>7. DEFINE m == g_cp_tail - Base + 1
<1>8. /\ m \in 1 .. Len(plan) /\ m \in had + 1 .. asked /\ Base + m - 1 = g_cp_tail
      /\ Read' - Base' = m /\ Read - Base = m - 1 /\ Base + m > g_cp_tail /\ m > had
  BY <1>2, <1>3, <1>5
<1>9. Noted(m)
  <2>1. asked <= Top /\ Top \in Int
    BY <1>5 DEF Top
  <2>2. m \in had + 1 .. Top
    BY <1>5, <1>8, <2>1
  <2>3. QED
    BY <1>4, <2>2
<1> HIDE DEF m
<1>10. DEFINE good == rep # <<>> /\ Head(rep).op = "chunk"
<1>11. CASE ~good
  <2>1. got' = TRUE /\ staging' = staging
    BY <1>11 DEF RxRead
  <2>2. ASSUME NEW n \in 1 .. m PROVE Kept(n)'
    <3>1. CASE n = m
      <4>1. Spoilt(n)'
        BY <1>1, <1>3, <1>8, <2>1, <3>1 DEF Spoilt
      <4>2. QED
        BY <4>1 DEF Kept
    <3>2. CASE n # m
      <4>1. n \in 1 .. Read - Base /\ ~(Base + n > g_cp_tail)
        BY <1>2, <1>5, <1>8, <3>2
      <4>2. Kept(n) /\ (Spoilt(n) => Spoilt(n)')
        BY <1>1, <1>3, <1>4, <4>1 DEF Spoilt
      <4>3. InPlace(n) => InPlace(n)'
        BY <1>1, <2>1 DEF InPlace, BufferOf, PlaceOf, Upto
      <4>4. QED
        BY <1>1, <4>2, <4>3 DEF Kept
    <3>3. QED
      BY <3>1, <3>2
  <2>3. QED
    BY <1>3, <1>4, <1>6, <1>1, <1>8, <2>2 DEF RowsInv
<1>12. CASE good
  <2>1. Head(rep).piece = <<call, m>>
    <3>1. Follows(rep, call, Read - Base) /\ Read - Base \in Int /\ Read - Base + 1 = m
      BY <1>2, <1>3, <1>5, <1>8 DEF NetInv
    <3>2. Head(rep) = [op |-> "chunk", piece |-> <<call, Read - Base + 1>>]
      BY <1>12, <3>1, NetTypes, FollowsTail
    <3>3. QED
      BY <3>1, <3>2
  <2>2. /\ g_cp[g_cp_tail % RING].buf = BufferOf(plan[m])
        /\ g_cp[g_cp_tail % RING].at = PlaceOf(m)
    BY <1>8, <1>9 DEF Noted
  <2>3. staging' = [staging EXCEPT ![BufferOf(plan[m])][PlaceOf(m)] = <<call, m>>]
    BY <1>12, <2>1, <2>2 DEF RxRead
  <2>4. /\ staging \in [Buffer -> [Piece -> Nat \X Nat]]
        /\ BufferOf(plan[m]) \in Buffer /\ PlaceOf(m) \in Piece
    BY <1>8, PieceFacts, BufferInRange DEF RingTypes
  <2>5. ASSUME NEW n \in 1 .. m, plan[n] >= chunk PROVE InPlace(n)' \/ Spoilt(n)'
    <3>1. CASE n = m
      <4>1. staging'[BufferOf(plan[n])][PlaceOf(n)] = <<call, n>>
        BY <2>3, <2>4, <3>1
      <4>2. QED
        BY <1>1, <4>1 DEF InPlace, BufferOf, PlaceOf, Upto
    <3>2. CASE n # m
      <4>1. n \in 1 .. Read - Base /\ ~(Base + n > g_cp_tail) /\ n \in 1 .. Len(plan) /\ n < m
        BY <1>2, <1>5, <1>8, <3>2
      <4>2. (InPlace(n) \/ Spoilt(n)) /\ (Spoilt(n) => Spoilt(n)')
        BY <1>1, <1>3, <1>4, <2>5, <4>1 DEF Spoilt, Kept
      <4>3. BufferOf(plan[n]) # BufferOf(plan[m]) \/ PlaceOf(n) # PlaceOf(m)
        <5>1. /\ plan[n] \in Nat /\ plan[m] \in Nat /\ plan[n] <= plan[m]
              /\ plan[n] = plan[m] => PlaceOf(n) # PlaceOf(m)
          BY <1>8, <4>1, PieceFacts
        <5>2. plan[m] <= goal
          <6>1. goal \in Int /\ asked <= Upto(plan, goal) /\ m <= asked
            BY <1>3, <1>5, <1>8, CounterTypes DEF DriverInv
          <6>2. InOrder(plan) /\ Upto(plan, goal) \in Nat
            BY <6>1, PlanFacts
          <6>3. m <= Upto(plan, goal)
            BY <1>5, <1>8, <6>1, <6>2
          <6>4. QED
            BY <1>8, <6>1, <6>2, <6>3, UptoFacts
        <5>3. goal <= chunk + LOOK
          BY <1>3, CounterTypes, ConstantFacts DEF DriverInv, Feeds
        <5>4. plan[m] - plan[n] <= LOOK
          BY <2>5, <5>1, <5>2, <5>3, CounterTypes, ConstantFacts
        <5>5. QED
          BY <5>1, <5>4, BuffersDiffer
      <4>4. /\ BufferOf(plan[n]) \in Buffer /\ PlaceOf(n) \in Piece
        BY <4>1, PieceFacts, BufferInRange
      <4>5. staging'[BufferOf(plan[n])][PlaceOf(n)] = staging[BufferOf(plan[n])][PlaceOf(n)]
        BY <2>3, <2>4, <4>3, <4>4
      <4>6. InPlace(n) => InPlace(n)'
        BY <1>1, <4>5 DEF InPlace, BufferOf, PlaceOf, Upto
      <4>7. QED
        BY <4>2, <4>6
    <3>3. QED
      BY <3>1, <3>2
  <2>6. \A n \in 1 .. m : Kept(n)'
    BY <1>1, <2>5 DEF Kept
  <2>7. QED
    BY <1>3, <1>4, <1>6, <1>1, <1>8, <2>6 DEF RowsInv
<1>13. QED
  BY <1>11, <1>12

LEMMA RowsStored ==
  ASSUME RingTypes, DriverInv, RowsInv, RxStore
  PROVE  RowsInv'
<1>1. /\ UNCHANGED <<mpc, call, plan, chunk, asked, had, g_cp_head, g_cp_cons, staging>>
      /\ mpc # "gone" /\ rpc = "store" /\ rpc' = "take" /\ g_cp_tail' = g_cp_tail + 1
      /\ g_cp' = [g_cp EXCEPT ![g_cp_tail % RING].err = got]
  BY DEF RxStore, driverVars
<1>2. Read = g_cp_tail + 1 /\ Read' = Read /\ g_cp_tail < g_cp_head
  BY <1>1 DEF Read, DriverInv
<1>3. Feeds /\ Base' = Base /\ Top' = Top
  BY <1>1, NothingRead, Phases DEF Base, Top
<1>4. (\A n \in had + 1 .. Top : Noted(n)) /\ \A n \in 1 .. Read - Base : Kept(n)
  BY <1>3 DEF RowsInv
<1>5. /\ had \in Nat /\ g_cp_tail \in Nat /\ g_cp_cons \in Nat /\ g_cp_head \in Nat
      /\ Base \in Int /\ Base + had = g_cp_cons /\ g_cp_cons <= g_cp_tail
      /\ g_cp_head - g_cp_cons <= RING /\ RING \in Nat /\ Top \in Int
  BY <1>3, CounterTypes, WindowFacts, ConstantFacts DEF DriverInv, Top
<1>6. g_cp \in [0 .. RING - 1 -> Entry] /\ g_cp_tail % RING \in 0 .. RING - 1
  BY <1>5, RingInRange DEF RingTypes
<1>7. \A j \in 0 .. RING - 1 : /\ g_cp'[j].buf = g_cp[j].buf /\ g_cp'[j].at = g_cp[j].at
                               /\ j # g_cp_tail % RING => g_cp'[j] = g_cp[j]
  BY <1>1, <1>6 DEF Entry
<1>8. g_cp'[g_cp_tail % RING].err = got
  BY <1>1, <1>6 DEF Entry
<1>9. ASSUME NEW n \in had + 1 .. Top PROVE Noted(n)'
  <2>1. Base + n - 1 \in Nat
    BY <1>5
  <2>2. (Base + n - 1) % RING \in 0 .. RING - 1
    BY <2>1, RingInRange
  <2>3. QED
    BY <1>1, <1>3, <1>4, <1>7, <2>2 DEF Noted, BufferOf, PlaceOf, Upto
<1>10. ASSUME NEW n \in 1 .. Read - Base, Spoilt(n) PROVE Spoilt(n)'
  <2>1. n > had /\ n <= g_cp_tail + 1 - Base /\ ~(Base + n > g_cp_tail + 1)
    BY <1>2, <1>5, <1>10 DEF Spoilt
  <2>2. CASE n = g_cp_tail + 1 - Base
    <3>1. Base + n > g_cp_tail /\ Base + n - 1 = g_cp_tail
      BY <1>5, <2>2
    <3>2. got
      BY <1>10, <3>1 DEF Spoilt
    <3>3. g_cp'[(Base + n - 1) % RING].err
      BY <1>8, <3>1, <3>2
    <3>4. QED
      BY <1>1, <1>3, <2>1, <3>3 DEF Spoilt
  <2>3. CASE n # g_cp_tail + 1 - Base
    <3>1. /\ n \in Int /\ had < n /\ n < g_cp_tail + 1 - Base /\ ~(Base + n > g_cp_tail)
          /\ g_cp_tail + 1 - Base \in Int /\ Base + (g_cp_tail + 1 - Base) <= g_cp_cons + RING
          /\ Base + (g_cp_tail + 1 - Base) - 1 = g_cp_tail
      BY <1>2, <1>5, <2>1, <2>3
    <3>2. Base + n - 1 \in Nat /\ (Base + n - 1) % RING # g_cp_tail % RING
      BY <1>3, <3>1, EntryFacts
    <3>3. (Base + n - 1) % RING \in 0 .. RING - 1
      BY <3>2, RingInRange
    <3>4. g_cp'[(Base + n - 1) % RING] = g_cp[(Base + n - 1) % RING]
      BY <1>7, <3>2, <3>3
    <3>5. g_cp[(Base + n - 1) % RING].err
      BY <1>10, <3>1 DEF Spoilt
    <3>6. QED
      BY <1>1, <1>3, <2>1, <3>4, <3>5 DEF Spoilt
  <2>4. QED
    BY <2>2, <2>3
<1>11. \A n : InPlace(n)' <=> InPlace(n)
  BY <1>1 DEF InPlace, BufferOf, PlaceOf, Upto
<1>12. ASSUME NEW n \in 1 .. Read - Base PROVE Kept(n)'
  <2>1. Kept(n) /\ (Spoilt(n) => Spoilt(n)') /\ (InPlace(n) => InPlace(n)')
    BY <1>4, <1>10, <1>11
  <2>2. chunk' = chunk /\ plan' = plan
    BY <1>1
  <2>3. QED
    BY <2>1, <2>2 DEF Kept
<1>13. \A n \in had' + 1 .. Top' : Noted(n)'
  BY <1>1, <1>3, <1>9
<1>14. \A n \in 1 .. Read' - Base' : Kept(n)'
  BY <1>2, <1>3, <1>12
<1>15. QED
  BY <1>13, <1>14 DEF RowsInv

LEMMA RowsKept == Spec => []RowsInv
<1>1. RingTypes /\ RingTypes' /\ DriverInv /\ DriverInv' /\ NetInv /\ RowsInv /\ [Next]_vars
      => RowsInv'
  <2>1. SUFFICES ASSUME RingTypes, RingTypes', DriverInv, DriverInv', NetInv, RowsInv, [Next]_vars
                 PROVE  RowsInv'
    OBVIOUS
  <2>2. CASE mpc' \in {"gone", "call", "reply"}
    BY <2>2 DEF RowsInv, Feeds
  <2>3. CASE Call \/ ComputeFails
    BY <2>3 DEF Call, ComputeFails, RowsInv, Feeds
  <2>4. CASE Reply
    BY <2>1, <2>4, RowsReply
  <2>5. CASE Submit
    BY <2>1, <2>5, RowsSubmit
  <2>6. CASE WaitDone
    BY <2>1, <2>6, RowsWaited
  <2>7. CASE RxRead
    BY <2>1, <2>7, RowsRead
  <2>8. CASE RxStore
    BY <2>1, <2>8, RowsStored
  <2>9. CASE /\ Send \/ Submitted \/ Waited \/ Computed
             /\ mpc' \notin {"gone", "call", "reply"}
    <3>1. /\ UNCHANGED <<plan, call, had, g_cp, g_cp_tail, got, staging, rpc>>
          /\ Feeds
      BY <2>9 DEF Send, Submitted, Waited, Computed, ringVars, rxVars, Feeds
    <3>2. Base' = Base /\ Top' = Top
      BY <2>1, <2>9, CounterTypes DEF Send, Submitted, Waited, Computed, ringVars, Base, Top
    <3>3. chunk <= chunk' /\ chunk' \in Nat
      BY <2>1, <2>9, CounterTypes DEF Send, Submitted, Waited, Computed
    <3>4. Read' = Read
      BY <3>1 DEF Read
    <3>5. QED
      BY <2>1, <3>1, <3>2, <3>3, <3>4, RowsQuiet
  <2>10. CASE RxTake \/ PeerTakes \/ PeerAnswers \/ Breaks \/ UNCHANGED vars
    <3>1. UNCHANGED <<mpc, plan, call, chunk, asked, had, g_cp, g_cp_head, g_cp_tail, got, staging>>
      BY <2>10 DEF RxTake, PeerTakes, PeerAnswers, Breaks, vars, driverVars, ringVars, rxVars
    <3>2. Read' = Read
      BY <2>10 DEF RxTake, PeerTakes, PeerAnswers, Breaks, vars, ringVars, rxVars, Read
    <3>3. Base' = Base /\ Top' = Top /\ Feeds' = Feeds
      BY <3>1 DEF Base, Top, Feeds
    <3>4. chunk' \in Nat /\ chunk <= chunk'
      BY <2>1, <3>1, CounterTypes
    <3>5. QED
      BY <2>1, <3>1, <3>2, <3>3, <3>4, RowsQuiet
  <2>11. QED
    BY <2>1, <2>2, <2>3, <2>4, <2>5, <2>6, <2>7, <2>8, <2>9, <2>10
    DEF Next, Driver, Receiver, Peer
<1>2. QED
  BY <1>1, RowsInit, Types, Drives, Nets, PTL DEF Spec

\* While Spark computes a chunk every place of its staging buffer holds the rows of its
\* own piece of this prompt, however far ahead the driver has asked and whatever failed.
THEOREM RowsInPlaceHolds == Spec => []RowsInPlace
<1>1. RingTypes /\ DriverInv /\ RowsInv => RowsInPlace
  <2>1. SUFFICES ASSUME RingTypes, DriverInv, RowsInv, mpc = "spark",
                        NEW i \in DOMAIN plan, plan[i] = chunk
                 PROVE  staging[BufferOf(chunk)][PlaceOf(i)] = <<call, i>>
    BY DEF RowsInPlace
  <2>2. Feeds /\ Upto(plan, chunk) <= had
    BY <2>1 DEF Feeds, DriverInv
  <2>3. i \in 1 .. Len(plan) /\ chunk \in Nat
    BY <2>1, CounterTypes DEF RingTypes, InOrder
  <2>4. i <= Upto(plan, chunk) /\ Upto(plan, chunk) \in Nat
    <3>1. InOrder(plan) /\ chunk \in Int /\ plan[i] <= chunk
      BY <2>1, <2>3, PlanFacts
    <3>2. QED
      BY <2>3, <3>1, UptoFacts
  <2>5. i <= had /\ i \in 1 .. Read - Base
    <3>1. had <= Read - Base
      BY <2>1, <2>2, WindowFacts
    <3>2. had \in Nat /\ Read \in Nat /\ Base \in Int /\ i \in Nat /\ i >= 1
      BY <2>1, <2>3, CounterTypes, NetTypes
    <3>3. i <= had
      BY <2>2, <2>4, <3>2
    <3>4. QED
      BY <3>1, <3>2, <3>3
  <2>6. ~Spoilt(i) /\ plan[i] >= chunk
    BY <2>1, <2>3, <2>5, CounterTypes DEF Spoilt
  <2>7. InPlace(i)
    BY <2>1, <2>2, <2>5, <2>6 DEF RowsInv, Kept
  <2>8. QED
    BY <2>1, <2>7 DEF InPlace
<1>2. QED
  BY <1>1, Types, Drives, RowsKept, PTL

=============================================================================
