--------------------------- MODULE RowState_proofs ---------------------------
(***************************************************************************)
(* Proofs about RowState.                                                  *)
(*                                                                         *)
(* TypeCorrect rests on Typed: beside the types, the steps of the driver   *)
(* go with the mode of the run, the texts of the rows in use have as many  *)
(* tokens as their positions say, and the steps and calls still to make    *)
(* keep every position below MaxPos.                                       *)
(*                                                                         *)
(* What the rows hold is the invariant Follows: one conjunct per phase of  *)
(* the driver, which says of each box how much of which text it has run.   *)
(* While a prompt or a suffix goes through the chunks, the AMD prefix has  *)
(* arow tokens, Spark at chunks, and the staging buffers of the chunks     *)
(* between them, at most NBuf of them, hold exactly the residuals that     *)
(* Spark has not read.  A row holds the KV of its text up to where it has  *)
(* come; what is behind that, left there by an earlier run, is not read.   *)
(* The single-row exit is what HasPrefix relies on: when it is valid, the  *)
(* prefix of its token has been run and nothing on the AMD row has changed *)
(* since.                                                                  *)
(*                                                                         *)
(* The indexer pools are read beyond the dense range only, and not every   *)
(* box has them everywhere.  Within the reach of the AMD server (Within),  *)
(* texts are in the dense range (Dense) or the server is in its first run, *)
(* and then its rows carry the pools of their texts as well (Holding).     *)
(* Only the single-row buffers of Spark carry pools (Tailing): what they    *)
(* hold is Covered in the dense range, or where no chunk takes the batched *)
(* body; what several rows hold is Covered in the dense range only.        *)
(*                                                                         *)
(* A loop of one row (LoneLoop) is left out of the theorems: its render    *)
(* runs in the single-row buffers and its commit copies the M-row buffers. *)
(***************************************************************************)
EXTENDS RowState, Remainders, SequenceTheorems, FiniteSetTheorems, WellFoundedInduction, TLAPS

-----------------------------------------------------------------------------
(* Constants, and prefixes of a text. *)

\* The texts stay where the indexer selects nothing: no position that is kept has
\* more than TopK complete blocks before it.
Dense == MaxPos \div IdxC <= TopK

LEMMA ConstantFacts ==
  /\ Rows \in Nat \ {0} /\ 1 \in Row /\ Row \subseteq Nat \ {0} /\ NBuf = 3 /\ Look = 2
  /\ MaxPos \in Nat /\ Context \in Nat /\ MaxRefill \in Nat \ {0} /\ AmdChunk \in Nat \ {0}
  /\ IdxC \in Nat \ {0} /\ TopK \in Nat /\ SpecMaxT \in Nat
  /\ RenderSteps \in Nat \ {0} /\ RenderCalls \in Nat \ {0} /\ Loops \in Nat \ {0}
  /\ Token \subseteq Nat \ {0}
  /\ Context + MaxRefill < MaxPos /\ Context + RenderSteps * RenderCalls < MaxPos
  /\ 0 \in Pos /\ \A q \in Int : q \in Pos <=> 0 <= q /\ q < MaxPos
BY RowAssumption, SMT DEF RowAssumption, Row, Pos, NBuf, Look

LEMMA PrefixFacts ==
  ASSUME NEW S, NEW t \in Seq(S), NEW p \in 0 .. Len(t)
  PROVE  /\ Prefix(t, p) \in Seq(S) /\ Len(Prefix(t, p)) = p
         /\ \A i \in 1 .. p : Prefix(t, p)[i] = t[i]
<1>1. Len(t) \in Nat /\ p \in Int /\ 1 \in Int
  BY LenProperties
<1>2. \A i \in 1 .. p : t[i] \in S
  BY <1>1, ElementOfSeq
<1>3. /\ SubSeq(t, 1, p) \in Seq(S) /\ Len(SubSeq(t, 1, p)) = IF 1 <= p THEN p - 1 + 1 ELSE 0
      /\ \A i \in 1 .. p - 1 + 1 : SubSeq(t, 1, p)[i] = t[1 + i - 1]
  BY <1>1, <1>2, SubSeqProperties
<1>4. p - 1 + 1 = p /\ (~(1 <= p) => p = 0) /\ \A i \in 1 .. p : 1 + i - 1 = i
  BY <1>1
<1>5. QED
  BY <1>3, <1>4 DEF Prefix

LEMMA PrefixFull ==
  ASSUME NEW S, NEW t \in Seq(S)
  PROVE  Prefix(t, Len(t)) = t
BY SubSeqFull DEF Prefix

\* A prefix is known by what it holds.
LEMMA PrefixSame ==
  ASSUME NEW S, NEW t \in Seq(S), NEW u \in Seq(S), NEW p \in 0 .. Len(t), p <= Len(u),
         \A i \in 1 .. p : t[i] = u[i]
  PROVE  Prefix(t, p) = Prefix(u, p)
<1>1. p \in 0 .. Len(u)
  BY LenProperties
<1>2. QED
  BY <1>1, PrefixFacts, SeqEqual

LEMMA PrefixOfPrefix ==
  ASSUME NEW S, NEW t \in Seq(S), NEW p \in 0 .. Len(t), NEW k \in 0 .. p
  PROVE  Prefix(Prefix(t, p), k) = Prefix(t, k)
<1>1. /\ Prefix(t, p) \in Seq(S) /\ Len(Prefix(t, p)) = p
      /\ \A i \in 1 .. p : Prefix(t, p)[i] = t[i]
  BY PrefixFacts
<1>2. k \in 0 .. Len(Prefix(t, p)) /\ k <= Len(t) /\ \A i \in 1 .. k : i \in 1 .. p
  BY <1>1, LenProperties
<1>3. QED
  BY <1>1, <1>2, PrefixSame

LEMMA PrefixFront ==
  ASSUME NEW S, NEW t \in Seq(S), NEW p \in 1 .. Len(t)
  PROVE  Front(Prefix(t, p)) = Prefix(t, p - 1)
<1>1. Len(t) \in Nat /\ p \in 0 .. Len(t) /\ p - 1 \in 0 .. p
  BY LenProperties
<1>2. Len(Prefix(t, p)) = p
  BY <1>1, PrefixFacts
<1>3. Front(Prefix(t, p)) = Prefix(Prefix(t, p), p - 1)
  BY <1>2 DEF Front, Prefix
<1>4. QED
  BY <1>1, <1>3, PrefixOfPrefix

LEMMA FrontIsPrefix == \A t : Front(t) = Prefix(t, Len(t) - 1)
BY DEF Front, Prefix

LEMMA PrefixConcat ==
  ASSUME NEW S, NEW t \in Seq(S), NEW u \in Seq(S), NEW p \in 0 .. Len(t)
  PROVE  Prefix(t \o u, p) = Prefix(t, p)
<1>1. Len(t) \in Nat /\ Len(u) \in Nat
  BY LenProperties
<1>2. /\ t \o u \in Seq(S) /\ Len(t \o u) = Len(t) + Len(u)
      /\ \A i \in 1 .. Len(t) + Len(u) : (t \o u)[i] = IF i <= Len(t) THEN t[i] ELSE u[i - Len(t)]
  BY ConcatProperties
<1>3. p <= Len(t \o u) /\ \A i \in 1 .. p : t[i] = (t \o u)[i]
  BY <1>1, <1>2
<1>4. QED
  BY <1>2, <1>3, PrefixSame

LEMMA PrefixAppend ==
  ASSUME NEW S, NEW t \in Seq(S), NEW e \in S, NEW p \in 0 .. Len(t)
  PROVE  Prefix(Append(t, e), p) = Prefix(t, p)
<1>1. Append(t, e) = t \o <<e>> /\ <<e>> \in Seq(S)
  BY AppendIsConcat
<1>2. Prefix(t \o <<e>>, p) = Prefix(t, p)
  BY <1>1, PrefixConcat
<1>3. QED
  BY <1>1, <1>2

\* The m elements after the first p.
LEMMA SliceFacts ==
  ASSUME NEW S, NEW t \in Seq(S), NEW p \in Nat, NEW m \in Nat, p + m <= Len(t)
  PROVE  /\ SubSeq(t, p + 1, p + m) \in Seq(S) /\ Len(SubSeq(t, p + 1, p + m)) = m
         /\ \A i \in 1 .. m : SubSeq(t, p + 1, p + m)[i] = t[p + i]
<1>1. p + 1 \in Int /\ p + m \in Int /\ Len(t) \in Nat
  BY LenProperties
<1>2. \A i \in p + 1 .. p + m : t[i] \in S
  BY <1>1, ElementOfSeq
<1>3. /\ SubSeq(t, p + 1, p + m) \in Seq(S)
      /\ Len(SubSeq(t, p + 1, p + m)) = IF p + 1 <= p + m THEN p + m - (p + 1) + 1 ELSE 0
      /\ \A i \in 1 .. p + m - (p + 1) + 1 : SubSeq(t, p + 1, p + m)[i] = t[p + 1 + i - 1]
  BY <1>1, <1>2, SubSeqProperties
<1>4. /\ (IF p + 1 <= p + m THEN p + m - (p + 1) + 1 ELSE 0) = m
      /\ p + m - (p + 1) + 1 = m /\ \A i \in 1 .. m : p + 1 + i - 1 = p + i
  OBVIOUS
<1>5. QED
  BY <1>3, <1>4

\* A prefix and what follows it.
LEMMA PrefixOn ==
  ASSUME NEW S, NEW t \in Seq(S), NEW p \in Nat, NEW m \in Nat, p + m <= Len(t), NEW k \in 1 .. m
  PROVE  Prefix(t, p) \o Prefix(SubSeq(t, p + 1, p + m), k) = Prefix(t, p + k)
<1> DEFINE s == SubSeq(t, p + 1, p + m)
           u == Prefix(s, k)
<1>1. Len(t) \in Nat /\ p \in 0 .. Len(t) /\ p + k \in 0 .. Len(t)
  BY LenProperties
<1>3. s \in Seq(S) /\ Len(s) = m /\ \A i \in 1 .. m : s[i] = t[p + i]
  BY SliceFacts
<1> HIDE DEF s
<1>4. u \in Seq(S) /\ Len(u) = k /\ \A i \in 1 .. k : u[i] = t[p + i]
  <2>1. k \in 0 .. Len(s) /\ \A i \in 1 .. k : i \in 1 .. m
    BY <1>3
  <2>2. u \in Seq(S) /\ Len(u) = k /\ \A i \in 1 .. k : u[i] = s[i]
    BY <1>3, <2>1, PrefixFacts
  <2>3. QED
    BY <1>3, <2>1, <2>2
<1>5. /\ Prefix(t, p) \in Seq(S) /\ Len(Prefix(t, p)) = p
      /\ \A i \in 1 .. p : Prefix(t, p)[i] = t[i]
  BY <1>1, PrefixFacts
<1>6. /\ Prefix(t, p + k) \in Seq(S) /\ Len(Prefix(t, p + k)) = p + k
      /\ \A i \in 1 .. p + k : Prefix(t, p + k)[i] = t[i]
  BY <1>1, PrefixFacts
<1> HIDE DEF u
<1>7. /\ Prefix(t, p) \o u \in Seq(S) /\ Len(Prefix(t, p) \o u) = p + k
      /\ \A i \in 1 .. p + k : (Prefix(t, p) \o u)[i] = IF i <= p THEN Prefix(t, p)[i] ELSE u[i - p]
  <2> DEFINE w == Prefix(t, p)
  <2>1. w \in Seq(S) /\ u \in Seq(S) /\ Len(w) = p /\ Len(u) = k
    BY <1>4, <1>5
  <2> HIDE DEF w
  <2>2. /\ w \o u \in Seq(S) /\ Len(w \o u) = Len(w) + Len(u)
        /\ \A i \in 1 .. Len(w) + Len(u) : (w \o u)[i] = IF i <= Len(w) THEN w[i] ELSE u[i - Len(w)]
    BY <2>1, ConcatProperties
  <2>3. QED
    BY <2>1, <2>2 DEF w
<1>8. \A i \in 1 .. p + k : (Prefix(t, p) \o u)[i] = t[i]
  BY <1>4, <1>5, <1>7
<1>9. Prefix(t, p) \o u = Prefix(t, p + k)
  BY <1>6, <1>7, <1>8, SeqEqual
<1>10. QED
  BY <1>9 DEF s, u

-----------------------------------------------------------------------------
(* A pass over a row that is at position p of a text. *)

\* The row x is at position p of the text t.
At(x, t, p) == x.rec = Prefix(t, p) /\ \A q \in 0 .. p - 1 : x.kv[q] = Prefix(t, q + 1)

\* How many of the first p positions fall into block b.
PoolCount(p, b) == IF p <= b * IdxC THEN 0 ELSE IF p <= b * IdxC + IdxC THEN p - b * IdxC ELSE IdxC
PoolOf(t, p, b) == [j \in 1 .. PoolCount(p, b) |-> Prefix(t, b * IdxC + j)]
\* Block b is among the first p positions with all of its own.
Whole(b, p) == (b + 1) * IdxC <= p
\* Its pools have the first p positions, and each complete block its key.
Pools(x, t, p) ==
  /\ p <= MaxPos
  /\ \A b \in Block : /\ x.sum[b] = PoolOf(t, p, b)
                      /\ Whole(b, p) => x.key[b] = BlockOf(t, b)

\* The row is there; on a server in its first run (s = 1), its pools are too.
Holding(s, x, t, p) == At(x, t, p) /\ (s = 1 => Pools(x, t, p))

\* The values of the positions p + 1 .. p + m of the text t.
Values(t, p, m) == [i \in 1 .. m |-> Prefix(t, p + i)]

\* The keys that the m positions after p select from are those of the text.
Known(y, t, p, m, blocks) == \A i \in 1 .. m : KeysHold(y, Prefix(t, p + i), blocks[p + i - 1])

Selector == {AmdBlocks, SparkBlocks, NoBlocks}

LEMMA QuotientGrows ==
  ASSUME NEW d \in Nat \ {0}, NEW a \in Nat, NEW b \in Nat, a <= b
  PROVE  a \div d <= b \div d
<1>1. /\ a \div d \in Int /\ a = d * (a \div d) + (a % d) /\ a % d \in 0 .. d - 1
      /\ b \div d \in Int /\ b = d * (b \div d) + (b % d) /\ b % d \in 0 .. d - 1
  BY Division
<1>2. PICK u \in Int, v \in Int, y \in 0 .. d - 1, z \in 0 .. d - 1 :
        u = a \div d /\ v = b \div d /\ y = a % d /\ z = b % d
  BY <1>1
<1>3. a = d * u + y /\ b = d * v + z
  BY <1>1, <1>2
<1>4. SUFFICES ASSUME u - v >= 1 PROVE FALSE
  BY <1>2
<1>5. d * (u - v) >= d
  BY <1>4, ProductGrows
<1>6. d * (u - v) = d * u - d * v
  OBVIOUS
<1>7. QED
  BY <1>3, <1>5, <1>6

LEMMA SelectsNothing ==
  ASSUME Dense, NEW x, NEW h, NEW blocks \in Selector, NEW q \in Pos
  PROVE  KeysHold(x, h, blocks[q])
<1>1. q \in Nat /\ q + 1 <= MaxPos /\ IdxC \in Nat \ {0} /\ MaxPos \in Nat /\ TopK \in Nat
  BY ConstantFacts DEF Pos
<1>2. (q + 1) \div IdxC <= MaxPos \div IdxC /\ q \div IdxC <= MaxPos \div IdxC
  BY <1>1, QuotientGrows
<1>3. (q + 1) \div IdxC \in Int /\ q \div IdxC \in Int /\ MaxPos \div IdxC \in Int
  BY <1>1, Division
<1>4. blocks[q] \in {(q + 1) \div IdxC, q \div IdxC, 0}
  BY DEF Selector, AmdBlocks, SparkBlocks, NoBlocks
<1>5. ~(blocks[q] > TopK)
  BY <1>1, <1>2, <1>3, <1>4 DEF Dense
<1>6. QED
  BY <1>5 DEF KeysHold

\* In the dense range no body of Spark has to select.
LEMMA InRange ==
  ASSUME Dense, NEW q \in Pos
  PROVE  SparkBlocks[q] <= TopK
<1>1. q \in Nat /\ q <= MaxPos /\ IdxC \in Nat \ {0} /\ MaxPos \in Nat /\ TopK \in Nat
  BY ConstantFacts DEF Pos
<1>2. q \div IdxC <= MaxPos \div IdxC
  BY <1>1, QuotientGrows
<1>3. q \div IdxC \in Int /\ MaxPos \div IdxC \in Int
  BY <1>1, Division
<1>4. QED
  BY <1>1, <1>2, <1>3 DEF Dense, SparkBlocks

\* A text is never taken for a wrong value.
LEMMA NotWrong ==
  ASSUME NEW t \in Seq(Token), NEW p \in 1 .. Len(t)
  PROVE  Prefix(t, p) # Wrong
<1>1. Len(t) \in Nat /\ p \in 0 .. Len(t)
  BY LenProperties
<1>2. 1 \in 1 .. p /\ 1 \in 1 .. Len(t)
  BY <1>1
<1>3. Prefix(t, p)[1] = t[1]
  BY <1>1, <1>2, PrefixFacts
<1>4. t[1] \in Token
  BY <1>2, ElementOfSeq
<1>5. QED
  BY <1>3, <1>4, ConstantFacts DEF Wrong

\* Each value that enters is the one that the row at its text computes.
LEMMA OutIsText ==
  ASSUME NEW t \in Seq(Token), NEW p \in Nat, NEW m \in Nat, p + m <= Len(t), p + m <= MaxPos,
         NEW x, At(x, t, p), NEW y, NEW blocks \in Selector,
         Known(y, t, p, m, blocks)
  PROVE  Out(x, y, Values(t, p, m), p, blocks) = Values(t, p, m)
<1> DEFINE v == Values(t, p, m)
           ok(i) == /\ Enters(x, v, p, i)
                    /\ CacheHolds(x, v[i], p)
                    /\ KeysHold(y, v[i], blocks[p + i - 1])
<1>1. Len(t) \in Nat /\ DOMAIN v = 1 .. m /\ \A i \in 1 .. m : v[i] = Prefix(t, p + i)
  BY LenProperties DEF Values
<1>2. ASSUME NEW i \in 1 .. m PROVE ok(i)
  <2>1. p + i \in 1 .. Len(t) /\ p + i \in 0 .. Len(t) /\ p + i - 1 \in Pos
    BY <1>1, ConstantFacts DEF Pos
  <2>2. v[i] = Prefix(t, p + i) /\ v[i] # Wrong /\ Len(v[i]) = p + i
    BY <1>1, <2>1, NotWrong, PrefixFacts
  <2>3. Front(v[i]) = Prefix(t, p + i - 1)
    BY <2>1, <2>2, PrefixFront
  <2>4. Front(v[i]) = IF i = 1 THEN x.rec ELSE v[i - 1]
    <3>1. CASE i = 1
      <4>1. p + i - 1 = p
        BY <3>1
      <4>2. QED
        BY <2>3, <3>1, <4>1 DEF At
    <3>2. CASE i # 1
      <4>1. i - 1 \in 1 .. m /\ p + (i - 1) = p + i - 1
        BY <3>2
      <4>2. v[i - 1] = Prefix(t, p + i - 1)
        BY <1>1, <4>1
      <4>3. QED
        BY <2>3, <3>2, <4>2
    <3>3. QED
      BY <3>1, <3>2
  <2>5. CacheHolds(x, v[i], p)
    <3>1. ASSUME NEW k \in 0 .. p - 1 PROVE x.kv[k] = Prefix(v[i], k + 1)
      <4>1. k + 1 \in 0 .. p + i
        OBVIOUS
      <4>2. Prefix(v[i], k + 1) = Prefix(t, k + 1)
        BY <2>1, <2>2, <4>1, PrefixOfPrefix
      <4>3. QED
        BY <4>2 DEF At
    <3>2. QED
      BY <3>1 DEF CacheHolds
  <2>6. KeysHold(y, v[i], blocks[p + i - 1])
    BY <2>2 DEF Known
  <2>7. QED
    BY <2>2, <2>4, <2>5, <2>6 DEF Enters
<1> DEFINE good == {i \in DOMAIN v : \A j \in 1 .. i : ok(j)}
<1>3. good = DOMAIN v
  <2>1. ASSUME NEW i \in 1 .. m, NEW j \in 1 .. i PROVE ok(j)
    <3>1. j \in 1 .. m
      OBVIOUS
    <3>2. QED
      BY <3>1, <1>2
  <2> HIDE DEF ok
  <2>2. QED
    BY <1>1, <2>1
<1>4. Out(x, y, v, p, blocks) = [i \in DOMAIN v |-> IF i \in good THEN v[i] ELSE Wrong]
  BY DEF Out
<1> HIDE DEF good, ok
<1>5. Out(x, y, v, p, blocks) = [i \in DOMAIN v |-> v[i]]
  BY <1>3, <1>4
<1>6. QED
  BY <1>5 DEF Values

\* What a row keeps of the values of a pass.
LEMMA KeepIsAt ==
  ASSUME NEW t \in Seq(Token), NEW p \in Nat, NEW m \in Nat \ {0}, p + m <= Len(t), p + m <= MaxPos,
         NEW y \in RowRec, \A q \in 0 .. p - 1 : y.kv[q] = Prefix(t, q + 1)
  PROVE  At(Keep(y, Values(t, p, m), p), t, p + m)
<1> DEFINE o == Values(t, p, m)
           z == Keep(y, o, p)
<1>1. o \in Seq(Seq(Token)) /\ Len(o) = m /\ \A i \in 1 .. m : o[i] = Prefix(t, p + i)
  <2>1. ASSUME NEW i \in 1 .. m PROVE Prefix(t, p + i) \in Seq(Token)
    <3>1. Len(t) \in Nat
      BY LenProperties
    <3>2. p + i \in 0 .. Len(t)
      BY <3>1
    <3>3. QED
      BY <3>2, PrefixFacts
  <2>2. o = [i \in 1 .. m |-> Prefix(t, p + i)]
    BY DEF Values
  <2> HIDE DEF o
  <2>3. o \in [1 .. m -> Seq(Token)] /\ \A i \in 1 .. m : o[i] = Prefix(t, p + i)
    BY <2>1, <2>2
  <2>4. o \in Seq(Seq(Token)) /\ Len(o) = m
    BY <2>3
  <2>5. QED
    BY <2>3, <2>4
<1> HIDE DEF o
<1>2. /\ z.rec = o[m]
      /\ z.kv = [q \in Pos |-> IF q \in p .. p + m - 1 THEN o[q - p + 1] ELSE y.kv[q]]
  <2>1. Last(o) = o[m] /\ Len(o) = m
    BY <1>1 DEF Last
  <2>2. QED
    BY <2>1 DEF Keep, RowRec
<1>3. z.rec = Prefix(t, p + m)
  BY <1>1, <1>2
<1>4. ASSUME NEW q \in 0 .. p + m - 1 PROVE z.kv[q] = Prefix(t, q + 1)
  <2>1. q \in Pos
    BY ConstantFacts DEF Pos
  <2>2. CASE q <= p - 1
    <3>1. q \in 0 .. p - 1 /\ q \notin p .. p + m - 1
      BY <2>2
    <3>2. QED
      BY <1>2, <2>1, <3>1
  <2>3. CASE q >= p
    <3>1. q \in p .. p + m - 1 /\ q - p + 1 \in 1 .. m /\ p + (q - p + 1) = q + 1
      BY <2>3
    <3>2. z.kv[q] = o[q - p + 1]
      BY <1>2, <2>1, <3>1
    <3>3. QED
      BY <1>1, <3>1, <3>2
  <2>4. QED
    BY <2>2, <2>3
<1> HIDE DEF z
<1>5. At(z, t, p + m)
  BY <1>3, <1>4 DEF At
<1>6. QED
  BY <1>5 DEF z, o

LEMMA InBlockType ==
  ASSUME NEW S, NEW v \in Seq(S), NEW p \in Nat, NEW b \in Nat
  PROVE  InBlock(v, p, b) \in Seq(S)
<1>1. b * IdxC \in Int /\ (b + 1) * IdxC \in Int /\ Len(v) \in Nat
  BY ConstantFacts, LenProperties
<1>2. PICK u \in Int, w \in Int : u = b * IdxC /\ w = (b + 1) * IdxC
  BY <1>1
<1>3. Max({u, p}) \in {u, p} /\ Max({u, p}) >= p
  <2>1. \E x \in {u, p} : \A y \in {u, p} : x >= y
    BY <1>2
  <2>2. QED
    BY <2>1 DEF Max
<1>4. Min({w, p + Len(v)}) \in {w, p + Len(v)} /\ Min({w, p + Len(v)}) <= p + Len(v)
  <2>1. \E x \in {w, p + Len(v)} : \A y \in {w, p + Len(v)} : x =< y
    BY <1>1, <1>2
  <2>2. QED
    BY <2>1 DEF Min
<1>5. PICK i \in Int, j \in Int : /\ i = Max({u, p}) - p + 1 /\ j = Min({w, p + Len(v)}) - p
                                  /\ i >= 1 /\ j <= Len(v)
  BY <1>1, <1>2, <1>3, <1>4
<1>6. \A k \in i .. j : v[k] \in S
  BY <1>1, <1>5, ElementOfSeq
<1>7. SubSeq(v, i, j) \in Seq(S)
  BY <1>6, SubSeqProperties
<1>8. QED
  BY <1>2, <1>5, <1>7 DEF InBlock

LEMMA BlockIsNat == Block \subseteq Nat
<1>1. MaxPos \div IdxC \in Int
  BY ConstantFacts, Division
<1>2. QED
  BY <1>1 DEF Block

LEMMA PoolRowsType ==
  ASSUME NEW x \in RowRec, NEW v \in Seq(Seq(Nat)), NEW p \in Nat
  PROVE  /\ PoolRows(x, v, p) \in RowRec
         /\ PoolRows(x, v, p).rec = x.rec /\ PoolRows(x, v, p).kv = x.kv
<1> DEFINE new(b) == x.sum[b] \o InBlock(v, p, b)
           sum == [b \in Block |-> new(b)]
           key == [b \in Block |-> IF InBlock(v, p, b) # <<>> /\ Len(new(b)) = IdxC
                                   THEN new(b) ELSE x.key[b]]
<1>1. ASSUME NEW b \in Block PROVE new(b) \in Seq(Seq(Nat)) /\ x.key[b] \in Seq(Seq(Nat))
  <2>1. x.sum[b] \in Seq(Seq(Nat)) /\ x.key[b] \in Seq(Seq(Nat))
    BY DEF RowRec
  <2>2. InBlock(v, p, b) \in Seq(Seq(Nat))
    BY InBlockType, BlockIsNat
  <2>3. QED
    BY <2>1, <2>2, ConcatProperties
<1>2. PoolRows(x, v, p) = [x EXCEPT !.sum = sum, !.key = key]
  BY DEF PoolRows
<1> HIDE DEF new
<1>3. sum \in [Block -> Seq(Seq(Nat))] /\ key \in [Block -> Seq(Seq(Nat))]
  BY <1>1
<1> HIDE DEF sum, key
<1>4. QED
  BY <1>2, <1>3 DEF RowRec

LEMMA OutType ==
  ASSUME NEW x, NEW y, NEW v \in Seq(Seq(Nat)), NEW p, NEW blocks
  PROVE  Out(x, y, v, p, blocks) \in Seq(Seq(Nat)) /\ Len(Out(x, y, v, p, blocks)) = Len(v)
<1> DEFINE ok(i) == /\ Enters(x, v, p, i)
                    /\ CacheHolds(x, v[i], p)
                    /\ KeysHold(y, v[i], blocks[p + i - 1])
           good == {i \in DOMAIN v : \A j \in 1 .. i : ok(j)}
           o == [i \in DOMAIN v |-> IF i \in good THEN v[i] ELSE Wrong]
<1>1. Out(x, y, v, p, blocks) = o
  BY DEF Out
<1>2. Len(v) \in Nat /\ DOMAIN v = 1 .. Len(v) /\ \A i \in 1 .. Len(v) : v[i] \in Seq(Nat)
  BY LenProperties, ElementOfSeq
<1>3. Wrong \in Seq(Nat)
  BY DEF Wrong
<1> HIDE DEF good
<1>4. o \in [1 .. Len(v) -> Seq(Nat)]
  BY <1>2, <1>3
<1>5. o \in Seq(Seq(Nat)) /\ Len(o) = Len(v)
  BY <1>2, <1>4
<1>6. QED
  BY <1>1, <1>5

LEMMA KeepType ==
  ASSUME NEW y \in RowRec, NEW o \in Seq(Seq(Nat)), o # <<>>, NEW p \in Nat
  PROVE  Keep(y, o, p) \in RowRec
<1>1. Len(o) \in Nat \ {0} /\ \A i \in 1 .. Len(o) : o[i] \in Seq(Nat)
  BY EmptySeq, ElementOfSeq
<1>2. Last(o) \in Seq(Nat)
  BY <1>1 DEF Last
<1> DEFINE kv == [q \in Pos |-> IF q \in p .. p + Len(o) - 1 THEN o[q - p + 1] ELSE y.kv[q]]
<1>3. kv \in [Pos -> Seq(Nat)]
  <2>1. ASSUME NEW q \in Pos PROVE kv[q] \in Seq(Nat)
    <3>1. y.kv[q] \in Seq(Nat)
      BY DEF RowRec
    <3>2. q \in p .. p + Len(o) - 1 => q - p + 1 \in 1 .. Len(o)
      BY <1>1 DEF Pos
    <3>3. QED
      BY <1>1, <3>1, <3>2
  <2>2. QED
    BY <2>1
<1>4. Keep(y, o, p) = [y EXCEPT !.rec = Last(o), !.kv = kv]
  BY DEF Keep, RowRec
<1> HIDE DEF kv
<1>5. QED
  BY <1>2, <1>3, <1>4 DEF RowRec

\* Whatever is in the row and in the values, a pass gives a row and a value for each.
LEMMA AmdInType ==
  ASSUME NEW x \in RowRec, NEW toks \in Seq(Token)
  PROVE  AmdIn(x, toks) \in Seq(Seq(Nat)) /\ Len(AmdIn(x, toks)) = Len(toks)
<1>1. Len(toks) \in Nat /\ DOMAIN toks = 1 .. Len(toks)
  BY LenProperties
<1>2. Wrong \in Seq(Nat) /\ x.rec \in Seq(Nat)
  BY DEF Wrong, RowRec
<1>3. toks \in Seq(Nat)
  <2>1. \A i \in 1 .. Len(toks) : toks[i] \in Nat
    BY ElementOfSeq, ConstantFacts
  <2>2. QED
    BY <1>1, <2>1, LenProperties
<1>4. ASSUME NEW i \in 1 .. Len(toks) PROVE x.rec \o Prefix(toks, i) \in Seq(Nat)
  <2>1. i \in 0 .. Len(toks)
    BY <1>1
  <2>2. Prefix(toks, i) \in Seq(Nat)
    BY <1>3, <2>1, PrefixFacts
  <2>3. QED
    BY <1>2, <2>2, ConcatProperties
<1> DEFINE v == [i \in DOMAIN toks |-> IF x.rec = Wrong THEN Wrong ELSE x.rec \o Prefix(toks, i)]
<1>5. v \in [1 .. Len(toks) -> Seq(Nat)]
  BY <1>1, <1>2, <1>4
<1> HIDE DEF v
<1>6. v \in Seq(Seq(Nat)) /\ Len(v) = Len(toks)
  BY <1>1, <1>5
<1>7. QED
  BY <1>6 DEF v, AmdIn

LEMMA IsSequence ==
  ASSUME NEW S, NEW k \in Nat, NEW w \in [1 .. k -> S]
  PROVE  w \in Seq(S) /\ Len(w) = k
OBVIOUS

LEMMA PassType ==
  ASSUME NEW x \in RowRec, NEW y \in RowRec, NEW v \in Seq(Seq(Nat)), v # <<>>, NEW p \in Nat, NEW blocks
  PROVE  /\ Out(x, y, v, p, blocks) \in Seq(Seq(Nat)) /\ Len(Out(x, y, v, p, blocks)) = Len(v)
         /\ Out(x, y, v, p, blocks)[1] \in Seq(Nat)
         /\ Keep(y, Out(x, y, v, p, blocks), p) \in RowRec
<1> DEFINE o == Out(x, y, v, p, blocks)
<1>1. o \in Seq(Seq(Nat)) /\ Len(o) = Len(v)
  BY OutType
<1> HIDE DEF o
<1>2. Len(v) \in Nat \ {0}
  BY EmptySeq
<1>3. 1 \in 1 .. Len(o)
  BY <1>1, <1>2
<1>4. o # <<>> /\ o[1] \in Seq(Nat)
  BY <1>1, <1>2, <1>3, EmptySeq, ElementOfSeq
<1>5. Keep(y, o, p) \in RowRec
  BY <1>1, <1>4, KeepType
<1>6. QED
  BY <1>1, <1>4, <1>5 DEF o

LEMMA AmdPassType ==
  ASSUME NEW x \in RowRec, NEW toks \in Seq(Token), toks # <<>>, NEW p \in Nat
  PROVE  /\ AmdPass(x, toks, p).row \in RowRec
         /\ AmdPass(x, toks, p).out \in Seq(Seq(Nat)) /\ Len(AmdPass(x, toks, p).out) = Len(toks)
         /\ AmdPass(x, toks, p).out[1] \in Seq(Nat)
<1> DEFINE v == AmdIn(x, toks)
           y == PoolRows(x, v, p)
           o == Out(x, y, v, p, AmdBlocks)
<1>1. v \in Seq(Seq(Nat)) /\ Len(v) = Len(toks)
  BY AmdInType
<1>2. v # <<>>
  BY <1>1, EmptySeq
<1>3. AmdPass(x, toks, p) = [row |-> Keep(y, o, p), out |-> o]
  BY DEF AmdPass
<1> HIDE DEF v
<1>4. y \in RowRec
  BY <1>1, PoolRowsType
<1> HIDE DEF y
<1>5. /\ o \in Seq(Seq(Nat)) /\ Len(o) = Len(v) /\ o[1] \in Seq(Nat) /\ Keep(y, o, p) \in RowRec
  BY <1>1, <1>2, <1>4, PassType
<1> HIDE DEF o
<1>6. QED
  BY <1>1, <1>3, <1>5

LEMMA TailPassType ==
  ASSUME NEW x \in RowRec, NEW v \in Seq(Seq(Nat)), v # <<>>, NEW p \in Nat
  PROVE  /\ PooledPass(x, v, p).row \in RowRec /\ PooledPass(x, v, p).out[1] \in Seq(Nat)
         /\ DensePass(x, v, p).row \in RowRec /\ DensePass(x, v, p).out[1] \in Seq(Nat)
<1> DEFINE y == PoolRows(x, v, p)
           o == Out(x, y, v, p, SparkBlocks)
           b == Out(x, x, v, p, NoBlocks)
           d == [i \in DOMAIN v |-> IF SparkBlocks[p + i - 1] <= TopK THEN b[i] ELSE Wrong]
<1>1. /\ PooledPass(x, v, p) = [row |-> Keep(y, o, p), out |-> o]
      /\ DensePass(x, v, p) = [row |-> Keep(x, d, p), out |-> d]
  BY DEF PooledPass, DensePass
<1>2. y \in RowRec
  BY PoolRowsType
<1> HIDE DEF y
<1>3. o[1] \in Seq(Nat) /\ Keep(y, o, p) \in RowRec
  BY <1>2, PassType
<1>4. Len(v) \in Nat \ {0} /\ DOMAIN v = 1 .. Len(v)
  BY EmptySeq, LenProperties
<1>5. \A i \in 1 .. Len(v) : b[i] \in Seq(Nat)
  <2>1. b \in Seq(Seq(Nat)) /\ Len(b) = Len(v)
    BY OutType
  <2> HIDE DEF b
  <2>2. QED
    BY <2>1, ElementOfSeq
<1>6. Wrong \in Seq(Nat)
  BY DEF Wrong
<1> HIDE DEF o, b
<1>7. d \in [1 .. Len(v) -> Seq(Nat)]
  BY <1>4, <1>5, <1>6
<1> HIDE DEF d
<1>8. d \in Seq(Seq(Nat)) /\ Len(d) = Len(v)
  BY <1>4, <1>7, IsSequence
<1>9. d # <<>> /\ d[1] \in Seq(Nat) /\ Keep(x, d, p) \in RowRec
  <2>1. d # <<>> /\ 1 \in 1 .. Len(d)
    BY <1>4, <1>8, EmptySeq
  <2>2. QED
    BY <1>8, <2>1, ElementOfSeq, KeepType
<1>10. QED
  BY <1>1, <1>3, <1>9

\* The values of a text.
LEMMA ValuesType ==
  ASSUME NEW t \in Seq(Token), NEW p \in Nat, NEW m \in Nat, p + m <= Len(t)
  PROVE  Values(t, p, m) \in Seq(Seq(Nat)) /\ Len(Values(t, p, m)) = m
<1>1. Len(t) \in Nat
  BY LenProperties
<1>2. t \in Seq(Nat)
  <2>1. \A i \in 1 .. Len(t) : t[i] \in Nat
    BY ElementOfSeq, ConstantFacts
  <2>2. QED
    BY <1>1, <2>1, LenProperties
<1>3. ASSUME NEW i \in 1 .. m PROVE Prefix(t, p + i) \in Seq(Nat)
  <2>1. p + i \in 0 .. Len(t)
    BY <1>1
  <2>2. QED
    BY <1>2, <2>1, PrefixFacts
<1> DEFINE v == Values(t, p, m)
<1>4. v = [i \in 1 .. m |-> Prefix(t, p + i)]
  BY DEF Values
<1> HIDE DEF v
<1>5. v \in [1 .. m -> Seq(Nat)]
  BY <1>3, <1>4
<1>6. v \in Seq(Seq(Nat)) /\ Len(v) = m
  BY <1>5
<1>7. QED
  BY <1>6 DEF v

-----------------------------------------------------------------------------
(* The pools of a row at a position of a text. *)

LEMMA MinOfTwo ==
  ASSUME NEW a \in Int, NEW b \in Int
  PROVE  Min({a, b}) = IF a <= b THEN a ELSE b
<1>1. \E x \in {a, b} : \A y \in {a, b} : x =< y
  OBVIOUS
<1>2. Min({a, b}) \in {a, b} /\ Min({a, b}) =< a /\ Min({a, b}) =< b
  BY <1>1 DEF Min
<1>3. QED
  BY <1>2

LEMMA MaxOfTwo ==
  ASSUME NEW a \in Int, NEW b \in Int
  PROVE  Max({a, b}) = IF a >= b THEN a ELSE b
<1>1. \E x \in {a, b} : \A y \in {a, b} : x >= y
  OBVIOUS
<1>2. Max({a, b}) \in {a, b} /\ Max({a, b}) >= a /\ Max({a, b}) >= b
  BY <1>1 DEF Max
<1>3. QED
  BY <1>2

LEMMA PrefixInNat ==
  ASSUME NEW t \in Seq(Token), NEW p \in 0 .. Len(t)
  PROVE  Prefix(t, p) \in Seq(Nat)
<1>1. Values(t, 0, Len(t)) \in Seq(Seq(Nat)) /\ Len(Values(t, 0, Len(t))) = Len(t) /\ Len(t) \in Nat
  BY ValuesType, LenProperties
<1>2. CASE p = 0
  BY <1>2, EmptySeq, SubSeqEmpty DEF Prefix
<1>3. CASE p # 0
  <2>1. p \in 1 .. Len(t)
    BY <1>3
  <2>2. Values(t, 0, Len(t))[p] \in Seq(Nat)
    BY <1>1, <2>1, ElementOfSeq
  <2>3. QED
    BY <1>1, <2>1, <2>2 DEF Values
<1>4. QED
  BY <1>2, <1>3

\* A block that is complete in a prefix is the block of the text.
LEMMA BlockOfPrefix ==
  ASSUME NEW t \in Seq(Token), NEW i \in 0 .. Len(t), NEW b \in Nat, (b + 1) * IdxC <= i
  PROVE  BlockOf(Prefix(t, i), b) = BlockOf(t, b)
<1>1. IdxC \in Nat \ {0}
  BY ConstantFacts
<1>2. PICK u \in Nat : u = b * IdxC /\ (b + 1) * IdxC = u + IdxC
  <2>1. b * IdxC \in Nat /\ (b + 1) * IdxC = b * IdxC + IdxC
    BY <1>1
  <2>2. QED
    BY <2>1
<1>3. ASSUME NEW j \in 1 .. IdxC PROVE Prefix(Prefix(t, i), u + j) = Prefix(t, u + j)
  <2>1. u + j \in 0 .. i
    BY <1>1, <1>2, LenProperties
  <2>2. QED
    BY <2>1, PrefixOfPrefix
<1>4. QED
  BY <1>2, <1>3 DEF BlockOf

LEMMA ProductBelow ==
  ASSUME NEW d \in Nat \ {0}, NEW a \in Nat, NEW c \in Nat, c <= a \div d
  PROVE  c * d <= a
<1>1. a \div d \in Int /\ a % d \in 0 .. d - 1 /\ a = d * (a \div d) + (a % d)
  BY Division
<1>2. PICK q \in Nat, r \in 0 .. d - 1 : q = a \div d /\ r = a % d /\ a = d * q + r
  BY <1>1
<1>3. q - c \in Nat
  BY <1>2
<1>4. d * (q - c) \in Nat /\ d * (q - c) = d * q - c * d
  BY <1>3
<1>5. PICK y \in Nat, z \in Int : y = d * q /\ z = c * d
  OBVIOUS
<1>6. QED
  BY <1>2, <1>4, <1>5

\* The positions of a pass that fall into the block [u, u + d), when it starts
\* at p and the pool has k positions of the block.
LEMMA BlockSpan ==
  ASSUME NEW u \in Nat, NEW d \in Nat \ {0}, NEW p \in Nat, NEW m \in Nat \ {0},
         NEW lo, lo = (IF u >= p THEN u ELSE p),
         NEW hi, hi = (IF u + d <= p + m THEN u + d ELSE p + m),
         NEW k, k = (IF p <= u THEN 0 ELSE IF p <= u + d THEN p - u ELSE d),
         NEW l, l = (IF p + m <= u THEN 0 ELSE IF p + m <= u + d THEN p + m - u ELSE d)
  PROVE  /\ lo \in Nat /\ hi \in Nat /\ k \in Nat /\ l \in Nat /\ lo >= p /\ hi <= p + m
         /\ lo < hi => u + k = lo /\ u + l = hi
         /\ lo < hi /\ u + d <= p + m => l = d
         /\ ~(lo < hi) => l = k
         /\ ~(lo < hi) /\ u + d <= p + m => u + d <= p
         /\ k # 0 => u + k <= p
OBVIOUS

LEMMA SliceOf ==
  ASSUME NEW v \in Seq(Seq(Nat)), NEW g \in Nat, NEW f \in Nat, g + f <= Len(v)
  PROVE  /\ SubSeq(v, g + 1, g + f) \in Seq(Seq(Nat)) /\ Len(SubSeq(v, g + 1, g + f)) = f
         /\ \A i \in 1 .. f : SubSeq(v, g + 1, g + f)[i] = v[g + i]
BY SliceFacts

LEMMA ConcatOf ==
  ASSUME NEW w \in Seq(Seq(Nat)), NEW e \in Seq(Seq(Nat)), NEW k, k = Len(w), NEW f, f = Len(e)
  PROVE  /\ w \o e \in Seq(Seq(Nat)) /\ Len(w \o e) = k + f
         /\ \A j \in 1 .. k + f : (w \o e)[j] = IF j <= k THEN w[j] ELSE e[j - k]
BY ConcatProperties

\* What a pass puts into a block is what its positions add to it.
LEMMA BlockGrows ==
  ASSUME NEW t \in Seq(Token), NEW p \in Nat, NEW m \in Nat \ {0}, p + m <= Len(t), NEW b \in Nat
  PROVE  /\ PoolOf(t, p, b) \o InBlock(Values(t, p, m), p, b) = PoolOf(t, p + m, b)
         /\ Whole(b, p + m) => \/ /\ InBlock(Values(t, p, m), p, b) # <<>>
                                  /\ Len(PoolOf(t, p + m, b)) = IdxC
                               \/ InBlock(Values(t, p, m), p, b) = <<>> /\ Whole(b, p)
<1> DEFINE v == Values(t, p, m)
           w == PoolOf(t, p, b)
           e == InBlock(v, p, b)
<1>1. IdxC \in Nat \ {0} /\ Len(t) \in Nat
  BY ConstantFacts, LenProperties
<1>2. PICK u \in Nat : u = b * IdxC /\ (b + 1) * IdxC = u + IdxC
  <2>1. b * IdxC \in Nat /\ (b + 1) * IdxC = b * IdxC + IdxC
    BY <1>1
  <2>2. QED
    BY <2>1
<1> DEFINE lo == IF u >= p THEN u ELSE p
           hi == IF u + IdxC <= p + m THEN u + IdxC ELSE p + m
           k  == IF p <= u THEN 0 ELSE IF p <= u + IdxC THEN p - u ELSE IdxC
           l  == IF p + m <= u THEN 0 ELSE IF p + m <= u + IdxC THEN p + m - u ELSE IdxC
<1>3. /\ PoolOf(t, p, b) = [j \in 1 .. k |-> Prefix(t, u + j)]
      /\ PoolOf(t, p + m, b) = [j \in 1 .. l |-> Prefix(t, u + j)]
  <2>1. PoolCount(p, b) = k /\ PoolCount(p + m, b) = l
    BY <1>2 DEF PoolCount
  <2> HIDE DEF k, l
  <2>2. QED
    BY <1>2, <2>1 DEF PoolOf
<1>4. v \in Seq(Seq(Nat)) /\ Len(v) = m /\ \A i \in 1 .. m : v[i] = Prefix(t, p + i)
  BY ValuesType DEF Values
<1>5. e = SubSeq(v, lo - p + 1, hi - p)
  <2>1. Max({u, p}) = lo
    BY MaxOfTwo
  <2>2. Min({u + IdxC, p + m}) = hi
    BY <1>1, MinOfTwo
  <2>3. e = SubSeq(v, Max({u, p}) - p + 1, Min({u + IdxC, p + m}) - p)
    BY <1>2, <1>4 DEF InBlock
  <2>4. QED
    BY <2>1, <2>2, <2>3
<1>6. /\ lo \in Nat /\ hi \in Nat /\ k \in Nat /\ l \in Nat /\ lo >= p /\ hi <= p + m
      /\ lo < hi => u + k = lo /\ u + l = hi
      /\ lo < hi /\ u + IdxC <= p + m => l = IdxC
      /\ ~(lo < hi) => l = k
      /\ ~(lo < hi) /\ u + IdxC <= p + m => u + IdxC <= p
      /\ k # 0 => u + k <= p
  BY <1>1, BlockSpan
<1> HIDE DEF v, w, e, lo, hi, k, l
<1>7. w \in Seq(Seq(Nat)) /\ Len(w) = k /\ \A j \in 1 .. k : w[j] = Prefix(t, u + j)
  <2>1. w = [j \in 1 .. k |-> Prefix(t, u + j)]
    BY <1>3 DEF w
  <2>2. \A j \in 1 .. k : Prefix(t, u + j) \in Seq(Nat)
    <3>1. \A j \in 1 .. k : u + j \in 0 .. Len(t)
      BY <1>1, <1>6
    <3>2. QED
      BY <3>1, PrefixInNat
  <2>3. w \in [1 .. k -> Seq(Nat)] /\ k \in Nat /\ \A j \in 1 .. k : w[j] = Prefix(t, u + j)
    BY <1>6, <2>1, <2>2
  <2>4. w \in Seq(Seq(Nat)) /\ Len(w) = k
    BY <2>3, IsSequence
  <2>5. QED
    BY <2>3, <2>4
<1>8. CASE lo < hi
  <2>1. PICK g \in Nat, f \in Nat \ {0} : g = lo - p /\ f = hi - lo /\ g + f = hi - p /\ g + f <= m
    BY <1>6, <1>8
  <2>2. /\ e \in Seq(Seq(Nat)) /\ Len(e) = f /\ \A i \in 1 .. f : e[i] = v[g + i]
    <3>1. e = SubSeq(v, g + 1, g + f)
      BY <1>5, <2>1
    <3>2. v \in Seq(Seq(Nat)) /\ g \in Nat /\ f \in Nat /\ g + f <= Len(v)
      BY <1>4, <2>1
    <3>3. /\ SubSeq(v, g + 1, g + f) \in Seq(Seq(Nat)) /\ Len(SubSeq(v, g + 1, g + f)) = f
          /\ \A i \in 1 .. f : SubSeq(v, g + 1, g + f)[i] = v[g + i]
      BY <3>2, SliceOf
    <3>4. QED
      BY <3>1, <3>3
  <2>3. \A i \in 1 .. f : e[i] = Prefix(t, lo + i)
    <3>1. \A i \in 1 .. f : g + i \in 1 .. m /\ p + (g + i) = lo + i
      BY <1>6, <2>1
    <3>2. QED
      BY <1>4, <2>2, <3>1
  <2>4. k + f = l
    BY <1>6, <1>8, <2>1
  <2>5. /\ w \o e \in Seq(Seq(Nat)) /\ Len(w \o e) = l
        /\ \A j \in 1 .. l : (w \o e)[j] = IF j <= k THEN w[j] ELSE e[j - k]
    <3>1. w \in Seq(Seq(Nat)) /\ e \in Seq(Seq(Nat)) /\ k = Len(w) /\ f = Len(e)
      BY <1>7, <2>2
    <3>2. /\ w \o e \in Seq(Seq(Nat)) /\ Len(w \o e) = k + f
          /\ \A j \in 1 .. k + f : (w \o e)[j] = IF j <= k THEN w[j] ELSE e[j - k]
      BY <3>1, ConcatOf
    <3>3. QED
      BY <2>4, <3>2
  <2>6. \A j \in 1 .. l : (w \o e)[j] = Prefix(t, u + j)
    <3>1. ASSUME NEW j \in 1 .. l, j <= k PROVE (w \o e)[j] = Prefix(t, u + j)
      <4>1. j \in 1 .. k
        <5>1. k \in Nat /\ l \in Nat
          BY <1>6
        <5>2. QED
          BY <3>1, <5>1
      <4>2. QED
        BY <1>7, <2>5, <3>1, <4>1
    <3>2. ASSUME NEW j \in 1 .. l, ~(j <= k) PROVE (w \o e)[j] = Prefix(t, u + j)
      <4>1. j - k \in 1 .. f /\ lo + (j - k) = u + j
        BY <1>6, <1>8, <2>4, <3>2
      <4>2. QED
        BY <2>3, <2>5, <3>2, <4>1
    <3>3. QED
      BY <3>1, <3>2
  <2>7. w \o e = [j \in 1 .. l |-> Prefix(t, u + j)]
    <3>1. w \o e \in [1 .. l -> Seq(Nat)]
      BY <2>5, LenProperties
    <3>2. QED
      BY <2>6, <3>1
  <2>8. e # <<>>
    BY <2>1, <2>2, EmptySeq
  <2>9. Whole(b, p + m) => Len(w \o e) = IdxC
    BY <1>2, <1>6, <1>8, <2>5 DEF Whole
  <2>10. QED
    BY <1>3, <2>7, <2>8, <2>9 DEF e, v, w
<1>9. CASE ~(lo < hi)
  <2>1. e = <<>>
    <3>1. lo - p + 1 \in Int /\ hi - p \in Int /\ hi - p < lo - p + 1
      BY <1>6, <1>9
    <3>2. QED
      BY <1>5, <3>1, SubSeqEmpty
  <2>2. w \o e = w
    BY <1>7, <2>1, ConcatEmptySeq
  <2>3. w = [j \in 1 .. l |-> Prefix(t, u + j)]
    BY <1>3, <1>6, <1>9 DEF w
  <2>4. QED
    BY <1>2, <1>3, <1>6, <1>9, <2>1, <2>2, <2>3 DEF Whole, e, v, w
<1>10. QED
  BY <1>8, <1>9

\* A pass of m tokens takes the pools on by m positions.
LEMMA PoolRowsIsPools ==
  ASSUME NEW t \in Seq(Token), NEW p \in Nat, NEW m \in Nat \ {0}, p + m <= Len(t), p + m <= MaxPos,
         NEW x \in RowRec, Pools(x, t, p)
  PROVE  Pools(PoolRows(x, Values(t, p, m), p), t, p + m)
<1> DEFINE v == Values(t, p, m)
           y == PoolRows(x, v, p)
           new(b) == x.sum[b] \o InBlock(v, p, b)
           sum == [b \in Block |-> new(b)]
           key == [b \in Block |-> IF InBlock(v, p, b) # <<>> /\ Len(new(b)) = IdxC
                                   THEN new(b) ELSE x.key[b]]
<1>1. y = [x EXCEPT !.sum = sum, !.key = key]
  BY DEF PoolRows
<1> HIDE DEF y
<1>2. y.sum = sum /\ y.key = key
  <2> HIDE DEF sum, key
  <2>1. QED
    BY <1>1 DEF RowRec
<1>3. ASSUME NEW b \in Block
      PROVE  /\ y.sum[b] = PoolOf(t, p + m, b)
             /\ Whole(b, p + m) => y.key[b] = BlockOf(t, b)
  <2> DEFINE e == InBlock(v, p, b)
             w == x.sum[b]
  <2>1. b \in Nat
    BY BlockIsNat
  <2>2. /\ w = PoolOf(t, p, b)
        /\ Whole(b, p) => x.key[b] = BlockOf(t, b)
    BY DEF Pools
  <2>3. /\ w \o e = PoolOf(t, p + m, b)
        /\ Whole(b, p + m) => \/ e # <<>> /\ Len(PoolOf(t, p + m, b)) = IdxC
                              \/ e = <<>> /\ Whole(b, p)
    BY <2>1, <2>2, BlockGrows
  <2>4. y.sum[b] = w \o e /\ y.key[b] = IF e # <<>> /\ Len(w \o e) = IdxC THEN w \o e ELSE x.key[b]
    BY <1>2
  <2>5. Whole(b, p + m) => PoolCount(p + m, b) = IdxC
    <3>1. PICK u \in Nat : u = b * IdxC /\ (b + 1) * IdxC = u + IdxC
      <4>1. b * IdxC \in Nat /\ (b + 1) * IdxC = b * IdxC + IdxC
        BY <2>1, ConstantFacts
      <4>2. QED
        BY <4>1
    <3>2. QED
      BY <3>1, ConstantFacts DEF PoolCount, Whole
  <2> HIDE DEF e, w
  <2>6. ASSUME Whole(b, p + m) PROVE y.key[b] = BlockOf(t, b)
    <3>1. CASE e # <<>> /\ Len(w \o e) = IdxC
      BY <2>3, <2>4, <2>5, <2>6, <3>1 DEF BlockOf, PoolOf
    <3>2. CASE e = <<>> /\ Whole(b, p)
      BY <2>2, <2>4, <3>2
    <3>3. QED
      BY <2>3, <2>6, <3>1, <3>2
  <2>7. QED
    BY <2>3, <2>4, <2>6
<1>4. QED
  BY <1>3 DEF Pools, y, v

\* With its pools, a row has the keys of all that a position in it may select.
LEMMA KeysKnown ==
  ASSUME NEW t \in Seq(Token), NEW p \in 0 .. Len(t), NEW y, Pools(y, t, p),
         NEW blocks \in Selector, NEW i \in 1 .. p
  PROVE  KeysHold(y, Prefix(t, i), blocks[i - 1])
<1>1. Len(t) \in Nat /\ p \in Nat /\ p <= MaxPos /\ IdxC \in Nat \ {0} /\ MaxPos \in Nat
  BY LenProperties, ConstantFacts DEF Pools
<1>2. i - 1 \in Pos /\ i - 1 + 1 = i /\ i \in Nat /\ i - 1 \in Nat /\ i \in 0 .. Len(t)
  BY <1>1, ConstantFacts
<1>3. blocks[i - 1] \in {i \div IdxC, (i - 1) \div IdxC, 0}
  BY <1>2 DEF Selector, AmdBlocks, SparkBlocks, NoBlocks
<1>4. /\ (i - 1) \div IdxC <= i \div IdxC /\ i \div IdxC <= MaxPos \div IdxC
      /\ i \div IdxC \in Int /\ (i - 1) \div IdxC \in Int /\ MaxPos \div IdxC \in Int
      /\ i = IdxC * (i \div IdxC) + (i % IdxC) /\ i % IdxC \in 0 .. IdxC - 1
      /\ 0 \div IdxC <= i \div IdxC /\ 0 \div IdxC = 0
  <2>1. 0 \div IdxC = 0
    BY <1>1
  <2>2. (i - 1) \div IdxC <= i \div IdxC /\ i \div IdxC <= MaxPos \div IdxC /\ 0 \div IdxC <= i \div IdxC
    <3>1. i - 1 <= i /\ i <= MaxPos /\ 0 <= i
      BY <1>1, <1>2
    <3>2. (i - 1) \div IdxC <= i \div IdxC
      BY <1>1, <1>2, <3>1, QuotientGrows
    <3>3. i \div IdxC <= MaxPos \div IdxC
      BY <1>1, <1>2, <3>1, QuotientGrows
    <3>4. 0 \div IdxC <= i \div IdxC
      BY <1>1, <1>2, <3>1, QuotientGrows
    <3>5. QED
      BY <3>2, <3>3, <3>4
  <2>3. /\ i \div IdxC \in Int /\ (i - 1) \div IdxC \in Int /\ MaxPos \div IdxC \in Int
        /\ i = IdxC * (i \div IdxC) + (i % IdxC) /\ i % IdxC \in 0 .. IdxC - 1
    BY <1>1, <1>2, Division
  <2>4. QED
    BY <2>1, <2>2, <2>3
<1>5. blocks[i - 1] \in Int /\ blocks[i - 1] <= i \div IdxC
  BY <1>3, <1>4
<1>6. ASSUME NEW b \in 0 .. blocks[i - 1] - 1 PROVE y.key[b] = BlockOf(Prefix(t, i), b)
  <2>1. b \in Nat /\ b + 1 <= i \div IdxC
    BY <1>3, <1>4
  <2>2. b \in Block
    BY <1>4, <2>1 DEF Block
  <2>3. (b + 1) * IdxC <= i
    <3>1. b + 1 \in Nat
      BY <2>1
    <3>2. QED
      BY <1>1, <1>2, <2>1, <3>1, ProductBelow
  <2>4. (b + 1) * IdxC <= p
    <3>1. PICK z \in Nat : z = (b + 1) * IdxC
      BY <1>1, <2>1
    <3>2. QED
      BY <1>1, <2>3, <3>1
  <2>5. y.key[b] = BlockOf(t, b)
    BY <2>2, <2>4 DEF Pools, Whole
  <2>6. BlockOf(Prefix(t, i), b) = BlockOf(t, b)
    BY <1>2, <2>1, <2>3, BlockOfPrefix
  <2>7. QED
    BY <2>5, <2>6
<1>7. QED
  BY <1>6 DEF KeysHold

\* What a pass leaves in a row does not touch its pools.
LEMMA KeepHolds ==
  ASSUME NEW s, NEW t \in Seq(Token), NEW p \in Nat, NEW m \in Nat \ {0}, p + m <= Len(t), p + m <= MaxPos,
         NEW y \in RowRec, \A q \in 0 .. p - 1 : y.kv[q] = Prefix(t, q + 1), s = 1 => Pools(y, t, p + m)
  PROVE  Holding(s, Keep(y, Values(t, p, m), p), t, p + m)
<1> DEFINE z == Keep(y, Values(t, p, m), p)
<1>1. At(z, t, p + m)
  BY KeepIsAt
<1>2. z.sum = y.sum /\ z.key = y.key
  BY DEF Keep, RowRec
<1> HIDE DEF z
<1>3. s = 1 => Pools(z, t, p + m)
  BY <1>2 DEF Pools
<1>4. QED
  BY <1>1, <1>3 DEF Holding, z

\* A pass that keeps the pools takes a row on by m positions of its text: in the
\* dense range, and anywhere when the row has its pools.
LEMMA PassIsAt ==
  ASSUME NEW s, Dense \/ s = 1,
         NEW t \in Seq(Token), NEW p \in Nat, NEW m \in Nat \ {0}, p + m <= Len(t), p + m <= MaxPos,
         NEW x \in RowRec, Holding(s, x, t, p), NEW blocks \in Selector
  PROVE  LET y == PoolRows(x, Values(t, p, m), p) IN
         /\ Out(x, y, Values(t, p, m), p, blocks) = Values(t, p, m)
         /\ Holding(s, Keep(y, Values(t, p, m), p), t, p + m)
<1> DEFINE v == Values(t, p, m)
           y == PoolRows(x, v, p)
<1>1. At(x, t, p) /\ (s = 1 => Pools(x, t, p))
  BY DEF Holding
<1>2. y \in RowRec /\ y.kv = x.kv
  <2>1. v \in Seq(Seq(Nat))
    BY ValuesType
  <2>2. QED
    BY <2>1, PoolRowsType
<1>3. s = 1 => Pools(y, t, p + m)
  BY <1>1, PoolRowsIsPools
<1> HIDE DEF y
<1>4. \A i \in 1 .. m : KeysHold(y, Prefix(t, p + i), blocks[p + i - 1])
  <2>1. CASE Dense
    <3>1. \A i \in 1 .. m : p + i - 1 \in Pos
      BY ConstantFacts
    <3>2. QED
      BY <2>1, <3>1, SelectsNothing
  <2>2. CASE s = 1
    <3>1. ASSUME NEW i \in 1 .. m PROVE KeysHold(y, Prefix(t, p + i), blocks[p + i - 1])
      <4>1. p + m \in 0 .. Len(t) /\ p + i \in 1 .. p + m /\ Pools(y, t, p + m)
        BY <1>3, <2>2, LenProperties
      <4>2. PICK l \in 0 .. Len(t), j \in Nat : l = p + m /\ j = p + i /\ j \in 1 .. l
        BY <4>1
      <4>3. KeysHold(y, Prefix(t, j), blocks[j - 1])
        BY <4>1, <4>2, KeysKnown
      <4>4. QED
        BY <4>2, <4>3
    <3>2. QED
      BY <3>1
  <2>3. QED
    BY <2>1, <2>2
<1>5. Out(x, y, v, p, blocks) = v
  <2>1. m \in Nat /\ Known(y, t, p, m, blocks)
    BY <1>4 DEF Known
  <2>2. QED
    BY <1>1, <2>1, OutIsText
<1>6. \A q \in 0 .. p - 1 : y.kv[q] = Prefix(t, q + 1)
  BY <1>1, <1>2 DEF At
<1>7. Holding(s, Keep(y, v, p), t, p + m)
  BY <1>2, <1>3, <1>6, KeepHolds
<1>8. QED
  BY <1>5, <1>7 DEF y

\* The AMD prefix.
LEMMA AmdPassIsAt ==
  ASSUME NEW s, Dense \/ s = 1,
         NEW t \in Seq(Token), NEW p \in Nat, NEW m \in Nat \ {0}, p + m <= Len(t), p + m <= MaxPos,
         NEW x \in RowRec, Holding(s, x, t, p)
  PROVE  /\ Holding(s, AmdPass(x, SubSeq(t, p + 1, p + m), p).row, t, p + m)
         /\ AmdPass(x, SubSeq(t, p + 1, p + m), p).out = Values(t, p, m)
<1> DEFINE toks == SubSeq(t, p + 1, p + m)
           v == AmdIn(x, toks)
           y == PoolRows(x, v, p)
           o == Out(x, y, v, p, AmdBlocks)
<1>1. toks \in Seq(Token) /\ Len(toks) = m
  BY SliceFacts
<1>2. x.rec = Prefix(t, p) /\ x.rec # Wrong
  <2>1. x.rec = Prefix(t, p)
    BY DEF At, Holding
  <2>2. CASE p = 0
    <3>1. Prefix(t, p) = <<>>
      BY <2>2, SubSeqEmpty DEF Prefix
    <3>2. QED
      BY <2>1, <3>1 DEF Wrong
  <2>3. CASE p # 0
    <3>1. p \in 1 .. Len(t)
      BY <2>3, LenProperties
    <3>2. QED
      BY <2>1, <3>1, NotWrong
  <2>4. QED
    BY <2>1, <2>2, <2>3
<1>3. v = Values(t, p, m)
  <2>1. v = [i \in DOMAIN toks |-> x.rec \o Prefix(toks, i)]
    BY <1>2 DEF AmdIn
  <2>2. DOMAIN toks = 1 .. m
    BY <1>1, LenProperties
  <2>3. \A i \in 1 .. m : Prefix(t, p) \o Prefix(toks, i) = Prefix(t, p + i)
    BY PrefixOn
  <2> HIDE DEF toks, v
  <2>4. QED
    BY <1>2, <2>1, <2>2, <2>3 DEF Values
<1>4. AmdPass(x, toks, p) = [row |-> Keep(y, o, p), out |-> o]
  BY DEF AmdPass
<1> HIDE DEF toks, v
<1>5. o = Values(t, p, m) /\ Holding(s, Keep(y, Values(t, p, m), p), t, p + m)
  BY <1>3, PassIsAt DEF Selector
<1> HIDE DEF y, o
<1>6. QED
  BY <1>4, <1>5 DEF toks

\* The body of the Spark tail that keeps the pools.
LEMMA PooledPassIsAt ==
  ASSUME NEW s, Dense \/ s = 1,
         NEW t \in Seq(Token), NEW p \in Nat, NEW m \in Nat \ {0}, p + m <= Len(t), p + m <= MaxPos,
         NEW x \in RowRec, Holding(s, x, t, p)
  PROVE  /\ Holding(s, PooledPass(x, Values(t, p, m), p).row, t, p + m)
         /\ PooledPass(x, Values(t, p, m), p).out = Values(t, p, m)
<1> DEFINE v == Values(t, p, m)
           y == PoolRows(x, v, p)
           o == Out(x, y, v, p, SparkBlocks)
<1>1. PooledPass(x, v, p) = [row |-> Keep(y, o, p), out |-> o]
  BY DEF PooledPass
<1>2. o = v /\ Holding(s, Keep(y, v, p), t, p + m)
  BY PassIsAt DEF Selector
<1> HIDE DEF y, o, v
<1>3. QED
  BY <1>1, <1>2 DEF v

\* The bodies that have no pools select nothing, as they should in the dense range.
LEMMA DensePassIsAt ==
  ASSUME Dense, NEW t \in Seq(Token), NEW p \in Nat, NEW m \in Nat \ {0}, p + m <= Len(t),
         p + m <= MaxPos, NEW x \in RowRec, At(x, t, p)
  PROVE  /\ At(DensePass(x, Values(t, p, m), p).row, t, p + m)
         /\ DensePass(x, Values(t, p, m), p).out = Values(t, p, m)
<1> DEFINE v == Values(t, p, m)
           b == Out(x, x, v, p, NoBlocks)
           d == [i \in DOMAIN v |-> IF SparkBlocks[p + i - 1] <= TopK THEN b[i] ELSE Wrong]
<1>1. DensePass(x, v, p) = [row |-> Keep(x, d, p), out |-> d]
  BY DEF DensePass
<1>2. \A i \in 1 .. m : KeysHold(x, Prefix(t, p + i), NoBlocks[p + i - 1])
  <2>1. \A i \in 1 .. m : p + i - 1 \in Pos
    BY ConstantFacts
  <2>2. \A i \in 1 .. m : NoBlocks[p + i - 1] = 0
    BY <2>1 DEF NoBlocks
  <2>3. ~(0 > TopK)
    BY ConstantFacts
  <2>4. \A h : KeysHold(x, h, 0)
    BY <2>3 DEF KeysHold
  <2>5. QED
    BY <2>2, <2>4
<1>3. d = v
  <2>1. m \in Nat /\ NoBlocks \in Selector /\ Known(x, t, p, m, NoBlocks)
    BY <1>2 DEF Selector, Known
  <2>2. b = v
    BY <2>1, OutIsText
  <2>3. DOMAIN v = 1 .. m /\ v = [i \in 1 .. m |-> v[i]]
    BY DEF Values
  <2>4. \A i \in 1 .. m : SparkBlocks[p + i - 1] <= TopK
    <3>1. \A i \in 1 .. m : p + i - 1 \in Pos
      BY ConstantFacts
    <3>2. QED
      BY <3>1, InRange
  <2> HIDE DEF b, v
  <2>5. QED
    BY <2>2, <2>3, <2>4
<1>4. At(Keep(x, v, p), t, p + m)
  <2>1. \A q \in 0 .. p - 1 : x.kv[q] = Prefix(t, q + 1)
    BY DEF At
  <2>2. QED
    BY <2>1, KeepIsAt
<1> HIDE DEF b, d, v
<1>5. QED
  BY <1>1, <1>3, <1>4 DEF v

\* A row is copied: what it holds of the first p positions goes along.
LEMMA CopyIsAt ==
  ASSUME NEW t, NEW p \in Nat, p <= MaxPos, NEW y \in RowRec, NEW x \in RowRec, At(x, t, p)
  PROVE  /\ Copy(y, x, p) \in RowRec /\ At(Copy(y, x, p), t, p)
         /\ AmdCopy(y, x, p) \in RowRec /\ At(AmdCopy(y, x, p), t, p)
<1> DEFINE kv == [q \in Pos |-> IF q < p THEN x.kv[q] ELSE y.kv[q]]
<1>1. Copy(y, x, p) = [y EXCEPT !.rec = x.rec, !.kv = kv]
  BY DEF Copy, RowRec
<1>2. kv \in [Pos -> Seq(Nat)]
  BY DEF RowRec
<1>3. \A q \in 0 .. p - 1 : kv[q] = Prefix(t, q + 1)
  <2>1. \A q \in 0 .. p - 1 : q \in Pos /\ q < p
    BY ConstantFacts
  <2>2. QED
    BY <2>1 DEF At
<1> HIDE DEF kv
<1>4. Copy(y, x, p) \in RowRec /\ Copy(y, x, p).rec = x.rec /\ Copy(y, x, p).kv = kv
  BY <1>1, <1>2 DEF RowRec
<1>5. /\ AmdCopy(y, x, p) = [Copy(y, x, p) EXCEPT !.sum = x.sum, !.key = x.key]
      /\ x.sum \in [Block -> Seq(Seq(Nat))] /\ x.key \in [Block -> Seq(Seq(Nat))]
  BY DEF AmdCopy, RowRec
<1> DEFINE c == Copy(y, x, p)
           a == AmdCopy(y, x, p)
<1> HIDE DEF c
<1>6. a = [c EXCEPT !.sum = x.sum, !.key = x.key] /\ c \in RowRec
  BY <1>4, <1>5 DEF c
<1>7. a \in RowRec /\ a.rec = c.rec /\ a.kv = c.kv
  BY <1>5, <1>6 DEF RowRec
<1> HIDE DEF a
<1>8. At(c, t, p) /\ At(a, t, p)
  BY <1>3, <1>4, <1>7 DEF At, c
<1>9. QED
  BY <1>4, <1>7, <1>8 DEF a, c

LEMMA CopyType ==
  ASSUME NEW p \in Nat, NEW y \in RowRec, NEW x \in RowRec
  PROVE  Copy(y, x, p) \in RowRec /\ AmdCopy(y, x, p) \in RowRec
<1> DEFINE kv == [q \in Pos |-> IF q < p THEN x.kv[q] ELSE y.kv[q]]
           c == Copy(y, x, p)
<1>1. c = [y EXCEPT !.rec = x.rec, !.kv = kv]
  BY DEF Copy, RowRec
<1>2. kv \in [Pos -> Seq(Nat)]
  BY DEF RowRec
<1> HIDE DEF kv
<1>3. c \in RowRec
  BY <1>1, <1>2 DEF RowRec
<1>4. /\ AmdCopy(y, x, p) = [c EXCEPT !.sum = x.sum, !.key = x.key]
      /\ x.sum \in [Block -> Seq(Seq(Nat))] /\ x.key \in [Block -> Seq(Seq(Nat))]
  BY DEF AmdCopy, RowRec
<1> HIDE DEF c
<1>5. [c EXCEPT !.sum = x.sum, !.key = x.key] \in RowRec
  BY <1>3, <1>4 DEF RowRec
<1>6. QED
  BY <1>3, <1>4, <1>5 DEF c

\* The AMD server copies the pools too.
LEMMA AmdCopyIsAt ==
  ASSUME NEW s, NEW t, NEW p \in Nat, p <= MaxPos, NEW y \in RowRec, NEW x \in RowRec, Holding(s, x, t, p)
  PROVE  AmdCopy(y, x, p) \in RowRec /\ Holding(s, AmdCopy(y, x, p), t, p)
<1> DEFINE a == AmdCopy(y, x, p)
<1>1. At(x, t, p) /\ (s = 1 => Pools(x, t, p))
  BY DEF Holding
<1>2. a \in RowRec /\ At(a, t, p)
  BY <1>1, CopyIsAt
<1>3. a.sum = x.sum /\ a.key = x.key
  <2> DEFINE c == Copy(y, x, p)
  <2>1. c \in RowRec
    BY CopyType
  <2>2. a = [c EXCEPT !.sum = x.sum, !.key = x.key]
    BY DEF AmdCopy
  <2> HIDE DEF c
  <2>3. QED
    BY <2>1, <2>2 DEF RowRec
<1> HIDE DEF a
<1>4. s = 1 => Pools(a, t, p)
  BY <1>1, <1>3 DEF Pools
<1>5. QED
  BY <1>2, <1>4 DEF Holding, a

\* At the start of a text nothing has to be held, when the pools are empty.
LEMMA StartIsAt ==
  ASSUME NEW s, NEW t, NEW x, x.rec = <<>>, s = 1 => x.sum = Blank.sum
  PROVE  Holding(s, x, t, 0)
<1>1. Prefix(t, 0) = <<>>
  BY SubSeqEmpty DEF Prefix
<1>2. 0 .. 0 - 1 = {}
  OBVIOUS
<1>3. At(x, t, 0)
  BY <1>1, <1>2 DEF At
<1>4. ASSUME s = 1, NEW b \in Block PROVE x.sum[b] = PoolOf(t, 0, b) /\ ~Whole(b, 0)
  <2>1. IdxC \in Nat \ {0} /\ b \in Nat
    BY ConstantFacts, BlockIsNat
  <2>2. b * IdxC \in Nat /\ (b + 1) * IdxC = b * IdxC + IdxC
    BY <2>1
  <2>3. PoolCount(0, b) = 0
    BY <2>2 DEF PoolCount
  <2>4. PoolOf(t, 0, b) = <<>>
    BY <2>3 DEF PoolOf
  <2>5. x.sum[b] = <<>>
    BY <1>4 DEF Blank
  <2>6. ~Whole(b, 0)
    <3>1. PICK u \in Nat : u = b * IdxC
      BY <2>2
    <3>2. QED
      BY <2>1, <2>2, <3>1 DEF Whole
  <2>7. QED
    BY <2>4, <2>5, <2>6
<1>5. s = 1 => Pools(x, t, 0)
  BY <1>4, ConstantFacts DEF Pools
<1>6. QED
  BY <1>3, <1>5 DEF Holding

\* Texts with the same start have the same pools of it.
LEMMA SamePools ==
  ASSUME NEW t \in Seq(Token), NEW u \in Seq(Token), NEW p \in 0 .. Len(t), p <= Len(u),
         \A i \in 1 .. p : t[i] = u[i], NEW x, Pools(x, t, p)
  PROVE  Pools(x, u, p)
<1>1. ASSUME NEW i \in 0 .. p PROVE Prefix(t, i) = Prefix(u, i)
  <2>1. i \in 0 .. Len(t) /\ i <= Len(u) /\ \A j \in 1 .. i : j \in 1 .. p
    BY LenProperties
  <2>2. QED
    BY <2>1, PrefixSame
<1>2. ASSUME NEW b \in Block
      PROVE  PoolOf(t, p, b) = PoolOf(u, p, b) /\ (Whole(b, p) => BlockOf(t, b) = BlockOf(u, b))
  <2>1. IdxC \in Nat \ {0} /\ b \in Nat /\ p \in Nat
    BY ConstantFacts, BlockIsNat, LenProperties
  <2>2. PICK v \in Nat : v = b * IdxC /\ (b + 1) * IdxC = v + IdxC
    <3>1. b * IdxC \in Nat /\ (b + 1) * IdxC = b * IdxC + IdxC
      BY <2>1
    <3>2. QED
      BY <3>1
  <2> DEFINE l == PoolCount(p, b)
  <2>3. \A j \in 1 .. l : v + j \in 0 .. p
    BY <2>1, <2>2 DEF PoolCount
  <2>4. Whole(b, p) => \A j \in 1 .. IdxC : v + j \in 0 .. p
    BY <2>1, <2>2 DEF Whole
  <2> HIDE DEF l
  <2>5. \A j \in 1 .. l : Prefix(t, v + j) = Prefix(u, v + j)
    BY <1>1, <2>3
  <2>6. Whole(b, p) => \A j \in 1 .. IdxC : Prefix(t, v + j) = Prefix(u, v + j)
    BY <1>1, <2>4
  <2>7. [j \in 1 .. l |-> Prefix(t, v + j)] = [j \in 1 .. l |-> Prefix(u, v + j)]
    BY <2>5
  <2>8. Whole(b, p) => [j \in 1 .. IdxC |-> Prefix(t, v + j)] = [j \in 1 .. IdxC |-> Prefix(u, v + j)]
    BY <2>6
  <2>9. QED
    BY <2>2, <2>7, <2>8 DEF PoolOf, BlockOf, l
<1>3. QED
  BY <1>2 DEF Pools

\* A row at a position of one text is there in every text with the same start.
LEMMA SameStart ==
  ASSUME NEW s, NEW t \in Seq(Token), NEW u \in Seq(Token), NEW p \in 0 .. Len(t), p <= Len(u),
         \A i \in 1 .. p : t[i] = u[i], NEW x, Holding(s, x, t, p)
  PROVE  Holding(s, x, u, p)
<1>1. Prefix(u, p) = Prefix(t, p)
  BY PrefixSame
<1>2. ASSUME NEW q \in 0 .. p - 1 PROVE Prefix(u, q + 1) = Prefix(t, q + 1)
  <2>1. q + 1 \in 0 .. Len(t) /\ q + 1 <= Len(u) /\ \A i \in 1 .. q + 1 : i \in 1 .. p
    BY LenProperties
  <2>2. QED
    BY <2>1, PrefixSame
<1>3. At(x, u, p)
  BY <1>1, <1>2 DEF At, Holding
<1>4. s = 1 => Pools(x, u, p)
  BY SamePools DEF Holding
<1>5. QED
  BY <1>3, <1>4 DEF Holding

LEMMA AtAppend ==
  ASSUME NEW s, NEW t \in Seq(Token), NEW e \in Token, NEW p \in 0 .. Len(t), NEW x, Holding(s, x, t, p)
  PROVE  Holding(s, x, Append(t, e), p)
<1>1. /\ Append(t, e) \in Seq(Token) /\ Len(Append(t, e)) = Len(t) + 1
      /\ \A i \in 1 .. Len(t) : Append(t, e)[i] = t[i]
  BY AppendProperties
<1>2. p <= Len(Append(t, e)) /\ \A i \in 1 .. p : t[i] = Append(t, e)[i]
  BY <1>1, LenProperties
<1>3. QED
  BY <1>1, <1>2, SameStart

LEMMA AtConcat ==
  ASSUME NEW s, NEW t \in Seq(Token), NEW w \in Seq(Token), NEW p \in 0 .. Len(t), NEW x, Holding(s, x, t, p)
  PROVE  Holding(s, x, t \o w, p)
<1>1. /\ t \o w \in Seq(Token) /\ Len(t \o w) = Len(t) + Len(w) /\ Len(t) \in Nat /\ Len(w) \in Nat
      /\ \A i \in 1 .. Len(t) + Len(w) : (t \o w)[i] = IF i <= Len(t) THEN t[i] ELSE w[i - Len(t)]
  BY ConcatProperties, LenProperties
<1>2. p <= Len(t \o w) /\ \A i \in 1 .. p : t[i] = (t \o w)[i]
  BY <1>1
<1>3. QED
  BY <1>1, <1>2, SameStart

\* What a row holds when it is at the end of a text.
LEMMA AtIsHolds ==
  ASSUME NEW t \in Seq(Token), NEW p \in 0 .. Len(t), NEW x, At(x, t, p)
  PROVE  Holds(x, Prefix(t, p))
<1>1. Len(Prefix(t, p)) = p
  BY PrefixFacts
<1>2. ASSUME NEW q \in 0 .. p - 1 PROVE x.kv[q] = Prefix(Prefix(t, p), q + 1)
  <2>1. q + 1 \in 0 .. p
    OBVIOUS
  <2>2. QED
    BY <2>1, PrefixOfPrefix DEF At
<1>3. QED
  BY <1>1, <1>2 DEF At, Holds


\* A row that is at a position of a text and has its pools has the keys of all the
\* complete blocks of what it holds.
LEMMA PoolsGiveKeys ==
  ASSUME NEW t \in Seq(Token), NEW p \in 0 .. Len(t), NEW x, Pools(x, t, p)
  PROVE  \A b \in 0 .. Len(Prefix(t, p)) \div IdxC - 1 : x.key[b] = BlockOf(Prefix(t, p), b)
<1>1. Len(Prefix(t, p)) = p /\ p \in Nat /\ p <= MaxPos /\ IdxC \in Nat \ {0} /\ MaxPos \in Nat
  BY PrefixFacts, LenProperties, ConstantFacts DEF Pools
<1>2. p \div IdxC <= MaxPos \div IdxC
  BY <1>1, QuotientGrows
<1>3. p \div IdxC \in Int /\ MaxPos \div IdxC \in Int
  BY <1>1, Division
<1>4. ASSUME NEW b \in 0 .. p \div IdxC - 1 PROVE x.key[b] = BlockOf(Prefix(t, p), b)
  <2>1. b \in Nat /\ b + 1 \in Nat /\ b + 1 <= p \div IdxC /\ b \in Block
    BY <1>2, <1>3 DEF Block
  <2>2. (b + 1) * IdxC <= p
    BY <1>1, <2>1, ProductBelow
  <2>3. x.key[b] = BlockOf(t, b)
    BY <2>1, <2>2 DEF Pools, Whole
  <2>4. QED
    BY <2>1, <2>2, <2>3, BlockOfPrefix
<1>5. QED
  BY <1>1, <1>4
-----------------------------------------------------------------------------
(* Types. *)

\* Which calls a run makes in which mode, and with how many rows.
Modes ==
  /\ pc = "off" => exit = NoExit /\ ctx = Blank /\ arow = 0 /\ base = 0
  /\ pc = "chunks" => mode \in {"prime", "ingest"} /\ n = 1
  /\ pc = "rows" => mode = "prime" /\ n > 1 /\ at \in 1 .. n
  /\ pc = "primed" => mode = "prime"
  /\ pc \in {"prefix", "tail", "head", "ret"} => mode \in {"decode", "first", "rest", "field", "loop"}
  /\ pc \in {"fork", "forkSpark", "commitAmd", "done"} => mode \in {"field", "loop"}
  /\ pc = "commitAmd" => mode = "loop" /\ at \in 1 .. n
  /\ pc = "idle" \/ mode \in {"ingest", "first", "rest"} => n = 1
  /\ mode = "loop" => pc \notin {"off", "chunks", "rows", "primed", "idle"}
\* No row that is decoded is empty, and a pending token is a token.
Texts ==
  /\ pc # "off" => text[1] # <<>>
  /\ pc \notin {"off", "fork", "forkSpark"} => \A r \in 1 .. n : text[r] # <<>>
  /\ exit.valid => exit.tok \in Token
\* What is counted down has not run out.
Counts ==
  /\ pc \in {"prefix", "tail", "head"} => left >= 1
  /\ pc \in {"chunks", "rows"} => arow <= Len(rows)
  /\ pc = "chunks" => Len(rows) <= MaxPos
  /\ mode = "loop" /\ pc # "done" => iter >= 1
  /\ mode = "loop" /\ pc \notin {"fork", "forkSpark"} => calls >= 1

Typed == TypeOK /\ Modes /\ Texts /\ Counts

LEMMA BlankType ==
  /\ Blank \in RowRec /\ Blank.rec = <<>> /\ Blank.sum \in [Block -> Seq(Seq(Nat))]
  /\ NoBuf \in [0 .. NBuf - 1 -> [Pos -> Seq(Nat)]]
  /\ NoExit \in [valid : BOOLEAN, tok : Nat, pos : Nat, res : Seq(Nat)] /\ ~NoExit.valid
<1>1. <<>> \in Seq(Nat) /\ <<>> \in Seq(Seq(Nat))
  BY EmptySeq
<1>2. QED
  BY <1>1 DEF Blank, RowRec, NoBuf, NoExit

LEMMA TokenSeq == \A s \in Seq(Token) : s \in Seq(Nat)
<1>1. SUFFICES ASSUME NEW s \in Seq(Token) PROVE s \in Seq(Nat)
  OBVIOUS
<1>2. \A i \in 1 .. Len(s) : s[i] \in Nat
  BY ElementOfSeq, ConstantFacts
<1>3. QED
  BY <1>2, LenProperties

\* The last token of a text, and what is before it.
LEMMA LastFront ==
  ASSUME NEW t \in Seq(Token), t # <<>>
  PROVE  /\ Len(t) \in Nat \ {0}
         /\ Last(t) \in Token /\ Last(t) = t[Len(t)]
         /\ Front(t) \in Seq(Token) /\ Len(Front(t)) = Len(t) - 1
         /\ \A i \in 1 .. Len(t) - 1 : Front(t)[i] = t[i]
         /\ <<Last(t)>> = SubSeq(t, Len(t), Len(t))
<1>1. Len(t) \in Nat \ {0}
  BY EmptySeq
<1>2. Last(t) \in Token /\ Last(t) = t[Len(t)]
  BY <1>1, ElementOfSeq DEF Last
<1>3. Len(t) - 1 \in 0 .. Len(t)
  BY <1>1
<1>4. /\ Front(t) \in Seq(Token) /\ Len(Front(t)) = Len(t) - 1
      /\ \A i \in 1 .. Len(t) - 1 : Front(t)[i] = t[i]
  BY <1>3, PrefixFacts, FrontIsPrefix
<1>5. <<Last(t)>> = SubSeq(t, Len(t), Len(t))
  <2>1. /\ SubSeq(t, Len(t) - 1 + 1, Len(t) - 1 + 1) \in Seq(Token)
        /\ Len(SubSeq(t, Len(t) - 1 + 1, Len(t) - 1 + 1)) = 1
        /\ \A i \in 1 .. 1 : SubSeq(t, Len(t) - 1 + 1, Len(t) - 1 + 1)[i] = t[Len(t) - 1 + i]
    BY <1>1, SliceFacts
  <2>2. Len(t) - 1 + 1 = Len(t)
    BY <1>1
  <2> DEFINE s == SubSeq(t, Len(t), Len(t))
  <2>3. s \in Seq(Token) /\ Len(s) = 1 /\ s[1] = t[Len(t)]
    BY <2>1, <2>2
  <2> HIDE DEF s
  <2>4. <<Last(t)>> \in Seq(Token) /\ Len(<<Last(t)>>) = 1 /\ <<Last(t)>>[1] = t[Len(t)]
    BY <1>2
  <2>5. \A i \in 1 .. Len(s) : s[i] = <<Last(t)>>[i]
    BY <2>3, <2>4
  <2>6. s = <<Last(t)>>
    BY <2>3, <2>4, <2>5, SeqEqual
  <2>7. QED
    BY <2>6 DEF s
<1>6. QED
  BY <1>1, <1>2, <1>4, <1>5

LEMMA TypedInit == Init => Typed
<1> SUFFICES ASSUME Init PROVE Typed
  OBVIOUS
<1>1. <<>> \in Seq(Nat) /\ <<>> \in Seq(Token) /\ 1 \in 1 .. Rows
  BY EmptySeq, ConstantFacts
<1>2. TypeOK
  BY <1>1, BlankType DEF Init, TypeOK, PC, Mode
<1>3. Modes /\ Texts /\ Counts
  BY BlankType DEF Init, Modes, Texts, Counts
<1>4. QED
  BY <1>2, <1>3 DEF Typed

LEMMA TypedGone ==
  ASSUME Typed, ProcessGone, amd' \in [Row -> RowRec], served' \in Nat, UNCHANGED procs
  PROVE  Typed'
<1>1. <<>> \in Seq(Nat) /\ <<>> \in Seq(Token) /\ 1 \in 1 .. Rows
  BY EmptySeq, ConstantFacts
<1>2. TypeOK'
  <2>1. /\ n' \in 1 .. Rows /\ tc' \in Nat \ {0} /\ pc' \in PC /\ mode' \in Mode
        /\ base' \in Nat /\ arow' \in Nat /\ at' \in Nat /\ left' \in Nat /\ calls' \in Nat /\ iter' \in Nat
    BY <1>1 DEF ProcessGone, PC, Mode
  <2>2. /\ ctx' \in RowRec /\ mrow' \in [Row -> RowRec]
        /\ exit' \in [valid : BOOLEAN, tok : Nat, pos : Nat, res : Seq(Nat)]
        /\ buf' \in [0 .. NBuf - 1 -> [Pos -> Seq(Nat)]]
    BY BlankType DEF ProcessGone
  <2>3. /\ text' \in [Row -> Seq(Token)] /\ pos' \in [Row -> Nat] /\ rows' \in Seq(Token)
        /\ res' \in [Row -> Seq(Nat)]
    BY <1>1 DEF ProcessGone
  <2>4. procs \in Nat
    BY DEF Typed, TypeOK
  <2>5. QED
    BY <2>1, <2>2, <2>3, <2>4 DEF TypeOK
<1>3. Modes' /\ Texts' /\ Counts'
  BY BlankType DEF ProcessGone, Modes, Texts, Counts
<1>4. QED
  BY <1>2, <1>3 DEF Typed

LEMMA TypedStart ==
  ASSUME Typed, NEW k \in {1, Rows}, NEW t \in ChunkSizes, NEW ps \in [1 .. k -> Prompts], Start(ps, t)
  PROVE  Typed' /\ Len(ps) = k
<1>1. k \in Nat \ {0} /\ k \in 1 .. Rows /\ t \in Nat \ {0}
  BY ConstantFacts, RowAssumption DEF RowAssumption
<1>2. Len(ps) = k
  BY <1>1
<1>3. ASSUME NEW r \in 1 .. k
      PROVE  ps[r] \in Seq(Token) /\ ps[r] # <<>> /\ Len(ps[r]) \in Nat \ {0} /\ Len(ps[r]) <= MaxPos
  <2>1. ps[r] \in Prompts
    OBVIOUS
  <2>2. ps[r] \in Seq(Token) /\ ps[r] # <<>> /\ Len(ps[r]) <= MaxPos
    BY <2>1, RowAssumption DEF RowAssumption
  <2>3. QED
    BY <2>2, EmptySeq
<1>4. 1 \in 1 .. k /\ Front(ps[1]) \in Seq(Token) /\ Len(Front(ps[1])) = Len(ps[1]) - 1
  BY <1>1, <1>3, LastFront
<1>5. <<>> \in Seq(Token) /\ <<>> \in Seq(Nat)
  BY EmptySeq
<1>6. amd' \in [Row -> RowRec]
  BY <1>5 DEF Start, Reset, Typed, TypeOK, RowRec
<1>7. text' \in [Row -> Seq(Token)] /\ pos' \in [Row -> Nat]
  BY <1>1, <1>2, <1>3, <1>5 DEF Start, Row
<1>8. TypeOK'
  <2>1. /\ ctx' \in RowRec /\ mrow' \in [Row -> RowRec]
        /\ exit' \in [valid : BOOLEAN, tok : Nat, pos : Nat, res : Seq(Nat)]
        /\ buf' \in [0 .. NBuf - 1 -> [Pos -> Seq(Nat)]] /\ res' \in [Row -> Seq(Nat)]
        /\ {served', procs', base', arow', left', calls', iter'} \subseteq Nat
    <3>1. /\ ctx' = ctx /\ mrow' = mrow /\ exit' = exit /\ base' = base /\ arow' = arow /\ buf' = buf
          /\ res' = res /\ left' = left /\ calls' = calls /\ iter' = iter
          /\ served' = served + 1 /\ procs' = procs + 1
      BY DEF Start, stepVars
    <3>2. /\ ctx \in RowRec /\ mrow \in [Row -> RowRec]
          /\ exit \in [valid : BOOLEAN, tok : Nat, pos : Nat, res : Seq(Nat)]
          /\ buf \in [0 .. NBuf - 1 -> [Pos -> Seq(Nat)]] /\ res \in [Row -> Seq(Nat)]
      BY DEF Typed, TypeOK
    <3>3. {served', procs', base', arow', left', calls', iter'} \subseteq Nat
      <4>1. {served, procs, base, arow, at, left, calls, iter} \subseteq Nat
        BY DEF Typed, TypeOK
      <4>2. QED
        BY <3>1, <4>1
    <3>4. QED
      BY <3>1, <3>2, <3>3
  <2>2. at' \in Nat /\ pc' \in PC /\ mode' \in Mode /\ n' \in 1 .. Rows /\ tc' \in Nat \ {0}
    BY <1>1, <1>2 DEF Start, PC, Mode
  <2>3. QED
    BY <1>4, <1>6, <1>7, <2>1, <2>2 DEF Start, TypeOK
<1>9. /\ pc' \in {"chunks", "rows"} /\ mode' = "prime" /\ n' = k
      /\ exit' = NoExit
      /\ pc' = "chunks" => n' = 1
      /\ pc' = "rows" => n' > 1 /\ at' = 1
  BY <1>1, <1>2 DEF Start, Typed, Modes
<1>10. \A r \in 1 .. k : text'[r] = ps[r]
  BY <1>1, <1>2 DEF Start, Row
<1>11. Modes' /\ Texts'
  BY <1>1, <1>3, <1>4, <1>9, <1>10, BlankType DEF Modes, Texts
<1>12. Counts'
  <2>1. arow' = 0 /\ rows' = Front(ps[1]) /\ Len(rows') \in Nat /\ Len(rows') <= MaxPos
    BY <1>3, <1>4, ConstantFacts DEF Start, Typed, Modes
  <2>2. QED
    BY <1>9, <2>1 DEF Counts
<1>13. QED
  BY <1>2, <1>8, <1>11, <1>12 DEF Typed

\* What is known of the state in every step.
LEMMA TypedFacts ==
  ASSUME Typed
  PROVE  /\ amd \in [Row -> RowRec] /\ ctx \in RowRec /\ mrow \in [Row -> RowRec]
         /\ exit \in [valid : BOOLEAN, tok : Nat, pos : Nat, res : Seq(Nat)]
         /\ served \in Nat /\ procs \in Nat /\ base \in Nat /\ arow \in Nat /\ at \in Nat
         /\ left \in Nat /\ calls \in Nat /\ iter \in Nat
         /\ pc \in PC /\ mode \in Mode /\ n \in 1 .. Rows /\ tc \in Nat \ {0}
         /\ n \in Nat \ {0} /\ 1 \in 1 .. n /\ 1 .. n \subseteq Row
         /\ text \in [Row -> Seq(Token)] /\ pos \in [Row -> Nat]
         /\ rows \in Seq(Token) /\ Len(rows) \in Nat
         /\ buf \in [0 .. NBuf - 1 -> [Pos -> Seq(Nat)]]
         /\ res \in [Row -> Seq(Nat)]
         /\ \A r \in Row : text[r] \in Seq(Token) /\ Len(text[r]) \in Nat
<1>1. /\ amd \in [Row -> RowRec] /\ ctx \in RowRec /\ mrow \in [Row -> RowRec]
      /\ exit \in [valid : BOOLEAN, tok : Nat, pos : Nat, res : Seq(Nat)]
      /\ pc \in PC /\ mode \in Mode /\ n \in 1 .. Rows /\ tc \in Nat \ {0}
      /\ text \in [Row -> Seq(Token)] /\ pos \in [Row -> Nat]
      /\ rows \in Seq(Token)
      /\ buf \in [0 .. NBuf - 1 -> [Pos -> Seq(Nat)]]
      /\ res \in [Row -> Seq(Nat)]
  BY DEF Typed, TypeOK
<1>2. /\ served \in Nat /\ procs \in Nat /\ base \in Nat /\ arow \in Nat /\ at \in Nat
      /\ left \in Nat /\ calls \in Nat /\ iter \in Nat
  BY DEF Typed, TypeOK
<1>3. n \in Nat \ {0} /\ 1 \in 1 .. n /\ 1 .. n \subseteq Row
  <2>1. n \in 1 .. Rows /\ Rows \in Nat
    BY <1>1, ConstantFacts
  <2>2. QED
    BY <2>1 DEF Row
<1>4. Len(rows) \in Nat /\ \A r \in Row : text[r] \in Seq(Token) /\ Len(text[r]) \in Nat
  BY <1>1, LenProperties
<1>5. QED
  BY <1>1, <1>2, <1>3, <1>4

LEMMA RowFacts ==
  ASSUME Typed, NEW r \in Row
  PROVE  /\ r \in Nat /\ amd[r] \in RowRec /\ mrow[r] \in RowRec
         /\ text[r] \in Seq(Token) /\ Len(text[r]) \in Nat
         /\ pos[r] \in Nat /\ res[r] \in Seq(Nat)
<1>1. r \in Nat
  BY ConstantFacts
<1>2. /\ amd \in [Row -> RowRec] /\ mrow \in [Row -> RowRec]
      /\ text \in [Row -> Seq(Token)] /\ pos \in [Row -> Nat] /\ res \in [Row -> Seq(Nat)]
  BY TypedFacts
<1>3. text[r] \in Seq(Token)
  BY <1>2
<1>4. QED
  BY <1>1, <1>2, <1>3, LenProperties

LEMMA InRun ==
  ASSUME Typed
  PROVE  /\ 1 \in 1 .. n /\ 1 \in Row /\ n \in Nat \ {0}
         /\ \A r \in 1 .. n : r \in Row /\ r \in Nat /\ r <= n
         /\ \A r \in Row : r <= n => r \in 1 .. n
<1>1. n \in 1 .. Rows /\ Rows \in Nat
  BY TypedFacts, ConstantFacts
<1>2. QED
  BY <1>1 DEF Row

\* The same of the next state, from its parts.
LEMMA TypesNext ==
  ASSUME amd' \in [Row -> RowRec], ctx' \in RowRec, mrow' \in [Row -> RowRec],
         exit' \in [valid : BOOLEAN, tok : Nat, pos : Nat, res : Seq(Nat)],
         served' \in Nat, procs' \in Nat, base' \in Nat, arow' \in Nat, at' \in Nat,
         left' \in Nat, calls' \in Nat, iter' \in Nat,
         pc' \in PC, mode' \in Mode, n' \in 1 .. Rows, tc' \in Nat \ {0},
         text' \in [Row -> Seq(Token)], pos' \in [Row -> Nat], rows' \in Seq(Token),
         buf' \in [0 .. NBuf - 1 -> [Pos -> Seq(Nat)]], res' \in [Row -> Seq(Nat)]
  PROVE  TypeOK'
BY DEF TypeOK

\* The next chunk request: inside its chunk, and inside the rows.
ReqChunk == arow \div tc
ReqLen   == Min({AmdChunk, ChunkEnd(ReqChunk) - arow})

\* A chunk ends at the end of the rows or at the next multiple of tc.
LEMMA ChunkFacts ==
  ASSUME Typed, NEW c \in Nat
  PROVE  /\ c * tc \in Nat /\ (c + 1) * tc = c * tc + tc
         /\ ChunkEnd(c) = IF c * tc + tc <= Len(rows) THEN c * tc + tc ELSE Len(rows)
         /\ ChunkEnd(c) \in Nat /\ ChunkLen(c) \in Int
         /\ c * tc < Len(rows) => ChunkLen(c) \in 1 .. tc
<1>1. c * tc \in Nat /\ (c + 1) * tc = c * tc + tc /\ tc \in Nat \ {0} /\ Len(rows) \in Nat
  <2>1. tc \in Nat \ {0} /\ Len(rows) \in Nat
    BY TypedFacts
  <2>2. QED
    BY <2>1
<1>2. ChunkEnd(c) = IF c * tc + tc <= Len(rows) THEN c * tc + tc ELSE Len(rows)
  <2>1. ChunkEnd(c) = Min({c * tc + tc, Len(rows)})
    BY <1>1 DEF ChunkEnd
  <2>2. QED
    BY <1>1, <2>1, MinOfTwo
<1>3. ChunkLen(c) = ChunkEnd(c) - c * tc
  BY DEF ChunkLen
<1>4. QED
  BY <1>1, <1>2, <1>3

LEMMA RequestFacts ==
  ASSUME Typed, arow < Len(rows)
  PROVE  /\ ReqChunk \in Nat /\ ReqChunk * tc <= arow /\ arow < ReqChunk * tc + tc
         /\ ReqLen \in Nat \ {0} /\ arow + ReqLen <= Len(rows)
         /\ arow + ReqLen <= ReqChunk * tc + tc
<1> DEFINE c == ReqChunk
<1>1. tc \in Nat \ {0} /\ arow \in Nat /\ Len(rows) \in Nat /\ AmdChunk \in Nat \ {0}
  BY TypedFacts, ConstantFacts
<1>2. c \in Int /\ arow = tc * c + (arow % tc) /\ arow % tc \in 0 .. tc - 1
  BY <1>1, Division DEF ReqChunk
<1> HIDE DEF c
<1>3. c \in Nat
  <2>1. SUFFICES ASSUME c <= -1 PROVE FALSE
    BY <1>2
  <2>2. tc * (-c) >= tc
    BY <1>1, <1>2, <2>1, ProductGrows
  <2>3. tc * (-c) = - (tc * c)
    BY <1>1, <1>2
  <2>4. QED
    BY <1>1, <1>2, <2>2, <2>3
<1>4. tc * c = c * tc
  BY <1>1, <1>3
<1>5. c * tc <= arow /\ arow < c * tc + tc /\ c * tc \in Nat
  BY <1>1, <1>2, <1>3, <1>4
<1>6. ChunkEnd(c) = IF c * tc + tc <= Len(rows) THEN c * tc + tc ELSE Len(rows)
  BY <1>3, ChunkFacts
<1>7. ChunkEnd(c) \in Nat /\ ChunkEnd(c) > arow /\ ChunkEnd(c) <= Len(rows) /\ ChunkEnd(c) <= c * tc + tc
  BY <1>1, <1>5, <1>6
<1>8. ReqLen = IF AmdChunk <= ChunkEnd(c) - arow THEN AmdChunk ELSE ChunkEnd(c) - arow
  <2>1. ChunkEnd(c) - arow \in Int
    BY <1>1, <1>7
  <2>2. QED
    BY <1>1, <2>1, MinOfTwo DEF ReqLen, c
<1>9. ReqLen \in Nat \ {0} /\ ReqLen <= ChunkEnd(c) - arow
  BY <1>1, <1>7, <1>8
<1>10. QED
  BY <1>1, <1>3, <1>5, <1>7, <1>9 DEF c

LEMMA TypedAmdChunkRequest == ASSUME Typed, AmdChunkRequest PROVE Typed'
<1> DEFINE T == ReqLen
           toks == SubSeq(rows, arow + 1, arow + T)
           a == AmdPass(amd[1], toks, base + arow)
           s == ReqChunk % NBuf
           f == arow - ReqChunk * tc
           b == [q \in Pos |-> IF q \in f .. f + T - 1 THEN a.out[q - f + 1] ELSE buf[s][q]]
<1>1. /\ pc = "chunks" /\ arow < Len(rows)
      /\ amd' = [amd EXCEPT ![1] = a.row] /\ buf' = [buf EXCEPT ![s] = b] /\ arow' = arow + T
      /\ UNCHANGED <<ctx, mrow, exit, served, procs, pc, runVars, rows, base, at, stepVars>>
  BY DEF AmdChunkRequest, ReqLen, ReqChunk
<1>2. /\ ReqChunk \in Nat /\ ReqChunk * tc <= arow /\ T \in Nat \ {0} /\ arow + T <= Len(rows)
      /\ arow \in Nat /\ base + arow \in Nat
  <2>1. arow \in Nat /\ base \in Nat
    BY TypedFacts
  <2>2. QED
    BY <1>1, <2>1, RequestFacts
<1> HIDE DEF T
<1>3. toks \in Seq(Token) /\ Len(toks) = T
  <2>1. rows \in Seq(Token) /\ arow \in Nat /\ T \in Nat /\ arow + T <= Len(rows)
    BY <1>2, TypedFacts
  <2>2. QED
    BY <2>1, SliceFacts
<1>4. toks # <<>>
  BY <1>2, <1>3, EmptySeq
<1> HIDE DEF toks
<1>5. /\ a.row \in RowRec /\ a.out \in Seq(Seq(Nat)) /\ Len(a.out) = T
  <2>1. amd[1] \in RowRec
    BY TypedFacts, ConstantFacts
  <2>2. QED
    BY <1>2, <1>3, <1>4, <2>1, AmdPassType
<1>6. s \in 0 .. NBuf - 1
  BY <1>2, ConstantFacts
<1>7. f \in Nat
  <2>1. tc \in Nat /\ ReqChunk * tc \in Nat
    <3>1. tc \in Nat
      BY TypedFacts
    <3>2. QED
      BY <1>2, <3>1
  <2>2. QED
    BY <1>2, <2>1
<1> HIDE DEF a, s, f
<1>8. b \in [Pos -> Seq(Nat)]
  <2>1. ASSUME NEW q \in Pos PROVE b[q] \in Seq(Nat)
    <3>1. q \in f .. f + T - 1 => q - f + 1 \in 1 .. Len(a.out)
      BY <1>2, <1>5, <1>7, ConstantFacts
    <3>2. q \in f .. f + T - 1 => a.out[q - f + 1] \in Seq(Nat)
      BY <1>5, <3>1, ElementOfSeq
    <3>3. buf[s][q] \in Seq(Nat)
      BY <1>6, TypedFacts
    <3>4. QED
      BY <3>2, <3>3
  <2>2. QED
    BY <2>1
<1> HIDE DEF b
<1>9. amd' \in [Row -> RowRec] /\ buf' \in [0 .. NBuf - 1 -> [Pos -> Seq(Nat)]] /\ arow' \in Nat
  <2>1. amd \in [Row -> RowRec] /\ buf \in [0 .. NBuf - 1 -> [Pos -> Seq(Nat)]]
    BY TypedFacts
  <2>2. amd' \in [Row -> RowRec]
    BY <1>1, <1>5, <2>1
  <2>3. buf' \in [0 .. NBuf - 1 -> [Pos -> Seq(Nat)]]
    BY <1>1, <1>8, <2>1
  <2>4. QED
    BY <1>1, <1>2, <2>2, <2>3
<1>10. TypeOK'
  BY <1>1, <1>9, TypedFacts, TypesNext DEF runVars, stepVars
<1>11. Modes' /\ Texts' /\ Counts'
  BY <1>1, <1>2 DEF Typed, Modes, Texts, Counts, runVars, stepVars
<1>12. QED
  BY <1>10, <1>11 DEF Typed

\* The chunk that Spark is on.
LEMMA SparkChunkFacts ==
  ASSUME Typed, pc = "chunks", at * tc < Len(rows)
  PROVE  /\ ChunkLen(at) \in 1 .. tc /\ ChunkLen(at) <= MaxPos
         /\ at % NBuf \in 0 .. NBuf - 1
         /\ [i \in 1 .. ChunkLen(at) |-> buf[at % NBuf][i - 1]] \in Seq(Seq(Nat))
         /\ [i \in 1 .. ChunkLen(at) |-> buf[at % NBuf][i - 1]] # <<>>
<1> DEFINE T == ChunkLen(at)
           c == at % NBuf
           v == [i \in 1 .. T |-> buf[c][i - 1]]
<1>1. /\ at \in Nat /\ Len(rows) \in Nat /\ Len(rows) <= MaxPos /\ MaxPos \in Nat
      /\ buf \in [0 .. NBuf - 1 -> [Pos -> Seq(Nat)]]
  BY TypedFacts, ConstantFacts DEF Typed, Counts
<1>2. PICK m \in Nat : m = at * tc
  BY <1>1, ChunkFacts
<1>3. T \in 1 .. tc /\ T \in Nat \ {0} /\ T <= MaxPos
  <2>1. ChunkEnd(at) = IF m + tc <= Len(rows) THEN m + tc ELSE Len(rows)
    BY <1>1, <1>2, ChunkFacts
  <2>2. T = ChunkEnd(at) - m /\ T \in 1 .. tc /\ tc \in Nat
    BY <1>1, <1>2, ChunkFacts, TypedFacts DEF ChunkLen
  <2>3. QED
    BY <1>1, <2>1, <2>2
<1>4. c \in 0 .. NBuf - 1
  BY <1>1, ConstantFacts
<1> HIDE DEF c, T
<1>5. ASSUME NEW i \in 1 .. T PROVE buf[c][i - 1] \in Seq(Nat)
  <2>1. i - 1 \in Pos
    BY <1>3, ConstantFacts
  <2>2. QED
    BY <1>1, <1>4, <2>1
<1> HIDE DEF v
<1>6. v \in [1 .. T -> Seq(Nat)]
  BY <1>5 DEF v
<1>7. v \in Seq(Seq(Nat)) /\ Len(v) = T
  BY <1>3, <1>6
<1>8. v # <<>>
  BY <1>3, <1>7, EmptySeq
<1>9. QED
  BY <1>3, <1>4, <1>7, <1>8 DEF v, c, T

LEMMA TypedSparkChunk == ASSUME Typed, SparkChunk PROVE Typed'
<1> DEFINE v == [i \in 1 .. ChunkLen(at) |-> buf[at % NBuf][i - 1]]
           p == base + at * tc
<1>1. /\ pc = "chunks" /\ at * tc < Len(rows) /\ at' = at + 1
      /\ ctx' \in {DensePass(ctx, v, p).row, PooledPass(ctx, v, p).row}
      /\ amd' = amd /\ mrow' = mrow /\ exit' = exit /\ served' = served /\ procs' = procs
      /\ pc' = pc /\ mode' = mode /\ n' = n /\ tc' = tc /\ text' = text /\ pos' = pos
      /\ rows' = rows /\ base' = base /\ arow' = arow /\ buf' = buf /\ res' = res
      /\ left' = left /\ calls' = calls /\ iter' = iter
  BY DEF SparkChunk, boxVars, runVars, feedVars, stepVars
<1>2. v \in Seq(Seq(Nat)) /\ v # <<>>
  BY <1>1, SparkChunkFacts
<1>3. p \in Nat /\ ctx \in RowRec /\ at \in Nat
  <2>1. at \in Nat /\ base \in Nat /\ ctx \in RowRec
    BY TypedFacts
  <2>2. at * tc \in Nat
    BY <2>1, ChunkFacts
  <2>3. QED
    BY <2>1, <2>2
<1> HIDE DEF v, p
<1>4. ctx' \in RowRec
  BY <1>1, <1>2, <1>3, TailPassType
<1>5. TypeOK'
  <2>1. at' \in Nat
    BY <1>1, <1>3
  <2>2. QED
    BY <1>1, <1>4, <2>1, TypedFacts, TypesNext
<1>6. Modes' /\ Texts' /\ Counts'
  BY <1>1 DEF Typed, Modes, Texts, Counts
<1>7. QED
  BY <1>5, <1>6 DEF Typed

LEMMA TypedPrimeDone == ASSUME Typed, PrimeDone PROVE Typed'
<1>1. /\ pc = "chunks" /\ mode = "prime" /\ pc' = "primed"
      /\ amd' = amd /\ ctx' = ctx /\ mrow' = mrow /\ exit' = exit /\ served' = served
      /\ procs' = procs /\ mode' = mode /\ n' = n /\ tc' = tc /\ text' = text /\ pos' = pos
      /\ rows' = rows /\ base' = base /\ arow' = arow /\ at' = at /\ buf' = buf /\ res' = res
      /\ left' = left /\ calls' = calls /\ iter' = iter
  BY DEF PrimeDone, ChunksDone, boxVars, runVars, feedVars, stepVars
<1>2. TypeOK'
  BY <1>1, TypedFacts, TypesNext DEF PC
<1>3. Modes' /\ Texts' /\ Counts'
  BY <1>1 DEF Typed, Modes, Texts, Counts
<1>4. QED
  BY <1>2, <1>3 DEF Typed

\* A token on its own.
LEMMA OneToken ==
  ASSUME NEW S, NEW e \in S
  PROVE  <<e>> \in Seq(S) /\ <<e>> # <<>> /\ Len(<<e>>) = 1
<1>1. <<e>> \in [1 .. 1 -> S]
  OBVIOUS
<1>2. <<e>> \in Seq(S) /\ Len(<<e>>) = 1
  BY <1>1
<1>3. QED
  BY <1>2, EmptySeq

LEMMA TypedPrimeToken == ASSUME Typed, PrimeToken PROVE Typed'
<1> DEFINE toks == <<rows[arow + 1]>>
           a == AmdPass(amd[at], toks, arow)
<1>1. /\ pc = "rows" /\ arow < Len(rows)
      /\ amd' = [amd EXCEPT ![at] = a.row] /\ ctx' = PooledPass(ctx, a.out, arow).row
      /\ arow' = arow + 1
      /\ mrow' = mrow /\ exit' = exit /\ served' = served /\ procs' = procs /\ pc' = pc
      /\ mode' = mode /\ n' = n /\ tc' = tc /\ text' = text /\ pos' = pos /\ rows' = rows
      /\ base' = base /\ at' = at /\ buf' = buf /\ res' = res /\ left' = left /\ calls' = calls
      /\ iter' = iter
  BY DEF PrimeToken, boxVars, runVars, feedVars, stepVars
<1>2. arow \in Nat /\ arow + 1 \in Nat /\ arow + 1 \in 1 .. Len(rows) /\ at \in Row
  <2>1. arow \in Nat /\ Len(rows) \in Nat /\ 1 .. n \subseteq Row
    BY TypedFacts
  <2>2. at \in 1 .. n
    BY <1>1 DEF Typed, Modes
  <2>3. QED
    BY <1>1, <2>1, <2>2
<1>3. toks \in Seq(Token) /\ toks # <<>> /\ Len(toks) = 1
  <2>1. rows[arow + 1] \in Token
    BY <1>2, TypedFacts, ElementOfSeq
  <2>2. QED
    BY <2>1, OneToken
<1> HIDE DEF toks
<1>4. a.row \in RowRec /\ a.out \in Seq(Seq(Nat)) /\ Len(a.out) = 1
  <2>1. amd[at] \in RowRec
    BY <1>2, TypedFacts
  <2>2. QED
    BY <1>2, <1>3, <2>1, AmdPassType
<1> HIDE DEF a
<1>5. a.out # <<>>
  BY <1>4, EmptySeq
<1>6. ctx' \in RowRec
  BY <1>1, <1>2, <1>4, <1>5, TypedFacts, TailPassType
<1>7. amd' \in [Row -> RowRec]
  BY <1>1, <1>4, TypedFacts
<1>8. TypeOK'
  <2>1. arow' \in Nat
    BY <1>1, <1>2
  <2>2. QED
    BY <1>1, <1>6, <1>7, <2>1, TypedFacts, TypesNext
<1>9. Modes' /\ Texts' /\ Counts'
  BY <1>1, <1>2, TypedFacts DEF Typed, Modes, Texts, Counts
<1>10. QED
  BY <1>8, <1>9 DEF Typed

LEMMA TypedPrimeRowDone == ASSUME Typed, PrimeRowDone PROVE Typed'
<1>1. /\ pc = "rows" /\ arow = Len(rows)
      /\ mrow' = [mrow EXCEPT ![at] = Copy(mrow[at], ctx, Len(rows))]
      /\ amd' = amd /\ exit' = exit /\ served' = served /\ procs' = procs /\ mode' = mode
      /\ n' = n /\ tc' = tc /\ text' = text /\ pos' = pos /\ base' = base /\ buf' = buf
      /\ res' = res /\ left' = left /\ calls' = calls /\ iter' = iter
  BY DEF PrimeRowDone, boxVars, runVars, feedVars, stepVars
<1>2. at \in Row /\ at \in 1 .. n /\ at \in Nat /\ n \in Nat /\ Len(rows) \in Nat /\ mode = "prime"
  <2>1. n \in Nat /\ at \in Nat /\ Len(rows) \in Nat /\ 1 .. n \subseteq Row
    BY TypedFacts
  <2>2. at \in 1 .. n /\ mode = "prime"
    BY <1>1 DEF Typed, Modes
  <2>3. QED
    BY <2>1, <2>2
<1>3. mrow' \in [Row -> RowRec]
  <2>1. Copy(mrow[at], ctx, Len(rows)) \in RowRec
    BY <1>2, TypedFacts, CopyType
  <2>2. QED
    BY <1>1, <2>1, TypedFacts
<1>4. CASE at < n
  <2>1. /\ at' = at + 1 /\ rows' = Front(text[at + 1]) /\ arow' = 0
        /\ ctx' = SessionReset(ctx) /\ pc' = pc
    BY <1>4 DEF PrimeRowDone
  <2>2. at + 1 \in 1 .. n /\ at + 1 \in Row /\ at + 1 \in Nat
    <3>1. 1 .. n \subseteq Row
      BY TypedFacts
    <3>2. at + 1 \in 1 .. n
      BY <1>2, <1>4
    <3>3. QED
      BY <1>2, <3>1, <3>2
  <2>3. ctx' \in RowRec
    BY <2>1, TypedFacts, BlankType, EmptySeq DEF SessionReset, RowRec
  <2>4. text[at + 1] \in Seq(Token) /\ text[at + 1] # <<>>
    BY <1>1, <2>2, TypedFacts DEF Typed, Texts
  <2>5. rows' \in Seq(Token) /\ Len(rows') = Len(text[at + 1]) - 1
    BY <2>1, <2>4, LastFront
  <2>6. Len(rows') \in Nat
    BY <2>5, LenProperties
  <2>7. TypeOK'
    <3>1. at' \in Nat /\ arow' \in Nat /\ rows' \in Seq(Token) /\ pc' \in PC
      BY <2>1, <2>2, <2>5, TypedFacts
    <3>2. QED
      BY <1>1, <1>3, <2>3, <3>1, TypedFacts, TypesNext
  <2>8. Modes' /\ Texts' /\ Counts'
    BY <1>1, <2>1, <2>2, <2>6 DEF Typed, Modes, Texts, Counts
  <2>9. QED
    BY <2>7, <2>8 DEF Typed
<1>5. CASE at >= n
  <2>1. pc' = "primed" /\ UNCHANGED <<at, rows, arow, ctx>>
    BY <1>2, <1>5, TypedFacts DEF PrimeRowDone
  <2>2. TypeOK'
    BY <1>1, <1>3, <2>1, TypedFacts, TypesNext DEF PC
  <2>3. Modes' /\ Texts' /\ Counts'
    BY <1>1, <1>2, <2>1 DEF Typed, Modes, Texts, Counts
  <2>4. QED
    BY <2>2, <2>3 DEF Typed
<1>6. QED
  BY <1>2, <1>4, <1>5, TypedFacts

LEMMA TypedAmdPrefix == ASSUME Typed, AmdPrefix PROVE Typed'
<1> DEFINE a == [r \in 1 .. n |-> AmdPass(amd[r], <<Last(text[r])>>, pos[r])]
<1>1. /\ pc = "prefix" /\ pc' = "tail"
      /\ amd' = [r \in Row |-> IF r <= n THEN a[r].row ELSE amd[r]]
      /\ res' = [r \in Row |-> IF r <= n THEN a[r].out[1] ELSE res[r]]
      /\ /\ ctx' = ctx /\ mrow' = mrow /\ exit' = exit /\ served' = served /\ procs' = procs
         /\ mode' = mode /\ n' = n /\ tc' = tc /\ text' = text /\ pos' = pos /\ rows' = rows
         /\ base' = base /\ arow' = arow /\ at' = at /\ buf' = buf /\ left' = left
         /\ calls' = calls /\ iter' = iter
  BY DEF AmdPrefix, runVars, feedVars
<1>2. ASSUME NEW r \in 1 .. n PROVE a[r].row \in RowRec /\ a[r].out[1] \in Seq(Nat)
  <2>1. r \in Row /\ amd[r] \in RowRec /\ text[r] \in Seq(Token) /\ text[r] # <<>> /\ pos[r] \in Nat
    <3>1. r \in Row /\ text[r] # <<>>
      BY <1>1, TypedFacts DEF Typed, Texts
    <3>2. QED
      BY <3>1, TypedFacts
  <2>2. Last(text[r]) \in Token
    BY <2>1, LastFront
  <2>3. <<Last(text[r])>> \in Seq(Token) /\ <<Last(text[r])>> # <<>>
    BY <2>2, OneToken
  <2>4. a[r] = AmdPass(amd[r], <<Last(text[r])>>, pos[r])
    OBVIOUS
  <2> HIDE DEF a
  <2>5. QED
    BY <2>1, <2>3, <2>4, AmdPassType
<1> HIDE DEF a
<1>3. \A r \in Row : r <= n => r \in 1 .. n
  BY TypedFacts DEF Row
<1>4. amd' \in [Row -> RowRec] /\ res' \in [Row -> Seq(Nat)]
  <2>1. amd \in [Row -> RowRec] /\ res \in [Row -> Seq(Nat)]
    BY TypedFacts
  <2>2. QED
    BY <1>1, <1>2, <1>3, <2>1
<1>5. TypeOK'
  BY <1>1, <1>4, TypedFacts, TypesNext DEF PC
<1>6. Modes' /\ Texts' /\ Counts'
  BY <1>1 DEF Typed, Modes, Texts, Counts
<1>7. QED
  BY <1>5, <1>6 DEF Typed

LEMMA TypedSparkTail == ASSUME Typed, SparkTail PROVE Typed'
<1> DEFINE s == IF n = 1 THEN <<PooledPass(ctx, <<res[1]>>, pos[1])>>
                ELSE [r \in 1 .. n |-> DensePass(mrow[r], <<res[r]>>, pos[r])]
<1>1. /\ pc = "tail" /\ pc' = "head"
      /\ res' = [r \in Row |-> IF r <= n THEN s[r].out[1] ELSE res[r]]
      /\ /\ amd' = amd /\ exit' = exit /\ served' = served /\ procs' = procs /\ mode' = mode
         /\ n' = n /\ tc' = tc /\ text' = text /\ pos' = pos /\ rows' = rows /\ base' = base
         /\ arow' = arow /\ at' = at /\ buf' = buf /\ left' = left /\ calls' = calls
         /\ iter' = iter
  BY DEF SparkTail, runVars, feedVars
<1>2. /\ n = 1 => ctx' = s[1].row /\ mrow' = mrow
      /\ n # 1 => mrow' = [r \in Row |-> IF r <= n THEN s[r].row ELSE mrow[r]] /\ ctx' = ctx
  BY DEF SparkTail
<1>3. ASSUME NEW r \in 1 .. n PROVE s[r].row \in RowRec /\ s[r].out[1] \in Seq(Nat)
  <2>1. r \in Row /\ mrow[r] \in RowRec /\ res[r] \in Seq(Nat) /\ pos[r] \in Nat /\ ctx \in RowRec
    <3>1. r \in Row
      BY TypedFacts
    <3>2. QED
      BY <3>1, TypedFacts
  <2>2. <<res[r]>> \in Seq(Seq(Nat)) /\ <<res[r]>> # <<>>
    BY <2>1, OneToken
  <2>3. CASE n = 1
    <3>1. r = 1
      BY <2>3
    <3>2. s[r] = PooledPass(ctx, <<res[r]>>, pos[r])
      BY <2>3, <3>1
    <3> HIDE DEF s
    <3>3. QED
      BY <2>1, <2>2, <3>2, TailPassType
  <2>4. CASE n # 1
    <3>1. s[r] = DensePass(mrow[r], <<res[r]>>, pos[r])
      BY <2>4
    <3> HIDE DEF s
    <3>2. QED
      BY <2>1, <2>2, <3>1, TailPassType
  <2>5. QED
    BY <2>3, <2>4
<1> HIDE DEF s
<1>4. 1 \in 1 .. n /\ \A r \in Row : r <= n => r \in 1 .. n
  BY TypedFacts DEF Row
<1>5. ctx' \in RowRec /\ mrow' \in [Row -> RowRec] /\ res' \in [Row -> Seq(Nat)]
  <2>1. ctx \in RowRec /\ mrow \in [Row -> RowRec] /\ res \in [Row -> Seq(Nat)]
    BY TypedFacts
  <2>2. res' \in [Row -> Seq(Nat)]
    BY <1>1, <1>3, <1>4, <2>1
  <2>3. ctx' \in RowRec /\ mrow' \in [Row -> RowRec]
    BY <1>2, <1>3, <1>4, <2>1
  <2>4. QED
    BY <2>2, <2>3
<1>6. TypeOK'
  BY <1>1, <1>5, TypedFacts, TypesNext DEF PC
<1>7. Modes' /\ Texts' /\ Counts'
  BY <1>1 DEF Typed, Modes, Texts, Counts
<1>8. QED
  BY <1>6, <1>7 DEF Typed

\* A text grows by a token.
LEMMA Grows ==
  ASSUME NEW t \in Seq(Token), NEW e \in Token
  PROVE  /\ Append(t, e) \in Seq(Token) /\ Append(t, e) # <<>> /\ Len(Append(t, e)) = Len(t) + 1
         /\ Last(Append(t, e)) = e /\ Len(t) \in Nat
<1>1. /\ Append(t, e) \in Seq(Token) /\ Append(t, e) # <<>> /\ Len(Append(t, e)) = Len(t) + 1
      /\ Append(t, e)[Len(t) + 1] = e /\ Len(t) \in Nat
  BY AppendProperties, LenProperties
<1>2. QED
  BY <1>1 DEF Last

LEMMA TypedHeadPrefix == ASSUME Typed, NEW t \in Token, HeadPrefix(t) PROVE Typed'
<1> DEFINE a == AmdPass(amd[1], <<t>>, pos[1] + 1)
<1>1. /\ pc = "head" /\ n = 1
      /\ amd' = [amd EXCEPT ![1] = a.row] /\ res' = [res EXCEPT ![1] = a.out[1]]
      /\ text' = [text EXCEPT ![1] = Append(text[1], t)] /\ pos' = [pos EXCEPT ![1] = pos[1] + 1]
      /\ left' = left - 1
      /\ /\ ctx' = ctx /\ mrow' = mrow /\ served' = served /\ procs' = procs /\ mode' = mode
         /\ n' = n /\ tc' = tc /\ rows' = rows /\ base' = base /\ arow' = arow /\ at' = at
         /\ buf' = buf /\ calls' = calls /\ iter' = iter
  BY DEF HeadPrefix, feedVars
<1>2. \/ /\ pc' = "ret"
         /\ exit' = [valid |-> TRUE, tok |-> t, pos |-> pos[1] + 1, res |-> a.out[1]]
      \/ pc' = "tail" /\ exit' = exit /\ left # 1
  BY DEF HeadPrefix
<1>3. /\ 1 \in Row /\ amd[1] \in RowRec /\ pos[1] \in Nat /\ pos[1] + 1 \in Nat
      /\ text[1] \in Seq(Token) /\ t \in Nat
  <2>1. 1 \in Row
    BY InRun
  <2>2. amd[1] \in RowRec /\ pos[1] \in Nat /\ text[1] \in Seq(Token)
    BY <2>1, RowFacts
  <2>3. t \in Nat
    BY ConstantFacts
  <2>4. QED
    BY <2>1, <2>2, <2>3
<1>4. a.row \in RowRec /\ a.out[1] \in Seq(Nat)
  <2>1. <<t>> \in Seq(Token) /\ <<t>> # <<>>
    BY OneToken
  <2>2. QED
    BY <1>3, <2>1, AmdPassType
<1> HIDE DEF a
<1>5. Append(text[1], t) \in Seq(Token) /\ Append(text[1], t) # <<>>
  BY <1>3, Grows
<1>6. amd' \in [Row -> RowRec] /\ res' \in [Row -> Seq(Nat)]
  BY <1>1, <1>4, TypedFacts
<1>7. text' \in [Row -> Seq(Token)] /\ pos' \in [Row -> Nat]
  BY <1>1, <1>3, <1>5, TypedFacts
<1>8. exit' \in [valid : BOOLEAN, tok : Nat, pos : Nat, res : Seq(Nat)] /\ pc' \in PC
  <2>1. exit \in [valid : BOOLEAN, tok : Nat, pos : Nat, res : Seq(Nat)]
    BY TypedFacts
  <2>2. [valid |-> TRUE, tok |-> t, pos |-> pos[1] + 1, res |-> a.out[1]]
          \in [valid : BOOLEAN, tok : Nat, pos : Nat, res : Seq(Nat)]
    BY <1>3, <1>4
  <2>3. exit' \in [valid : BOOLEAN, tok : Nat, pos : Nat, res : Seq(Nat)]
    BY <1>2, <2>1, <2>2
  <2>4. QED
    BY <1>2, <2>3 DEF PC
<1>9. left' \in Nat /\ left \in Nat /\ left >= 1 /\ left' = left - 1
  <2>1. left \in Nat
    BY TypedFacts
  <2>2. left >= 1
    BY <1>1 DEF Typed, Counts
  <2>3. QED
    BY <1>1, <2>1, <2>2
<1>10. TypeOK'
  BY <1>1, <1>6, <1>7, <1>8, <1>9, TypedFacts, TypesNext
<1>11. text'[1] # <<>> /\ \A r \in 1 .. n' : r = 1
  <2>1. text'[1] = Append(text[1], t)
    BY <1>1, <1>3, TypedFacts
  <2>2. \A r \in 1 .. n' : r = 1
    BY <1>1
  <2>3. QED
    BY <1>5, <2>1, <2>2
<1>12. exit'.valid => exit'.tok \in Token
  BY <1>2 DEF Typed, Texts
<1>13. Modes' /\ Texts'
  BY <1>1, <1>2, <1>11, <1>12 DEF Typed, Modes, Texts
<1>14. Counts'
  BY <1>1, <1>2, <1>9 DEF Typed, Counts
<1>15. QED
  BY <1>10, <1>13, <1>14 DEF Typed

LEMMA TypedHeadM == ASSUME Typed, NEW ts \in [1 .. n -> Token], HeadM(ts) PROVE Typed'
<1>1. /\ pc = "head" /\ n > 1
      /\ text' = [r \in Row |-> IF r <= n THEN Append(text[r], ts[r]) ELSE text[r]]
      /\ pos' = [r \in Row |-> IF r <= n THEN pos[r] + 1 ELSE pos[r]]
      /\ left' = left - 1
      /\ pc' = IF left = 1 THEN "ret" ELSE "prefix"
      /\ /\ amd' = amd /\ ctx' = ctx /\ mrow' = mrow /\ exit' = exit /\ served' = served
         /\ procs' = procs /\ mode' = mode /\ n' = n /\ tc' = tc /\ rows' = rows
         /\ base' = base /\ arow' = arow /\ at' = at /\ buf' = buf /\ res' = res
         /\ calls' = calls /\ iter' = iter
  BY DEF HeadM, boxVars, feedVars
<1>2. \A r \in Row : r <= n => r \in 1 .. n
  BY InRun
<1>3. ASSUME NEW r \in 1 .. n
      PROVE  /\ text'[r] \in Seq(Token) /\ text'[r] # <<>> /\ text'[r] = Append(text[r], ts[r])
  <2>1. r \in Row /\ r <= n
    BY InRun
  <2>2. text'[r] = Append(text[r], ts[r]) /\ text[r] \in Seq(Token) /\ ts[r] \in Token
    BY <1>1, <2>1, TypedFacts
  <2>3. QED
    BY <2>2, Grows
<1>4. text' \in [Row -> Seq(Token)]
  <2>1. ASSUME NEW r \in Row
        PROVE  (IF r <= n THEN Append(text[r], ts[r]) ELSE text[r]) \in Seq(Token)
    BY <1>2, Grows, TypedFacts
  <2>2. QED
    BY <1>1, <2>1
<1>5. pos' \in [Row -> Nat]
  <2>1. pos \in [Row -> Nat]
    BY TypedFacts
  <2>2. QED
    BY <1>1, <2>1
<1>6. left' \in Nat /\ left >= 1 /\ pc' \in {"ret", "prefix"}
  <2>1. left \in Nat
    BY TypedFacts
  <2>2. left >= 1
    BY <1>1 DEF Typed, Counts
  <2>3. QED
    BY <1>1, <2>1, <2>2
<1>7. TypeOK'
  BY <1>1, <1>4, <1>5, <1>6, TypedFacts, TypesNext DEF PC
<1>8. Modes'
  BY <1>1, <1>6 DEF Typed, Modes
<1>9. Texts'
  <2>1. 1 \in 1 .. n
    BY TypedFacts
  <2>2. QED
    BY <1>1, <1>3, <2>1 DEF Typed, Texts
<1>10. Counts'
  BY <1>1, <1>6, TypedFacts DEF Typed, Counts
<1>11. QED
  BY <1>7, <1>8, <1>9, <1>10 DEF Typed

\* A decode call of k steps, from what its caller leaves of rows and text.
LEMMA DecodeFacts ==
  ASSUME Typed, NEW m, NEW k, Decode(m, k)
  PROVE  /\ mode' = m /\ left' = k /\ pc' \in {"prefix", "tail"}
         /\ exit' \in [valid : BOOLEAN, tok : Nat, pos : Nat, res : Seq(Nat)]
         /\ res' \in [Row -> Seq(Nat)]
         /\ exit'.valid => exit.valid /\ exit' = exit
<1>1. /\ exit \in [valid : BOOLEAN, tok : Nat, pos : Nat, res : Seq(Nat)]
      /\ res \in [Row -> Seq(Nat)]
  BY TypedFacts
<1>2. exit' = exit \/ exit' = [exit EXCEPT !.valid = FALSE]
  BY DEF Decode
<1>3. res' = res \/ res' = [res EXCEPT ![1] = exit.res]
  BY DEF Decode
<1>4. exit.res \in Seq(Nat)
  BY <1>1
<1>5. res' \in [Row -> Seq(Nat)]
  BY <1>1, <1>3, <1>4
<1>6. /\ exit' \in [valid : BOOLEAN, tok : Nat, pos : Nat, res : Seq(Nat)]
      /\ exit'.valid => exit.valid /\ exit' = exit
  BY <1>1, <1>2
<1>7. QED
  BY <1>5, <1>6 DEF Decode

\* Of finitely many numbers one is the largest.
LEMMA LargestOf ==
  ASSUME NEW k \in Nat \ {0}, NEW f \in [1 .. k -> Nat]
  PROVE  \E m \in 1 .. k : \A r \in 1 .. k : f[r] <= f[m]
<1> DEFINE D == 1 .. k
           above(m) == {r \in D : f[r] > f[m]}
           T == {above(m) : m \in D}
<1>1. IsFiniteSet(D) /\ 1 \in D
  BY FS_Interval
<1>2. T \subseteq FiniteSubsetsOf(D) /\ T # {}
  <2>1. \A m \in D : above(m) \in SUBSET D
    OBVIOUS
  <2>2. \A m \in D : above(m) \in FiniteSubsetsOf(D)
    BY <1>1, <2>1, FS_Subset DEF FiniteSubsetsOf
  <2> HIDE DEF above, D
  <2>3. T \subseteq FiniteSubsetsOf(D)
    BY <2>2, Zenon
  <2>4. above(1) \in T
    BY <1>1, Zenon
  <2>5. QED
    BY <2>3, <2>4, Zenon
<1>3. PICK x \in T : \A y \in T : <<y, x>> \notin StrictSubsetOrdering(D)
  BY <1>2, WFMin, FS_StrictSubsetOrderingWellFounded
<1>4. PICK m \in D : x = above(m)
  BY <1>3
<1>5. ASSUME NEW r \in D, f[r] > f[m] PROVE FALSE
  <2>1. \A u \in D : f[u] \in Nat
    OBVIOUS
  <2>2. above(r) \subseteq above(m)
    BY <1>5, <2>1
  <2>3. r \in above(m) /\ r \notin above(r)
    BY <1>5, <2>1
  <2> HIDE DEF above, D
  <2>4. above(r) \in SUBSET D /\ above(m) \in SUBSET D
    BY DEF above
  <2>5. <<above(r), above(m)>> \in StrictSubsetOrdering(D)
    BY <2>2, <2>3, <2>4 DEF StrictSubsetOrdering
  <2>6. above(r) \in T
    BY <1>5
  <2>7. QED
    BY <1>3, <1>4, <2>5, <2>6
<1>6. ASSUME NEW r \in 1 .. k PROVE f[r] <= f[m]
  <2>1. r \in D /\ m \in 1 .. k
    BY <1>4
  <2>2. ~(f[r] > f[m])
    BY <1>5, <2>1
  <2>3. f[r] \in Nat /\ f[m] \in Nat
    BY <2>1
  <2>4. QED
    BY <2>2, <2>3
<1>7. m \in 1 .. k
  BY <1>4
<1>8. QED
  BY <1>6, <1>7

LEMMA MaxPosition ==
  ASSUME Typed
  PROVE  /\ Max({pos[r] : r \in 1 .. n}) \in Nat
         /\ \A i \in 1 .. n : pos[i] <= Max({pos[r] : r \in 1 .. n})
<1> DEFINE P == {pos[r] : r \in 1 .. n}
           f == [r \in 1 .. n |-> pos[r]]
<1>1. n \in Nat \ {0} /\ \A r \in 1 .. n : pos[r] \in Nat
  BY InRun, RowFacts
<1>2. f \in [1 .. n -> Nat]
  BY <1>1
<1>3. PICK m \in 1 .. n : \A r \in 1 .. n : f[r] <= f[m]
  BY <1>1, <1>2, LargestOf
<1>4. \A r \in 1 .. n : pos[r] <= pos[m]
  BY <1>3
<1>5. pos[m] \in P /\ \A y \in P : pos[m] >= y
  BY <1>1, <1>4
<1>6. Max(P) \in P /\ \A y \in P : Max(P) >= y
  BY <1>5 DEF Max
<1>7. QED
  BY <1>1, <1>6

LEMMA TypedDecodePrompts == ASSUME Typed, NEW k \in Budgets, DecodePrompts(k) PROVE Typed'
<1> DEFINE room == Room(Max({pos[r] : r \in 1 .. n}))
           j == Min({k, room})
<1>1. /\ pc = "primed" /\ room >= 1
      /\ Decode("decode", j)
      /\ /\ n' = n /\ text' = text /\ pos' = pos /\ amd' = amd /\ ctx' = ctx /\ mrow' = mrow
         /\ served' = served /\ procs' = procs /\ tc' = tc /\ rows' = rows /\ base' = base
         /\ arow' = arow /\ at' = at /\ buf' = buf /\ calls' = calls /\ iter' = iter
  BY DEF DecodePrompts, feedVars
<1>2. room \in Int /\ k \in Nat \ {0}
  BY MaxPosition, ConstantFacts, RowAssumption DEF Room, RowAssumption
<1> HIDE DEF room
<1>3. j \in Nat \ {0}
  BY <1>1, <1>2, MinOfTwo
<1> HIDE DEF j
<1>4. /\ mode' = "decode" /\ left' = j /\ pc' \in {"prefix", "tail"}
      /\ exit' \in [valid : BOOLEAN, tok : Nat, pos : Nat, res : Seq(Nat)]
      /\ res' \in [Row -> Seq(Nat)]
      /\ exit'.valid => exit.valid /\ exit' = exit
  BY <1>1, DecodeFacts
<1>5. left' \in Nat /\ left' >= 1
  BY <1>3, <1>4
<1>6. TypeOK'
  BY <1>1, <1>4, <1>5, TypedFacts, TypesNext DEF PC, Mode
<1>7. Modes' /\ Texts' /\ Counts'
  BY <1>1, <1>4, <1>5 DEF Typed, Modes, Texts, Counts
<1>8. QED
  BY <1>6, <1>7 DEF Typed

LEMMA TypedDecodeReturns == ASSUME Typed, DecodeReturns PROVE Typed'
<1>1. /\ pc = "ret" /\ mode \in {"decode", "rest"} /\ n = 1 /\ pc' = "idle"
      /\ /\ amd' = amd /\ ctx' = ctx /\ mrow' = mrow /\ exit' = exit /\ served' = served
         /\ procs' = procs /\ mode' = mode /\ n' = n /\ tc' = tc /\ text' = text /\ pos' = pos
         /\ rows' = rows /\ base' = base /\ arow' = arow /\ at' = at /\ buf' = buf
         /\ res' = res /\ left' = left /\ calls' = calls /\ iter' = iter
  BY DEF DecodeReturns, boxVars, runVars, feedVars, stepVars
<1>2. TypeOK'
  BY <1>1, TypedFacts, TypesNext DEF PC
<1>3. Modes' /\ Texts' /\ Counts'
  BY <1>1 DEF Typed, Modes, Texts, Counts
<1>4. QED
  BY <1>2, <1>3 DEF Typed

\* What a refill puts into the chunks: the pending token and the suffix but its last token.
LEMMA RefillRows ==
  ASSUME NEW e \in Token, NEW s \in Seq(Token), s # <<>>
  PROVE  /\ <<e>> \o Front(s) \in Seq(Token) /\ Len(<<e>> \o Front(s)) = Len(s)
         /\ (<<e>> \o Front(s))[1] = e
         /\ \A i \in 2 .. Len(s) : (<<e>> \o Front(s))[i] = s[i - 1]
         /\ Len(s) \in Nat \ {0}
<1>1. /\ Front(s) \in Seq(Token) /\ Len(Front(s)) = Len(s) - 1 /\ Len(s) \in Nat \ {0}
      /\ \A i \in 1 .. Len(s) - 1 : Front(s)[i] = s[i]
  BY LastFront
<1> DEFINE f == Front(s)
           u == <<e>>
<1>2. u \in Seq(Token) /\ Len(u) = 1 /\ u[1] = e
  BY OneToken
<1> HIDE DEF f, u
<1>3. /\ u \o f \in Seq(Token) /\ Len(u \o f) = Len(u) + Len(f)
      /\ \A i \in 1 .. Len(u) + Len(f) : (u \o f)[i] = IF i <= Len(u) THEN u[i] ELSE f[i - Len(u)]
  BY <1>1, <1>2, ConcatProperties DEF f
<1>4. Len(f) = Len(s) - 1 /\ \A i \in 1 .. Len(s) - 1 : f[i] = s[i]
  BY <1>1 DEF f
<1>5. /\ Len(u \o f) = Len(s) /\ (u \o f)[1] = e
      /\ \A i \in 2 .. Len(s) : (u \o f)[i] = s[i - 1]
  BY <1>1, <1>2, <1>3, <1>4
<1>6. QED
  BY <1>1, <1>3, <1>5 DEF f, u

LEMMA TypedRefill == ASSUME Typed, NEW s \in Injections, Refill(s) PROVE Typed'
<1>1. /\ pc = "idle" /\ exit.valid /\ Room(exit.pos + Len(s)) >= 2
      /\ rows' = <<exit.tok>> \o Front(s) /\ base' = exit.pos /\ arow' = 1 /\ at' = 0
      /\ buf' = [buf EXCEPT ![0] = [buf[0] EXCEPT ![0] = exit.res]]
      /\ text' = [text EXCEPT ![1] = text[1] \o s]
      /\ mode' = "ingest" /\ pc' = "chunks"
      /\ /\ amd' = amd /\ ctx' = ctx /\ mrow' = mrow /\ exit' = exit /\ served' = served
         /\ procs' = procs /\ n' = n /\ tc' = tc /\ pos' = pos /\ res' = res /\ left' = left
         /\ calls' = calls /\ iter' = iter
  BY DEF Refill, boxVars, stepVars
<1>2. s \in Seq(Token) /\ s # <<>> /\ exit.tok \in Token /\ n = 1
  BY <1>1, RowAssumption DEF RowAssumption, Typed, Texts, Modes
<1>3. rows' \in Seq(Token) /\ Len(rows') = Len(s) /\ Len(s) \in Nat \ {0}
  BY <1>1, <1>2, RefillRows
<1>4. exit \in [valid : BOOLEAN, tok : Nat, pos : Nat, res : Seq(Nat)]
  BY TypedFacts
<1>5. base' \in Nat /\ arow' \in Nat /\ at' \in Nat /\ exit.res \in Seq(Nat)
  BY <1>1, <1>4
<1>6. Len(rows') <= MaxPos
  <2>1. exit.pos \in Nat
    BY <1>4
  <2>2. Context - 1 - (exit.pos + Len(s)) >= 2
    BY <1>1 DEF Room
  <2>3. Context \in Nat /\ MaxPos \in Nat /\ MaxRefill \in Nat /\ Context + MaxRefill < MaxPos
    BY ConstantFacts
  <2>4. QED
    BY <1>3, <2>1, <2>2, <2>3
<1>7. buf' \in [0 .. NBuf - 1 -> [Pos -> Seq(Nat)]]
  <2>1. 0 \in 0 .. NBuf - 1 /\ 0 \in Pos
    BY ConstantFacts
  <2>2. buf \in [0 .. NBuf - 1 -> [Pos -> Seq(Nat)]]
    BY TypedFacts
  <2>3. [buf[0] EXCEPT ![0] = exit.res] \in [Pos -> Seq(Nat)]
    BY <1>5, <2>1, <2>2
  <2>4. QED
    BY <1>1, <2>1, <2>2, <2>3
<1>8. 1 \in Row /\ text[1] \in Seq(Token) /\ text[1] # <<>> /\ text \in [Row -> Seq(Token)]
  BY <1>1, <1>2, InRun, TypedFacts DEF Typed, Texts
<1>9. text[1] \o s \in Seq(Token) /\ text[1] \o s # <<>>
  BY <1>2, <1>8, ConcatProperties, ConcatEqualIffEmpty, EmptySeq
<1>10. text' \in [Row -> Seq(Token)] /\ text'[1] # <<>>
  BY <1>1, <1>8, <1>9
<1>11. TypeOK'
  BY <1>1, <1>3, <1>5, <1>7, <1>10, TypedFacts, TypesNext DEF PC, Mode
<1>12. Modes' /\ Counts'
  BY <1>1, <1>2, <1>3, <1>6 DEF Modes, Counts
<1>13. Texts'
  <2>1. \A r \in 1 .. n' : r = 1
    BY <1>1, <1>2
  <2>2. QED
    BY <1>1, <1>2, <1>10, <2>1 DEF Texts
<1>14. QED
  BY <1>11, <1>12, <1>13 DEF Typed

LEMMA TypedIngestDone == ASSUME Typed, IngestDone PROVE Typed'
<1>1. /\ pc = "chunks" /\ mode = "ingest"
      /\ pos' = [pos EXCEPT ![1] = base + Len(rows)]
      /\ mode' = "first" /\ left' = 1 /\ pc' = "prefix"
      /\ exit' = [exit EXCEPT !.valid = FALSE]
      /\ /\ n' = n /\ text' = text /\ amd' = amd /\ ctx' = ctx /\ mrow' = mrow
         /\ served' = served /\ procs' = procs /\ tc' = tc /\ rows' = rows /\ base' = base
         /\ arow' = arow /\ at' = at /\ buf' = buf /\ res' = res /\ calls' = calls
         /\ iter' = iter
  BY DEF IngestDone, ChunksDone, feedVars
<1>2. pos' \in [Row -> Nat]
  <2>1. base \in Nat /\ Len(rows) \in Nat /\ pos \in [Row -> Nat]
    BY TypedFacts
  <2>2. base + Len(rows) \in Nat
    BY <2>1
  <2>3. QED
    BY <1>1, <2>1, <2>2
<1>3. exit' \in [valid : BOOLEAN, tok : Nat, pos : Nat, res : Seq(Nat)] /\ ~exit'.valid
  BY <1>1, TypedFacts
<1>4. TypeOK'
  BY <1>1, <1>2, <1>3, TypedFacts, TypesNext DEF PC, Mode
<1>5. Modes' /\ Texts' /\ Counts'
  BY <1>1, <1>3 DEF Typed, Modes, Texts, Counts
<1>6. QED
  BY <1>4, <1>5 DEF Typed

\* A decode that goes on from where the last one stopped.
LEMMA TypedDecode ==
  ASSUME Typed, pc = "ret", NEW m \in {"rest", "loop"}, NEW k \in Nat \ {0}, Decode(m, k),
         m = "rest" => n = 1, m = "loop" => mode = "loop" /\ calls' >= 1,
         calls' \in Nat,
         /\ amd' = amd /\ ctx' = ctx /\ mrow' = mrow /\ served' = served /\ procs' = procs
         /\ n' = n /\ tc' = tc /\ text' = text /\ pos' = pos /\ rows' = rows /\ base' = base
         /\ arow' = arow /\ at' = at /\ buf' = buf /\ iter' = iter
  PROVE  Typed'
<1>1. /\ mode' = m /\ left' = k /\ pc' \in {"prefix", "tail"}
      /\ exit' \in [valid : BOOLEAN, tok : Nat, pos : Nat, res : Seq(Nat)]
      /\ res' \in [Row -> Seq(Nat)]
      /\ exit'.valid => exit.valid /\ exit' = exit
  BY DecodeFacts
<1>2. left' \in Nat /\ left' >= 1
  BY <1>1
<1>3. TypeOK'
  BY <1>1, <1>2, TypedFacts, TypesNext DEF PC, Mode
<1>4. Modes' /\ Texts' /\ Counts'
  BY <1>1, <1>2 DEF Typed, Modes, Texts, Counts
<1>5. QED
  BY <1>3, <1>4 DEF Typed

LEMMA TypedFirstReturns == ASSUME Typed, FirstReturns PROVE Typed'
<1>1. /\ pc = "ret" /\ mode = "first"
      /\ /\ n' = n /\ text' = text /\ pos' = pos /\ amd' = amd /\ ctx' = ctx /\ mrow' = mrow
         /\ served' = served /\ procs' = procs /\ tc' = tc /\ rows' = rows /\ base' = base
         /\ arow' = arow /\ at' = at /\ buf' = buf /\ calls' = calls /\ iter' = iter
  BY DEF FirstReturns, feedVars
<1>2. n = 1
  BY <1>1 DEF Typed, Modes
<1>3. CASE MaxRefill > 1
  <2>1. Decode("rest", MaxRefill - 1)
    BY <1>3 DEF FirstReturns
  <2>2. MaxRefill - 1 \in Nat \ {0} /\ calls' \in Nat
    BY <1>1, <1>3, ConstantFacts, TypedFacts
  <2>3. QED
    BY <1>1, <1>2, <2>1, <2>2, TypedDecode
<1>4. CASE ~(MaxRefill > 1)
  <2>1. /\ pc' = "idle"
        /\ /\ mode' = mode /\ left' = left /\ exit' = exit /\ res' = res
    BY <1>4 DEF FirstReturns
  <2>2. TypeOK'
    BY <1>1, <2>1, TypedFacts, TypesNext DEF PC
  <2>3. Modes' /\ Texts' /\ Counts'
    BY <1>1, <1>2, <2>1 DEF Typed, Modes, Texts, Counts
  <2>4. QED
    BY <2>2, <2>3 DEF Typed
<1>5. QED
  BY <1>3, <1>4

LEMMA TypedAskFork ==
  ASSUME Typed, NEW m \in Siblings, NEW md \in {"field", "loop"}, AskFork(m, md)
  PROVE  Typed'
<1>1. /\ pc = "primed" /\ mode = "prime" /\ n = 1
      /\ n' = m /\ mode' = md /\ base' = pos[1]
      /\ iter' = (IF md = "loop" THEN Loops ELSE 0) /\ pc' = "fork"
      /\ /\ amd' = amd /\ ctx' = ctx /\ mrow' = mrow /\ exit' = exit /\ served' = served
         /\ procs' = procs /\ tc' = tc /\ text' = text /\ pos' = pos /\ rows' = rows
         /\ arow' = arow /\ at' = at /\ buf' = buf /\ res' = res /\ left' = left
         /\ calls' = calls
  BY DEF AskFork, boxVars
<1>2. m \in 1 .. Rows /\ 1 \in Row
  BY RowAssumption, InRun DEF RowAssumption
<1>3. base' \in Nat /\ iter' \in Nat /\ (md = "loop" => iter' >= 1)
  BY <1>1, <1>2, RowFacts, ConstantFacts
<1>4. TypeOK'
  BY <1>1, <1>2, <1>3, TypedFacts, TypesNext DEF PC, Mode
<1>5. Modes' /\ Texts' /\ Counts'
  BY <1>1, <1>3 DEF Typed, Modes, Texts, Counts
<1>6. QED
  BY <1>4, <1>5 DEF Typed

LEMMA TypedAmdFork == ASSUME Typed, AmdFork PROVE Typed'
<1>1. /\ pc = "fork" /\ pc' = "forkSpark"
      /\ amd' = [r \in Row |-> IF r \in 2 .. n THEN AmdCopy(amd[r], amd[1], base) ELSE amd[r]]
      /\ /\ ctx' = ctx /\ mrow' = mrow /\ exit' = exit /\ served' = served /\ procs' = procs
         /\ mode' = mode /\ n' = n /\ tc' = tc /\ text' = text /\ pos' = pos /\ rows' = rows
         /\ base' = base /\ arow' = arow /\ at' = at /\ buf' = buf /\ res' = res
         /\ left' = left /\ calls' = calls /\ iter' = iter
  BY DEF AmdFork, runVars, feedVars, stepVars
<1>2. ASSUME NEW r \in Row PROVE AmdCopy(amd[r], amd[1], base) \in RowRec
  <2>1. amd[r] \in RowRec /\ amd[1] \in RowRec /\ base \in Nat
    BY RowFacts, InRun, TypedFacts
  <2>2. QED
    BY <2>1, CopyType
<1>3. amd' \in [Row -> RowRec]
  BY <1>1, <1>2, TypedFacts
<1>4. TypeOK'
  BY <1>1, <1>3, TypedFacts, TypesNext DEF PC
<1>5. Modes' /\ Texts' /\ Counts'
  BY <1>1 DEF Typed, Modes, Texts, Counts
<1>6. QED
  BY <1>4, <1>5 DEF Typed

LEMMA TypedSparkFork == ASSUME Typed, SparkFork PROVE Typed'
<1>1. /\ pc = "forkSpark"
      /\ mrow' = [r \in Row |-> IF r <= n THEN Copy(mrow[r], ctx, base) ELSE mrow[r]]
      /\ text' = [r \in Row |-> IF r <= n THEN text[1] ELSE text[r]]
      /\ pos' = [r \in Row |-> IF r <= n THEN base ELSE pos[r]]
      /\ Decode(mode, RenderSteps)
      /\ calls' = (IF mode = "loop" THEN RenderCalls ELSE 1)
      /\ /\ n' = n /\ amd' = amd /\ ctx' = ctx /\ served' = served /\ procs' = procs
         /\ tc' = tc /\ rows' = rows /\ base' = base /\ arow' = arow /\ at' = at /\ buf' = buf
         /\ iter' = iter
  BY DEF SparkFork, feedVars
<1>2. ASSUME NEW r \in Row PROVE Copy(mrow[r], ctx, base) \in RowRec
  <2>1. mrow[r] \in RowRec /\ ctx \in RowRec /\ base \in Nat
    BY RowFacts, TypedFacts
  <2>2. QED
    BY <2>1, CopyType
<1>3. mrow' \in [Row -> RowRec]
  BY <1>1, <1>2, TypedFacts
<1>4. 1 \in Row /\ text[1] \in Seq(Token) /\ text[1] # <<>>
  BY <1>1, InRun, RowFacts DEF Typed, Texts
<1>5. text' \in [Row -> Seq(Token)] /\ pos' \in [Row -> Nat]
  BY <1>1, <1>4, TypedFacts
<1>6. \A r \in 1 .. n : text'[r] = text[1]
  BY <1>1, InRun
<1>7. /\ mode' = mode /\ left' = RenderSteps /\ pc' \in {"prefix", "tail"}
      /\ exit' \in [valid : BOOLEAN, tok : Nat, pos : Nat, res : Seq(Nat)]
      /\ res' \in [Row -> Seq(Nat)]
      /\ exit'.valid => exit.valid /\ exit' = exit
  BY <1>1, DecodeFacts
<1>8. left' \in Nat /\ left' >= 1 /\ calls' \in Nat /\ calls' >= 1
  BY <1>1, <1>7, ConstantFacts
<1>9. TypeOK'
  BY <1>1, <1>3, <1>5, <1>7, <1>8, TypedFacts, TypesNext DEF PC
<1>10. Modes'
  BY <1>1, <1>7 DEF Typed, Modes
<1>11. Texts'
  BY <1>1, <1>4, <1>6, <1>7, InRun DEF Typed, Texts
<1>12. Counts'
  BY <1>1, <1>7, <1>8 DEF Typed, Counts
<1>13. QED
  BY <1>9, <1>10, <1>11, <1>12 DEF Typed

LEMMA TypedRenderOn == ASSUME Typed, RenderOn PROVE Typed'
<1>1. /\ pc = "ret" /\ mode = "loop" /\ calls > 1 /\ calls' = calls - 1
      /\ Decode("loop", RenderSteps)
      /\ /\ n' = n /\ text' = text /\ pos' = pos /\ amd' = amd /\ ctx' = ctx /\ mrow' = mrow
         /\ served' = served /\ procs' = procs /\ tc' = tc /\ rows' = rows /\ base' = base
         /\ arow' = arow /\ at' = at /\ buf' = buf /\ iter' = iter
  BY DEF RenderOn, feedVars
<1>2. calls' \in Nat /\ calls' >= 1
  <2>1. calls \in Nat
    BY TypedFacts
  <2>2. QED
    BY <1>1, <2>1
<1>3. RenderSteps \in Nat \ {0}
  BY ConstantFacts
<1>4. QED
  BY <1>1, <1>2, <1>3, TypedDecode

LEMMA RenderedNat == ASSUME Typed PROVE Rendered \in Nat
<1>1. RenderSteps \in Nat /\ RenderCalls \in Nat
  BY ConstantFacts
<1>2. PICK k \in Nat : k = RenderSteps * RenderCalls
  BY <1>1
<1>3. base \in Nat
  BY TypedFacts
<1>4. QED
  BY <1>2, <1>3 DEF Rendered

LEMMA TypedSparkCommit == ASSUME Typed, NEW r \in 1 .. n, SparkCommit(r) PROVE Typed'
<1>1. /\ pc = "ret" /\ mode = "loop" /\ calls = 1
      /\ ctx' = Copy(ctx, mrow[r], Rendered) /\ at' = r /\ pc' = "commitAmd"
      /\ /\ amd' = amd /\ mrow' = mrow /\ exit' = exit /\ served' = served /\ procs' = procs
         /\ mode' = mode /\ n' = n /\ tc' = tc /\ text' = text /\ pos' = pos /\ rows' = rows
         /\ base' = base /\ arow' = arow /\ buf' = buf /\ res' = res /\ left' = left
         /\ calls' = calls /\ iter' = iter
  BY DEF SparkCommit, runVars, stepVars
<1>2. r \in Row /\ r \in Nat /\ Rendered \in Nat
  BY InRun, RenderedNat
<1>3. ctx' \in RowRec
  <2>1. mrow[r] \in RowRec /\ ctx \in RowRec
    BY <1>2, RowFacts, TypedFacts
  <2>2. QED
    BY <1>1, <1>2, <2>1, CopyType
<1>4. TypeOK'
  BY <1>1, <1>2, <1>3, TypedFacts, TypesNext DEF PC
<1>5. Modes' /\ Texts' /\ Counts'
  BY <1>1 DEF Typed, Modes, Texts, Counts
<1>6. QED
  BY <1>4, <1>5 DEF Typed

LEMMA TypedAmdCommit == ASSUME Typed, AmdCommit PROVE Typed'
<1>1. /\ pc = "commitAmd"
      /\ amd' = [amd EXCEPT ![1] = AmdCopy(amd[1], amd[at], Rendered)]
      /\ text' = [text EXCEPT ![1] = text[at]]
      /\ base' = Rendered /\ iter' = iter - 1
      /\ pc' = IF iter > 1 THEN "fork" ELSE "done"
      /\ /\ ctx' = ctx /\ mrow' = mrow /\ exit' = exit /\ served' = served /\ procs' = procs
         /\ mode' = mode /\ n' = n /\ tc' = tc /\ pos' = pos /\ rows' = rows /\ arow' = arow
         /\ at' = at /\ buf' = buf /\ res' = res /\ left' = left /\ calls' = calls
  BY DEF AmdCommit, CommitRow, LoopsOn
<1>2. mode = "loop" /\ at \in 1 .. n /\ iter >= 1
  BY <1>1 DEF Typed, Modes, Counts
<1>3. at \in Row /\ 1 \in Row /\ iter \in Nat /\ Rendered \in Nat
  <2>1. iter \in Nat
    BY TypedFacts
  <2>2. QED
    BY <1>2, <2>1, InRun, RenderedNat
<1>4. AmdCopy(amd[1], amd[at], Rendered) \in RowRec
  BY <1>3, RowFacts, CopyType
<1>5. text[at] \in Seq(Token) /\ text[at] # <<>>
  BY <1>1, <1>2, <1>3, RowFacts DEF Typed, Texts
<1>6. amd' \in [Row -> RowRec] /\ text' \in [Row -> Seq(Token)]
  <2>1. amd \in [Row -> RowRec] /\ text \in [Row -> Seq(Token)]
    BY TypedFacts
  <2>2. QED
    BY <1>1, <1>4, <1>5, <2>1
<1>7. iter' \in Nat /\ (pc' = "fork" => iter' >= 1) /\ pc' \in {"fork", "done"} /\ base' \in Nat
  BY <1>1, <1>2, <1>3
<1>8. TypeOK'
  BY <1>1, <1>6, <1>7, TypedFacts, TypesNext DEF PC
<1>9. Modes'
  BY <1>1, <1>2, <1>7 DEF Typed, Modes
<1>10. \A r \in Row : text'[r] \in {text[r], text[at]}
  <2>1. text \in [Row -> Seq(Token)]
    BY TypedFacts
  <2>2. QED
    BY <1>1, <2>1
<1>11. Texts'
  BY <1>1, <1>3, <1>5, <1>10, InRun DEF Typed, Texts
<1>12. Counts'
  BY <1>1, <1>2, <1>7 DEF Typed, Counts
<1>13. QED
  BY <1>8, <1>9, <1>11, <1>12 DEF Typed


LEMMA TypedEnd == ASSUME Typed, End PROVE Typed'
<1>1. ProcessGone /\ amd' = amd /\ served' = served /\ procs' = procs
  BY DEF End
<1>2. amd' \in [Row -> RowRec] /\ served' \in Nat /\ procs' \in Nat
  BY <1>1, TypedFacts
<1>3. QED
  BY <1>1, <1>2, TypedGone

LEMMA TypedAmdBoot == ASSUME Typed, AmdBoot PROVE Typed'
<1>1. ProcessGone /\ amd' = [r \in Row |-> Blank] /\ served' = 0 /\ procs' = procs
  BY DEF AmdBoot
<1>2. amd' \in [Row -> RowRec] /\ served' \in Nat /\ procs' \in Nat
  BY <1>1, TypedFacts, BlankType
<1>3. QED
  BY <1>1, <1>2, TypedGone

LEMMA TypedNext == ASSUME Typed, [Next]_vars PROVE Typed'
<1>1. CASE UNCHANGED vars
  <2>1. /\ /\ amd' = amd /\ ctx' = ctx /\ mrow' = mrow /\ exit' = exit /\ served' = served
           /\ procs' = procs /\ pc' = pc /\ mode' = mode /\ n' = n /\ tc' = tc /\ text' = text
           /\ pos' = pos /\ rows' = rows /\ base' = base /\ arow' = arow /\ at' = at
           /\ buf' = buf /\ res' = res /\ left' = left /\ calls' = calls /\ iter' = iter
    BY <1>1 DEF vars, boxVars, runVars, feedVars, stepVars
  <2>2. TypeOK'
    BY <2>1, TypedFacts, TypesNext
  <2>3. Modes' /\ Texts' /\ Counts'
    BY <2>1 DEF Typed, Modes, Texts, Counts
  <2>4. QED
    BY <2>2, <2>3 DEF Typed
<1>2. ASSUME NEW k \in {1, Rows}, NEW t \in ChunkSizes, NEW ps \in [1 .. k -> Prompts], Start(ps, t)
      PROVE  Typed'
  BY <1>2, TypedStart
<1>3. CASE Next
  <2>1. CASE End \/ AmdBoot
    BY <2>1, TypedEnd, TypedAmdBoot
  <2>2. CASE AmdChunkRequest \/ SparkChunk \/ PrimeDone \/ PrimeToken \/ PrimeRowDone
    BY <2>2, TypedAmdChunkRequest, TypedSparkChunk, TypedPrimeDone, TypedPrimeToken, TypedPrimeRowDone
  <2>3. CASE AmdPrefix \/ SparkTail
    BY <2>3, TypedAmdPrefix, TypedSparkTail
  <2>4. ASSUME NEW t \in Token, HeadPrefix(t) PROVE Typed'
    BY <2>4, TypedHeadPrefix
  <2>5. ASSUME NEW ts \in [1 .. n -> Token], HeadM(ts) PROVE Typed'
    BY <2>5, TypedHeadM
  <2>6. ASSUME NEW k \in Budgets, DecodePrompts(k) PROVE Typed'
    BY <2>6, TypedDecodePrompts
  <2>7. CASE DecodeReturns \/ IngestDone \/ FirstReturns
    BY <2>7, TypedDecodeReturns, TypedIngestDone, TypedFirstReturns
  <2>8. ASSUME NEW s \in Injections, Refill(s) PROVE Typed'
    BY <2>8, TypedRefill
  <2>9. ASSUME NEW m \in Siblings, NEW md \in {"field", "loop"}, AskFork(m, md) PROVE Typed'
    BY <2>9, TypedAskFork
  <2>10. CASE AmdFork \/ SparkFork \/ RenderOn
    BY <2>10, TypedAmdFork, TypedSparkFork, TypedRenderOn
  <2>11. ASSUME NEW r \in 1 .. n, SparkCommit(r) PROVE Typed'
    BY <2>11, TypedSparkCommit
  <2>12. CASE AmdCommit
    BY <2>12, TypedAmdCommit
  <2>13. QED
    BY <1>2, <1>3, <2>1, <2>2, <2>3, <2>4, <2>5, <2>6, <2>7, <2>8, <2>9, <2>10, <2>11, <2>12 DEF Next
<1>4. QED
  BY <1>1, <1>3

LEMMA TypedHolds == Spec => []Typed
<1>1. Typed /\ [Next]_vars => Typed'
  BY TypedNext
<1>2. QED
  BY TypedInit, <1>1, PTL DEF Spec

\* Every component of the state keeps its type: rows of both boxes, the
\* staging buffers, the counts of the driver (qf.cu:4660-5201, main.cu:349-509).
THEOREM TypeCorrect == Spec => []TypeOK
<1>1. Typed => TypeOK
  BY DEF Typed
<1>2. QED
  BY TypedHolds, <1>1, PTL

-----------------------------------------------------------------------------
(* What both boxes hold of every row of a run, from call to call. *)

\* A loop over one row (QF_M8_FORK = 1): its render runs in the single-row
\* buffers, and its commit copies the M-row buffers over them.
LoneLoop == mode = "loop" /\ n = 1

\* The AMD rows are known in the dense range, and wherever the server is in its
\* first run: RESET leaves the pools of an earlier one.
Within == Dense \/ served = 1

\* In chunks of t, one of L rows takes the batched body, which keeps no pools.
Batched(L, t) == \E c \in 0 .. L :
  c * t < L /\ (IF c * t + t <= L THEN t ELSE L - c * t) \in 2 .. SpecMaxT
\* No prompt and no injection has such a chunk.
AllPooled == \A t \in ChunkSizes : /\ \A s \in Prompts : ~Batched(Len(s) - 1, t)
                                   /\ \A s \in Injections : ~Batched(Len(s), t)

\* The Spark rows are known in the dense range.  Beyond it only a single row is,
\* and when no chunk leaves its pools behind: several rows have none (m # 1).
Covered(m) == Dense \/ (m = 1 /\ AllPooled)
TailPools(m) == IF m = 1 /\ AllPooled THEN 1 ELSE 0
Tailing(m, x, t, p) == Covered(m) => Holding(TailPools(m), x, t, p)

\* The tail row that a decode of n rows runs on.
TailRow(r) == IF n = 1 THEN ctx ELSE mrow[r]
\* Row r is d tokens short of its text on the AMD server, e on Spark.
Resident(d, e) == \A r \in 1 .. n : /\ Holding(served, amd[r], text[r], Len(text[r]) - d)
                                    /\ Tailing(n, TailRow(r), text[r], Len(text[r]) - e)
Positions == \A r \in 1 .. n : pos[r] = Len(text[r]) - 1
Residuals == \A r \in 1 .. n : res[r] = text[r]
Tip == [valid |-> TRUE, tok |-> Last(text[1]), pos |-> Len(text[1]) - 1, res |-> text[1]]

\* How many of the rows the chunks before c are.
Through(c) == IF c * tc <= Len(rows) THEN c * tc ELSE Len(rows)
\* Chunk c is in its staging buffer as far as it was requested.
Staged(c) == \A q \in 0 .. tc - 1 :
  c * tc + q < arow => buf[c % NBuf][q] = Prefix(text[1], base + c * tc + q + 1)

Chunking ==
  /\ base + Len(rows) = Len(text[1]) - 1 /\ Len(text[1]) - 1 <= MaxPos
  /\ \A i \in 1 .. Len(rows) : rows[i] = text[1][base + i]
  /\ mode = "prime" => base = 0 /\ pos[1] = Len(text[1]) - 1
  /\ mode = "ingest" => Len(text[1]) + MaxRefill <= MaxPos
  /\ arow <= at * tc + NBuf * tc
  /\ at * tc <= arow \/ arow = Len(rows)
  /\ Holding(served, amd[1], text[1], base + arow)
  /\ Tailing(1, ctx, text[1], base + Through(at))
  /\ \A c \in at .. at + Look : Staged(c)

Priming ==
  /\ rows = Front(text[at])
  /\ Positions /\ \A r \in 1 .. n : Len(text[r]) <= MaxPos
  /\ \A r \in 1 .. at - 1 : /\ Holding(served, amd[r], text[r], Len(text[r]) - 1)
                            /\ Tailing(n, mrow[r], text[r], Len(text[r]) - 1)
  /\ Holding(served, amd[at], text[at], arow) /\ Tailing(1, ctx, text[at], arow)
  /\ \A r \in at + 1 .. n : Holding(served, amd[r], text[r], 0)

Primed == Positions /\ Resident(1, 1)

Forking ==
  /\ base = Len(text[1]) - 1 /\ base <= Context /\ ~exit.valid
  /\ Tailing(n, ctx, text[1], base) /\ Holding(served, amd[1], text[1], base)
  /\ pc = "forkSpark" => \A r \in 1 .. n : Holding(served, amd[r], text[1], base)

\* The steps left of a decode stay among the positions that are kept.
RoomLeft ==
  /\ pc # "ret" => \A r \in 1 .. n : pos[r] + left < MaxPos
  /\ mode = "first" => pos[1] + left + MaxRefill <= MaxPos
  /\ mode = "loop" => /\ base <= Context
                      /\ \A r \in 1 .. n : pos[r] + left + (calls - 1) * RenderSteps = Rendered
  /\ pc = "ret" /\ n > 1 => left = 0

Decoding ==
  /\ Positions /\ RoomLeft
  /\ pc = "prefix" => Resident(1, 1)
  /\ pc = "tail" => Resident(0, 1) /\ Residuals
  /\ pc = "head" => Resident(0, 0) /\ (Covered(n) => Residuals)
  /\ pc = "ret" /\ n > 1 => Resident(1, 1)
  /\ pc = "ret" /\ n = 1 => Resident(0, 1) /\ exit = Tip

Idle == Resident(0, 1) /\ exit = Tip

Committing ==
  /\ Tailing(n, ctx, text[at], Rendered)
  /\ \A r \in 1 .. n : Holding(served, amd[r], text[r], Rendered) /\ Len(text[r]) - 1 = Rendered

Phase ==
  /\ pc = "chunks" => Chunking
  /\ pc = "rows" => Priming
  /\ pc = "primed" => Primed
  /\ pc \in {"fork", "forkSpark"} => Forking
  /\ pc \in {"prefix", "tail", "head", "ret"} => Decoding
  /\ pc = "idle" => Idle
  /\ pc = "commitAmd" => Committing

\* Only a single row that was decoded has a pending tail.
Exits == mode = "prime" \/ n > 1 => ~exit.valid

Follows == Exits /\ (Within /\ ~LoneLoop => Phase)

\* A process runs on a server that has counted it, one that has counted none
\* has empty pools, and the chunks of a process are those of its texts.
Sized ==
  /\ pc # "off" => served >= 1 /\ tc \in ChunkSizes
  /\ served = 0 => \A r \in Row : amd[r].sum = Blank.sum
  /\ pc = "chunks" /\ AllPooled => ~Batched(Len(rows), tc)

\* The element after the first p, as a slice.
LEMMA OneSlice ==
  ASSUME NEW S, NEW t \in Seq(S), NEW p \in Nat, p + 1 <= Len(t)
  PROVE  <<t[p + 1]>> = SubSeq(t, p + 1, p + 1)
<1> DEFINE s == SubSeq(t, p + 1, p + 1)
<1>1. s \in Seq(S) /\ Len(s) = 1 /\ \A i \in 1 .. 1 : s[i] = t[p + i]
  BY SliceFacts
<1> HIDE DEF s
<1>2. t[p + 1] \in S
  BY LenProperties, ElementOfSeq
<1>3. <<t[p + 1]>> \in Seq(S) /\ Len(<<t[p + 1]>>) = 1 /\ <<t[p + 1]>>[1] = t[p + 1]
  BY <1>2, OneToken
<1>4. \A i \in 1 .. Len(s) : s[i] = <<t[p + 1]>>[i]
  BY <1>1, <1>3
<1>5. s = <<t[p + 1]>>
  BY <1>1, <1>3, <1>4, SeqEqual
<1>6. QED
  BY <1>5 DEF s

\* Rows that agree with a text from base on have the slices of that text.
LEMMA SliceOfRows ==
  ASSUME NEW S, NEW t \in Seq(S), NEW u \in Seq(S), NEW b \in Nat, b + Len(u) <= Len(t),
         \A i \in 1 .. Len(u) : u[i] = t[b + i],
         NEW p \in Nat, NEW m \in Nat, p + m <= Len(u)
  PROVE  SubSeq(u, p + 1, p + m) = SubSeq(t, b + p + 1, b + p + m)
<1>1. Len(u) \in Nat /\ b + p \in Nat /\ (b + p) + m <= Len(t)
  BY LenProperties
<1> DEFINE v == SubSeq(u, p + 1, p + m)
           w == SubSeq(t, (b + p) + 1, (b + p) + m)
<1>2. v \in Seq(S) /\ Len(v) = m /\ \A i \in 1 .. m : v[i] = u[p + i]
  BY SliceFacts
<1>3. w \in Seq(S) /\ Len(w) = m /\ \A i \in 1 .. m : w[i] = t[(b + p) + i]
  BY <1>1, SliceFacts
<1> HIDE DEF v, w
<1>4. \A i \in 1 .. m : p + i \in 1 .. Len(u) /\ b + (p + i) = (b + p) + i
  BY <1>1
<1>5. \A i \in 1 .. m : v[i] = w[i]
  BY <1>2, <1>3, <1>4
<1>6. v = w
  BY <1>2, <1>3, <1>5, SeqEqual
<1>7. QED
  BY <1>6 DEF v, w

\* A step on one token, on the AMD server.
LEMMA AmdStep ==
  ASSUME Within, NEW t \in Seq(Token), NEW p \in Nat, p + 1 <= Len(t), p + 1 <= MaxPos,
         NEW x \in RowRec, Holding(served, x, t, p)
  PROVE  /\ Holding(served, AmdPass(x, <<t[p + 1]>>, p).row, t, p + 1)
         /\ AmdPass(x, <<t[p + 1]>>, p).out = <<Prefix(t, p + 1)>>
<1>1. <<t[p + 1]>> = SubSeq(t, p + 1, p + 1)
  BY OneSlice
<1>2. /\ Holding(served, AmdPass(x, SubSeq(t, p + 1, p + 1), p).row, t, p + 1)
      /\ AmdPass(x, SubSeq(t, p + 1, p + 1), p).out = Values(t, p, 1)
  BY AmdPassIsAt DEF Within
<1>3. Values(t, p, 1) = <<Prefix(t, p + 1)>>
  BY DEF Values
<1>4. QED
  BY <1>1, <1>2, <1>3

\* The same on Spark, from the value that the prefix gave: a single row keeps its
\* pools, several rows have none.
LEMMA TailStep ==
  ASSUME NEW t \in Seq(Token), NEW p \in Nat, p + 1 <= Len(t), p + 1 <= MaxPos, NEW x \in RowRec
  PROVE  /\ Tailing(1, x, t, p) =>
              /\ Tailing(1, PooledPass(x, <<Prefix(t, p + 1)>>, p).row, t, p + 1)
              /\ Covered(1) => PooledPass(x, <<Prefix(t, p + 1)>>, p).out[1] = Prefix(t, p + 1)
         /\ \A m : m # 1 /\ Tailing(m, x, t, p) =>
              /\ Tailing(m, DensePass(x, <<Prefix(t, p + 1)>>, p).row, t, p + 1)
              /\ Covered(m) => DensePass(x, <<Prefix(t, p + 1)>>, p).out[1] = Prefix(t, p + 1)
<1> DEFINE v == Values(t, p, 1)
<1>1. v = <<Prefix(t, p + 1)>>
  BY DEF Values
<1>2. ASSUME Covered(1), Tailing(1, x, t, p)
      PROVE  Tailing(1, PooledPass(x, v, p).row, t, p + 1) /\ PooledPass(x, v, p).out = v
  <2>1. Holding(TailPools(1), x, t, p) /\ (Dense \/ TailPools(1) = 1)
    BY <1>2 DEF Tailing, TailPools, Covered
  <2>2. Holding(TailPools(1), PooledPass(x, v, p).row, t, p + 1) /\ PooledPass(x, v, p).out = v
    BY <2>1, PooledPassIsAt
  <2>3. QED
    BY <2>2 DEF Tailing
<1>3. ASSUME NEW m, m # 1, Covered(m), Tailing(m, x, t, p)
      PROVE  Tailing(m, DensePass(x, v, p).row, t, p + 1) /\ DensePass(x, v, p).out = v
  <2>1. Dense /\ TailPools(m) # 1 /\ At(x, t, p)
    BY <1>3 DEF Covered, Tailing, TailPools, Holding
  <2>2. At(DensePass(x, v, p).row, t, p + 1) /\ DensePass(x, v, p).out = v
    BY <2>1, DensePassIsAt
  <2>3. QED
    BY <2>1, <2>2 DEF Tailing, Holding
<1>4. ASSUME NEW m, NEW y, ~Covered(m) PROVE Tailing(m, y, t, p + 1)
  BY <1>4 DEF Tailing
<1> HIDE DEF v
<1>5. v[1] = Prefix(t, p + 1)
  BY <1>1
<1>6. ASSUME Tailing(1, x, t, p)
      PROVE  /\ Tailing(1, PooledPass(x, v, p).row, t, p + 1)
             /\ Covered(1) => PooledPass(x, v, p).out[1] = Prefix(t, p + 1)
  BY <1>2, <1>4, <1>5, <1>6
<1>7. ASSUME NEW m, m # 1, Tailing(m, x, t, p)
      PROVE  /\ Tailing(m, DensePass(x, v, p).row, t, p + 1)
             /\ Covered(m) => DensePass(x, v, p).out[1] = Prefix(t, p + 1)
  BY <1>3, <1>4, <1>5, <1>7
<1>8. QED
  BY <1>1, <1>6, <1>7

\* How the Spark rows go along with their texts.
LEMMA TailAppend ==
  ASSUME NEW m, NEW t \in Seq(Token), NEW e \in Token, NEW p \in 0 .. Len(t), NEW x, Tailing(m, x, t, p)
  PROVE  Tailing(m, x, Append(t, e), p)
BY AtAppend DEF Tailing

LEMMA TailConcat ==
  ASSUME NEW m, NEW t \in Seq(Token), NEW w \in Seq(Token), NEW p \in 0 .. Len(t), NEW x,
         Tailing(m, x, t, p)
  PROVE  Tailing(m, x, t \o w, p)
BY AtConcat DEF Tailing

LEMMA TailStart ==
  ASSUME NEW m, NEW t, NEW x, x.rec = <<>>, x.sum = Blank.sum
  PROVE  Tailing(m, x, t, 0)
BY StartIsAt DEF Tailing

\* Several rows have no pools to keep.
LEMMA TailLess ==
  ASSUME NEW m, NEW t, NEW p, NEW x, Tailing(1, x, t, p)
  PROVE  Tailing(m, x, t, p)
BY DEF Covered, Tailing, TailPools, Holding

LEMMA TailCopy ==
  ASSUME NEW m, m # 1, NEW k, NEW t, NEW p \in Nat, p <= MaxPos, NEW y \in RowRec, NEW x \in RowRec,
         Tailing(k, x, t, p)
  PROVE  Tailing(m, Copy(y, x, p), t, p)
<1>1. TailPools(m) # 1
  BY DEF TailPools
<1>2. ASSUME Covered(m) PROVE At(Copy(y, x, p), t, p)
  <2>1. At(x, t, p)
    BY <1>2 DEF Covered, Tailing, Holding
  <2>2. QED
    BY <2>1, CopyIsAt
<1>3. QED
  BY <1>1, <1>2 DEF Tailing, Holding

LEMMA FollowsInit == Init => Follows
<1> SUFFICES ASSUME Init PROVE Follows
  OBVIOUS
<1>1. pc = "off" /\ exit = NoExit
  BY DEF Init
<1>2. QED
  BY <1>1, BlankType DEF Follows, Phase, Exits

LEMMA FollowsGone == ASSUME ProcessGone PROVE Follows'
<1>1. pc' = "off" /\ exit' = NoExit
  BY DEF ProcessGone
<1>2. QED
  BY <1>1, BlankType DEF Follows, Phase, Exits

LEMMA FollowsStart ==
  ASSUME Typed, Sized, Follows, NEW k \in {1, Rows}, NEW t \in ChunkSizes, NEW ps \in [1 .. k -> Prompts],
         Start(ps, t)
  PROVE  Follows'
<1>1. /\ Len(ps) = k /\ k \in Nat \ {0} /\ k \in 1 .. Rows /\ 1 \in 1 .. k /\ 1 \in Row
      /\ tc \in Nat \ {0} /\ t \in Nat \ {0}
  <2>1. Len(ps) = k
    BY TypedStart
  <2>2. tc \in Nat \ {0}
    BY TypedFacts
  <2>3. 1 \in Row /\ Rows \in Nat \ {0} /\ t \in Nat \ {0}
    BY ConstantFacts, RowAssumption DEF RowAssumption
  <2>4. QED
    BY <2>1, <2>2, <2>3
<1>2. /\ pc = "off" /\ amd' = Reset(amd) /\ served' = served + 1 /\ n' = k /\ tc' = t
      /\ text' = [r \in Row |-> IF r <= k THEN ps[r] ELSE <<>>]
      /\ pos' = [r \in Row |-> IF r <= k THEN Len(ps[r]) - 1 ELSE 0]
      /\ rows' = Front(ps[1]) /\ mode' = "prime"
      /\ /\ ctx' = ctx /\ mrow' = mrow /\ exit' = exit /\ base' = base /\ arow' = arow
         /\ buf' = buf
  BY <1>1 DEF Start
<1>3. /\ k = 1 => pc' = "chunks" /\ at' = 0
      /\ k # 1 => pc' = "rows" /\ at' = 1
  BY <1>1 DEF Start
<1>4. exit = NoExit /\ ctx = Blank /\ arow = 0 /\ base = 0
      /\ ctx.rec = <<>> /\ ctx.sum = Blank.sum
  BY <1>2, BlankType DEF Typed, Modes, Blank
<1>5. ASSUME NEW r \in 1 .. k
      PROVE  /\ text'[r] = ps[r] /\ pos'[r] = Len(ps[r]) - 1 /\ Holding(served', amd'[r], text'[r], 0)
             /\ ps[r] \in Seq(Token) /\ ps[r] # <<>> /\ Len(ps[r]) \in Nat \ {0} /\ Len(ps[r]) <= MaxPos
  <2>1. r \in Row /\ r <= k
    BY <1>1 DEF Row
  <2>2. ps[r] \in Prompts
    OBVIOUS
  <2>3. ps[r] \in Seq(Token) /\ ps[r] # <<>> /\ Len(ps[r]) <= MaxPos
    BY <2>2, RowAssumption DEF RowAssumption
  <2>4. amd[r] \in RowRec
    BY <2>1, RowFacts
  <2>5. amd'[r].rec = <<>> /\ amd'[r].sum = amd[r].sum
    BY <1>2, <2>1, <2>4 DEF Reset, RowRec
  <2>6. served' = 1 => amd'[r].sum = Blank.sum
    <3>1. served \in Nat
      BY TypedFacts
    <3>2. served' = 1 => served = 0
      BY <1>2, <3>1
    <3>3. QED
      BY <2>1, <2>5, <3>2 DEF Sized
  <2>7. Holding(served', amd'[r], text'[r], 0)
    BY <2>5, <2>6, StartIsAt
  <2>8. QED
    BY <1>2, <2>1, <2>3, <2>7, EmptySeq
<1>6. Exits'
  BY <1>2, <1>4, BlankType DEF Exits
<1>7. /\ rows' = Front(text'[1]) /\ Len(rows') = Len(text'[1]) - 1 /\ Len(text'[1]) \in Nat \ {0}
      /\ \A i \in 1 .. Len(rows') : rows'[i] = text'[1][i]
  <2> DEFINE u == ps[1]
  <2>1. text'[1] = u /\ rows' = Front(u)
    BY <1>1, <1>2, <1>5
  <2>2. u \in Seq(Token) /\ u # <<>>
    BY <1>1, <1>5
  <2> HIDE DEF u
  <2>3. /\ Len(u) \in Nat \ {0} /\ Len(Front(u)) = Len(u) - 1
        /\ \A i \in 1 .. Len(u) - 1 : Front(u)[i] = u[i]
    BY <2>2, LastFront
  <2>4. QED
    BY <2>1, <2>3
<1>8. Holding(served', amd'[1], text'[1], 0) /\ Tailing(1, ctx', text'[1], 0)
  BY <1>1, <1>2, <1>4, <1>5, TailStart
<1>9. CASE k = 1
  <2>1. 0 * tc' = 0 /\ Through(0)' = 0 /\ NBuf * tc' \in Nat /\ NBuf * tc' >= 0
    BY <1>1, <1>2, <1>7, ConstantFacts DEF Through
  <2>2. \A c \in at' .. at' + Look : Staged(c)'
    <3>1. ASSUME NEW c \in Nat, NEW q \in Nat PROVE ~(c * tc' + q < arow')
      <4>1. c * tc' \in Nat
        BY <1>1, <1>2
      <4>2. QED
        BY <1>2, <1>4, <4>1
    <3>2. \A c \in at' .. at' + Look : c \in Nat
      BY <1>3, <1>9, ConstantFacts
    <3>3. \A q \in 0 .. tc' - 1 : q \in Nat
      BY <1>1, <1>2
    <3>4. QED
      BY <3>1, <3>2, <3>3 DEF Staged
  <2>3. Chunking'
    <3>1. base' = 0 /\ arow' = 0 /\ at' = 0 /\ mode' = "prime" /\ base' + arow' = 0
          /\ base' + Through(at)' = 0
      BY <1>2, <1>3, <1>4, <1>9, <2>1
    <3>2. base' + Len(rows') = Len(text'[1]) - 1 /\ Len(text'[1]) - 1 <= MaxPos
          /\ pos'[1] = Len(text'[1]) - 1
      BY <1>1, <1>5, <1>7, <3>1, ConstantFacts
    <3>3. \A i \in 1 .. Len(rows') : rows'[i] = text'[1][base' + i]
      BY <1>7, <3>1
    <3>4. arow' <= at' * tc' + NBuf * tc' /\ at' * tc' <= arow'
      BY <2>1, <3>1
    <3>5. /\ Holding(served', amd'[1], text'[1], base' + arow')
          /\ Tailing(1, ctx', text'[1], base' + Through(at)')
      BY <1>8, <3>1
    <3>6. QED
      BY <2>2, <3>1, <3>2, <3>3, <3>4, <3>5 DEF Chunking
  <2>4. QED
    BY <1>3, <1>6, <1>9, <2>3 DEF Follows, Phase
<1>10. CASE k # 1
  <2>1. Positions' /\ \A r \in 1 .. n' : Len(text'[r]) <= MaxPos
    BY <1>2, <1>5 DEF Positions
  <2>2. \A r \in at' + 1 .. n' : Holding(served', amd'[r], text'[r], 0)
    <3>1. at' = 1 /\ n' = k
      BY <1>2, <1>3, <1>10
    <3>2. \A r \in 1 + 1 .. k : r \in 1 .. k
      BY <1>1
    <3>3. QED
      BY <1>5, <3>1, <3>2
  <2>3. Priming'
    <3>1. at' = 1 /\ arow' = 0 /\ 1 .. 1 - 1 = {}
      BY <1>2, <1>3, <1>4, <1>10
    <3>2. /\ rows' = Front(text'[at'])
          /\ Holding(served', amd'[at'], text'[at'], arow') /\ Tailing(1, ctx', text'[at'], arow')
      BY <1>7, <1>8, <3>1
    <3>3. \A r \in 1 .. at' - 1 : FALSE
      BY <3>1
    <3>4. QED
      BY <2>1, <2>2, <3>2, <3>3 DEF Priming
  <2>4. QED
    BY <1>3, <1>6, <1>10, <2>3 DEF Follows, Phase
<1>11. QED
  BY <1>9, <1>10

\* A product by a positive number keeps the order.
LEMMA ProductOrder ==
  ASSUME NEW d \in Nat \ {0}, NEW a \in Nat, NEW b \in Nat
  PROVE  /\ a * d \in Nat /\ (a + 1) * d = a * d + d
         /\ a < b => a * d + d <= b * d
         /\ a * d < b * d + d => a <= b
<1>1. ASSUME NEW i \in Nat, NEW j \in Nat, i < j PROVE i * d + d <= j * d
  <2>1. j - i \in Nat /\ j - i >= 1
    BY <1>1
  <2>2. d * (j - i) >= d
    BY <2>1, ProductGrows
  <2>3. d * (j - i) = j * d - i * d
    OBVIOUS
  <2>4. i * d \in Nat /\ j * d \in Nat
    OBVIOUS
  <2>5. PICK x \in Nat, y \in Nat, z \in Int : x = i * d /\ y = j * d /\ z = d * (j - i)
    BY <2>4
  <2>6. QED
    BY <2>2, <2>3, <2>5
<1>2. a * d \in Nat /\ b * d \in Nat /\ (a + 1) * d = a * d + d
  OBVIOUS
<1>3. PICK x \in Nat, y \in Nat : x = a * d /\ y = b * d
  BY <1>2
<1>4. ASSUME x < y + d, b < a PROVE FALSE
  <2>1. b * d + d <= a * d
    BY <1>4, <1>1
  <2>2. QED
    BY <1>3, <1>4, <2>1
<1>5. QED
  BY <1>1, <1>2, <1>3, <1>4

\* A chunk request: the row of the AMD server moves on along its text, and the
\* values land in the staging buffer of their chunk, which no chunk still in
\* flight shares.
LEMMA FollowsAmdChunkRequest ==
  ASSUME Typed, Follows, AmdChunkRequest
  PROVE  Follows'
<1> DEFINE T == ReqLen
           c == ReqChunk
           t == text[1]
           p == base + arow
           a == AmdPass(amd[1], SubSeq(rows, arow + 1, arow + T), p)
           s == c % NBuf
           f == arow - c * tc
           b == [q \in Pos |-> IF q \in f .. f + T - 1 THEN a.out[q - f + 1] ELSE buf[s][q]]
<1>1. /\ pc = "chunks" /\ arow < Len(rows) /\ InFlight(c)
      /\ amd' = [amd EXCEPT ![1] = a.row] /\ buf' = [buf EXCEPT ![s] = b] /\ arow' = arow + T
      /\ /\ ctx' = ctx /\ mrow' = mrow /\ exit' = exit /\ served' = served /\ procs' = procs
         /\ pc' = pc /\ mode' = mode /\ n' = n /\ tc' = tc /\ text' = text /\ pos' = pos
         /\ rows' = rows /\ base' = base /\ at' = at /\ res' = res /\ left' = left
         /\ calls' = calls /\ iter' = iter
  BY DEF AmdChunkRequest, ReqLen, ReqChunk, runVars, stepVars
<1>0. Exits'
  BY <1>1 DEF Follows, Exits
<1> SUFFICES ASSUME Within PROVE Phase'
  BY <1>1, <1>0 DEF Follows, Within
<1>2. mode \in {"prime", "ingest"} /\ Chunking
  BY <1>1 DEF Typed, Modes, Follows, Phase, LoneLoop
<1>3. /\ c \in Nat /\ c * tc <= arow /\ arow < c * tc + tc /\ T \in Nat \ {0}
      /\ arow + T <= Len(rows) /\ arow + T <= c * tc + tc
  BY <1>1, RequestFacts
<1> HIDE DEF T, c
<1>4. /\ tc \in Nat \ {0} /\ arow \in Nat /\ base \in Nat /\ at \in Nat /\ Len(rows) \in Nat
      /\ rows \in Seq(Token) /\ NBuf = 3 /\ Look = 2 /\ MaxPos \in Nat
  BY TypedFacts, ConstantFacts
<1>5. /\ 1 \in Row /\ amd[1] \in RowRec /\ t \in Seq(Token) /\ Len(t) \in Nat
      /\ buf \in [0 .. NBuf - 1 -> [Pos -> Seq(Nat)]] /\ amd \in [Row -> RowRec]
  BY InRun, RowFacts, TypedFacts
<1>6. /\ base + Len(rows) = Len(t) - 1 /\ Len(t) - 1 <= MaxPos
      /\ \A i \in 1 .. Len(rows) : rows[i] = t[base + i]
      /\ arow <= at * tc + NBuf * tc /\ at * tc <= arow
      /\ Holding(served, amd[1], t, p)
  BY <1>1, <1>2, <1>4 DEF Chunking
<1>7. \A e \in at .. at + Look : Staged(e)
  BY <1>2 DEF Chunking
<1>8. c \in at .. at + Look
  <2>1. at * tc < c * tc + tc
    <3>1. at * tc \in Nat /\ c * tc \in Nat
      BY <1>3, <1>4, ProductOrder
    <3>2. PICK x \in Nat, y \in Nat : x = at * tc /\ y = c * tc
      BY <3>1
    <3>3. x <= arow /\ arow < y + tc
      BY <1>3, <1>6, <3>2
    <3>4. x < y + tc
      BY <1>4, <3>2, <3>3
    <3>5. QED
      BY <3>2, <3>4
  <2>2. at <= c
    BY <1>3, <1>4, <2>1, ProductOrder
  <2>3. c <= at + Look
    BY <1>1 DEF InFlight
  <2>4. QED
    BY <1>3, <1>4, <2>2, <2>3
<1>9. SubSeq(rows, arow + 1, arow + T) = SubSeq(t, p + 1, p + T)
  <2>1. base + Len(rows) <= Len(t)
    BY <1>4, <1>5, <1>6
  <2>2. SubSeq(rows, arow + 1, arow + T) = SubSeq(t, base + arow + 1, base + arow + T)
    BY <1>3, <1>4, <1>5, <1>6, <2>1, SliceOfRows
  <2>3. QED
    BY <2>2
<1> HIDE DEF t
<1>10. p \in Nat /\ p + T <= Len(t) /\ p + T <= MaxPos
  BY <1>3, <1>4, <1>5, <1>6
<1>11. Holding(served, a.row, t, p + T) /\ a.out = Values(t, p, T)
  <2>1. a = AmdPass(amd[1], SubSeq(t, p + 1, p + T), p)
    BY <1>9
  <2>2. Holding(served, amd[1], t, p) /\ t \in Seq(Token) /\ amd[1] \in RowRec /\ T \in Nat \ {0}
    BY <1>3, <1>5, <1>6
  <2> HIDE DEF p, a
  <2>3. QED
    BY <1>10, <2>1, <2>2, AmdPassIsAt DEF Within
<1> HIDE DEF a
<1>12. \A i \in 1 .. T : a.out[i] = Prefix(t, p + i)
  BY <1>11 DEF Values
<1>13. c * tc \in Nat /\ s \in 0 .. NBuf - 1 /\ f \in Nat /\ f < tc
  BY <1>3, <1>4, ProductOrder
<1>14. buf'[s] = b /\ \A e \in 0 .. NBuf - 1 : e # s => buf'[e] = buf[e]
  BY <1>1, <1>5, <1>13
<1>15. ASSUME NEW e \in at .. at + Look PROVE Staged(e)'
  <2>1. e \in Nat /\ e * tc \in Nat /\ e % NBuf \in 0 .. NBuf - 1
    BY <1>4, <1>15, ProductOrder
  <2>2. SUFFICES ASSUME NEW q \in 0 .. tc - 1, e * tc + q < arow + T
                 PROVE  buf'[e % NBuf][q] = Prefix(t, base + e * tc + q + 1)
    BY <1>1 DEF Staged, t
  <2>3. q \in Nat /\ e * tc + q < arow => buf[e % NBuf][q] = Prefix(t, base + e * tc + q + 1)
    BY <1>4, <1>7 DEF Staged, t
  <2>4. CASE e = c
    <3>1. q \in Pos
      <4>1. PICK x \in Nat : x = e * tc
        BY <2>1
      <4>2. q \in Nat /\ x + q < arow + T
        BY <1>4, <2>2, <4>1
      <4>3. q < MaxPos
        <5>1. arow + T <= MaxPos
          BY <1>3, <1>4, <1>5, <1>6
        <5>2. QED
          BY <1>3, <1>4, <4>1, <4>2, <5>1
      <4>4. QED
        BY <4>2, <4>3, ConstantFacts
    <3>2. CASE q < f
      <4>1. q \notin f .. f + T - 1 /\ e * tc + q < arow
        <5>1. PICK x \in Nat : x = c * tc
          BY <1>13
        <5>2. f = arow - x /\ e * tc = x /\ q \in Nat
          BY <2>3, <2>4, <5>1
        <5>3. q < arow - x /\ ~(q >= f)
          BY <1>4, <3>2, <5>1, <5>2
        <5>4. QED
          BY <1>3, <1>4, <5>1, <5>2, <5>3
      <4>2. QED
        BY <1>14, <2>3, <2>4, <3>1, <4>1
    <3>3. CASE ~(q < f)
      <4>1. q \in f .. f + T - 1 /\ q - f + 1 \in 1 .. T /\ p + (q - f + 1) = base + e * tc + q + 1
        <5>1. PICK x \in Nat : x = c * tc
          BY <1>13
        <5>2. q \in Nat /\ x + q < arow + T /\ e * tc = x /\ f = arow - x
          BY <1>4, <2>2, <2>4, <5>1
        <5>3. q >= f
          BY <1>13, <3>3, <5>2
        <5>4. QED
          BY <1>3, <1>4, <1>13, <5>1, <5>2, <5>3
      <4>2. b[q] = a.out[q - f + 1]
        BY <3>1, <4>1
      <4>3. QED
        BY <1>12, <1>14, <2>4, <4>1, <4>2
    <3>4. QED
      BY <3>2, <3>3
  <2>5. CASE e # c
    <3>1. e % NBuf # s
      <4>1. CASE e < c
        <5>1. e \in Nat /\ c \in Nat /\ NBuf \in Nat \ {0} /\ e < c /\ c - e < NBuf
          BY <1>3, <1>4, <1>8, <2>1, <4>1
        <5>2. e % NBuf # c % NBuf
          BY <5>1, WindowInjective
        <5>3. QED
          BY <5>2
      <4>2. CASE e > c
        <5>1. e \in Nat /\ c \in Nat /\ NBuf \in Nat \ {0} /\ c < e /\ e - c < NBuf
          BY <1>3, <1>4, <1>8, <2>1, <4>2
        <5>2. c % NBuf # e % NBuf
          BY <5>1, WindowInjective
        <5>3. QED
          BY <5>2
      <4>3. QED
        BY <1>3, <2>1, <2>5, <4>1, <4>2
    <3>2. e * tc + q < arow
      <4>1. CASE e < c
        <5>1. e * tc + tc <= c * tc
          BY <1>3, <1>4, <2>1, <4>1, ProductOrder
        <5>2. QED
          BY <1>3, <1>4, <1>13, <2>1, <2>2, <5>1
      <4>2. CASE e > c
        <5>1. c * tc + tc <= e * tc
          BY <1>3, <1>4, <2>1, <4>2, ProductOrder
        <5>2. QED
          BY <1>3, <1>4, <1>13, <2>1, <2>2, <2>3, <5>1
      <4>3. QED
        BY <1>3, <2>1, <2>5, <4>1, <4>2
    <3>3. buf'[e % NBuf] = buf[e % NBuf]
      BY <1>14, <2>1, <3>1
    <3>4. QED
      BY <2>3, <3>2, <3>3
  <2>6. QED
    BY <2>4, <2>5
<1>16. arow' <= at * tc + NBuf * tc /\ at * tc <= arow'
  <2>1. at * tc \in Nat /\ c * tc \in Nat
    BY <1>3, <1>4, ProductOrder
  <2>2. c * tc <= at * tc + 2 * tc
    <3>1. CASE c = at
      BY <1>4, <2>1, <3>1
    <3>2. CASE c = at + 1
      BY <1>4, <2>1, <3>2
    <3>3. CASE c = at + 2
      BY <1>4, <2>1, <3>3
    <3>4. QED
      BY <1>4, <1>8, <3>1, <3>2, <3>3
  <2>3. PICK x \in Nat, y \in Nat, z \in Nat : x = at * tc /\ y = c * tc /\ z = 3 * tc
    <3>1. 3 * tc \in Nat
      BY <1>4
    <3>2. QED
      BY <2>1, <3>1
  <2>4. y <= x + 2 * tc /\ arow + T <= y + tc /\ x <= arow /\ z = 3 * tc
    BY <1>3, <1>4, <1>6, <2>2, <2>3
  <2>5. arow + T <= x + z /\ x <= arow + T
    BY <1>3, <1>4, <2>3, <2>4
  <2>6. QED
    BY <1>1, <1>4, <2>3, <2>5
<1>17. Holding(served, amd'[1], t, base + arow')
  <2>1. base + arow' = p + T /\ amd'[1] = a.row
    BY <1>1, <1>4, <1>3, <1>5
  <2>2. QED
    BY <1>11, <2>1
<1>18. Through(at)' = Through(at)
  BY <1>1 DEF Through
<1>19. Chunking'
  <2>1. Tailing(1, ctx', t, base + Through(at)')
    BY <1>1, <1>2, <1>18 DEF Chunking, t
  <2>2. \A e \in at' .. at' + Look : Staged(e)'
    BY <1>1, <1>15
  <2>3. /\ base' = base /\ at' = at /\ tc' = tc /\ rows' = rows /\ text' = text
        /\ mode' = mode /\ pos' = pos /\ served' = served
    BY <1>1
  <2>4. /\ mode = "prime" => base = 0 /\ pos[1] = Len(t) - 1
        /\ mode = "ingest" => Len(t) + MaxRefill <= MaxPos
    BY <1>2 DEF Chunking, t
  <2>5. QED
    BY <1>6, <1>16, <1>17, <2>1, <2>2, <2>3, <2>4 DEF Chunking, t
<1>20. QED
  BY <1>1, <1>19 DEF Phase

\* Spark runs the chunk that waits in the oldest staging buffer, whole.
LEMMA FollowsSparkChunk ==
  ASSUME Typed, Sized, Follows, SparkChunk
  PROVE  Follows'
<1> DEFINE T == ChunkLen(at)
           v == [i \in 1 .. T |-> buf[at % NBuf][i - 1]]
           p == base + at * tc
           t == text[1]
<1>1. /\ pc = "chunks" /\ at * tc < Len(rows) /\ arow >= ChunkEnd(at) /\ at' = at + 1
      /\ ctx' = IF T > 1 /\ T <= SpecMaxT THEN DensePass(ctx, v, p).row ELSE PooledPass(ctx, v, p).row
      /\ /\ amd' = amd /\ mrow' = mrow /\ exit' = exit /\ served' = served /\ procs' = procs
         /\ pc' = pc /\ mode' = mode /\ n' = n /\ tc' = tc /\ text' = text /\ pos' = pos
         /\ rows' = rows /\ base' = base /\ arow' = arow /\ buf' = buf /\ res' = res
         /\ left' = left /\ calls' = calls /\ iter' = iter
  BY DEF SparkChunk, boxVars, runVars, feedVars, stepVars
<1>0. Exits'
  BY <1>1 DEF Follows, Exits
<1> SUFFICES ASSUME Within PROVE Phase'
  BY <1>1, <1>0 DEF Follows, Within
<1>2. mode \in {"prime", "ingest"} /\ Chunking
  BY <1>1 DEF Typed, Modes, Follows, Phase, LoneLoop
<1>3. /\ tc \in Nat \ {0} /\ arow \in Nat /\ base \in Nat /\ at \in Nat /\ Len(rows) \in Nat
      /\ ctx \in RowRec /\ NBuf = 3 /\ Look = 2 /\ MaxPos \in Nat
  BY TypedFacts, ConstantFacts
<1>4. t \in Seq(Token) /\ Len(t) \in Nat
  BY InRun, RowFacts
<1>5. PICK x \in Nat : x = at * tc /\ (at + 1) * tc = x + tc
  BY <1>3, ProductOrder
<1>6. /\ base + Len(rows) = Len(t) - 1 /\ Len(t) - 1 <= MaxPos
      /\ arow <= x + NBuf * tc /\ arow <= Len(rows)
      /\ Tailing(1, ctx, t, p)
  <2>1. base + Through(at) = p
    <3>1. Through(at) = IF x <= Len(rows) THEN x ELSE Len(rows)
      BY <1>5 DEF Through
    <3>2. x < Len(rows)
      BY <1>1, <1>5
    <3>3. Through(at) = x
      BY <1>3, <1>5, <3>1, <3>2
    <3>4. QED
      BY <1>5, <3>3
  <2>2. arow <= Len(rows)
    BY <1>1 DEF Typed, Counts
  <2>3. QED
    BY <1>2, <1>5, <2>1, <2>2 DEF Chunking
<1>7. ChunkEnd(at) = IF x + tc <= Len(rows) THEN x + tc ELSE Len(rows)
  BY <1>3, <1>5, ChunkFacts
<1>8. T = ChunkEnd(at) - x /\ T \in Nat \ {0} /\ T <= tc /\ x + T <= arow /\ x + T <= Len(rows)
  <2>1. x < Len(rows) /\ arow >= ChunkEnd(at)
    BY <1>1, <1>5
  <2>2. T = ChunkEnd(at) - x
    BY <1>5 DEF ChunkLen
  <2>3. QED
    BY <1>3, <1>7, <2>1, <2>2
<1> HIDE DEF T
<1>9. p = base + x /\ p \in Nat /\ p + T <= Len(t) /\ p + T <= MaxPos
  <2>1. p = base + x
    BY <1>5
  <2>2. QED
    BY <1>3, <1>4, <1>6, <1>8, <2>1
<1> HIDE DEF p
<1>10. v = Values(t, p, T)
  <2>1. ASSUME NEW i \in 1 .. T PROVE buf[at % NBuf][i - 1] = Prefix(t, p + i)
    <3>1. i - 1 \in 0 .. tc - 1 /\ x + (i - 1) < arow /\ base + x + (i - 1) + 1 = p + i
      BY <1>3, <1>8, <1>9
    <3>2. Staged(at)
      BY <1>2, <1>3 DEF Chunking
    <3>3. x = at * tc
      BY <1>5
    <3>4. buf[at % NBuf][i - 1] = Prefix(t, base + x + (i - 1) + 1)
      BY <3>1, <3>2, <3>3 DEF Staged
    <3>5. QED
      BY <3>1, <3>4
  <2>2. QED
    BY <2>1 DEF Values
<1>11. Tailing(1, ctx', t, p + T)
  <2> SUFFICES ASSUME Covered(1) PROVE Tailing(1, ctx', t, p + T)
    BY DEF Tailing
  <2>1. Holding(TailPools(1), ctx, t, p)
    BY <1>6 DEF Tailing
  <2>2. /\ ctx \in RowRec /\ t \in Seq(Token) /\ p \in Nat /\ T \in Nat \ {0}
        /\ p + T <= Len(t) /\ p + T <= MaxPos
    BY <1>3, <1>4, <1>8, <1>9
  <2>3. ctx' = IF T > 1 /\ T <= SpecMaxT THEN DensePass(ctx, Values(t, p, T), p).row
               ELSE PooledPass(ctx, Values(t, p, T), p).row
    BY <1>1, <1>10 DEF p
  <2> HIDE DEF v, t
  <2>4. CASE T > 1 /\ T <= SpecMaxT
    <3>1. ~AllPooled
      <4>1. at \in 0 .. Len(rows)
        <5>1. at <= x
          BY <1>3, <1>5, ProductGrows
        <5>2. QED
          BY <1>1, <1>3, <1>5, <5>1
      <4>2. at * tc < Len(rows) /\ (IF at * tc + tc <= Len(rows) THEN tc ELSE Len(rows) - at * tc) = T
        <5>1. (IF x + tc <= Len(rows) THEN tc ELSE Len(rows) - x) = T
          <6>1. PICK e \in Nat, l \in Nat : e = T /\ l = Len(rows)
            BY <1>3, <1>8
          <6>2. e = (IF x + tc <= l THEN x + tc ELSE l) - x
            BY <1>7, <1>8, <6>1
          <6>3. (IF x + tc <= l THEN tc ELSE l - x) = e
            BY <1>3, <6>2
          <6>4. QED
            BY <6>1, <6>3
        <5>2. x = at * tc
          BY <1>5
        <5>3. QED
          BY <1>1, <5>1, <5>2
      <4>3. T \in 2 .. SpecMaxT
        BY <2>2, <2>4, ConstantFacts
      <4>4. Batched(Len(rows), tc)
        BY <4>1, <4>2, <4>3 DEF Batched
      <4>5. QED
        BY <1>1, <4>4 DEF Sized
    <3>2. TailPools(1) # 1
      BY <3>1 DEF TailPools
    <3>3. At(DensePass(ctx, Values(t, p, T), p).row, t, p + T)
      BY <2>1, <2>2, <3>1, DensePassIsAt DEF Holding, Covered
    <3>4. QED
      BY <2>3, <2>4, <3>2, <3>3 DEF Tailing, Holding
  <2>5. CASE ~(T > 1 /\ T <= SpecMaxT)
    <3>1. Dense \/ TailPools(1) = 1
      BY DEF Covered, TailPools
    <3>2. Holding(TailPools(1), PooledPass(ctx, Values(t, p, T), p).row, t, p + T)
      BY <2>1, <2>2, <3>1, PooledPassIsAt
    <3>3. QED
      BY <2>3, <2>5, <3>2 DEF Tailing
  <2>6. QED
    BY <2>4, <2>5
<1>12. base + Through(at)' = p + T
  <2>1. Through(at)' = IF x + tc <= Len(rows) THEN x + tc ELSE Len(rows)
    BY <1>1, <1>5 DEF Through
  <2>2. (IF x + tc <= Len(rows) THEN x + tc ELSE Len(rows)) = x + T
    BY <1>3, <1>5, <1>7, <1>8
  <2>3. p + T = base + (x + T)
    BY <1>3, <1>5, <1>8, <1>9
  <2>4. QED
    BY <2>1, <2>2, <2>3
<1>13. arow' <= at' * tc' + NBuf * tc' /\ (at' * tc' <= arow' \/ arow' = Len(rows'))
  <2>1. at' * tc' = x + tc /\ arow' = arow /\ tc' = tc /\ rows' = rows
    BY <1>1, <1>5
  <2>2. PICK z \in Nat : z = NBuf * tc
    BY <1>3
  <2>3. arow <= x + z /\ arow >= ChunkEnd(at)
    BY <1>1, <1>6, <2>2
  <2>4. arow <= (x + tc) + z /\ (x + tc <= arow \/ arow = Len(rows))
    BY <1>3, <1>5, <1>6, <1>7, <2>2, <2>3
  <2>5. QED
    BY <2>1, <2>2, <2>4
<1>14. ASSUME NEW c \in at' .. at' + Look PROVE Staged(c)'
  <2>1. c \in Nat /\ (c \in at .. at + Look \/ c = at + 3)
    BY <1>1, <1>3
  <2>2. CASE c \in at .. at + Look
    BY <1>1, <1>2, <2>2 DEF Chunking, Staged
  <2>3. CASE c = at + 3
    <3>1. c * tc = x + 3 * tc
      BY <1>3, <1>5, <2>3
    <3>2. PICK z \in Nat : z = 3 * tc
      BY <1>3
    <3>3. arow <= x + z /\ c * tc = x + z
      BY <1>3, <1>6, <3>1, <3>2
    <3>4. \A q \in 0 .. tc - 1 : ~(c * tc + q < arow)
      BY <1>3, <3>2, <3>3
    <3>5. QED
      BY <1>1, <3>4 DEF Staged
  <2>4. QED
    BY <2>1, <2>2, <2>3
<1>15. Chunking'
  <2>1. /\ base' = base /\ tc' = tc /\ rows' = rows /\ text' = text /\ arow' = arow
        /\ mode' = mode /\ pos' = pos /\ amd' = amd /\ served' = served
    BY <1>1
  <2>2. /\ mode = "prime" => base = 0 /\ pos[1] = Len(t) - 1
        /\ mode = "ingest" => Len(t) + MaxRefill <= MaxPos
        /\ \A i \in 1 .. Len(rows) : rows[i] = t[base + i]
        /\ Holding(served, amd[1], t, base + arow)
    BY <1>2 DEF Chunking
  <2>3. Tailing(1, ctx', t, base + Through(at)')
    BY <1>11, <1>12
  <2>4. QED
    BY <1>6, <1>13, <1>14, <2>1, <2>2, <2>3 DEF Chunking
<1>16. QED
  BY <1>1, <1>15 DEF Phase

\* When the chunks are done, both boxes have gone through all of the rows.
LEMMA ChunksDoneFacts ==
  ASSUME Within, Typed, Follows, ChunksDone
  PROVE  /\ n = 1 /\ 1 \in Row /\ text[1] \in Seq(Token) /\ Len(text[1]) \in Nat
         /\ base + Len(rows) = Len(text[1]) - 1
         /\ Holding(served, amd[1], text[1], Len(text[1]) - 1)
         /\ Tailing(1, ctx, text[1], Len(text[1]) - 1)
         /\ mode = "prime" => pos[1] = Len(text[1]) - 1
         /\ mode = "ingest" => Len(text[1]) + MaxRefill <= MaxPos
<1>1. pc = "chunks" /\ at * tc >= Len(rows)
  BY DEF ChunksDone
<1>2. mode \in {"prime", "ingest"} /\ n = 1 /\ Chunking /\ arow <= Len(rows)
  BY <1>1 DEF Typed, Modes, Counts, Follows, Phase, LoneLoop
<1>3. /\ tc \in Nat \ {0} /\ arow \in Nat /\ base \in Nat /\ at \in Nat /\ Len(rows) \in Nat
  BY TypedFacts
<1>4. 1 \in Row /\ text[1] \in Seq(Token) /\ Len(text[1]) \in Nat
  BY InRun, RowFacts
<1>5. PICK x \in Nat : x = at * tc
  BY <1>3, ProductOrder
<1>6. arow = Len(rows)
  <2>1. x <= arow \/ arow = Len(rows)
    BY <1>2, <1>5 DEF Chunking
  <2>2. x >= Len(rows)
    BY <1>1, <1>5
  <2>3. QED
    BY <1>2, <1>3, <1>5, <2>1, <2>2
<1>7. Through(at) = Len(rows)
  <2>1. Through(at) = IF x <= Len(rows) THEN x ELSE Len(rows)
    BY <1>5 DEF Through
  <2>2. x >= Len(rows)
    BY <1>1, <1>5
  <2>3. QED
    BY <1>3, <1>5, <2>1, <2>2
<1>8. QED
  BY <1>2, <1>4, <1>6, <1>7 DEF Chunking

LEMMA FollowsPrimeDone == ASSUME Typed, Follows, PrimeDone PROVE Follows'
<1>1. /\ ChunksDone /\ mode = "prime" /\ pc' = "primed"
      /\ /\ amd' = amd /\ ctx' = ctx /\ mrow' = mrow /\ exit' = exit /\ served' = served
         /\ procs' = procs /\ mode' = mode /\ n' = n /\ tc' = tc /\ text' = text /\ pos' = pos
         /\ rows' = rows /\ base' = base /\ arow' = arow /\ at' = at /\ buf' = buf
         /\ res' = res /\ left' = left /\ calls' = calls /\ iter' = iter
  BY DEF PrimeDone, boxVars, runVars, feedVars, stepVars
<1>0. Exits'
  BY <1>1 DEF Follows, Exits
<1> SUFFICES ASSUME Within PROVE Phase'
  BY <1>1, <1>0 DEF Follows, Within
<1>2. /\ n = 1 /\ pos[1] = Len(text[1]) - 1
      /\ Holding(served, amd[1], text[1], Len(text[1]) - 1)
      /\ Tailing(1, ctx, text[1], Len(text[1]) - 1)
  BY <1>1, ChunksDoneFacts
<1>3. Resident(1, 1)'
  BY <1>1, <1>2 DEF Resident, TailRow
<1>4. Primed'
  BY <1>1, <1>2, <1>3 DEF Primed, Positions
<1>5. QED
  BY <1>1, <1>4 DEF Phase

LEMMA FollowsIngestDone == ASSUME Typed, Follows, IngestDone PROVE Follows'
<1>1. /\ ChunksDone /\ mode = "ingest"
      /\ pos' = [pos EXCEPT ![1] = base + Len(rows)]
      /\ mode' = "first" /\ left' = 1 /\ pc' = "prefix"
      /\ exit' = [exit EXCEPT !.valid = FALSE]
      /\ /\ n' = n /\ text' = text /\ amd' = amd /\ ctx' = ctx /\ mrow' = mrow
         /\ served' = served /\ procs' = procs /\ tc' = tc /\ rows' = rows /\ base' = base
         /\ arow' = arow /\ at' = at /\ buf' = buf /\ res' = res /\ calls' = calls
         /\ iter' = iter
  BY DEF IngestDone, feedVars
<1>0. Exits'
  <2>1. exit \in [valid : BOOLEAN, tok : Nat, pos : Nat, res : Seq(Nat)]
    BY TypedFacts
  <2>2. QED
    BY <1>1, <2>1 DEF Exits
<1> SUFFICES ASSUME Within PROVE Phase'
  BY <1>1, <1>0 DEF Follows, Within
<1>2. /\ n = 1 /\ base + Len(rows) = Len(text[1]) - 1 /\ Len(text[1]) \in Nat /\ 1 \in Row
      /\ Holding(served, amd[1], text[1], Len(text[1]) - 1)
      /\ Tailing(1, ctx, text[1], Len(text[1]) - 1)
      /\ Len(text[1]) + MaxRefill <= MaxPos
  BY <1>1, ChunksDoneFacts
<1>3. MaxRefill \in Nat \ {0} /\ MaxPos \in Nat /\ pos \in [Row -> Nat]
      /\ exit \in [valid : BOOLEAN, tok : Nat, pos : Nat, res : Seq(Nat)]
  BY ConstantFacts, TypedFacts
<1>4. pos'[1] = Len(text[1]) - 1
  BY <1>1, <1>2, <1>3
<1>5. Positions' /\ Resident(1, 1)'
  <2>1. Resident(1, 1)'
    BY <1>1, <1>2 DEF Resident, TailRow
  <2>2. Positions'
    BY <1>1, <1>2, <1>4 DEF Positions
  <2>3. QED
    BY <2>1, <2>2
<1>6. RoomLeft'
  <2>1. pos'[1] + left' < MaxPos /\ pos'[1] + left' + MaxRefill <= MaxPos
    <3>1. pos'[1] + left' = Len(text[1])
      BY <1>1, <1>2, <1>4
    <3>2. Len(text[1]) < MaxPos
      BY <1>2, <1>3
    <3>3. QED
      BY <1>2, <3>1, <3>2
  <2>2. QED
    BY <1>1, <1>2, <2>1 DEF RoomLeft
<1>7. Decoding'
  BY <1>1, <1>5, <1>6 DEF Decoding
<1>8. QED
  BY <1>1, <1>7 DEF Phase

\* A refill: the AMD server has the pending token already, and its residual is
\* the first value of the first chunk.
LEMMA FollowsRefill ==
  ASSUME Typed, Follows, NEW s \in Injections, Refill(s)
  PROVE  Follows'
<1> DEFINE t == text[1]
           u == t \o s
<1>1. /\ pc = "idle" /\ exit.valid /\ Room(exit.pos + Len(s)) >= 2
      /\ rows' = <<exit.tok>> \o Front(s) /\ base' = exit.pos /\ arow' = 1 /\ at' = 0
      /\ buf' = [buf EXCEPT ![0] = [buf[0] EXCEPT ![0] = exit.res]]
      /\ text' = [text EXCEPT ![1] = u]
      /\ mode' = "ingest" /\ pc' = "chunks"
      /\ /\ amd' = amd /\ ctx' = ctx /\ mrow' = mrow /\ exit' = exit /\ served' = served
         /\ procs' = procs /\ n' = n /\ tc' = tc /\ pos' = pos /\ res' = res /\ left' = left
         /\ calls' = calls /\ iter' = iter
  BY DEF Refill, boxVars, stepVars
<1>2. n = 1 /\ mode # "loop" /\ s \in Seq(Token) /\ s # <<>> /\ exit.tok \in Token
  BY <1>1, RowAssumption DEF RowAssumption, Typed, Texts, Modes
<1>0. Exits'
  BY <1>1, <1>2 DEF Exits
<1> SUFFICES ASSUME Within PROVE Phase'
  BY <1>1, <1>0 DEF Follows, Within
<1>3. Idle
  BY <1>1, <1>2 DEF Follows, Phase, LoneLoop
<1>4. 1 \in Row /\ t \in Seq(Token) /\ t # <<>> /\ text \in [Row -> Seq(Token)]
  BY <1>1, <1>2, InRun, TypedFacts DEF Typed, Texts
<1>5. /\ Len(t) \in Nat \ {0} /\ Last(t) = t[Len(t)]
  BY <1>4, LastFront
<1>6. /\ exit.tok = t[Len(t)] /\ exit.pos = Len(t) - 1 /\ exit.res = t
      /\ Holding(served, amd[1], t, Len(t) - 0) /\ Tailing(1, ctx, t, Len(t) - 1)
  BY <1>2, <1>3, <1>5 DEF Idle, Tip, Resident, TailRow
<1>7. text'[1] = u
  BY <1>1, <1>4
<1>8. /\ u \in Seq(Token) /\ Len(u) = Len(t) + Len(s) /\ Len(s) \in Nat
      /\ \A i \in 1 .. Len(t) + Len(s) : u[i] = IF i <= Len(t) THEN t[i] ELSE s[i - Len(t)]
  BY <1>2, <1>4, ConcatProperties, LenProperties
<1>9. /\ Len(rows') = Len(s) /\ Len(s) \in Nat \ {0} /\ rows'[1] = exit.tok
      /\ \A i \in 2 .. Len(s) : rows'[i] = s[i - 1]
  BY <1>1, <1>2, RefillRows
<1>10. Holding(served, amd[1], u, Len(t)) /\ Tailing(1, ctx, u, Len(t) - 1)
  <2>1. Len(t) \in 0 .. Len(t) /\ Len(t) - 1 \in 0 .. Len(t) /\ Len(t) - 0 = Len(t)
    BY <1>5
  <2>2. QED
    BY <1>2, <1>4, <1>6, <2>1, AtConcat, TailConcat
<1>11. Prefix(u, Len(t)) = t
  <2>1. Len(t) \in 0 .. Len(t)
    BY <1>5
  <2>2. QED
    BY <1>2, <1>4, <2>1, PrefixConcat, PrefixFull
<1> HIDE DEF u, t
<1>12. /\ base' + Len(rows') = Len(u) - 1 /\ Len(u) - 1 <= MaxPos /\ Len(u) + MaxRefill <= MaxPos
       /\ base' = Len(t) - 1
  <2>1. Context - 1 - (exit.pos + Len(s)) >= 2
    BY <1>1 DEF Room
  <2>2. Context \in Nat /\ MaxPos \in Nat /\ MaxRefill \in Nat /\ Context + MaxRefill < MaxPos
    BY ConstantFacts
  <2>3. PICK x \in Nat, y \in Nat : x = Len(t) /\ y = Len(s)
    BY <1>5, <1>8
  <2>4. exit.pos = x - 1 /\ Len(rows') = y /\ base' = x - 1 /\ Len(u) = x + y
    BY <1>1, <1>6, <1>8, <1>9, <2>3 DEF t
  <2>5. Context - 1 - (x - 1 + y) >= 2
    BY <2>1, <2>3, <2>4
  <2>6. QED
    BY <2>2, <2>3, <2>4, <2>5
<1>13. \A i \in 1 .. Len(rows') : rows'[i] = u[base' + i]
  <2>1. SUFFICES ASSUME NEW i \in 1 .. Len(s) PROVE rows'[i] = u[Len(t) - 1 + i]
    BY <1>9, <1>12
  <2>2. CASE i = 1
    <3>1. Len(t) - 1 + i = Len(t) /\ Len(t) \in 1 .. Len(t) + Len(s)
      BY <1>5, <1>8, <2>2
    <3>2. u[Len(t)] = t[Len(t)]
      BY <1>5, <1>8, <3>1
    <3>3. rows'[i] = t[Len(t)]
      BY <1>6, <1>9, <2>2 DEF t
    <3>4. QED
      BY <3>1, <3>2, <3>3
  <2>3. CASE i # 1
    <3>1. PICK j \in Int : j = Len(t) - 1 + i
      <4>1. i \in Int /\ Len(t) \in Int
        BY <1>5
      <4>2. Len(t) - 1 + i \in Int
        BY <4>1
      <4>3. QED
        BY <4>2
    <3>2. /\ i \in 2 .. Len(s) /\ j \in 1 .. Len(t) + Len(s)
          /\ ~(j <= Len(t)) /\ j - Len(t) = i - 1
      BY <1>5, <1>8, <2>3, <3>1
    <3>3. u[j] = s[j - Len(t)]
      BY <1>8, <3>2
    <3>4. rows'[i] = s[i - 1]
      BY <1>9, <3>2
    <3>5. QED
      BY <3>1, <3>2, <3>3, <3>4
  <2>4. QED
    BY <2>2, <2>3
<1>14. tc \in Nat \ {0} /\ NBuf = 3 /\ Look = 2 /\ buf \in [0 .. NBuf - 1 -> [Pos -> Seq(Nat)]] /\ 0 \in Pos
  BY TypedFacts, ConstantFacts
<1>15. 0 * tc' = 0 /\ Through(0)' = 0 /\ NBuf * tc' \in Nat /\ arow' <= NBuf * tc'
  <2>1. 0 * tc' = 0 /\ NBuf * tc' \in Nat /\ 1 <= NBuf * tc'
    BY <1>1, <1>14
  <2>2. Through(0)' = 0
    BY <1>9, <2>1 DEF Through
  <2>3. QED
    BY <1>1, <2>1, <2>2
<1>16. ASSUME NEW c \in 0 .. Look PROVE Staged(c)'
  <2>1. SUFFICES ASSUME NEW q \in 0 .. tc - 1, c * tc + q < 1
                 PROVE  buf'[c % NBuf][q] = Prefix(u, base' + c * tc + q + 1)
    BY <1>1, <1>7 DEF Staged
  <2>2. c = 0 /\ q = 0
    <3>1. CASE c = 0
      BY <1>14, <2>1, <3>1
    <3>2. CASE c \in {1, 2}
      <4>1. c * tc >= 1
        BY <1>14, <3>2
      <4>2. q >= 0 /\ c * tc \in Nat
        BY <1>14, <3>2
      <4>3. QED
        BY <2>1, <4>1, <4>2
    <3>3. QED
      BY <1>14, <3>1, <3>2
  <2>3. c % NBuf = 0 /\ base' + c * tc + q + 1 = Len(t)
    BY <1>5, <1>12, <1>14, <2>2
  <2>4. buf'[0][0] = exit.res
    BY <1>1, <1>14
  <2>5. QED
    BY <1>6, <1>11, <2>2, <2>3, <2>4 DEF t
<1>17. Chunking'
  <2>1. Holding(served', amd'[1], u, base' + arow') /\ Tailing(1, ctx', u, base' + Through(at)')
    <3>1. base' + arow' = Len(t) /\ base' + Through(0)' = Len(t) - 1 /\ at' = 0
      BY <1>1, <1>5, <1>12, <1>15
    <3>2. Through(at)' = Through(0)'
      BY <3>1 DEF Through
    <3>3. QED
      BY <1>1, <1>10, <3>1, <3>2
  <2>2. \A c \in at' .. at' + Look : Staged(c)'
    BY <1>1, <1>14, <1>16
  <2>3. arow' <= at' * tc' + NBuf * tc' /\ at' * tc' <= arow'
    BY <1>1, <1>15
  <2>4. QED
    BY <1>1, <1>7, <1>12, <1>13, <2>1, <2>2, <2>3 DEF Chunking
<1>18. QED
  BY <1>1, <1>17 DEF Phase

\* Priming row by row, one token through both boxes at a time.
LEMMA FollowsPrimeToken ==
  ASSUME Typed, Follows, PrimeToken
  PROVE  Follows'
<1> DEFINE t == text[at]
           a == AmdPass(amd[at], <<rows[arow + 1]>>, arow)
<1>1. /\ pc = "rows" /\ arow < Len(rows)
      /\ amd' = [amd EXCEPT ![at] = a.row] /\ ctx' = PooledPass(ctx, a.out, arow).row
      /\ arow' = arow + 1
      /\ /\ mrow' = mrow /\ exit' = exit /\ served' = served /\ procs' = procs /\ pc' = pc
         /\ mode' = mode /\ n' = n /\ tc' = tc /\ text' = text /\ pos' = pos /\ rows' = rows
         /\ base' = base /\ at' = at /\ buf' = buf /\ res' = res /\ left' = left
         /\ calls' = calls /\ iter' = iter
  BY DEF PrimeToken, boxVars, runVars, feedVars, stepVars
<1>0. Exits'
  BY <1>1 DEF Follows, Exits
<1> SUFFICES ASSUME Within PROVE Phase'
  BY <1>1, <1>0 DEF Follows, Within
<1>2. Priming /\ at \in 1 .. n /\ n > 1 /\ mode = "prime"
  BY <1>1 DEF Typed, Modes, Follows, Phase, LoneLoop
<1>3. /\ at \in Row /\ at \in Nat /\ amd[at] \in RowRec /\ t \in Seq(Token) /\ t # <<>>
      /\ ctx \in RowRec /\ arow \in Nat /\ n \in Nat /\ amd \in [Row -> RowRec]
  <2>1. at \in Row /\ t # <<>>
    BY <1>1, <1>2, InRun DEF Typed, Texts
  <2>2. QED
    BY <2>1, RowFacts, TypedFacts
<1>4. /\ rows = Front(t) /\ Len(t) <= MaxPos
      /\ Holding(served, amd[at], t, arow) /\ Tailing(1, ctx, t, arow)
  BY <1>2 DEF Priming
<1>5. /\ Len(t) \in Nat \ {0} /\ Len(rows) = Len(t) - 1
      /\ \A i \in 1 .. Len(t) - 1 : rows[i] = t[i]
  BY <1>3, <1>4, LastFront
<1>6. MaxPos \in Nat
  BY ConstantFacts
<1>7. arow + 1 <= Len(t) /\ arow + 1 <= MaxPos /\ arow + 1 \in 1 .. Len(t) - 1 /\ rows[arow + 1] = t[arow + 1]
  <2>1. arow + 1 \in 1 .. Len(t) - 1
    BY <1>1, <1>3, <1>5
  <2>2. QED
    BY <1>4, <1>5, <1>6, <2>1
<1> HIDE DEF t
<1>8. Holding(served, a.row, t, arow + 1) /\ a.out = <<Prefix(t, arow + 1)>>
  BY <1>3, <1>4, <1>7, AmdStep
<1> HIDE DEF a
<1>9. Tailing(1, ctx', t, arow + 1)
  BY <1>1, <1>3, <1>4, <1>7, <1>8, TailStep
<1>10. amd'[at] = a.row /\ \A r \in 1 .. n : r # at => amd'[r] = amd[r]
  BY <1>1, <1>3, InRun
<1>11. Priming'
  <2>1. /\ at' = at /\ n' = n /\ text' = text /\ pos' = pos /\ mrow' = mrow /\ rows' = rows
        /\ served' = served
    BY <1>1
  <2>2. \A r \in 1 .. at - 1 : amd'[r] = amd[r]
    BY <1>2, <1>3, <1>10
  <2>3. \A r \in at + 1 .. n : amd'[r] = amd[r]
    BY <1>2, <1>3, <1>10
  <2>4. Holding(served, amd'[at], t, arow') /\ Tailing(1, ctx', t, arow')
    BY <1>1, <1>8, <1>9, <1>10
  <2>5. QED
    BY <1>2, <2>1, <2>2, <2>3, <2>4 DEF Priming, Positions, t
<1>12. QED
  BY <1>1, <1>11 DEF Phase

LEMMA FollowsPrimeRowDone ==
  ASSUME Typed, Follows, PrimeRowDone
  PROVE  Follows'
<1> DEFINE t == text[at]
<1>1. /\ pc = "rows" /\ arow = Len(rows)
      /\ mrow' = [mrow EXCEPT ![at] = Copy(mrow[at], ctx, Len(rows))]
      /\ /\ amd' = amd /\ exit' = exit /\ served' = served /\ procs' = procs /\ mode' = mode
         /\ n' = n /\ tc' = tc /\ text' = text /\ pos' = pos /\ base' = base /\ buf' = buf
         /\ res' = res /\ left' = left /\ calls' = calls /\ iter' = iter
  BY DEF PrimeRowDone, runVars, stepVars
<1>0. Exits'
  BY <1>1 DEF Follows, Exits
<1> SUFFICES ASSUME Within PROVE Phase'
  BY <1>1, <1>0 DEF Follows, Within
<1>2. Priming /\ at \in 1 .. n /\ n > 1 /\ mode = "prime"
  BY <1>1 DEF Typed, Modes, Follows, Phase, LoneLoop
<1>3. /\ at \in Row /\ at \in Nat /\ mrow[at] \in RowRec /\ t \in Seq(Token) /\ t # <<>>
      /\ ctx \in RowRec /\ n \in Nat /\ mrow \in [Row -> RowRec] /\ MaxPos \in Nat
  <2>1. at \in Row /\ t # <<>>
    BY <1>1, <1>2, InRun DEF Typed, Texts
  <2>2. QED
    BY <2>1, RowFacts, TypedFacts, ConstantFacts
<1>4. /\ rows = Front(t) /\ Len(t) <= MaxPos
      /\ Holding(served, amd[at], t, arow) /\ Tailing(1, ctx, t, arow)
  BY <1>2 DEF Priming
<1>5. Len(t) \in Nat \ {0} /\ Len(rows) = Len(t) - 1
  BY <1>3, <1>4, LastFront
<1>6. Tailing(n, mrow'[at], t, Len(t) - 1) /\ \A r \in 1 .. n : r # at => mrow'[r] = mrow[r]
  <2>1. Tailing(n, Copy(mrow[at], ctx, Len(rows)), t, Len(rows))
    <3>1. Len(rows) \in Nat /\ Len(rows) <= MaxPos /\ Tailing(1, ctx, t, Len(rows)) /\ n # 1
      BY <1>1, <1>2, <1>3, <1>4, <1>5
    <3>2. QED
      BY <1>3, <3>1, TailCopy
  <2>2. QED
    BY <1>1, <1>3, <1>5, <2>1, InRun
<1>7. Holding(served, amd[at], t, Len(t) - 1)
  BY <1>1, <1>4, <1>5
<1>8. \A r \in 1 .. at : /\ Holding(served, amd'[r], text[r], Len(text[r]) - 1)
                         /\ Tailing(n, mrow'[r], text[r], Len(text[r]) - 1)
  <2>1. \A r \in 1 .. at - 1 : r # at /\ r \in 1 .. n
    BY <1>2, <1>3
  <2>2. \A r \in 1 .. at - 1 : /\ Holding(served, amd[r], text[r], Len(text[r]) - 1)
                              /\ Tailing(n, mrow[r], text[r], Len(text[r]) - 1)
    BY <1>2 DEF Priming
  <2>3. \A r \in 1 .. at : r = at \/ r \in 1 .. at - 1
    BY <1>3
  <2>4. QED
    BY <1>1, <1>6, <1>7, <2>1, <2>2, <2>3
<1>10. Positions' /\ \A r \in 1 .. n' : Len(text'[r]) <= MaxPos
  BY <1>1, <1>2 DEF Priming, Positions
<1>11. CASE at < n
  <2>1. /\ at' = at + 1 /\ rows' = Front(text[at + 1]) /\ arow' = 0
        /\ ctx' = SessionReset(ctx) /\ pc' = pc
    BY <1>11 DEF PrimeRowDone
  <2>2. ctx'.rec = <<>> /\ ctx'.sum = Blank.sum
    BY <1>3, <2>1 DEF SessionReset, RowRec
  <2>3. Holding(served, amd[at + 1], text[at + 1], 0)
    <3>1. at + 1 \in at + 1 .. n
      BY <1>3, <1>11
    <3>2. QED
      BY <1>2, <3>1 DEF Priming
  <2>4. Holding(served', amd'[at'], text'[at'], arow') /\ Tailing(1, ctx', text'[at'], arow')
    BY <1>1, <2>1, <2>2, <2>3, TailStart
  <2>5. \A r \in at' + 1 .. n' : Holding(served', amd'[r], text'[r], 0)
    <3>1. \A r \in at + 1 + 1 .. n : r \in at + 1 .. n
      BY <1>3
    <3>2. QED
      BY <1>1, <1>2, <2>1, <3>1 DEF Priming
  <2>6. \A r \in 1 .. at' - 1 : /\ Holding(served', amd'[r], text'[r], Len(text'[r]) - 1)
                                /\ Tailing(n', mrow'[r], text'[r], Len(text'[r]) - 1)
    <3>1. at' - 1 = at /\ text' = text /\ served' = served /\ n' = n
      BY <1>1, <1>3, <2>1
    <3>2. QED
      BY <1>8, <3>1
  <2>7. Priming'
    BY <1>1, <1>10, <2>1, <2>4, <2>5, <2>6 DEF Priming
  <2>8. QED
    BY <1>1, <2>1, <2>7 DEF Phase
<1>12. CASE at >= n
  <2>1. pc' = "primed" /\ /\ at' = at /\ rows' = rows /\ arow' = arow /\ ctx' = ctx
    BY <1>3, <1>12 DEF PrimeRowDone
  <2>2. at = n
    BY <1>2, <1>3, <1>12
  <2>3. Resident(1, 1)'
    BY <1>1, <1>2, <1>3, <1>8, <2>2 DEF Resident, TailRow
  <2>4. Primed'
    BY <1>10, <2>3 DEF Primed
  <2>5. QED
    BY <2>1, <2>4 DEF Phase
<1>13. QED
  BY <1>3, <1>11, <1>12

\* A row that is decoded has room for the next step.
LEMMA StepFacts ==
  ASSUME Typed, Decoding, pc \in {"prefix", "tail", "head"}, NEW r \in 1 .. n
  PROVE  /\ r \in Row /\ text[r] \in Seq(Token) /\ text[r] # <<>> /\ Len(text[r]) \in Nat \ {0}
         /\ pos[r] = Len(text[r]) - 1 /\ pos[r] \in Nat /\ Len(text[r]) + 1 <= MaxPos
         /\ Last(text[r]) = text[r][Len(text[r])] /\ Last(text[r]) \in Token
         /\ Prefix(text[r], Len(text[r])) = text[r]
<1>1. r \in Row /\ text[r] # <<>>
  BY InRun DEF Typed, Texts
<1>2. text[r] \in Seq(Token) /\ pos[r] \in Nat
  BY <1>1, RowFacts
<1>3. Len(text[r]) \in Nat \ {0} /\ Last(text[r]) = text[r][Len(text[r])] /\ Last(text[r]) \in Token
  BY <1>1, <1>2, LastFront
<1>4. left \in Nat /\ left >= 1 /\ MaxPos \in Nat
  BY TypedFacts, ConstantFacts DEF Typed, Counts
<1>5. pos[r] + left < MaxPos /\ pos[r] = Len(text[r]) - 1
  BY DEF Decoding, RoomLeft, Positions
<1>6. Len(text[r]) + 1 <= MaxPos
  BY <1>2, <1>3, <1>4, <1>5
<1>7. QED
  BY <1>1, <1>2, <1>3, <1>5, <1>6, PrefixFull

LEMMA FollowsAmdPrefix ==
  ASSUME Typed, Follows, AmdPrefix
  PROVE  Follows'
<1> DEFINE a == [r \in 1 .. n |-> AmdPass(amd[r], <<Last(text[r])>>, pos[r])]
<1>1. /\ pc = "prefix" /\ pc' = "tail"
      /\ amd' = [r \in Row |-> IF r <= n THEN a[r].row ELSE amd[r]]
      /\ res' = [r \in Row |-> IF r <= n THEN a[r].out[1] ELSE res[r]]
      /\ /\ ctx' = ctx /\ mrow' = mrow /\ exit' = exit /\ served' = served /\ procs' = procs
         /\ mode' = mode /\ n' = n /\ tc' = tc /\ text' = text /\ pos' = pos /\ rows' = rows
         /\ base' = base /\ arow' = arow /\ at' = at /\ buf' = buf /\ left' = left
         /\ calls' = calls /\ iter' = iter
  BY DEF AmdPrefix, runVars, feedVars
<1>2. Exits'
  BY <1>1 DEF Follows, Exits
<1>3. SUFFICES ASSUME Within, ~LoneLoop PROVE Phase'
  BY <1>1, <1>2 DEF Follows, Within, LoneLoop
<1>4. Decoding
  BY <1>1, <1>3 DEF Follows, Phase
<1>5. ASSUME NEW r \in 1 .. n
      PROVE  /\ Holding(served, a[r].row, text[r], Len(text[r])) /\ a[r].out[1] = text[r]
             /\ r \in Row /\ r <= n
  <2> DEFINE t == text[r]
             p == pos[r]
  <2>1. /\ r \in Row /\ t \in Seq(Token) /\ p = Len(t) - 1 /\ p \in Nat /\ p + 1 = Len(t)
        /\ p + 1 <= Len(t) /\ p + 1 <= MaxPos
        /\ Last(t) = t[p + 1] /\ Prefix(t, p + 1) = t
    <3>1. /\ r \in Row /\ t \in Seq(Token) /\ p = Len(t) - 1 /\ p \in Nat /\ Len(t) \in Nat \ {0}
          /\ Len(t) + 1 <= MaxPos
          /\ Last(t) = t[Len(t)] /\ Prefix(t, Len(t)) = t
      BY <1>1, <1>4, StepFacts
    <3>2. p + 1 = Len(t) /\ p + 1 <= MaxPos
      BY <3>1, ConstantFacts
    <3>3. QED
      BY <3>1, <3>2
  <2>2. amd[r] \in RowRec
    BY <2>1, RowFacts
  <2>3. Holding(served, amd[r], t, p)
    BY <1>1, <1>4, <2>1 DEF Decoding, Resident
  <2>4. a[r] = AmdPass(amd[r], <<t[p + 1]>>, p)
    BY <2>1
  <2> HIDE DEF t, p, a
  <2>5. Holding(served, a[r].row, t, p + 1) /\ a[r].out = <<Prefix(t, p + 1)>>
    BY <1>3, <2>1, <2>2, <2>3, <2>4, AmdStep
  <2>6. Holding(served, a[r].row, t, Len(t)) /\ a[r].out[1] = t
    BY <2>1, <2>5
  <2>7. r <= n
    BY InRun
  <2>8. QED
    BY <2>1, <2>6, <2>7 DEF t
<1> HIDE DEF a
<1>6. \A r \in 1 .. n : amd'[r] = a[r].row /\ res'[r] = a[r].out[1]
  BY <1>1, <1>5
<1>7. Resident(0, 1)'
  <2>1. \A r \in 1 .. n : Len(text[r]) - 0 = Len(text[r])
    BY InRun, RowFacts
  <2>2. \A r \in 1 .. n : Tailing(n, TailRow(r), text[r], Len(text[r]) - 1)
    BY <1>1, <1>4 DEF Decoding, Resident
  <2>3. QED
    BY <1>1, <1>5, <1>6, <2>1, <2>2 DEF Resident, TailRow
<1>8. Residuals'
  BY <1>1, <1>5, <1>6 DEF Residuals
<1>9. Positions' /\ RoomLeft'
  BY <1>1, <1>4 DEF Decoding, Positions, RoomLeft, Rendered
<1>10. QED
  BY <1>1, <1>7, <1>8, <1>9 DEF Decoding, Phase

LEMMA FollowsSparkTail ==
  ASSUME Typed, Follows, SparkTail
  PROVE  Follows'
<1> DEFINE s == IF n = 1 THEN <<PooledPass(ctx, <<res[1]>>, pos[1])>>
                ELSE [r \in 1 .. n |-> DensePass(mrow[r], <<res[r]>>, pos[r])]
<1>1. /\ pc = "tail" /\ pc' = "head"
      /\ res' = [r \in Row |-> IF r <= n THEN s[r].out[1] ELSE res[r]]
      /\ /\ amd' = amd /\ exit' = exit /\ served' = served /\ procs' = procs /\ mode' = mode
         /\ n' = n /\ tc' = tc /\ text' = text /\ pos' = pos /\ rows' = rows /\ base' = base
         /\ arow' = arow /\ at' = at /\ buf' = buf /\ left' = left /\ calls' = calls
         /\ iter' = iter
  BY DEF SparkTail, runVars, feedVars
<1>2. /\ n = 1 => ctx' = s[1].row /\ mrow' = mrow
      /\ n # 1 => mrow' = [r \in Row |-> IF r <= n THEN s[r].row ELSE mrow[r]] /\ ctx' = ctx
  BY DEF SparkTail
<1>3. Exits'
  BY <1>1 DEF Follows, Exits
<1>4. SUFFICES ASSUME Within, ~LoneLoop PROVE Phase'
  BY <1>1, <1>3 DEF Follows, Within, LoneLoop
<1>5. Decoding /\ Resident(0, 1) /\ Residuals
  BY <1>1, <1>4 DEF Follows, Phase, Decoding
<1>6. ASSUME NEW r \in 1 .. n
      PROVE  /\ Tailing(n, s[r].row, text[r], Len(text[r]))
             /\ Covered(n) => s[r].out[1] = text[r]
             /\ r \in Row /\ r <= n
  <2> DEFINE t == text[r]
             p == pos[r]
             x == TailRow(r)
  <2>1. /\ r \in Row /\ t \in Seq(Token) /\ p = Len(t) - 1 /\ p \in Nat /\ p + 1 = Len(t)
        /\ p + 1 <= Len(t) /\ p + 1 <= MaxPos /\ Prefix(t, p + 1) = t
    <3>1. /\ r \in Row /\ t \in Seq(Token) /\ p = Len(t) - 1 /\ p \in Nat /\ Len(t) \in Nat \ {0}
          /\ Len(t) + 1 <= MaxPos /\ Prefix(t, Len(t)) = t
      BY <1>1, <1>5, StepFacts
    <3>2. p + 1 = Len(t) /\ p + 1 <= MaxPos
      BY <3>1, ConstantFacts
    <3>3. QED
      BY <3>1, <3>2
  <2>2. x \in RowRec
    BY <2>1, RowFacts, TypedFacts DEF TailRow
  <2>3. Tailing(n, x, t, p) /\ res[r] = t
    BY <1>5, <2>1 DEF Resident, Residuals
  <2>4. s[r] = IF n = 1 THEN PooledPass(x, <<Prefix(t, p + 1)>>, p) ELSE DensePass(x, <<Prefix(t, p + 1)>>, p)
    <3>1. CASE n = 1
      <4>1. r = 1
        BY <3>1
      <4>2. QED
        BY <2>1, <2>3, <3>1, <4>1 DEF TailRow
    <3>2. CASE n # 1
      BY <2>1, <2>3, <3>2 DEF TailRow
    <3>3. QED
      BY <3>1, <3>2
  <2> HIDE DEF t, p, s, x
  <2>5. Tailing(n, s[r].row, t, p + 1) /\ (Covered(n) => s[r].out[1] = Prefix(t, p + 1))
    <3> DEFINE v == <<Prefix(t, p + 1)>>
    <3>1. s[r] = IF n = 1 THEN PooledPass(x, v, p) ELSE DensePass(x, v, p)
      BY <2>4
    <3>2. CASE n = 1
      <4>1. Tailing(1, x, t, p)
        BY <2>3, <3>2
      <4>2. /\ Tailing(1, PooledPass(x, v, p).row, t, p + 1)
            /\ Covered(1) => PooledPass(x, v, p).out[1] = Prefix(t, p + 1)
        BY <2>1, <2>2, <4>1, TailStep
      <4> HIDE DEF v
      <4>3. QED
        BY <3>1, <3>2, <4>2
    <3>3. CASE n # 1
      <4>1. /\ Tailing(n, DensePass(x, v, p).row, t, p + 1)
            /\ Covered(n) => DensePass(x, v, p).out[1] = Prefix(t, p + 1)
        BY <2>1, <2>2, <2>3, <3>3, TailStep
      <4> HIDE DEF v
      <4>2. QED
        BY <3>1, <3>3, <4>1
    <3>4. QED
      BY <3>2, <3>3
  <2>6. r <= n
    BY InRun
  <2>7. QED
    BY <2>1, <2>5, <2>6 DEF t
<1> HIDE DEF s
<1>7. \A r \in 1 .. n : TailRow(r)' = s[r].row /\ res'[r] = s[r].out[1]
  <2>1. CASE n = 1
    <3>1. \A r \in 1 .. n : r = 1
      BY <2>1
    <3>2. QED
      BY <1>1, <1>2, <1>6, <2>1, <3>1 DEF TailRow
  <2>2. CASE n # 1
    BY <1>1, <1>2, <1>6, <2>2 DEF TailRow
  <2>3. QED
    BY <2>1, <2>2
<1>8. Resident(0, 0)'
  <2>1. \A r \in 1 .. n : Len(text[r]) - 0 = Len(text[r])
    BY InRun, RowFacts
  <2>2. \A r \in 1 .. n : Holding(served, amd[r], text[r], Len(text[r]) - 0)
    BY <1>5 DEF Resident
  <2>3. QED
    BY <1>1, <1>6, <1>7, <2>1, <2>2 DEF Resident
<1>9. (Covered(n) => Residuals)'
  BY <1>1, <1>6, <1>7 DEF Residuals, Covered
<1>10. Positions' /\ RoomLeft'
  BY <1>1, <1>5 DEF Decoding, Positions, RoomLeft, Rendered
<1>11. QED
  BY <1>1, <1>8, <1>9, <1>10 DEF Decoding, Phase

\* A text that grew by a token: the old text is what is before its last token.
LEMMA AfterAppend ==
  ASSUME NEW t \in Seq(Token), NEW e \in Token
  PROVE  /\ Append(t, e) \in Seq(Token) /\ Len(Append(t, e)) = Len(t) + 1 /\ Len(t) \in Nat
         /\ Last(Append(t, e)) = e /\ Append(t, e)[Len(t) + 1] = e
         /\ Prefix(Append(t, e), Len(t) + 1) = Append(t, e)
         /\ \A s, x : Holding(s, x, t, Len(t)) => Holding(s, x, Append(t, e), Len(t))
         /\ \A m, x : Tailing(m, x, t, Len(t)) => Tailing(m, x, Append(t, e), Len(t))
<1>1. /\ Append(t, e) \in Seq(Token) /\ Len(Append(t, e)) = Len(t) + 1 /\ Len(t) \in Nat
      /\ Last(Append(t, e)) = e
  BY Grows
<1>2. Append(t, e)[Len(t) + 1] = e
  BY <1>1 DEF Last
<1>3. Prefix(Append(t, e), Len(t) + 1) = Append(t, e)
  BY <1>1, PrefixFull
<1>4. Len(t) \in 0 .. Len(t)
  BY <1>1
<1>5. ASSUME NEW s, NEW x, Holding(s, x, t, Len(t)) PROVE Holding(s, x, Append(t, e), Len(t))
  BY <1>4, <1>5, AtAppend
<1>6. ASSUME NEW m, NEW x, Tailing(m, x, t, Len(t)) PROVE Tailing(m, x, Append(t, e), Len(t))
  BY <1>4, <1>6, TailAppend
<1>7. QED
  BY <1>1, <1>2, <1>3, <1>5, <1>6

LEMMA FollowsHeadPrefix ==
  ASSUME Typed, Follows, NEW e \in Token, HeadPrefix(e)
  PROVE  Follows'
<1> DEFINE t == text[1]
           u == Append(t, e)
           a == AmdPass(amd[1], <<e>>, pos[1] + 1)
<1>1. /\ pc = "head" /\ n = 1
      /\ amd' = [amd EXCEPT ![1] = a.row] /\ res' = [res EXCEPT ![1] = a.out[1]]
      /\ text' = [text EXCEPT ![1] = u] /\ pos' = [pos EXCEPT ![1] = pos[1] + 1]
      /\ left' = left - 1
      /\ /\ ctx' = ctx /\ mrow' = mrow /\ served' = served /\ procs' = procs /\ mode' = mode
         /\ n' = n /\ tc' = tc /\ rows' = rows /\ base' = base /\ arow' = arow /\ at' = at
         /\ buf' = buf /\ calls' = calls /\ iter' = iter
  BY DEF HeadPrefix, feedVars
<1>2. \/ /\ pc' = "ret"
         /\ exit' = [valid |-> TRUE, tok |-> e, pos |-> pos[1] + 1, res |-> a.out[1]]
      \/ pc' = "tail" /\ exit' = exit /\ left # 1
  BY DEF HeadPrefix
<1>3. mode \in {"decode", "first", "rest", "field", "loop"}
  BY <1>1 DEF Typed, Modes
<1>4. Exits'
  BY <1>1, <1>3 DEF Exits
<1>5. SUFFICES ASSUME Within, ~LoneLoop PROVE Phase'
  BY <1>1, <1>4 DEF Follows, Within, LoneLoop
<1>6. Decoding /\ Resident(0, 0) /\ mode # "loop"
  BY <1>1, <1>5 DEF Follows, Phase, Decoding, LoneLoop
<1>7. /\ 1 \in 1 .. n /\ 1 \in Row /\ t \in Seq(Token) /\ pos[1] = Len(t) - 1 /\ Len(t) \in Nat \ {0}
      /\ Len(t) + 1 <= MaxPos /\ amd[1] \in RowRec
      /\ amd \in [Row -> RowRec] /\ res \in [Row -> Seq(Nat)] /\ text \in [Row -> Seq(Token)]
      /\ pos \in [Row -> Nat]
  <2>1. 1 \in 1 .. n /\ 1 \in Row
    BY InRun
  <2>2. /\ t \in Seq(Token) /\ pos[1] = Len(t) - 1 /\ Len(t) \in Nat \ {0} /\ Len(t) + 1 <= MaxPos
    BY <1>1, <1>6, <2>1, StepFacts
  <2>3. QED
    BY <2>1, <2>2, RowFacts, TypedFacts
<1>8. Holding(served, amd[1], t, Len(t)) /\ Tailing(1, ctx, t, Len(t))
  <2>1. Len(t) - 0 = Len(t)
    BY <1>7
  <2>2. QED
    BY <1>1, <1>6, <1>7, <2>1 DEF Resident, TailRow
<1> HIDE DEF t
<1>9. /\ u \in Seq(Token) /\ Len(u) = Len(t) + 1
      /\ Last(u) = e /\ u[Len(t) + 1] = e /\ Prefix(u, Len(t) + 1) = u
      /\ Holding(served, amd[1], u, Len(t)) /\ Tailing(1, ctx, u, Len(t))
  BY <1>7, <1>8, AfterAppend
<1> HIDE DEF u
<1>10. Holding(served, a.row, u, Len(t) + 1) /\ a.out[1] = u
  <2>1. pos[1] + 1 = Len(t) /\ Len(t) \in Nat /\ Len(t) + 1 <= Len(u)
    BY <1>7, <1>9
  <2>2. a = AmdPass(amd[1], <<u[Len(t) + 1]>>, Len(t))
    BY <1>9, <2>1
  <2> HIDE DEF a
  <2>3. Holding(served, a.row, u, Len(t) + 1) /\ a.out = <<Prefix(u, Len(t) + 1)>>
    BY <1>5, <1>7, <1>9, <2>1, <2>2, AmdStep
  <2>4. QED
    BY <1>9, <2>3
<1> HIDE DEF a
<1>11. /\ text'[1] = u /\ amd'[1] = a.row /\ res'[1] = u /\ pos'[1] = Len(u) - 1
       /\ Len(u) - 0 = Len(t) + 1 /\ Len(u) - 1 = Len(t)
  BY <1>1, <1>7, <1>9, <1>10
<1>12. Resident(0, 1)' /\ Residuals' /\ Positions'
  <2>1. \A r \in 1 .. n' : r = 1
    BY <1>1
  <2>2. /\ Holding(served', amd'[1], text'[1], Len(text'[1]) - 0)
        /\ Tailing(1, ctx', text'[1], Len(text'[1]) - 1)
    BY <1>1, <1>9, <1>10, <1>11
  <2>3. QED
    BY <1>1, <1>11, <2>1, <2>2 DEF Resident, Residuals, Positions, TailRow
<1>13. left \in Nat /\ left >= 1 /\ MaxPos \in Nat /\ MaxRefill \in Nat
  BY <1>1, TypedFacts, ConstantFacts DEF Typed, Counts
<1>14. RoomLeft'
  <2>1. /\ pos[1] + left < MaxPos
        /\ mode = "first" => pos[1] + left + MaxRefill <= MaxPos
    BY <1>1, <1>6, <1>7 DEF Decoding, RoomLeft
  <2>2. pos'[1] = pos[1] + 1 /\ pos[1] \in Nat /\ left' = left - 1
    BY <1>1, <1>7
  <2>3. /\ pos'[1] + left' < MaxPos
        /\ mode = "first" => pos'[1] + left' + MaxRefill <= MaxPos
    BY <1>13, <2>1, <2>2
  <2>4. \A r \in 1 .. n' : r = 1
    BY <1>1
  <2>5. QED
    BY <1>1, <1>6, <2>3, <2>4 DEF RoomLeft
<1>15. pc' = "ret" => exit' = Tip'
  BY <1>2, <1>7, <1>9, <1>10, <1>11 DEF Tip
<1>16. Decoding'
  BY <1>1, <1>2, <1>12, <1>14, <1>15 DEF Decoding
<1>17. QED
  BY <1>2, <1>16 DEF Phase

LEMMA FollowsHeadM ==
  ASSUME Typed, Follows, NEW ts \in [1 .. n -> Token], HeadM(ts)
  PROVE  Follows'
<1>1. /\ pc = "head" /\ n > 1
      /\ text' = [r \in Row |-> IF r <= n THEN Append(text[r], ts[r]) ELSE text[r]]
      /\ pos' = [r \in Row |-> IF r <= n THEN pos[r] + 1 ELSE pos[r]]
      /\ left' = left - 1
      /\ pc' = IF left = 1 THEN "ret" ELSE "prefix"
      /\ /\ amd' = amd /\ ctx' = ctx /\ mrow' = mrow /\ exit' = exit /\ served' = served
         /\ procs' = procs /\ mode' = mode /\ n' = n /\ tc' = tc /\ rows' = rows
         /\ base' = base /\ arow' = arow /\ at' = at /\ buf' = buf /\ res' = res
         /\ calls' = calls /\ iter' = iter
  BY DEF HeadM, boxVars, feedVars
<1>2. Exits'
  BY <1>1 DEF Follows, Exits
<1> SUFFICES ASSUME Within PROVE Phase'
  BY <1>1, <1>2 DEF Follows, Within
<1>3. n \in Nat /\ n # 1 /\ ~LoneLoop
  BY <1>1, TypedFacts DEF LoneLoop
<1>4. Decoding /\ Resident(0, 0)
  BY <1>1, <1>3 DEF Follows, Phase, Decoding
<1>5. left \in Nat /\ left >= 1 /\ MaxPos \in Nat /\ calls \in Nat /\ RenderSteps \in Nat
  BY <1>1, TypedFacts, ConstantFacts DEF Typed, Counts
<1>6. ASSUME NEW r \in 1 .. n
      PROVE  /\ Holding(served, amd'[r], text'[r], Len(text'[r]) - 1)
             /\ Tailing(n, mrow'[r], text'[r], Len(text'[r]) - 1)
             /\ pos'[r] = Len(text'[r]) - 1 /\ pos'[r] = pos[r] + 1 /\ pos[r] \in Nat
  <2> DEFINE t == text[r]
             u == Append(t, ts[r])
  <2>1. /\ r \in Row /\ t \in Seq(Token) /\ pos[r] = Len(t) - 1 /\ pos[r] \in Nat
        /\ Len(t) \in Nat \ {0} /\ r <= n /\ ts[r] \in Token
    BY <1>1, <1>4, StepFacts, InRun
  <2>2. Holding(served, amd[r], t, Len(t) - 0) /\ Tailing(n, mrow[r], t, Len(t) - 0)
    BY <1>3, <1>4 DEF Resident, TailRow
  <2>3. text'[r] = u /\ pos'[r] = pos[r] + 1
    BY <1>1, <2>1
  <2> HIDE DEF t
  <2>4. Len(t) - 0 = Len(t)
    BY <2>1
  <2>5. Len(u) = Len(t) + 1 /\ Holding(served, amd[r], u, Len(t)) /\ Tailing(n, mrow[r], u, Len(t))
    BY <2>1, <2>2, <2>4, AfterAppend
  <2> HIDE DEF u
  <2>6. Len(u) - 1 = Len(t) /\ pos'[r] = Len(u) - 1
    BY <2>1, <2>3, <2>5
  <2>7. QED
    BY <1>1, <2>1, <2>3, <2>5, <2>6
<1>7. Resident(1, 1)' /\ Positions'
  BY <1>1, <1>3, <1>6 DEF Resident, Positions, TailRow
<1>8. RoomLeft'
  <2>1. mode # "first"
    BY <1>1, <1>3 DEF Typed, Modes
  <2>2. ASSUME NEW r \in 1 .. n PROVE pos'[r] + left' = pos[r] + left
    <3>1. pos'[r] = pos[r] + 1 /\ pos[r] \in Nat
      BY <1>6
    <3>2. left' = left - 1
      BY <1>1
    <3>3. QED
      BY <1>5, <3>1, <3>2
  <2>3. /\ \A r \in 1 .. n : pos[r] + left < MaxPos
        /\ mode = "loop" => base <= Context
        /\ mode = "loop" => \A r \in 1 .. n : pos[r] + left + (calls - 1) * RenderSteps = Rendered
    BY <1>1, <1>4 DEF Decoding, RoomLeft
  <2>4. pc' = "ret" => left' = 0
    BY <1>1, <1>5
  <2>5. Rendered' = Rendered
    BY <1>1 DEF Rendered
  <2>6. QED
    BY <1>1, <2>1, <2>2, <2>3, <2>4, <2>5 DEF RoomLeft
<1>9. Decoding'
  BY <1>1, <1>3, <1>7, <1>8 DEF Decoding
<1>10. QED
  BY <1>1, <1>9 DEF Phase

\* A decode that cannot go on from a pending tail starts with the prefix.
LEMMA DecodeAnew ==
  ASSUME NEW m, NEW k, Decode(m, k), n' # 1 \/ ~exit.valid
  PROVE  pc' = "prefix" /\ res' = res
BY DEF Decode, HasPrefix

\* The decode of primed rows.
LEMMA FollowsDecodePrompts ==
  ASSUME Typed, Follows, NEW k \in Budgets, DecodePrompts(k)
  PROVE  Follows'
<1> DEFINE top == Max({pos[r] : r \in 1 .. n})
           j == Min({k, Room(top)})
<1>1. /\ pc = "primed" /\ Room(top) >= 1
      /\ Decode("decode", j)
      /\ /\ n' = n /\ text' = text /\ pos' = pos /\ amd' = amd /\ ctx' = ctx /\ mrow' = mrow
         /\ served' = served /\ procs' = procs /\ tc' = tc /\ rows' = rows /\ base' = base
         /\ arow' = arow /\ at' = at /\ buf' = buf /\ calls' = calls /\ iter' = iter
  BY DEF DecodePrompts, feedVars
<1>2. mode = "prime" /\ ~exit.valid
  BY <1>1 DEF Typed, Modes, Follows, Exits
<1>0. Exits' /\ (Within' => Within)
  <2>1. exit'.valid => exit.valid
    BY <1>1, DecodeFacts
  <2>2. QED
    BY <1>1, <1>2, <2>1 DEF Exits, Within
<1> SUFFICES ASSUME Within PROVE Phase'
  BY <1>0 DEF Follows
<1>3. Primed
  BY <1>1, <1>2 DEF Follows, Phase, LoneLoop
<1>4. top \in Nat /\ \A i \in 1 .. n : pos[i] <= top
  BY MaxPosition
<1> HIDE DEF top
<1>5. /\ mode' = "decode" /\ left' = j
      /\ exit' \in [valid : BOOLEAN, tok : Nat, pos : Nat, res : Seq(Nat)]
      /\ exit'.valid => exit.valid /\ exit' = exit
  BY <1>1, DecodeFacts
<1>6. ~(exit'.valid)
  BY <1>2, <1>5
<1>7. pc' = "prefix"
  BY <1>1, <1>2, <1>6, DecodeAnew
<1>8. j \in Int /\ j <= Context - 1 - top
  <2>1. Room(top) \in Int /\ Room(top) = Context - 1 - top /\ k \in Int
    BY <1>4, ConstantFacts, RowAssumption DEF Room, RowAssumption
  <2>2. QED
    BY <2>1, MinOfTwo
<1> HIDE DEF j
<1>9. Positions' /\ Resident(1, 1)'
  BY <1>1, <1>3 DEF Primed, Positions, Resident, TailRow
<1>10. RoomLeft'
  <2>1. ASSUME NEW r \in 1 .. n PROVE pos'[r] + left' < MaxPos
    <3>1. pos[r] \in Nat /\ pos[r] <= top
      BY <1>4, InRun, RowFacts
    <3>2. Context \in Nat /\ MaxPos \in Nat /\ MaxRefill \in Nat /\ Context + MaxRefill < MaxPos
      BY ConstantFacts
    <3>3. QED
      BY <1>1, <1>4, <1>5, <1>8, <3>1, <3>2
  <2>2. QED
    BY <1>1, <1>5, <1>7, <2>1 DEF RoomLeft
<1>11. Decoding'
  BY <1>7, <1>9, <1>10 DEF Decoding
<1>12. QED
  BY <1>7, <1>11 DEF Phase

LEMMA FollowsDecodeReturns == ASSUME Typed, Follows, DecodeReturns PROVE Follows'
<1>1. /\ pc = "ret" /\ mode \in {"decode", "rest"} /\ n = 1 /\ pc' = "idle"
      /\ /\ amd' = amd /\ ctx' = ctx /\ mrow' = mrow /\ exit' = exit /\ served' = served
         /\ procs' = procs /\ mode' = mode /\ n' = n /\ tc' = tc /\ text' = text /\ pos' = pos
         /\ rows' = rows /\ base' = base /\ arow' = arow /\ at' = at /\ buf' = buf
         /\ res' = res /\ left' = left /\ calls' = calls /\ iter' = iter
  BY DEF DecodeReturns, boxVars, runVars, feedVars, stepVars
<1>0. Exits'
  BY <1>1 DEF Exits
<1> SUFFICES ASSUME Within PROVE Phase'
  BY <1>1, <1>0 DEF Follows, Within
<1>2. Resident(0, 1) /\ exit = Tip
  BY <1>1 DEF Follows, Phase, Decoding, LoneLoop
<1>3. Idle'
  BY <1>1, <1>2 DEF Idle, Resident, TailRow, Tip
<1>4. QED
  BY <1>1, <1>3 DEF Phase

\* The decode after the first token of a refill: it goes on from the pending
\* tail, and does not run the prefix of that token again.
LEMMA FollowsFirstReturns ==
  ASSUME Typed, Follows, FirstReturns
  PROVE  Follows'
<1>1. /\ pc = "ret" /\ mode = "first"
      /\ /\ n' = n /\ text' = text /\ pos' = pos /\ amd' = amd /\ ctx' = ctx /\ mrow' = mrow
         /\ served' = served /\ procs' = procs /\ tc' = tc /\ rows' = rows /\ base' = base
         /\ arow' = arow /\ at' = at /\ buf' = buf /\ calls' = calls /\ iter' = iter
  BY DEF FirstReturns, feedVars
<1>2. n = 1
  BY <1>1 DEF Typed, Modes
<1>0. Exits'
  <2>1. CASE MaxRefill > 1
    <3>1. Decode("rest", MaxRefill - 1) /\ n' = 1
      BY <1>1, <1>2, <2>1 DEF FirstReturns
    <3>2. mode' = "rest" /\ n' = 1
      BY <3>1 DEF Decode
    <3>3. QED
      BY <3>2 DEF Exits
  <2>2. CASE ~(MaxRefill > 1)
    BY <1>1, <1>2, <2>2 DEF FirstReturns, Exits
  <2>3. QED
    BY <2>1, <2>2
<1> SUFFICES ASSUME Within PROVE Phase'
  BY <1>1, <1>0 DEF Follows, Within
<1>3. Decoding /\ Resident(0, 1) /\ exit = Tip
  BY <1>1, <1>2 DEF Follows, Phase, Decoding, LoneLoop
<1>4. 1 \in Row /\ 1 \in 1 .. n /\ res \in [Row -> Seq(Nat)] /\ pos[1] \in Nat /\ left \in Nat
  BY InRun, TypedFacts, RowFacts
<1>5. CASE MaxRefill > 1
  <2>1. Decode("rest", MaxRefill - 1)
    BY <1>5 DEF FirstReturns
  <2>2. /\ exit.valid /\ exit.tok = Last(text[1]) /\ exit.pos = pos[1] /\ exit.res = text[1]
    BY <1>3, <1>4 DEF Tip, Decoding, Positions
  <2>3. HasPrefix(Last(text'[1]), pos'[1])
    BY <1>1, <2>2 DEF HasPrefix
  <2>4. /\ mode' = "rest" /\ left' = MaxRefill - 1 /\ pc' = "tail"
        /\ exit' = [exit EXCEPT !.valid = FALSE] /\ res' = [res EXCEPT ![1] = exit.res]
    BY <1>1, <1>2, <2>1, <2>3 DEF Decode
  <2>6. Residuals'
    <3>1. \A r \in 1 .. n' : r = 1
      BY <1>1, <1>2
    <3>2. res'[1] = text'[1]
      BY <1>1, <1>4, <2>2, <2>4
    <3>3. QED
      BY <3>1, <3>2 DEF Residuals
  <2>7. Resident(0, 1)' /\ Positions'
    BY <1>1, <1>3 DEF Resident, TailRow, Decoding, Positions
  <2>8. RoomLeft'
    <3>1. pos[1] + left + MaxRefill <= MaxPos
      BY <1>1, <1>3 DEF Decoding, RoomLeft
    <3>2. pos'[1] + left' < MaxPos
      <4>1. MaxRefill \in Nat /\ MaxPos \in Nat
        BY ConstantFacts
      <4>2. pos'[1] = pos[1] /\ left' = MaxRefill - 1
        BY <1>1, <2>4
      <4>3. QED
        BY <1>4, <3>1, <4>1, <4>2
    <3>3. \A r \in 1 .. n' : r = 1
      BY <1>1, <1>2
    <3>4. QED
      BY <2>4, <3>2, <3>3 DEF RoomLeft
  <2>9. Decoding'
    BY <2>4, <2>6, <2>7, <2>8 DEF Decoding
  <2>10. QED
    BY <2>4, <2>9 DEF Phase
<1>6. CASE ~(MaxRefill > 1)
  <2>1. /\ pc' = "idle"
        /\ /\ mode' = mode /\ left' = left /\ exit' = exit /\ res' = res
    BY <1>6 DEF FirstReturns
  <2>2. Idle'
    BY <1>1, <1>3, <2>1 DEF Idle, Resident, TailRow, Tip
  <2>3. QED
    BY <2>1, <2>2 DEF Phase
<1>7. QED
  BY <1>5, <1>6

LEMMA FollowsAskFork ==
  ASSUME Typed, Follows, NEW m \in Siblings, NEW md \in {"field", "loop"}, AskFork(m, md)
  PROVE  Follows'
<1>1. /\ pc = "primed" /\ mode = "prime" /\ n = 1 /\ Room(pos[1]) >= 1
      /\ n' = m /\ mode' = md /\ base' = pos[1] /\ pc' = "fork"
      /\ /\ amd' = amd /\ ctx' = ctx /\ mrow' = mrow /\ exit' = exit /\ served' = served
         /\ procs' = procs /\ tc' = tc /\ text' = text /\ pos' = pos /\ rows' = rows
         /\ arow' = arow /\ at' = at /\ buf' = buf /\ res' = res /\ left' = left
         /\ calls' = calls
  BY DEF AskFork, boxVars
<1>0. ~exit.valid /\ Exits'
  BY <1>1 DEF Follows, Exits
<1> SUFFICES ASSUME Within PROVE Phase'
  BY <1>1, <1>0 DEF Follows, Within
<1>2. Primed
  BY <1>1 DEF Follows, Phase, LoneLoop
<1>3. 1 \in 1 .. n /\ pos[1] \in Nat
  BY InRun, RowFacts
<1>4. /\ pos[1] = Len(text[1]) - 1
      /\ Holding(served, amd[1], text[1], Len(text[1]) - 1)
      /\ Tailing(m, ctx, text[1], Len(text[1]) - 1)
  <2>1. Tailing(1, ctx, text[1], Len(text[1]) - 1)
    BY <1>1, <1>2, <1>3 DEF Primed, Resident, TailRow
  <2>2. Tailing(m, ctx, text[1], Len(text[1]) - 1)
    BY <2>1, TailLess
  <2>3. QED
    BY <1>2, <1>3, <2>2 DEF Primed, Positions, Resident
<1>5. base' <= Context
  BY <1>1, <1>3, ConstantFacts DEF Room
<1>6. Forking'
  BY <1>1, <1>0, <1>4, <1>5 DEF Forking
<1>7. QED
  BY <1>1, <1>6 DEF Phase

\* The AMD server copies the parent to every sibling.
LEMMA FollowsAmdFork == ASSUME Typed, Follows, AmdFork PROVE Follows'
<1>1. /\ pc = "fork" /\ pc' = "forkSpark"
      /\ amd' = [r \in Row |-> IF r \in 2 .. n THEN AmdCopy(amd[r], amd[1], base) ELSE amd[r]]
      /\ /\ ctx' = ctx /\ mrow' = mrow /\ exit' = exit /\ served' = served /\ procs' = procs
         /\ mode' = mode /\ n' = n /\ tc' = tc /\ text' = text /\ pos' = pos /\ rows' = rows
         /\ base' = base /\ arow' = arow /\ at' = at /\ buf' = buf /\ res' = res
         /\ left' = left /\ calls' = calls /\ iter' = iter
  BY DEF AmdFork, runVars, feedVars, stepVars
<1>2. Exits'
  BY <1>1 DEF Follows, Exits
<1>3. SUFFICES ASSUME Within, ~LoneLoop PROVE Phase'
  BY <1>1, <1>2 DEF Follows, Within, LoneLoop
<1>4. Forking
  BY <1>1, <1>3 DEF Follows, Phase
<1>5. base \in Nat /\ base <= MaxPos
  BY <1>4, TypedFacts, ConstantFacts DEF Forking
<1>6. ASSUME NEW r \in 1 .. n PROVE Holding(served, amd'[r], text[1], base)
  <2>1. r \in Row /\ 1 \in Row /\ (r = 1 \/ r \in 2 .. n)
    BY InRun
  <2>2. amd[r] \in RowRec /\ amd[1] \in RowRec
    BY <2>1, RowFacts
  <2>3. Holding(served, amd[1], text[1], base)
    BY <1>4 DEF Forking
  <2>4. Holding(served, AmdCopy(amd[r], amd[1], base), text[1], base)
    BY <1>5, <2>2, <2>3, AmdCopyIsAt
  <2>5. QED
    BY <1>1, <2>1, <2>3, <2>4
<1>7. Forking'
  <2>1. 1 \in 1 .. n
    BY InRun
  <2>2. QED
    BY <1>1, <1>4, <1>6, <2>1 DEF Forking
<1>8. QED
  BY <1>1, <1>7 DEF Phase

\* Every sibling gets a copy of the parent on Spark, and the render starts.
LEMMA FollowsSparkFork == ASSUME Typed, Follows, SparkFork PROVE Follows'
<1>1. /\ pc = "forkSpark"
      /\ mrow' = [r \in Row |-> IF r <= n THEN Copy(mrow[r], ctx, base) ELSE mrow[r]]
      /\ text' = [r \in Row |-> IF r <= n THEN text[1] ELSE text[r]]
      /\ pos' = [r \in Row |-> IF r <= n THEN base ELSE pos[r]]
      /\ Decode(mode, RenderSteps)
      /\ calls' = (IF mode = "loop" THEN RenderCalls ELSE 1)
      /\ /\ n' = n /\ amd' = amd /\ ctx' = ctx /\ served' = served /\ procs' = procs
         /\ tc' = tc /\ rows' = rows /\ base' = base /\ arow' = arow /\ at' = at /\ buf' = buf
         /\ iter' = iter
  BY DEF SparkFork, feedVars
<1>2. /\ mode' = mode /\ left' = RenderSteps
      /\ exit'.valid => exit.valid /\ exit' = exit
  BY <1>1, DecodeFacts
<1>3. Exits'
  BY <1>1, <1>2 DEF Follows, Exits
<1>4. SUFFICES ASSUME Within, ~LoneLoop PROVE Phase'
  BY <1>1, <1>2, <1>3 DEF Follows, Within, LoneLoop
<1>5. Forking /\ mode \in {"field", "loop"}
  BY <1>1, <1>4 DEF Typed, Modes, Follows, Phase
<1>6. pc' = "prefix"
  BY <1>1, <1>5, DecodeAnew DEF Forking
<1>7. base \in Nat /\ base <= MaxPos /\ base = Len(text[1]) - 1
  BY <1>5, TypedFacts, ConstantFacts DEF Forking
<1>8. ASSUME NEW r \in 1 .. n
      PROVE  /\ text'[r] = text[1] /\ pos'[r] = base
             /\ Holding(served, amd'[r], text[1], base)
             /\ n # 1 => Tailing(n, mrow'[r], text[1], base)
  <2>1. r \in Row /\ r <= n
    BY InRun
  <2>2. mrow[r] \in RowRec /\ ctx \in RowRec
    BY <2>1, RowFacts, TypedFacts
  <2>3. n # 1 => Tailing(n, Copy(mrow[r], ctx, base), text[1], base)
    <3>1. Tailing(n, ctx, text[1], base)
      BY <1>5 DEF Forking
    <3>2. QED
      BY <1>7, <2>2, <3>1, TailCopy
  <2>4. Holding(served, amd'[r], text[1], base)
    BY <1>1, <1>5 DEF Forking
  <2>5. QED
    BY <1>1, <2>1, <2>3, <2>4
<1>9. Tailing(n, ctx', text[1], base)
  BY <1>1, <1>5 DEF Forking
<1>10. Positions' /\ Resident(1, 1)'
  BY <1>1, <1>7, <1>8, <1>9 DEF Positions, Resident, TailRow
<1>11. RoomLeft'
  <2>1. PICK rs \in Nat, rc \in Nat, k \in Nat :
          rs = RenderSteps /\ rc = RenderCalls /\ k = RenderSteps * RenderCalls /\ rs >= 1 /\ rc >= 1
    BY ConstantFacts
  <2>2. rs <= k /\ rs + (rc - 1) * rs = k
    <3>1. rs * rc >= rs
      BY <2>1, ProductGrows
    <3>2. rs + (rc - 1) * rs = rs * rc
      BY <2>1
    <3>3. QED
      BY <2>1, <3>1, <3>2
  <2>3. Context \in Nat /\ MaxPos \in Nat /\ Context + k < MaxPos /\ base <= Context
    BY <1>5, <2>1, ConstantFacts DEF Forking
  <2>4. Rendered' = base + k
    BY <1>1, <2>1 DEF Rendered
  <2>5. ASSUME NEW r \in 1 .. n PROVE pos'[r] + left' < MaxPos
    <3>1. pos'[r] = base /\ left' = rs
      BY <1>2, <1>8, <2>1
    <3>2. QED
      BY <1>7, <2>1, <2>2, <2>3, <3>1
  <2>6. ASSUME NEW r \in 1 .. n, mode = "loop"
        PROVE  pos'[r] + left' + (calls' - 1) * RenderSteps = Rendered'
    <3>1. pos'[r] = base /\ left' = rs /\ calls' = rc /\ RenderSteps = rs
      BY <1>1, <1>2, <1>8, <2>1, <2>6
    <3>2. PICK y \in Int : y = (rc - 1) * rs
      BY <2>1
    <3>3. rs + y = k
      BY <2>2, <3>2
    <3>4. base + rs + y = base + k
      <4>1. base \in Int /\ rs \in Int /\ k \in Int /\ y \in Int
        BY <1>7
      <4>2. QED
        BY <3>3, <4>1
    <3>5. QED
      BY <2>4, <3>1, <3>2, <3>4
  <2>7. QED
    BY <1>1, <1>2, <1>5, <1>6, <2>3, <2>5, <2>6 DEF RoomLeft
<1>12. Decoding'
  BY <1>6, <1>10, <1>11 DEF Decoding
<1>13. QED
  BY <1>6, <1>12 DEF Phase

LEMMA FollowsRenderOn == ASSUME Typed, Follows, RenderOn PROVE Follows'
<1>1. /\ pc = "ret" /\ mode = "loop" /\ calls > 1 /\ calls' = calls - 1
      /\ Decode("loop", RenderSteps)
      /\ /\ n' = n /\ text' = text /\ pos' = pos /\ amd' = amd /\ ctx' = ctx /\ mrow' = mrow
         /\ served' = served /\ procs' = procs /\ tc' = tc /\ rows' = rows /\ base' = base
         /\ arow' = arow /\ at' = at /\ buf' = buf /\ iter' = iter
  BY DEF RenderOn, feedVars
<1>2. /\ mode' = "loop" /\ left' = RenderSteps
      /\ exit'.valid => exit.valid /\ exit' = exit
  BY <1>1, DecodeFacts
<1>3. Exits'
  BY <1>1, <1>2 DEF Follows, Exits
<1>4. SUFFICES ASSUME Within, n # 1 PROVE Phase'
  BY <1>1, <1>2, <1>3 DEF Follows, Within, LoneLoop
<1>5. Decoding /\ n > 1 /\ n \in Nat
  <2>1. n \in Nat \ {0}
    BY TypedFacts
  <2>2. QED
    BY <1>1, <1>4, <2>1 DEF Follows, Phase, LoneLoop
<1>6. pc' = "prefix"
  BY <1>1, <1>4, DecodeAnew
<1>7. Resident(1, 1) /\ Positions /\ RoomLeft /\ left = 0
  BY <1>1, <1>5 DEF Decoding, RoomLeft
<1>8. Positions' /\ Resident(1, 1)'
  BY <1>1, <1>7 DEF Positions, Resident, TailRow
<1>9. RoomLeft'
  <2>1. PICK rs \in Nat, k \in Nat : rs = RenderSteps /\ k = RenderSteps * RenderCalls
    BY ConstantFacts
  <2>2. Context \in Nat /\ MaxPos \in Nat /\ Context + k < MaxPos /\ base <= Context /\ base \in Nat
    BY <1>1, <1>7, <2>1, TypedFacts, ConstantFacts DEF RoomLeft
  <2>3. Rendered' = base + k /\ Rendered = base + k
    BY <1>1, <2>1 DEF Rendered
  <2>4. calls \in Nat
    BY TypedFacts
  <2>5. PICK y \in Nat, z \in Nat : y = (calls - 1) * rs /\ z = (calls - 1 - 1) * rs /\ y = z + rs
    BY <1>1, <2>1, <2>4
  <2>6. ASSUME NEW r \in 1 .. n
        PROVE  /\ pos'[r] + left' < MaxPos
               /\ pos'[r] + left' + (calls' - 1) * RenderSteps = Rendered'
    <3>1. pos[r] + left + y = Rendered
      BY <1>1, <1>7, <2>1, <2>5 DEF RoomLeft
    <3>2. pos[r] \in Nat /\ left = 0 /\ pos'[r] = pos[r] /\ left' = rs
      BY <1>1, <1>2, <1>7, <2>1, InRun, RowFacts
    <3>3. (calls' - 1) * RenderSteps = z
      BY <1>1, <2>1, <2>5
    <3>4. pos[r] + rs + z = base + k
      BY <2>1, <2>2, <2>3, <2>5, <3>1, <3>2
    <3>5. pos[r] + rs < MaxPos
      BY <2>1, <2>2, <2>5, <3>2, <3>4
    <3>6. QED
      BY <2>3, <3>2, <3>3, <3>4, <3>5
  <2>7. QED
    BY <1>1, <1>2, <1>6, <2>2, <2>6 DEF RoomLeft
<1>10. Decoding'
  BY <1>6, <1>8, <1>9 DEF Decoding
<1>11. QED
  BY <1>6, <1>10 DEF Phase

\* The render is over: every row is at the position that the next field starts from.
LEMMA FollowsSparkCommit ==
  ASSUME Typed, Follows, NEW i \in 1 .. n, SparkCommit(i)
  PROVE  Follows'
<1>1. /\ pc = "ret" /\ mode = "loop" /\ calls = 1
      /\ ctx' = Copy(ctx, mrow[i], Rendered) /\ at' = i /\ pc' = "commitAmd"
      /\ /\ amd' = amd /\ mrow' = mrow /\ exit' = exit /\ served' = served /\ procs' = procs
         /\ mode' = mode /\ n' = n /\ tc' = tc /\ text' = text /\ pos' = pos /\ rows' = rows
         /\ base' = base /\ arow' = arow /\ buf' = buf /\ res' = res /\ left' = left
         /\ calls' = calls /\ iter' = iter
  BY DEF SparkCommit, runVars, stepVars
<1>2. Exits'
  BY <1>1 DEF Follows, Exits
<1>3. SUFFICES ASSUME Within, n # 1 PROVE Phase'
  BY <1>1, <1>2 DEF Follows, Within, LoneLoop
<1>4. Decoding /\ n > 1
  <2>1. n \in Nat \ {0}
    BY TypedFacts
  <2>2. QED
    BY <1>1, <1>3, <2>1 DEF Follows, Phase, LoneLoop
<1>5. Resident(1, 1) /\ Positions /\ RoomLeft /\ left = 0
  BY <1>1, <1>4 DEF Decoding, RoomLeft
<1>6. Rendered \in Nat /\ Rendered <= MaxPos
  <2>1. PICK k \in Nat : k = RenderSteps * RenderCalls
    BY ConstantFacts
  <2>2. Context \in Nat /\ MaxPos \in Nat /\ Context + k < MaxPos /\ base <= Context /\ base \in Nat
    BY <1>1, <1>5, <2>1, TypedFacts, ConstantFacts DEF RoomLeft
  <2>3. Rendered = base + k
    BY <2>1 DEF Rendered
  <2>4. QED
    BY <2>1, <2>2, <2>3
<1>7. ASSUME NEW r \in 1 .. n
      PROVE  /\ Len(text[r]) - 1 = Rendered
             /\ Holding(served, amd[r], text[r], Rendered)
             /\ Tailing(n, mrow[r], text[r], Rendered)
             /\ r \in Row
  <2>1. pos[r] + left + (calls - 1) * RenderSteps = Rendered
    BY <1>1, <1>5 DEF RoomLeft
  <2>2. pos[r] \in Nat /\ r \in Row /\ RenderSteps \in Nat
    BY InRun, RowFacts, ConstantFacts
  <2>3. (calls - 1) * RenderSteps = 0
    BY <1>1, <2>2
  <2>4. pos[r] = Rendered
    BY <1>5, <2>1, <2>2, <2>3
  <2>5. Len(text[r]) - 1 = Rendered
    BY <1>5, <2>4 DEF Positions
  <2>6. QED
    BY <1>3, <1>5, <2>2, <2>5 DEF Resident, TailRow
<1>8. Tailing(n, ctx', text[i], Rendered)
  <2>1. mrow[i] \in RowRec /\ ctx \in RowRec
    BY <1>7, RowFacts, TypedFacts
  <2>2. QED
    BY <1>1, <1>3, <1>6, <1>7, <2>1, TailCopy
<1>9. Committing'
  <2>1. Rendered' = Rendered
    BY <1>1 DEF Rendered
  <2>2. QED
    BY <1>1, <1>7, <1>8, <2>1 DEF Committing
<1>10. QED
  BY <1>1, <1>9 DEF Phase

\* The chosen row is the parent of the next field, on both boxes.
LEMMA FollowsAmdCommit == ASSUME Typed, Follows, AmdCommit PROVE Follows'
<1>1. /\ pc = "commitAmd" /\ Rendered <= Context
      /\ amd' = [amd EXCEPT ![1] = AmdCopy(amd[1], amd[at], Rendered)]
      /\ text' = [text EXCEPT ![1] = text[at]]
      /\ base' = Rendered
      /\ pc' \in {"fork", "done"}
      /\ /\ ctx' = ctx /\ mrow' = mrow /\ exit' = exit /\ served' = served /\ procs' = procs
         /\ mode' = mode /\ n' = n /\ tc' = tc /\ pos' = pos /\ rows' = rows /\ arow' = arow
         /\ at' = at /\ buf' = buf /\ res' = res /\ left' = left /\ calls' = calls
  BY DEF AmdCommit, CommitRow
<1>2. mode = "loop" /\ at \in 1 .. n /\ at \in Row /\ 1 \in Row
  BY <1>1, InRun DEF Typed, Modes
<1>3. Exits'
  BY <1>1 DEF Follows, Exits
<1>4. SUFFICES ASSUME Within, n # 1 PROVE Phase'
  BY <1>1, <1>2, <1>3 DEF Follows, Within, LoneLoop
<1>5. Committing /\ ~exit.valid
  <2>1. n \in Nat \ {0}
    BY TypedFacts
  <2>2. QED
    BY <1>1, <1>4, <2>1 DEF Follows, Phase, LoneLoop, Exits
<1>6. Rendered \in Nat /\ Rendered <= MaxPos
  <2>1. Rendered \in Nat
    BY RenderedNat
  <2>2. Context \in Nat /\ MaxPos \in Nat /\ Context <= MaxPos
    BY ConstantFacts
  <2>3. QED
    BY <1>1, <2>1, <2>2
<1>7. Holding(served, AmdCopy(amd[1], amd[at], Rendered), text[at], Rendered)
  <2>1. amd[1] \in RowRec /\ amd[at] \in RowRec
    BY <1>2, RowFacts
  <2>2. Holding(served, amd[at], text[at], Rendered)
    BY <1>2, <1>5 DEF Committing
  <2>3. QED
    BY <1>6, <2>1, <2>2, AmdCopyIsAt
<1>8. /\ amd'[1] = AmdCopy(amd[1], amd[at], Rendered) /\ text'[1] = text[at]
  BY <1>1, <1>2, TypedFacts
<1>9. Tailing(n, ctx', text[at], Rendered) /\ Len(text[at]) - 1 = Rendered
  BY <1>1, <1>2, <1>5 DEF Committing
<1>10. pc' = "fork" => Forking'
  BY <1>1, <1>5, <1>7, <1>8, <1>9 DEF Forking
<1>11. QED
  BY <1>1, <1>10 DEF Phase

LEMMA FollowsNext == ASSUME Typed, Sized, Follows, [Next]_vars PROVE Follows'
<1>1. CASE UNCHANGED vars
  <2>1. /\ /\ amd' = amd /\ ctx' = ctx /\ mrow' = mrow /\ exit' = exit /\ served' = served
           /\ procs' = procs /\ pc' = pc /\ mode' = mode /\ n' = n /\ tc' = tc /\ text' = text
           /\ pos' = pos /\ rows' = rows /\ base' = base /\ arow' = arow /\ at' = at
           /\ buf' = buf /\ res' = res /\ left' = left /\ calls' = calls /\ iter' = iter
    BY <1>1 DEF vars, boxVars, runVars, feedVars, stepVars
  <2>2. /\ Chunking' = Chunking /\ Priming' = Priming /\ Primed' = Primed /\ Forking' = Forking
    BY <2>1 DEF Chunking, Priming, Primed, Forking, Positions, Resident, TailRow, Through, Staged
  <2>3. /\ Decoding' = Decoding /\ Idle' = Idle /\ Committing' = Committing
    BY <2>1 DEF Decoding, Idle, Committing, Positions, Resident, Residuals, RoomLeft, TailRow, Tip,
                Rendered
  <2>4. QED
    BY <2>1, <2>2, <2>3 DEF Follows, Exits, Phase, Within, LoneLoop
<1>2. CASE Next
  <2>1. CASE End \/ AmdBoot
    <3>1. ProcessGone
      BY <2>1 DEF End, AmdBoot
    <3>2. QED
      BY <3>1, FollowsGone
  <2>2. ASSUME NEW k \in {1, Rows}, NEW t \in ChunkSizes, NEW ps \in [1 .. k -> Prompts], Start(ps, t)
        PROVE  Follows'
    BY <2>2, FollowsStart
  <2>3. CASE AmdChunkRequest \/ SparkChunk \/ PrimeDone \/ PrimeToken \/ PrimeRowDone
    BY <2>3, FollowsAmdChunkRequest, FollowsSparkChunk, FollowsPrimeDone, FollowsPrimeToken,
       FollowsPrimeRowDone
  <2>4. CASE AmdPrefix \/ SparkTail
    BY <2>4, FollowsAmdPrefix, FollowsSparkTail
  <2>5. ASSUME NEW t \in Token, HeadPrefix(t) PROVE Follows'
    BY <2>5, FollowsHeadPrefix
  <2>6. ASSUME NEW ts \in [1 .. n -> Token], HeadM(ts) PROVE Follows'
    BY <2>6, FollowsHeadM
  <2>7. ASSUME NEW k \in Budgets, DecodePrompts(k) PROVE Follows'
    BY <2>7, FollowsDecodePrompts
  <2>8. CASE DecodeReturns \/ IngestDone \/ FirstReturns
    BY <2>8, FollowsDecodeReturns, FollowsIngestDone, FollowsFirstReturns
  <2>9. ASSUME NEW s \in Injections, Refill(s) PROVE Follows'
    BY <2>9, FollowsRefill
  <2>10. ASSUME NEW m \in Siblings, NEW md \in {"field", "loop"}, AskFork(m, md) PROVE Follows'
    BY <2>10, FollowsAskFork
  <2>11. CASE AmdFork \/ SparkFork \/ RenderOn
    BY <2>11, FollowsAmdFork, FollowsSparkFork, FollowsRenderOn
  <2>12. ASSUME NEW r \in 1 .. n, SparkCommit(r) PROVE Follows'
    BY <2>12, FollowsSparkCommit
  <2>13. CASE AmdCommit
    BY <2>13, FollowsAmdCommit
  <2>14. QED
    BY <1>2, <2>1, <2>2, <2>3, <2>4, <2>5, <2>6, <2>7, <2>8, <2>9, <2>10, <2>11, <2>12, <2>13 DEF Next
<1>3. QED
  BY <1>1, <1>2

LEMMA SizedInit == Init => Sized
BY DEF Init, Sized

LEMMA SizedKept ==
  ASSUME Sized, pc # "off", served' = served, tc' = tc,
         pc' # "chunks" \/ (pc = "chunks" /\ rows' = rows)
  PROVE  Sized'
<1>1. served \notin {0} /\ tc \in ChunkSizes
  BY DEF Sized
<1>2. pc' = "chunks" /\ AllPooled => ~Batched(Len(rows), tc) /\ rows' = rows
  BY DEF Sized
<1>3. QED
  BY <1>1, <1>2 DEF Sized, AllPooled, Batched

LEMMA SizedStart ==
  ASSUME Typed, NEW k \in {1, Rows}, NEW t \in ChunkSizes, NEW ps \in [1 .. k -> Prompts], Start(ps, t)
  PROVE  Sized'
<1>1. /\ served' = served + 1 /\ tc' = t /\ rows' = Front(ps[1]) /\ served \in Nat
  BY TypedFacts DEF Start
<1>2. ps[1] \in Prompts
  BY ConstantFacts
<1>3. Len(rows') = Len(ps[1]) - 1
  <2>1. ps[1] \in Seq(Token) /\ ps[1] # <<>>
    BY <1>2, RowAssumption DEF RowAssumption
  <2>2. QED
    BY <1>1, <2>1, LastFront
<1>4. AllPooled => ~Batched(Len(rows'), tc')
  BY <1>1, <1>2, <1>3 DEF AllPooled
<1>5. QED
  BY <1>1, <1>4 DEF Sized, Batched

LEMMA SizedRefill ==
  ASSUME Typed, Sized, NEW s \in Injections, Refill(s)
  PROVE  Sized'
<1>1. /\ pc = "idle" /\ exit.valid /\ rows' = <<exit.tok>> \o Front(s) /\ served' = served /\ tc' = tc
  BY DEF Refill, boxVars, stepVars
<1>2. s \in Seq(Token) /\ s # <<>> /\ exit.tok \in Token
  BY <1>1, RowAssumption DEF RowAssumption, Typed, Texts, Modes
<1>3. Len(rows') = Len(s)
  BY <1>1, <1>2, RefillRows
<1>4. served \notin {0} /\ tc \in ChunkSizes
  BY <1>1 DEF Sized
<1>5. AllPooled => ~Batched(Len(rows'), tc')
  BY <1>1, <1>3, <1>4 DEF AllPooled
<1>6. QED
  BY <1>1, <1>4, <1>5 DEF Sized, AllPooled, Batched

LEMMA SizedNext == ASSUME Typed, Sized, [Next]_vars PROVE Sized'
<1>1. CASE UNCHANGED vars
  BY <1>1 DEF vars, boxVars, runVars, feedVars, Sized, AllPooled, Batched
<1>2. CASE End
  BY <1>2 DEF End, ProcessGone, Sized
<1>3. CASE AmdBoot
  BY <1>3 DEF AmdBoot, ProcessGone, Sized
<1>4. ASSUME NEW k \in {1, Rows}, NEW t \in ChunkSizes, NEW ps \in [1 .. k -> Prompts], Start(ps, t)
      PROVE  Sized'
  BY <1>4, SizedStart
<1>5. ASSUME NEW s \in Injections, Refill(s) PROVE Sized'
  BY <1>5, SizedRefill
<1>6. CASE AmdChunkRequest \/ SparkChunk \/ PrimeDone \/ PrimeToken \/ PrimeRowDone
  <2>1. /\ pc # "off" /\ served' = served /\ tc' = tc
        /\ pc' # "chunks" \/ (pc = "chunks" /\ rows' = rows)
    BY <1>6 DEF AmdChunkRequest, SparkChunk, PrimeDone, ChunksDone, PrimeToken, PrimeRowDone, runVars
  <2>2. QED
    BY <2>1, SizedKept
<1>7. CASE AmdPrefix \/ SparkTail \/ DecodeReturns \/ IngestDone \/ AmdFork \/ AmdCommit
  <2>1. pc # "off" /\ served' = served /\ tc' = tc /\ pc' # "chunks"
    BY <1>7 DEF AmdPrefix, SparkTail, DecodeReturns, IngestDone, ChunksDone, AmdFork, AmdCommit, runVars
  <2>2. QED
    BY <2>1, SizedKept
<1>8. ASSUME NEW t \in Token, HeadPrefix(t) PROVE Sized'
  <2>1. pc # "off" /\ served' = served /\ tc' = tc /\ pc' # "chunks"
    BY <1>8 DEF HeadPrefix
  <2>2. QED
    BY <2>1, SizedKept
<1>9. ASSUME NEW ts \in [1 .. n -> Token], HeadM(ts) PROVE Sized'
  <2>1. pc # "off" /\ served' = served /\ tc' = tc /\ pc' # "chunks"
    BY <1>9 DEF HeadM
  <2>2. QED
    BY <2>1, SizedKept
<1>10. ASSUME NEW k \in Budgets, DecodePrompts(k) PROVE Sized'
  <2>1. pc # "off" /\ served' = served /\ tc' = tc /\ pc' # "chunks"
    BY <1>10 DEF DecodePrompts, Decode
  <2>2. QED
    BY <2>1, SizedKept
<1>11. CASE FirstReturns \/ SparkFork \/ RenderOn
  <2>1. pc # "off" /\ served' = served /\ tc' = tc /\ pc' # "chunks"
    BY <1>11 DEF FirstReturns, SparkFork, RenderOn, Decode
  <2>2. QED
    BY <2>1, SizedKept
<1>12. ASSUME NEW m \in Siblings, NEW md \in {"field", "loop"}, AskFork(m, md) PROVE Sized'
  <2>1. pc # "off" /\ served' = served /\ tc' = tc /\ pc' # "chunks"
    BY <1>12 DEF AskFork
  <2>2. QED
    BY <2>1, SizedKept
<1>13. ASSUME NEW r \in 1 .. n, SparkCommit(r) PROVE Sized'
  <2>1. pc # "off" /\ served' = served /\ tc' = tc /\ pc' # "chunks"
    BY <1>13 DEF SparkCommit, runVars
  <2>2. QED
    BY <2>1, SizedKept
<1>14. QED
  BY <1>1, <1>2, <1>3, <1>4, <1>5, <1>6, <1>7, <1>8, <1>9, <1>10, <1>11, <1>12, <1>13 DEF Next

LEMMA FollowsHolds == Spec => [](Typed /\ Sized /\ Follows)
<1>1. Init => Typed /\ Sized /\ Follows
  BY TypedInit, SizedInit, FollowsInit
<1>2. Typed /\ Sized /\ Follows /\ [Next]_vars => (Typed /\ Sized /\ Follows)'
  BY TypedNext, SizedNext, FollowsNext
<1>3. QED
  BY <1>1, <1>2, PTL DEF Spec

-----------------------------------------------------------------------------
(* What follows of the texts of the rows. *)

\* Not a loop over one row, and both boxes have what they select from: in the
\* dense range they need no pools, beyond it the run has a single row, the server
\* is in its first run and no chunk of Spark left the pools behind.
InReach == ~LoneLoop /\ Within /\ Covered(n)

LEMMA SampledState ==
  ASSUME Typed, Follows
  PROVE  InReach => SampledFromOwnText
<1>1. SUFFICES ASSUME InReach, pc = "head" PROVE \A r \in 1 .. n : res[r] = text[r]
  BY DEF SampledFromOwnText
<1>2. Decoding /\ Covered(n)
  BY <1>1 DEF Follows, Phase, InReach
<1>3. QED
  BY <1>1, <1>2 DEF Decoding, Residuals

LEMMA ParentState ==
  ASSUME Typed, Follows
  PROVE  InReach => ParentResident
<1> DEFINE t == text[1]
<1> SUFFICES ASSUME InReach PROVE ParentResident
  OBVIOUS
<1>0. /\ Phase
      /\ \A x, p : Tailing(n, x, t, p) => At(x, t, p)
      /\ \A x, p : Holding(served, x, t, p) => At(x, t, p)
  BY DEF Follows, InReach, Tailing, Holding
<1>1. 1 \in 1 .. n /\ 1 \in Row /\ t \in Seq(Token) /\ Front(t) = Prefix(t, Len(t) - 1)
  BY InRun, RowFacts, FrontIsPrefix
<1>2. pc # "off" => Len(t) \in Nat \ {0} /\ Len(t) - 1 \in 0 .. Len(t) /\ Len(t) \in 0 .. Len(t)
  BY <1>1, LastFront DEF Typed, Texts
<1>3. CASE pc = "fork"
  <2>1. /\ base = Len(t) - 1 /\ At(ctx, t, base) /\ At(amd[1], t, base)
    BY <1>0, <1>3 DEF Phase, Forking
  <2>2. Holds(ctx, Front(t)) /\ Holds(amd[1], Front(t))
    BY <1>1, <1>2, <1>3, <2>1, AtIsHolds
  <2>3. QED
    BY <1>3, <2>2 DEF ParentResident
<1>4. CASE pc = "primed"
  <2>1. SUFFICES ASSUME n = 1 PROVE Holds(ctx, Front(t)) /\ Holds(amd[1], Front(t))
    BY <1>4 DEF ParentResident
  <2>2. At(ctx, t, Len(t) - 1) /\ At(amd[1], t, Len(t) - 1)
    <3>1. Resident(1, 1)
      BY <1>0, <1>4 DEF Phase, Primed
    <3>2. QED
      BY <1>0, <1>1, <2>1, <3>1 DEF Resident, TailRow
  <2>3. QED
    BY <1>1, <1>2, <1>4, <2>2, AtIsHolds
<1>5. CASE pc = "idle"
  <2>1. n = 1 /\ Idle
    BY <1>0, <1>5 DEF Typed, Modes, Phase
  <2>2. At(ctx, t, Len(t) - 1) /\ At(amd[1], t, Len(t)) /\ exit = Tip
    <3>1. Len(t) - 0 = Len(t)
      BY <1>2, <1>5
    <3>2. QED
      BY <1>0, <1>1, <2>1, <3>1 DEF Idle, Resident, TailRow
  <2>3. Holds(ctx, Front(t)) /\ Holds(amd[1], t)
    <3>1. Prefix(t, Len(t)) = t
      BY <1>1, PrefixFull
    <3>2. Holds(ctx, Prefix(t, Len(t) - 1)) /\ Holds(amd[1], Prefix(t, Len(t)))
      BY <1>1, <1>2, <1>5, <2>2, AtIsHolds
    <3>3. QED
      BY <1>1, <3>1, <3>2
  <2>4. QED
    BY <1>5, <2>2, <2>3 DEF ParentResident, Tip
<1>6. CASE pc \notin {"fork", "primed", "idle"}
  BY <1>6 DEF ParentResident
<1>7. QED
  BY <1>3, <1>4, <1>5, <1>6

\* Every token is chosen from exactly the text of its own row (run_region,
\* qf.cu:5092-5201): in the dense range whatever was served before, beyond it
\* a single row in the first run of the server, when no chunk takes the batched body.
THEOREM SampledFromOwn == Spec => [](InReach => SampledFromOwnText)
<1>1. Typed /\ Follows => (InReach => SampledFromOwnText)
  BY SampledState
<1>2. QED
  BY <1>1, FollowsHolds, PTL

\* And between calls both boxes agree on the parent row (EXIT INVARIANT,
\* qf.cu:5174-5179; FORK, qf.cu:5015-5021).
THEOREM ParentStays == Spec => [](InReach => ParentResident)
<1>1. Typed /\ Follows => (InReach => ParentResident)
  BY ParentState
<1>2. QED
  BY <1>1, FollowsHolds, PTL

\* A row that is at a position of a text with its pools has all of its keys.
LEMMA HoldingKeys ==
  ASSUME NEW t \in Seq(Token), NEW p \in 0 .. Len(t), NEW x, Holding(1, x, t, p)
  PROVE  /\ x.rec = Prefix(t, p) /\ x.rec # Wrong
         /\ \A b \in 0 .. Len(x.rec) \div IdxC - 1 : x.key[b] = BlockOf(x.rec, b)
<1>1. x.rec = Prefix(t, p) /\ Pools(x, t, p) /\ Len(t) \in Nat
  BY LenProperties DEF Holding, At
<1>2. Prefix(t, p) # Wrong
  <2>1. CASE p = 0
    <3>1. Prefix(t, p) = <<>>
      BY <2>1, SubSeqEmpty DEF Prefix
    <3>2. <<>> # Wrong
      BY EmptySeq DEF Wrong
    <3>3. QED
      BY <3>1, <3>2
  <2>2. CASE p # 0
    BY <2>2, NotWrong
  <2>3. QED
    BY <2>1, <2>2
<1>3. QED
  BY <1>1, <1>2, PoolsGiveKeys

LEMMA SparkPoolsState ==
  ASSUME AllPooled, Typed, Follows, Within
  PROVE  SparkPoolsHold
<1> DEFINE t == text[1]
<1>1. SUFFICES ASSUME (pc = "primed" /\ n = 1) \/ (pc = "prefix" /\ mode = "first")
               PROVE  \A b \in 0 .. Len(Front(t)) \div IdxC - 1 : ctx.key[b] = BlockOf(Front(t), b)
  BY DEF SparkPoolsHold
<1>2. /\ 1 \in 1 .. n /\ 1 \in Row /\ t \in Seq(Token) /\ Front(t) = Prefix(t, Len(t) - 1)
  BY InRun, RowFacts, FrontIsPrefix
<1>3. Len(t) - 1 \in 0 .. Len(t)
  BY <1>1, <1>2, LastFront DEF Typed, Texts
<1>4. n = 1 /\ ~LoneLoop
  BY <1>1 DEF Typed, Modes, LoneLoop
<1>5. Resident(1, 1)
  BY <1>1, <1>4 DEF Follows, Phase, Primed, Decoding
<1>6. Tailing(1, ctx, t, Len(t) - 1)
  BY <1>2, <1>4, <1>5 DEF Resident, TailRow
<1>7. Holding(1, ctx, t, Len(t) - 1)
  BY <1>6 DEF Tailing, Covered, TailPools
<1>8. ctx.rec = Front(t) /\ \A b \in 0 .. Len(ctx.rec) \div IdxC - 1 : ctx.key[b] = BlockOf(ctx.rec, b)
  BY <1>2, <1>3, <1>7, HoldingKeys
<1>9. QED
  BY <1>8

\* Spark's indexer keys are complete after a prime and after an ingest, when no
\* chunk takes the batched body (qf.cu:4943-4945, the pooled chunk body).
THEOREM SparkPoolsKept ==
  ASSUME AllPooled
  PROVE  Spec => [](Within => SparkPoolsHold)
<1>1. Typed /\ Follows => (Within => SparkPoolsHold)
  BY SparkPoolsState
<1>2. QED
  BY <1>1, FollowsHolds, PTL

-----------------------------------------------------------------------------
(* A fork that asks for two rows or more is never a loop over one. *)

Forked == pc \in {"fork", "forkSpark"} \/ mode \in {"field", "loop"} => n \in Siblings

LEMMA ForkedInit == Init => Forked
BY DEF Init, Forked

LEMMA ForkedNext == ASSUME Typed, Forked, [Next]_vars PROVE Forked'
<1>1. CASE UNCHANGED vars
  BY <1>1 DEF vars, runVars, Forked
<1>2. CASE End \/ AmdBoot
  BY <1>2 DEF End, AmdBoot, ProcessGone, Forked
<1>3. ASSUME NEW k \in {1, Rows}, NEW t \in ChunkSizes, NEW ps \in [1 .. k -> Prompts], Start(ps, t)
      PROVE  Forked'
  BY <1>3 DEF Start, Forked
<1>4. CASE AmdChunkRequest \/ SparkChunk \/ PrimeDone \/ PrimeToken
  BY <1>4 DEF AmdChunkRequest, SparkChunk, PrimeDone, PrimeToken, ChunksDone, runVars, Forked
<1>5. CASE PrimeRowDone \/ AmdPrefix \/ SparkTail \/ DecodeReturns
  BY <1>5 DEF PrimeRowDone, AmdPrefix, SparkTail, DecodeReturns, runVars, Forked
<1>6. ASSUME NEW t \in Token, HeadPrefix(t) PROVE Forked'
  BY <1>6 DEF HeadPrefix, Forked
<1>7. ASSUME NEW ts \in [1 .. n -> Token], HeadM(ts) PROVE Forked'
  BY <1>7 DEF HeadM, Forked
<1>8. ASSUME NEW m, NEW k, Decode(m, k), n' = n, m \in {"field", "loop"} => mode = m \/ pc = "forkSpark"
      PROVE  Forked'
  BY <1>8 DEF Decode, Forked
<1>9. ASSUME NEW k \in Budgets, DecodePrompts(k) PROVE Forked'
  BY <1>8, <1>9 DEF DecodePrompts
<1>10. CASE IngestDone \/ FirstReturns
  <2>1. CASE IngestDone
    BY <2>1 DEF IngestDone, Forked
  <2>2. CASE FirstReturns
    <3>1. n' = n /\ mode = "first" /\ pc = "ret"
      BY <2>2 DEF FirstReturns
    <3>2. CASE MaxRefill > 1
      BY <1>8, <2>2, <3>1, <3>2 DEF FirstReturns
    <3>3. CASE ~(MaxRefill > 1)
      BY <2>2, <3>1, <3>3 DEF FirstReturns, Forked
    <3>4. QED
      BY <3>2, <3>3
  <2>3. QED
    BY <1>10, <2>1, <2>2
<1>11. ASSUME NEW s \in Injections, Refill(s) PROVE Forked'
  BY <1>11 DEF Refill, Forked
<1>12. ASSUME NEW m \in Siblings, NEW md \in {"field", "loop"}, AskFork(m, md) PROVE Forked'
  BY <1>12 DEF AskFork, Forked
<1>13. CASE AmdFork
  BY <1>13 DEF AmdFork, runVars, Forked
<1>14. CASE SparkFork
  BY <1>8, <1>14 DEF SparkFork
<1>15. CASE RenderOn
  BY <1>8, <1>15 DEF RenderOn
<1>16. ASSUME NEW r \in 1 .. n, SparkCommit(r) PROVE Forked'
  BY <1>16 DEF SparkCommit, runVars, Forked, Typed, Modes
<1>17. CASE AmdCommit
  BY <1>17 DEF AmdCommit, Forked, Typed, Modes
<1>18. QED
  BY <1>1, <1>2, <1>3, <1>4, <1>5, <1>6, <1>7, <1>9, <1>10, <1>11, <1>12, <1>13, <1>14, <1>15, <1>16,
     <1>17 DEF Next

-----------------------------------------------------------------------------
(* The indexer keys of the AMD server. *)

Keyed(x) == x.rec # Wrong /\ \A b \in 0 .. Len(x.rec) \div IdxC - 1 : x.key[b] = BlockOf(x.rec, b)

LEMMA KeyedHolding ==
  ASSUME NEW t \in Seq(Token), NEW p \in 0 .. Len(t), NEW x, Holding(1, x, t, p)
  PROVE  Keyed(x)
BY HoldingKeys DEF Keyed

LEMMA KeyedReset ==
  ASSUME NEW x, x.rec = <<>>
  PROVE  Keyed(x)
<1>1. Len(x.rec) = 0 /\ x.rec # Wrong /\ IdxC \in Nat \ {0}
  BY EmptySeq, ConstantFacts DEF Wrong
<1>2. 0 \div IdxC = 0
  BY <1>1
<1>3. 0 .. 0 \div IdxC - 1 = {}
  BY <1>2
<1>4. QED
  BY <1>1, <1>3 DEF Keyed

\* A copy on the AMD server takes the pools along.
LEMMA KeyedCopy ==
  ASSUME NEW y \in RowRec, NEW x \in RowRec, NEW p \in Nat, Keyed(x)
  PROVE  Keyed(AmdCopy(y, x, p))
<1> DEFINE a == AmdCopy(y, x, p)
           c == Copy(y, x, p)
<1>1. c \in RowRec /\ c.rec = x.rec
  <2>1. c \in RowRec
    BY CopyType
  <2>2. c.rec = x.rec
    BY DEF Copy, RowRec
  <2>3. QED
    BY <2>1, <2>2
<1>2. a = [c EXCEPT !.sum = x.sum, !.key = x.key]
  BY DEF AmdCopy
<1> HIDE DEF a, c
<1>3. a.rec = x.rec /\ a.key = x.key
  BY <1>1, <1>2 DEF RowRec
<1>4. QED
  BY <1>3 DEF Keyed, a

\* The rows that a pass may just have run over.
PassKeyed ==
  served = 1 =>
    /\ pc = "chunks" => Keyed(amd[1])
    /\ pc = "rows" => Keyed(amd[at])
    /\ pc = "tail" \/ (pc = "ret" /\ n = 1) => \A r \in 1 .. n : Keyed(amd[r])

\* They are at a position of their texts.
LEMMA PassKeyedState ==
  ASSUME Typed, Follows, ~LoneLoop
  PROVE  PassKeyed
<1> SUFFICES ASSUME served = 1
    PROVE  /\ pc = "chunks" => Keyed(amd[1])
           /\ pc = "rows" => Keyed(amd[at])
           /\ pc = "tail" \/ (pc = "ret" /\ n = 1) => \A r \in 1 .. n : Keyed(amd[r])
  BY DEF PassKeyed
<1>0. Phase
  BY DEF Follows, Within
<1>1. CASE pc = "chunks"
  <2> DEFINE t == text[1]
  <2>1. /\ t \in Seq(Token) /\ Len(t) \in Nat /\ base \in Nat /\ arow \in Nat /\ Len(rows) \in Nat
    BY InRun, RowFacts, TypedFacts
  <2>2. base + Len(rows) = Len(t) - 1 /\ arow <= Len(rows) /\ Holding(1, amd[1], t, base + arow)
    BY <1>0, <1>1 DEF Phase, Chunking, Typed, Counts
  <2>3. base + arow \in 0 .. Len(t)
    BY <2>1, <2>2
  <2>4. Keyed(amd[1])
    BY <2>1, <2>2, <2>3, KeyedHolding
  <2>5. QED
    BY <1>1, <2>4
<1>2. CASE pc = "rows"
  <2> DEFINE t == text[at]
  <2>1. at \in 1 .. n /\ rows = Front(t) /\ Holding(1, amd[at], t, arow) /\ arow <= Len(rows)
    BY <1>0, <1>2 DEF Phase, Priming, Typed, Counts, Modes
  <2>2. t \in Seq(Token) /\ t # <<>> /\ arow \in Nat
    BY <1>2, <2>1, InRun, RowFacts, TypedFacts DEF Typed, Texts
  <2>3. Len(t) \in Nat \ {0} /\ Len(rows) = Len(t) - 1
    BY <2>1, <2>2, LastFront
  <2>4. arow \in 0 .. Len(t)
    BY <2>1, <2>2, <2>3
  <2>5. Keyed(amd[at])
    BY <2>1, <2>2, <2>4, KeyedHolding
  <2>6. QED
    BY <1>2, <2>5
<1>3. CASE pc = "tail" \/ (pc = "ret" /\ n = 1)
  <2>1. Resident(0, 1)
    BY <1>0, <1>3 DEF Phase, Decoding
  <2>2. ASSUME NEW r \in 1 .. n PROVE Keyed(amd[r])
    <3>1. text[r] \in Seq(Token) /\ Len(text[r]) \in Nat
      BY InRun, RowFacts
    <3>2. Len(text[r]) - 0 \in 0 .. Len(text[r])
      BY <3>1
    <3>3. Holding(1, amd[r], text[r], Len(text[r]) - 0)
      BY <2>1 DEF Resident
    <3>4. QED
      BY <3>1, <3>2, <3>3, KeyedHolding
  <2>3. QED
    BY <1>3, <2>2
<1>4. QED
  BY <1>1, <1>2, <1>3

AllKeyed == served = 1 => \A r \in Row : Keyed(amd[r])

LEMMA AllKeyedInit == Init => AllKeyed
BY DEF Init, AllKeyed

LEMMA AllKeyedNext ==
  ASSUME Typed, PassKeyed', AllKeyed, [Next]_vars
  PROVE  AllKeyed'
<1> SUFFICES ASSUME served' = 1 PROVE \A r \in Row : Keyed(amd[r])'
  BY DEF AllKeyed
<1>1. /\ pc' = "chunks" => Keyed(amd[1])'
      /\ pc' = "rows" => Keyed(amd[at])'
      /\ pc' = "tail" \/ (pc' = "ret" /\ n' = 1) => \A r \in 1 .. n' : Keyed(amd[r])'
  BY DEF PassKeyed
<1>2. ASSUME served' = served, amd' = amd PROVE \A r \in Row : Keyed(amd[r])'
  BY <1>2 DEF AllKeyed, Keyed
<1>3. ASSUME served' = served, \A r \in Row : amd'[r] = amd[r] \/ Keyed(amd'[r])
      PROVE  \A r \in Row : Keyed(amd[r])'
  BY <1>3 DEF AllKeyed, Keyed
<1>4. amd \in [Row -> RowRec] /\ \A r \in Row : amd[r] \in RowRec
  BY TypedFacts
<1>5. CASE UNCHANGED vars
  BY <1>2, <1>5 DEF vars, boxVars
<1>6. CASE End
  BY <1>2, <1>6 DEF End
<1>7. CASE AmdBoot
  BY <1>7 DEF AmdBoot
<1>8. ASSUME NEW k \in {1, Rows}, NEW t \in ChunkSizes, NEW ps \in [1 .. k -> Prompts], Start(ps, t)
      PROVE  \A r \in Row : Keyed(amd[r])'
  <2>1. amd' = [r \in Row |-> [amd[r] EXCEPT !.rec = <<>>]]
    BY <1>8 DEF Start, Reset
  <2>2. ASSUME NEW r \in Row PROVE Keyed(amd'[r])
    <3>1. amd'[r].rec = <<>>
      BY <1>4, <2>1 DEF RowRec
    <3>2. QED
      BY <3>1, KeyedReset
  <2>3. QED
    BY <2>2 DEF Keyed
<1>9. CASE AmdChunkRequest
  <2>1. /\ pc' = "chunks" /\ served' = served
        /\ \A r \in Row : r \in {1} \/ amd'[r] = amd[r]
    BY <1>4, <1>9 DEF AmdChunkRequest
  <2>2. Keyed(amd'[1])
    BY <1>1, <2>1 DEF Keyed
  <2>3. QED
    BY <1>3, <2>1, <2>2
<1>10. CASE PrimeToken
  <2>1. /\ pc' = "rows" /\ served' = served /\ at' = at
        /\ \A r \in Row : r \in {at} \/ amd'[r] = amd[r]
    BY <1>4, <1>10 DEF PrimeToken
  <2>2. Keyed(amd'[at])
    BY <1>1, <2>1 DEF Keyed
  <2>3. QED
    BY <1>3, <2>1, <2>2
<1>11. CASE AmdPrefix
  <2>1. /\ pc' = "tail" /\ served' = served /\ n' = n
        /\ \A r \in Row : r \in 1 .. n \/ amd'[r] = amd[r]
    BY <1>4, <1>11, InRun DEF AmdPrefix, runVars
  <2>2. \A r \in 1 .. n : Keyed(amd'[r])
    BY <1>1, <2>1 DEF Keyed
  <2>3. QED
    BY <1>3, <2>1, <2>2
<1>12. ASSUME NEW e \in Token, HeadPrefix(e) PROVE \A r \in Row : Keyed(amd[r])'
  <2>1. /\ pc' \in {"tail", "ret"} /\ served' = served /\ n' = 1
        /\ \A r \in Row : r \in {1} \/ amd'[r] = amd[r]
    BY <1>4, <1>12 DEF HeadPrefix
  <2>2. Keyed(amd'[1])
    BY <1>1, <2>1 DEF Keyed
  <2>3. QED
    BY <1>3, <2>1, <2>2
<1>13. CASE AmdFork
  <2>1. /\ served' = served
        /\ amd' = [r \in Row |-> IF r \in 2 .. n THEN AmdCopy(amd[r], amd[1], base) ELSE amd[r]]
    BY <1>13 DEF AmdFork
  <2>2. Keyed(amd[1]) /\ 1 \in Row /\ base \in Nat
    BY <2>1, InRun, TypedFacts DEF AllKeyed
  <2>3. \A r \in Row : Keyed(AmdCopy(amd[r], amd[1], base))
    BY <1>4, <2>2, KeyedCopy
  <2>4. \A r \in Row : amd'[r] = amd[r] \/ Keyed(amd'[r])
    BY <2>1, <2>3
  <2>5. QED
    BY <1>3, <2>1, <2>4
<1>14. CASE AmdCommit
  <2>1. /\ served' = served /\ pc = "commitAmd"
        /\ amd' = [amd EXCEPT ![1] = AmdCopy(amd[1], amd[at], Rendered)]
    BY <1>14 DEF AmdCommit, CommitRow
  <2>2. at \in Row /\ 1 \in Row /\ Rendered \in Nat
    BY <2>1, InRun, RenderedNat DEF Typed, Modes
  <2>3. Keyed(amd[at])
    BY <2>1, <2>2 DEF AllKeyed
  <2>4. Keyed(AmdCopy(amd[1], amd[at], Rendered))
    BY <1>4, <2>2, <2>3, KeyedCopy
  <2>5. \A r \in Row : r \in {1} \/ amd'[r] = amd[r]
    BY <1>4, <2>1
  <2>6. Keyed(amd'[1])
    BY <1>4, <2>1, <2>2, <2>4
  <2>7. QED
    BY <1>3, <2>1, <2>5, <2>6
<1>15. CASE SparkChunk \/ PrimeDone \/ PrimeRowDone \/ SparkTail \/ DecodeReturns \/ IngestDone
  BY <1>2, <1>15 DEF SparkChunk, PrimeDone, PrimeRowDone, SparkTail, DecodeReturns, IngestDone, boxVars
<1>16. CASE FirstReturns \/ SparkFork \/ RenderOn
  BY <1>2, <1>16 DEF FirstReturns, SparkFork, RenderOn
<1>17. ASSUME NEW ts \in [1 .. n -> Token], HeadM(ts) PROVE \A r \in Row : Keyed(amd[r])'
  BY <1>2, <1>17 DEF HeadM, boxVars
<1>18. ASSUME NEW k \in Budgets, DecodePrompts(k) PROVE \A r \in Row : Keyed(amd[r])'
  BY <1>2, <1>18 DEF DecodePrompts
<1>19. ASSUME NEW s \in Injections, Refill(s) PROVE \A r \in Row : Keyed(amd[r])'
  BY <1>2, <1>19 DEF Refill, boxVars
<1>20. ASSUME NEW m \in Siblings, NEW md \in {"field", "loop"}, AskFork(m, md)
       PROVE  \A r \in Row : Keyed(amd[r])'
  BY <1>2, <1>20 DEF AskFork, boxVars
<1>21. ASSUME NEW r \in 1 .. n, SparkCommit(r) PROVE \A i \in Row : Keyed(amd[i])'
  BY <1>2, <1>21 DEF SparkCommit
<1>22. QED
  BY <1>5, <1>6, <1>7, <1>8, <1>9, <1>10, <1>11, <1>12, <1>13, <1>14, <1>15, <1>16, <1>17, <1>18,
     <1>19, <1>20, <1>21 DEF Next

LEMMA NeverLone ==
  ASSUME 1 \notin Siblings
  PROVE  Spec => [](Typed /\ Sized /\ Follows /\ ~LoneLoop)
<1>1. Init => Typed /\ Forked
  BY TypedInit, ForkedInit
<1>2. Typed /\ Forked /\ [Next]_vars => (Typed /\ Forked)'
  BY TypedNext, ForkedNext
<1>3. Typed /\ Forked => ~LoneLoop
  BY DEF Forked, LoneLoop
<1>4. QED
  BY <1>1, <1>2, <1>3, FollowsHolds, PTL DEF Spec

\* When every fork asks for two rows or more, no run is left out: in the dense
\* range both properties hold of every state.
COROLLARY RowsFollowTheirTexts ==
  ASSUME Dense, 1 \notin Siblings
  PROVE  Spec => []SampledFromOwnText /\ []ParentResident
<1>1. Typed /\ Sized /\ Follows /\ ~LoneLoop => SampledFromOwnText /\ ParentResident
  BY SampledState, ParentState DEF InReach, Within, Covered
<1>2. QED
  BY <1>1, NeverLone, PTL

\* On a server in its first run every complete block of every row has the
\* indexer key of that row (k8_idx_step and k8_idx_pool_rows,
\* qf8_qsa.hip:124-190, 546-575): nothing is assumed of the dense range.
THEOREM AmdPoolsKept ==
  ASSUME 1 \notin Siblings
  PROVE  Spec => []AmdPoolsHold
<1>1. Init => AllKeyed
  BY AllKeyedInit
<1>2. Typed /\ Follows /\ ~LoneLoop => PassKeyed
  BY PassKeyedState
<1>3. Typed /\ PassKeyed' /\ AllKeyed /\ [Next]_vars => AllKeyed'
  BY AllKeyedNext
<1>4. AllKeyed => AmdPoolsHold
  BY DEF AllKeyed, Keyed, AmdPoolsHold
<1>5. QED
  BY <1>1, <1>2, <1>3, <1>4, NeverLone, PTL DEF Spec

=============================================================================
