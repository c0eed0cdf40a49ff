------------------------------ MODULE RowState ------------------------------
(***************************************************************************)
(* What every row of a run remembers, on both boxes.                       *)
(*                                                                         *)
(* A row of the model is a text: its prompt and what was generated.  The   *)
(* AMD server (prefix layers) and the Spark process (tail layers) each     *)
(* keep, per row, a recurrent state, a KV cache and the pooled keys of the *)
(* sparse attention indexer.  The driver qf_run_m8                         *)
(* (ocho/engine_spark/main.cu) primes rows, decodes, ingests suffixes,     *)
(* forks one row into siblings and commits one of them, and both boxes     *)
(* have to follow.                                                         *)
(*                                                                         *)
(* A value computed at a position stands for the text it was computed      *)
(* from, or is Wrong when anything it was computed from was not the state  *)
(* of that text.                                                           *)
(*                                                                         *)
(* Rows are numbered from 1, positions and blocks from 0, as in the code.  *)
(***************************************************************************)
EXTENDS Integers, SequencesExt, FiniteSetsExt

CONSTANTS
  Rows,        \* rows kept on each box (QF8_MROWS, QF_SPEC_MAXT)
  Token,       \* token ids, positive
  Eos,         \* tokens that end a single-row decode
  Prompts,     \* prompts a run may be given
  Injections,    \* suffixes that may be injected (QF_M8_REFILL)
  ChunkSizes,  \* QF_PRIME_T
  AmdChunk,    \* QF_AMD_CHUNK: rows per chunk request
  SpecMaxT,    \* QF_SPEC_MAXT: chunks up to this size take the batched body
  IdxC,        \* IDX_C: positions pooled into one indexer key
  TopK,        \* IDX_TOPK: complete blocks beyond which the indexer selects
  Context,     \* QF_MAX_CONTEXT: positions a row has room for
  Budgets,     \* QF_M8_MAX: tokens a decode may generate
  MaxRefill,   \* QF_M8_MAX2: tokens generated after an injection
  Siblings,    \* QF_M8_FORK: rows a fork may ask for
  RenderSteps, \* steps of one render call of a field
  RenderCalls, \* render calls between two choices
  Loops,       \* QF_M8_FORK_LOOP_ITERS
  MaxPos,      \* bound: positions the model keeps
  MaxProc      \* bound: Spark processes started

ASSUME RowAssumption ==
  /\ Rows \in Nat \ {0}
  /\ Token \subseteq Nat \ {0} /\ Eos \subseteq Token
  /\ Prompts \subseteq Seq(Token) /\ <<>> \notin Prompts
  /\ Injections \subseteq Seq(Token) /\ <<>> \notin Injections
  /\ ChunkSizes \subseteq Nat \ {0}
  /\ AmdChunk \in Nat \ {0}
  /\ SpecMaxT \in Nat /\ TopK \in Nat
  /\ IdxC \in Nat \ {0}
  /\ Context \in Nat /\ MaxPos \in Nat
  /\ Budgets \subseteq Nat \ {0} /\ MaxRefill \in Nat \ {0}
  /\ Siblings \subseteq 1 .. Rows
  /\ {RenderSteps, RenderCalls, Loops} \subseteq Nat \ {0}
  /\ MaxProc \in Nat
  \* every position that a run can reach is kept
  /\ \A s \in Prompts : Len(s) <= MaxPos
  /\ Context + MaxRefill < MaxPos /\ Context + RenderSteps * RenderCalls < MaxPos

Row   == 1 .. Rows
Pos   == 0 .. MaxPos - 1
Block == 0 .. MaxPos \div IdxC
Look  == 2               \* chunks of AMD requests ahead of the Spark chunk
NBuf  == Look + 1        \* staging buffers of the residuals of a chunk
Wrong == <<0>>

\* State of one row on one box.  The count of a pool is the length of its sum:
\* the code changes both together.
Blank == [rec |-> <<>>, kv  |-> [q \in Pos |-> <<>>],
          sum |-> [b \in Block |-> <<>>], key |-> [b \in Block |-> <<>>]]
NoExit == [valid |-> FALSE, tok |-> 0, pos |-> 0, res |-> <<>>]

VARIABLES
  amd,     \* AMD server: state of every row
  ctx,     \* Spark: the single-row buffers (ctx)
  mrow,    \* Spark: the M-row buffers (g_*_M); they have no pools
  exit,    \* g_r1_exit_*: what the last single-row decode left behind
  served,  \* Spark processes the AMD server has served since it booted
  procs,   \* Spark processes started
  pc, mode,
  n,       \* rows of the run (M, Mf)
  tc,      \* QF_PRIME_T of the process
  text,    \* prompt and tokens of each row: ids and out
  pos,     \* position of the current token of each row
  rows,    \* tokens being primed or ingested
  base,    \* position of rows[1]; in a fork loop, the position P of the parent
  arow,    \* how many of rows the AMD prefix has run
  at,      \* chunk Spark is on; the row being primed; the row chosen
  buf,     \* residuals received, per staging buffer
  res,     \* residual of each row in the host buffer
  left,    \* steps left in the decode call
  calls,   \* render calls left before the choice
  iter     \* iterations left of the fork loop

boxVars == <<amd, ctx, mrow, exit>>
runVars == <<mode, n, tc, text, pos>>
feedVars == <<rows, base, arow, at, buf>>
stepVars == <<res, left, calls, iter>>
vars == <<boxVars, served, procs, pc, runVars, feedVars, stepVars>>

PC == {"off", "chunks", "rows", "primed", "fork", "forkSpark", "prefix", "tail",
       "head", "ret", "commitAmd", "idle", "done"}
Mode == {"none", "prime", "decode", "ingest", "first", "rest", "field", "loop"}
RowRec == [rec : Seq(Nat), kv : [Pos -> Seq(Nat)],
           sum : [Block -> Seq(Seq(Nat))], key : [Block -> Seq(Seq(Nat))]]

TypeOK ==
  /\ amd \in [Row -> RowRec] /\ ctx \in RowRec /\ mrow \in [Row -> RowRec]
  /\ exit \in [valid : BOOLEAN, tok : Nat, pos : Nat, res : Seq(Nat)]
  /\ {served, procs, base, arow, at, left, calls, iter} \subseteq Nat
  /\ pc \in PC /\ mode \in Mode
  /\ n \in 1 .. Rows /\ tc \in Nat \ {0}
  /\ text \in [Row -> Seq(Token)] /\ pos \in [Row -> Nat]
  /\ rows \in Seq(Token)
  /\ buf \in [0 .. NBuf - 1 -> [Pos -> Seq(Nat)]]
  /\ res \in [Row -> Seq(Nat)]

-----------------------------------------------------------------------------
(* Running positions of one row through the layers of one box. *)

Prefix(h, k) == SubSeq(h, 1, k)
BlockOf(h, b) == [j \in 1 .. IdxC |-> Prefix(h, b * IdxC + j)]

\* The values v of positions p, p + 1, ... that fall into block b.
InBlock(v, p, b) ==
  SubSeq(v, Max({b * IdxC, p}) - p + 1, Min({(b + 1) * IdxC, p + Len(v)}) - p)

\* A pool takes the values of its block; its key is made when the count
\* reaches IdxC, and at no other count.
\* Mutant: a pass makes no key of a block that an earlier pass began.
BadPoolRows(x, v, p) ==
  LET new(b) == x.sum[b] \o InBlock(v, p, b) IN
  [x EXCEPT !.sum = [b \in Block |-> new(b)],
            !.key = [b \in Block |-> IF x.sum[b] = <<>> /\ Len(new(b)) = IdxC
                                     THEN new(b) ELSE x.key[b]]]
PoolRows(x, v, p) ==
  LET new(b) == x.sum[b] \o InBlock(v, p, b) IN
  [x EXCEPT !.sum = [b \in Block |-> new(b)],
            !.key = [b \in Block |-> IF InBlock(v, p, b) # <<>> /\ Len(new(b)) = IdxC
                                     THEN new(b) ELSE x.key[b]]]

\* The attention of position q reads every cached position before it, and the
\* keys of its nf complete blocks once there are more than TopK of them.
CacheHolds(x, h, q) == \A k \in 0 .. q - 1 : x.kv[k] = Prefix(h, k + 1)
KeysHold(x, h, nf)  == nf > TopK => \A b \in 0 .. nf - 1 : x.key[b] = BlockOf(h, b)

\* v: the values that enter, one per position from p on; y: the row with the
\* pools of this pass.  The i-th value is what the row at its text computes.
Enters(x, v, p, i) ==
  /\ v[i] # Wrong /\ Len(v[i]) = p + i
  /\ Front(v[i]) = IF i = 1 THEN x.rec ELSE v[i - 1]
Out(x, y, v, p, blocks) ==
  LET ok(i) == /\ Enters(x, v, p, i)
               /\ CacheHolds(x, v[i], p)
               /\ KeysHold(y, v[i], blocks[p + i - 1])
      good == {i \in DOMAIN v : \A j \in 1 .. i : ok(j)}
  IN [i \in DOMAIN v |-> IF i \in good THEN v[i] ELSE Wrong]
Keep(y, o, p) ==
  [y EXCEPT !.rec = Last(o),
            !.kv  = [q \in Pos |-> IF q \in p .. p + Len(o) - 1 THEN o[q - p + 1] ELSE @[q]]]

\* Complete blocks a position selects from: AMD counts its own, Spark does
\* not, and the dense bodies select nothing.
AmdBlocks   == [q \in Pos |-> (q + 1) \div IdxC]
SparkBlocks == [q \in Pos |-> q \div IdxC]
NoBlocks    == [q \in Pos |-> 0]

\* The AMD prefix extends its own recurrent state by the tokens it is sent.
AmdIn(x, toks) ==
  [i \in DOMAIN toks |-> IF x.rec = Wrong THEN Wrong ELSE x.rec \o Prefix(toks, i)]
AmdPass(x, toks, p) ==
  LET v == AmdIn(x, toks)
      y == PoolRows(x, v, p)
      o == Out(x, y, v, p, AmdBlocks)
  IN [row |-> Keep(y, o, p), out |-> o]

\* The Spark tail: decode step and large chunk keep the pools and select.
PooledPass(x, v, p) ==
  LET y == PoolRows(x, v, p)
      o == Out(x, y, v, p, SparkBlocks)
  IN [row |-> Keep(y, o, p), out |-> o]
\* The batched body and the M-row body have no pools and attend to everything: exact
\* up to TopK complete blocks, garbage past them (qf_qsa_index.cu:1-3, 14-15).
DensePass(x, v, p) ==
  LET d == Out(x, x, v, p, NoBlocks)
      o == [i \in DOMAIN v |-> IF SparkBlocks[p + i - 1] <= TopK THEN d[i] ELSE Wrong]
  IN [row |-> Keep(x, o, p), out |-> o]

-----------------------------------------------------------------------------
(* Processes. *)

NoBuf == [b \in 0 .. NBuf - 1 |-> [q \in Pos |-> <<>>]]

\* The state of a Spark process that is not there.
ProcessGone ==
  /\ ctx' = Blank /\ mrow' = [r \in Row |-> Blank] /\ exit' = NoExit
  /\ pc' = "off" /\ mode' = "none" /\ n' = 1 /\ tc' = 1
  /\ text' = [r \in Row |-> <<>>] /\ pos' = [r \in Row |-> 0]
  /\ rows' = <<>> /\ base' = 0 /\ arow' = 0 /\ at' = 0 /\ buf' = NoBuf
  /\ res' = [r \in Row |-> <<>>] /\ left' = 0 /\ calls' = 0 /\ iter' = 0

Init ==
  /\ amd = [r \in Row |-> Blank]
  /\ ctx = Blank /\ mrow = [r \in Row |-> Blank] /\ exit = NoExit
  /\ served = 0 /\ procs = 0
  /\ pc = "off" /\ mode = "none" /\ n = 1 /\ tc = 1
  /\ text = [r \in Row |-> <<>>] /\ pos = [r \in Row |-> 0]
  /\ rows = <<>> /\ base = 0 /\ arow = 0 /\ at = 0 /\ buf = NoBuf
  /\ res = [r \in Row |-> <<>>] /\ left = 0 /\ calls = 0 /\ iter = 0

\* The process ends: a call failed, it was stopped, or its work is done.
End ==
  /\ pc # "off"
  /\ ProcessGone
  /\ UNCHANGED <<amd, served, procs>>

\* The AMD server restarts; a process that uses it sees its call fail.
AmdBoot ==
  /\ served > 0
  /\ amd' = [r \in Row |-> Blank]
  /\ served' = 0
  /\ ProcessGone
  /\ UNCHANGED procs

\* RESET zeroes the recurrent state of every row and nothing else.  It succeeds here:
\* the server answers success whatever qf4_stage_reset returns
\* (qf_m8_region_server.cpp:268-271), and what a card holds on which it failed half
\* way is left out.
Reset(x) == [r \in Row |-> [x[r] EXCEPT !.rec = <<>>]]

\* A process starts with its prompts: one prompt is primed in chunks, several
\* one row and one token at a time.
Start(ps, t) ==
  /\ pc = "off" /\ procs < MaxProc
  /\ procs' = procs + 1 /\ served' = served + 1
  /\ amd' = Reset(amd)
  /\ n' = Len(ps) /\ tc' = t
  /\ text' = [r \in Row |-> IF r <= Len(ps) THEN ps[r] ELSE <<>>]
  /\ pos' = [r \in Row |-> IF r <= Len(ps) THEN Len(ps[r]) - 1 ELSE 0]
  /\ rows' = Front(ps[1])
  /\ mode' = "prime"
  /\ IF Len(ps) = 1 THEN pc' = "chunks" /\ at' = 0 ELSE pc' = "rows" /\ at' = 1
  /\ UNCHANGED <<ctx, mrow, exit, base, arow, buf, stepVars>>

-----------------------------------------------------------------------------
(* Priming and ingesting in chunks: the AMD prefix runs up to Look chunks  *)
(* ahead of Spark, its residuals wait in staging buffer c % NBuf.          *)

ChunkEnd(c) == Min({(c + 1) * tc, Len(rows)})
ChunkLen(c) == ChunkEnd(c) - c * tc

\* Mutant: one chunk more is in flight than there are buffers for.
BadInFlight(c) == c <= at + Look + 1
InFlight(c) == c <= at + Look

\* One chunk request: at most AmdChunk tokens of one chunk, always row 0.
AmdChunkRequest ==
  LET c == arow \div tc
      T == Min({AmdChunk, ChunkEnd(c) - arow})
      a == AmdPass(amd[1], SubSeq(rows, arow + 1, arow + T), base + arow)
  IN /\ pc = "chunks"
     /\ arow < Len(rows)
     /\ InFlight(c)
     /\ amd' = [amd EXCEPT ![1] = a.row]
     /\ buf' = [buf EXCEPT ![c % NBuf] =
                  [q \in Pos |-> IF q \in arow - c * tc .. arow - c * tc + T - 1
                                 THEN a.out[q - (arow - c * tc) + 1] ELSE @[q]]]
     /\ arow' = arow + T
     /\ UNCHANGED <<ctx, mrow, exit, served, procs, pc, runVars, rows, base, at, stepVars>>

\* Spark runs a chunk through the tail; which body depends on its length.
SparkChunk ==
  LET T == ChunkLen(at)
      v == [i \in 1 .. T |-> buf[at % NBuf][i - 1]]
      p == base + at * tc
  IN /\ pc = "chunks"
     /\ at * tc < Len(rows)
     /\ arow >= ChunkEnd(at)
     /\ ctx' = IF T > 1 /\ T <= SpecMaxT THEN DensePass(ctx, v, p).row
               ELSE PooledPass(ctx, v, p).row
     /\ at' = at + 1
     /\ UNCHANGED <<amd, mrow, exit, served, procs, pc, runVars, rows, base, arow, buf, stepVars>>

ChunksDone == pc = "chunks" /\ at * tc >= Len(rows)

PrimeDone ==
  /\ ChunksDone /\ mode = "prime"
  /\ pc' = "primed"
  /\ UNCHANGED <<boxVars, served, procs, runVars, feedVars, stepVars>>

\* Several prompts: row at of the AMD server and the single-row buffers of
\* Spark take one token, serially.
PrimeToken ==
  LET a == AmdPass(amd[at], <<rows[arow + 1]>>, arow)
  IN /\ pc = "rows"
     /\ arow < Len(rows)
     /\ amd' = [amd EXCEPT ![at] = a.row]
     /\ ctx' = PooledPass(ctx, a.out, arow).row
     /\ arow' = arow + 1
     /\ UNCHANGED <<mrow, exit, served, procs, pc, runVars, rows, base, at, buf, stepVars>>

\* The row's Spark state moves to its M-row buffers: recurrent state and KV [0, P).
Copy(y, x, P) == [y EXCEPT !.rec = x.rec, !.kv = [q \in Pos |-> IF q < P THEN x.kv[q] ELSE @[q]]]
\* qf_session_reset: the recurrent state and the pools, but neither keys nor KV.
SessionReset(x) == [x EXCEPT !.rec = <<>>, !.sum = Blank.sum]

PrimeRowDone ==
  /\ pc = "rows"
  /\ arow = Len(rows)
  /\ mrow' = [mrow EXCEPT ![at] = Copy(@, ctx, Len(rows))]
  /\ IF at < n
     THEN /\ at' = at + 1 /\ rows' = Front(text[at + 1]) /\ arow' = 0
          /\ ctx' = SessionReset(ctx)
          /\ UNCHANGED pc
     ELSE pc' = "primed" /\ UNCHANGED <<at, rows, arow, ctx>>
  /\ UNCHANGED <<amd, exit, served, procs, runVars, base, buf, stepVars>>

-----------------------------------------------------------------------------
(* Decoding: AMD prefix, Spark tail, AMD head. *)

\* A decode call of k steps.  A single row that goes on exactly where the last
\* call stopped has its prefix already, and its residual at hand.
\* Mutant: the prefix is always run again.
BadHasPrefix(tok, p) == FALSE
HasPrefix(tok, p) == exit.valid /\ tok = exit.tok /\ p = exit.pos
Decode(m, k) ==
  /\ mode' = m /\ left' = k
  /\ IF n' = 1
     THEN /\ exit' = [exit EXCEPT !.valid = FALSE]
          /\ IF HasPrefix(Last(text'[1]), pos'[1])
             THEN pc' = "tail" /\ res' = [res EXCEPT ![1] = exit.res]
             ELSE pc' = "prefix" /\ UNCHANGED res
     ELSE pc' = "prefix" /\ UNCHANGED <<exit, res>>

AmdPrefix ==
  LET a == [r \in 1 .. n |-> AmdPass(amd[r], <<Last(text[r])>>, pos[r])]
  IN /\ pc = "prefix"
     /\ amd' = [r \in Row |-> IF r <= n THEN a[r].row ELSE amd[r]]
     /\ res' = [r \in Row |-> IF r <= n THEN a[r].out[1] ELSE res[r]]
     /\ pc' = "tail"
     /\ UNCHANGED <<ctx, mrow, exit, served, procs, runVars, feedVars, left, calls, iter>>

\* One row runs on the single-row buffers, several on the M-row buffers.
SparkTail ==
  LET s == IF n = 1 THEN <<PooledPass(ctx, <<res[1]>>, pos[1])>>
           ELSE [r \in 1 .. n |-> DensePass(mrow[r], <<res[r]>>, pos[r])]
  IN /\ pc = "tail"
     /\ IF n = 1 THEN ctx' = s[1].row /\ UNCHANGED mrow
        ELSE mrow' = [r \in Row |-> IF r <= n THEN s[r].row ELSE mrow[r]] /\ UNCHANGED ctx
     /\ res' = [r \in Row |-> IF r <= n THEN s[r].out[1] ELSE res[r]]
     /\ pc' = "head"
     /\ UNCHANGED <<amd, exit, served, procs, runVars, feedVars, left, calls, iter>>

\* One row: the head picks t and the prefix of t runs in the same request.
\* The call ends at the end of its budget or at an end-of-sequence token, and
\* leaves t with its prefix run and its tail pending.
HeadPrefix(t) ==
  LET a == AmdPass(amd[1], <<t>>, pos[1] + 1)
  IN /\ pc = "head" /\ n = 1
     /\ amd' = [amd EXCEPT ![1] = a.row]
     /\ res' = [res EXCEPT ![1] = a.out[1]]
     /\ text' = [text EXCEPT ![1] = Append(@, t)]
     /\ pos' = [pos EXCEPT ![1] = @ + 1]
     /\ left' = left - 1
     /\ IF t \in Eos \/ left = 1
        THEN /\ pc' = "ret"
             /\ exit' = [valid |-> TRUE, tok |-> t, pos |-> pos[1] + 1, res |-> a.out[1]]
        ELSE pc' = "tail" /\ UNCHANGED exit
     /\ UNCHANGED <<ctx, mrow, served, procs, mode, n, tc, feedVars, calls, iter>>

\* Several rows: every row gets a token, and none of them stops the others.
HeadM(ts) ==
  /\ pc = "head" /\ n > 1
  /\ text' = [r \in Row |-> IF r <= n THEN Append(text[r], ts[r]) ELSE text[r]]
  /\ pos' = [r \in Row |-> IF r <= n THEN pos[r] + 1 ELSE pos[r]]
  /\ left' = left - 1
  /\ pc' = IF left = 1 THEN "ret" ELSE "prefix"
  /\ UNCHANGED <<boxVars, served, procs, mode, n, tc, feedVars, res, calls, iter>>

\* The decode of a primed run: never past the context.
Room(p) == Context - 1 - p
DecodePrompts(k) ==
  LET room == Room(Max({pos[r] : r \in 1 .. n}))
  IN /\ pc = "primed" /\ room >= 1
     /\ UNCHANGED <<n, text, pos>>
     /\ Decode("decode", Min({k, room}))
     /\ UNCHANGED <<amd, ctx, mrow, served, procs, tc, feedVars, calls, iter>>

\* The decode returned: several rows are done, one may be given more text.
DecodeReturns ==
  /\ pc = "ret" /\ mode \in {"decode", "rest"} /\ n = 1
  /\ pc' = "idle"
  /\ UNCHANGED <<boxVars, served, procs, runVars, feedVars, stepVars>>

\* qf_ingest_region: the pending token and all of the suffix but its last
\* token go through the chunks; the residual of the pending token is at hand.
Refill(sfx) ==
  /\ pc = "idle" /\ exit.valid
  /\ Room(exit.pos + Len(sfx)) >= 2
  /\ rows' = <<exit.tok>> \o Front(sfx)
  /\ base' = exit.pos /\ arow' = 1 /\ at' = 0
  /\ buf' = [buf EXCEPT ![0] = [@ EXCEPT ![0] = exit.res]]
  /\ text' = [text EXCEPT ![1] = @ \o sfx]
  /\ mode' = "ingest" /\ pc' = "chunks"
  /\ UNCHANGED <<boxVars, served, procs, n, tc, pos, stepVars>>

\* The ingest ends; the last token of the suffix starts the next decode.
IngestDone ==
  /\ ChunksDone /\ mode = "ingest"
  /\ pos' = [pos EXCEPT ![1] = base + Len(rows)]
  /\ UNCHANGED <<n, text>>
  /\ mode' = "first" /\ left' = 1 /\ pc' = "prefix"
  /\ exit' = [exit EXCEPT !.valid = FALSE]
  /\ UNCHANGED <<amd, ctx, mrow, served, procs, tc, feedVars, res, calls, iter>>

FirstReturns ==
  /\ pc = "ret" /\ mode = "first"
  /\ UNCHANGED <<n, text, pos>>
  /\ IF MaxRefill > 1 THEN Decode("rest", MaxRefill - 1)
     ELSE pc' = "idle" /\ UNCHANGED <<mode, left, exit, res>>
  /\ UNCHANGED <<amd, ctx, mrow, served, procs, tc, feedVars, calls, iter>>

-----------------------------------------------------------------------------
(* Fields: a primed row is forked into siblings, they are rendered, and in *)
(* a loop one of them becomes the parent of the next field.                *)

AskFork(m, md) ==
  /\ pc = "primed" /\ mode = "prime" /\ n = 1
  /\ Room(pos[1]) >= 1
  /\ n' = m /\ mode' = md
  /\ base' = pos[1]
  /\ iter' = IF md = "loop" THEN Loops ELSE 0
  /\ pc' = "fork"
  /\ UNCHANGED <<boxVars, served, procs, tc, text, pos, rows, arow, at, buf, res, left, calls>>

\* The AMD server copies row 0 to the other rows: recurrent state, KV [0, P)
\* and whole pools.
\* Mutant: the pools stay behind.
BadAmdCopy(y, x, P) == Copy(y, x, P)
AmdCopy(y, x, P) == [Copy(y, x, P) EXCEPT !.sum = x.sum, !.key = x.key]

AmdFork ==
  /\ pc = "fork"
  /\ base <= Context
  /\ amd' = [r \in Row |-> IF r \in 2 .. n THEN AmdCopy(amd[r], amd[1], base) ELSE amd[r]]
  /\ pc' = "forkSpark"
  /\ UNCHANGED <<ctx, mrow, exit, served, procs, runVars, feedVars, stepVars>>

\* Every sibling, the first included, gets a copy of the single-row buffers;
\* the render starts, all rows at P.
SparkFork ==
  /\ pc = "forkSpark"
  /\ mrow' = [r \in Row |-> IF r <= n THEN Copy(mrow[r], ctx, base) ELSE mrow[r]]
  /\ text' = [r \in Row |-> IF r <= n THEN text[1] ELSE text[r]]
  /\ pos' = [r \in Row |-> IF r <= n THEN base ELSE pos[r]]
  /\ n' = n
  /\ Decode(mode, RenderSteps)
  /\ calls' = IF mode = "loop" THEN RenderCalls ELSE 1
  /\ UNCHANGED <<amd, ctx, served, procs, tc, feedVars, iter>>

\* The render goes on across calls: rows continue from their own outputs.
RenderOn ==
  /\ pc = "ret" /\ mode = "loop" /\ calls > 1
  /\ calls' = calls - 1
  /\ UNCHANGED <<n, text, pos>>
  /\ Decode("loop", RenderSteps)
  /\ UNCHANGED <<amd, ctx, mrow, served, procs, tc, feedVars, iter>>

\* Row r is chosen and copied to the parent, on Spark first, then on AMD.
Rendered == base + RenderSteps * RenderCalls
SparkCommit(r) ==
  /\ pc = "ret" /\ mode = "loop" /\ calls = 1
  /\ ctx' = Copy(ctx, mrow[r], Rendered)
  /\ at' = r
  /\ pc' = "commitAmd"
  /\ UNCHANGED <<amd, mrow, exit, served, procs, runVars, rows, base, arow, buf, stepVars>>

\* Mutant: the recurrent state of the parent is not replaced.
BadCommitRow(x, r, P) == [AmdCopy(x[1], x[r], P) EXCEPT !.rec = x[1].rec]
CommitRow(x, r, P) == AmdCopy(x[1], x[r], P)
\* Mutant: one more time round.
BadLoopsOn == iter > 0
LoopsOn == iter > 1
AmdCommit ==
  /\ pc = "commitAmd"
  /\ Rendered <= Context
  /\ amd' = [amd EXCEPT ![1] = CommitRow(amd, at, Rendered)]
  /\ text' = [text EXCEPT ![1] = text[at]]
  /\ base' = Rendered
  /\ iter' = iter - 1
  /\ pc' = IF LoopsOn THEN "fork" ELSE "done"
  /\ UNCHANGED <<ctx, mrow, exit, served, procs, mode, n, tc, pos, rows, arow, at, buf,
                 res, left, calls>>

Next ==
  \/ End \/ AmdBoot
  \/ \E k \in {1, Rows}, t \in ChunkSizes : \E ps \in [1 .. k -> Prompts] : Start(ps, t)
  \/ AmdChunkRequest \/ SparkChunk \/ PrimeDone \/ PrimeToken \/ PrimeRowDone
  \/ AmdPrefix \/ SparkTail
  \/ \E t \in Token : HeadPrefix(t)
  \/ \E ts \in [1 .. n -> Token] : HeadM(ts)
  \/ \E k \in Budgets : DecodePrompts(k)
  \/ DecodeReturns \/ IngestDone \/ FirstReturns
  \/ \E s \in Injections : Refill(s)
  \/ \E m \in Siblings, md \in {"field", "loop"} : AskFork(m, md)
  \/ AmdFork \/ SparkFork \/ RenderOn
  \/ \E r \in 1 .. n : SparkCommit(r)
  \/ AmdCommit

Spec == Init /\ [][Next]_vars

-----------------------------------------------------------------------------
(* Properties. *)

\* A box holds the text h in a row: its recurrent state and its KV cache.
Holds(x, h) == x.rec = h /\ \A q \in 0 .. Len(h) - 1 : x.kv[q] = Prefix(h, q + 1)

\* Every token is chosen from exactly the text of its own row, whatever other
\* rows, forks, commits, injections and earlier processes left on the boxes
\* (run_region, qf.cu:5092-5201; docs/QWEN_3_OCHO.md:55-57): a single row's at any
\* length, one of several rows' while Spark has nothing to select.
Exact(r) == n = 1 \/ SparkBlocks[pos[r]] <= TopK
SampledFromOwnText == pc = "head" => \A r \in 1 .. n : Exact(r) => res[r] = text[r]

\* Between calls the two boxes agree on the parent row.  Before a decode or a
\* fork both hold everything but the current token; after a decode the AMD
\* server is ahead by the prefix of the current token, whose residual is kept
\* (EXIT INVARIANT, qf.cu:5174-5179; FORK, qf.cu:5015-5021).
ParentResident ==
  LET h == text[1] IN
  /\ pc = "fork" \/ (pc = "primed" /\ n = 1) =>
       Holds(ctx, Front(h)) /\ Holds(amd[1], Front(h))
  /\ pc = "idle" =>
       /\ Holds(ctx, Front(h)) /\ Holds(amd[1], h)
       /\ exit = [valid |-> TRUE, tok |-> Last(h), pos |-> Len(h) - 1, res |-> h]

\* On a server that has served one process only, every complete block of every
\* row has its indexer key, made from the values of that row
\* (k8_idx_step and k8_idx_pool_rows, qf8_qsa.hip:124-190, 546-575).
AmdPoolsHold ==
  served = 1 => \A r \in Row : LET x == amd[r] IN
    /\ x.rec # Wrong
    /\ \A b \in 0 .. Len(x.rec) \div IdxC - 1 : x.key[b] = BlockOf(x.rec, b)

\* The same of the Spark row that a prime or an ingest went through: "Spark
\* (KV, GDN, conv, indexer pools) sees pos0..pos0+N-1 through the chunk tail"
\* (qf.cu:4943-4945).
SparkPoolsHold ==
  (pc = "primed" /\ n = 1) \/ (pc = "prefix" /\ mode = "first") => LET h == Front(text[1]) IN
    \A b \in 0 .. Len(h) \div IdxC - 1 : ctx.key[b] = BlockOf(h, b)
=============================================================================
