# TLA+ project for Qwen-3-Ocho

Specifications, model-checking instances and proofs for the concurrent and stateful parts of the
engine under `src/ocho`: the AMD region server, the region client of the Spark and its prompt pass,
the state of the rows on both boxes, the four-card pipeline of the single-row server, the expert
slots, and the HTTP front end with its scheduler and its shutdown. Every definition is translated
from the source; `PROJECT.json` maps each one to its lines.

## The system

A 48-layer model is split over two tiers. Four AMD cards hold layers 0..15, the output head and the
PLE constants; a Spark (NVIDIA) holds layers 16..47. Both keep their state resident: KV, recurrent
(GDN) state, convolution rings, indexer pools, PLE history, for up to eight *rows*. A prompt is
*primed* chunk by chunk through AMD and then Spark; a field of M rows is *forked* from a parent,
rendered, and one row is *committed* back. Beside this the AMD box can serve a smaller deployment
alone: a pipeline of four cards, one row, behind an HTTP server of its own.

| component | state | operations | talks to | module |
|---|---|---|---|---|
| AMD region server (`amd_server/qf_m8_region_server.cpp`) | chunk slots, pipe counters, stage queues, reply descriptor, failure flags | accept, receive, submit chunk, drain, exclusive operation, stage workers, reply thread | cards (HIP streams and events), Spark (TCP) | `RegionPipeline` |
| per-row state of the stages (`qf_hip4_stage.hip`, `qf8_*.hip`) | KV, GDN, conv ring, indexer pools, PLE history per row and card | reset, prefix, chunk, fork, commit, head | called by the region server | `RowState` |
| Spark engine (`engine_spark/cuda/qf.cu`) | the same for its layers, reusable exit, staging, tail graph | prime, ingest, fork, commit, run_region | region client | `RowState`, `ChunkRing` |
| region client (`qf_region_amd.cpp`), MoE client (`qf_moe_client.cpp`) | socket, ring of outstanding requests, receiver thread | connect, send, wait | AMD region server, MoE service | `ChunkRing` |
| Ocho loop (`engine_spark/main.cu`) | parent row, field | fork both tiers, render, choose, commit both tiers | both tiers | `RowState` |
| four-card pipeline (`amd_server/qf_hip4_pipeline.cpp`) | mailboxes, stage threads, device buffers, error flag | reset, submit, wait, free | stages (HIP), HTTP workers | `HipPipeline` |
| its HTTP server (`qf_hip4_server.cpp`) | engine mutex, workers, stop flag | generate, signal, end | four-card pipeline | `HipPipeline` |
| expert slots (`qf_expert_slots.cpp`, `qf_router_wave64.hip`) | residency map, ages, double buffer, mailbox | init, prefill, dispatch, service | host and device | `ExpertCache` |
| scheduler (`server/scheduler.cpp`, `server/qf_server.cpp`) | queue, running set, per-request flags, sinks | submit, poll, worker loop, token callback, stop | HTTP handlers, engine | `Scheduler` |
| HTTP server (`server/http_server.cpp`), main of `qf_server.cpp` | listening socket, worker threads | run, stop, join, free | main, handlers | `ServerShutdown` |
| planner, model store, tokenizer, JSON, sampler, kernels | data | sequential | | |

What is hard: cards that execute later than they are told, host threads that hand chunks on, a reply
thread that outlives connections; two threads on one socket; failures of one HIP call in the middle
of several; closures over a frame that is another thread's; threads joined twice; the same row state
kept on two tiers, changed by operations that each can fail half way. `PROJECT.json` "hazards" lists
each at its line.

What makes each part correct:

* region server: a slot, a queue entry, a host buffer is never reused under somebody; replies are in
  request order and carry their own request's rows; exclusive operations are alone; everything is
  retired whatever fails, as long as the peer reads or leaves.
* region client and prompt pass: the rows Spark computes a chunk on are that chunk's; one thread
  reads the socket at a time; nobody waits on himself.
* row state: the state of a row is a function of the tokens the row has consumed, on both tiers.
* four-card pipeline: every token meets its own residual and a state made of the tokens before it;
  whoever takes the engine finds it empty, and gives it back.
* expert slots: an expert is read only from a slot that holds it.
* scheduler: one owner per request; no lost wakeup; the sink lives as long as it is called; text
  complete; stop() reaches everybody, if clients read or leave.
* shutdown: the model is freed last, and the process ends.

## Modules

| module | what it is |
|---|---|
| `ChunkService` | abstract: chunks outstanding, retired in order, exclusive operations alone |
| `RegionPipeline` | the region server's threads, queues, slots, cards and sockets; refines `ChunkService` |
| `Remainders` | arithmetic of rings: division, and numbers less than n apart |
| `RegionPipeline_proofs` | theorems about `RegionPipeline` |
| `RequestService` | abstract: bounded FIFO of requests, one completion each, close |
| `Scheduler` | handlers, workers, sinks, clients, stop(); refines `RequestService` |
| `Scheduler_proofs` | theorems about `Scheduler`: ownership; answers and stop(); wakeups and the refinement |
| `ServerShutdown`, `ServerShutdown_proofs` | the threads of the HTTP server, their joins, the end of main; its theorem |
| `RowState`, `RowState_proofs` | what every row holds on the AMD server and on the Spark, driven by `qf_run_m8`; theorems |
| `ChunkRing`, `ChunkRing_proofs` | the prompt pass over the client's ring of chunk requests; theorems |
| `SerialEngine` | abstract: one request at a time, the logits of exactly the tokens shown |
| `HipPipeline` | the four-card pipeline and the HTTP workers that take turns; refines `SerialEngine` |
| `HipPipeline_proofs` | theorems about `HipPipeline`: the idle engine, the two buffers, the refinement |
| `ExpertCache`, `ExpertCache_proofs` | the expert slots of one card: map, mailbox, staging buffers, two streams; theorems |
| `MC...` | instances of each for TLC |

The modules meet where one component is another's environment. `ChunkRing` takes its peer to answer
in the order of the requests and singly, which is what `ChunkService` promises and `RegionPipeline`
is shown to implement. That it answers at all is more than that: a chunk is retired there without an
answer once a card or a reply has failed (`ReplySkip`), with the connection still open. So it is a
hypothesis of its own in `ChunkRing` (`PeerServes`). `RowState` takes a request to be atomic, which
needs both; `ServerShutdown` keeps of the scheduler who waits and who is run, which is what
`RequestService` says of it.

### RegionPipeline

The connection thread is `kp` (`accept`, `recv`, ... `close`), a stage worker is `wk[g]` (the chunk it
holds), the reply thread is `rp`. `pipe_sub`, `pipe_head`, `pipe_tail` are the code's counters. The
atomic steps are those the code's mutexes and atomics make: a push, a pop, a counter. A chunk's data
are the number of the request it came from; `slot[k].r` is the header, `hop[g][k]` the residual rows
in the pinned buffer behind card g. A card is a queue of the chunks enqueued on its stream, executed
one at a time at any later moment; `EventPending` is hipEventSynchronize, which returns at once for an
event whose latest record has executed. A HIP call may fail (`FailStages`): the calls before it stay
on the stream. A write to the peer succeeds, fails, or blocks, as long as the peer is there: io_all has
no timeout, and a peer that stays and does not read holds the reply thread in send and pipe_drain with
it. When the peer has left, the write fails. The wait of the reply thread and of a stage worker for an
event (lines 69, 104) is taken to fail only for an event that has executed or on whose card nothing
executes any more.

Bounds: `MaxReq` chunk requests and `MaxConn` connections; the counters of the code grow with them.
With five chunks and three slots every slot is used twice and the ring of 2 * PIPE_SLOTS entries is
not a special case (it holds at most PIPE_SLOTS, `PipeWindow`, which is proved for all sizes).

### Scheduler

A handler thread is `hpc[r]`, a worker `wpc[w]`, the thread in stop() is `stpc`. What the code does
under `mu_` is one action; notifications, which come after the unlock, are actions of their own. A
token is its number; its text may be held back because it ends inside a character (`held`), and goes
to `text` when the sink delivers it. The token callback looks at `cancel` (scheduler.cpp:132) and
counts the token later (144), with no lock held: `gen`, `tok` and `sink` are three places, and stop()
or a client may come between any two. So "stop(): cancels in-flight work" does not mean that no token
is counted any more; `StopIsPrompt` says what is true, that a request counts at most the one token
whose callback had passed the check. Writes of a stream and of an answer are places of their own too
(`send`, `tail`, `answer`), because send has no timeout (http_server.cpp:47). `qf_generate` is
external: it calls the token callback any number of times up to the budget and returns success or an
error. Symmetry is over the workers and requests of the same kind. stop() may come at any time, as
scheduler.h promises; the properties about a client's text and about the reason "cancelled" speak of
the time before it.

### RowState

The driver is one thread that calls one box at a time, so its program counter `pc` is the whole control:
`chunks` and `rows` are the two branches of the prime, `prefix`, `tail`, `head` the steps of a decode,
`fork`, `forkSpark`, `commitAmd` the steps of a field. The one thing that runs beside it is the AMD
server, which works up to `Look` chunks ahead during a prime or an ingest (`AmdChunkRequest`). A Spark
process may end at any step and start again; the AMD server keeps its rows over that, and may itself
reboot. RESET is part of `Start`, as it is of the prime.

A value (a residual row, a KV entry, a recurrent state) is the text it was computed from, or `Wrong`. A
box computes the right value at a position only if the value entering continues its recurrent state,
all earlier KV entries are those of the text, and, with more than `TopK` complete blocks, so are the
keys of those blocks. GDN state, conv rings, PLE ring and PLE history are one `rec`: every operation
of the code treats them alike. The count of a pool is the length of its `sum`. The two boxes differ in
what the code makes them differ in: which blocks a position selects from (`AmdBlocks`, `SparkBlocks`),
which bodies keep pools (`PooledPass`, `DensePass`), what fork and commit copy (`Copy`, `AmdCopy`). The
bodies without pools attend to everything; that is exact up to `TopK` complete blocks, and past them
what they compute is `Wrong` (qf_qsa_index.cu:1-3 calls it garbage). `SampledFromOwnText` therefore
speaks of several rows only while they are within that range (`Exact`), of a single row at any length.

Modelled with the default settings: chunk requests (QF_PRIME_CHUNK=1), no ramp (QF_PRIME_T0 = QF_PRIME_T),
fused head and prefix, indexer on. A request to the AMD server is atomic here; its pipeline is
`RegionPipeline`, its client `ChunkRing`. Fields have at least two siblings in the runs: with one
sibling, which the driver allows, a loop is wrong (deviations).

Bounds: two rows, two tokens (one of them end-of-sequence), prompts of one and of six tokens, blocks
of two positions. Six tokens in chunks of one use every staging buffer twice; chunks of three give a
large chunk and a batched body of two; requests of two rows cut chunks. Two processes are enough for
everything one can leave to the next: RESET makes a third start like the second.
`MaxPos` is larger than any position a run reaches (`RowAssumption`): neither a field nor a refill is
bounded by the context, so it lies above `Context` by the steps they may make.

### ChunkRing

The driver thread is `mpc` (`call` and `reply` for its own operations, `submit`, `send`, `wait`,
`spark` for a prompt), the receiver thread `rpc`. A prompt is its `plan`: for every piece the chunk
it belongs to; a piece is one request of at most QF_AMD_CHUNK tokens, a chunk what Spark computes at
once. `g_cp`, `g_cp_head`, `g_cp_tail`, `g_cp_cons` are the ring and its counters, `g_cm` its mutex,
which is held over the send and not over the read. Rows are named by prompt and piece; `staging[b]`
is the buffer `hRc[b]`. The connection may break at any time and with it everything in it except,
perhaps, replies that had arrived; either thread learns of it at its next call.

The code does not check that the ring and the sockets hold what is asked for ahead (`RingAssumption`
and the comment at it): with the default sizes they do, QF_AMD_CHUNK and QF_PRIME_T could ask for
more, and then the driver waits for itself. Where the two threads touch the ring without the lock
they touch different entries, which is part of what the invariant says.

### HipPipeline

`pc[g]` is a stage thread (`pop`, `recv`, `run`, `send`, `push`; `fail`, `exited`), `cur[g]` the token
it works on, `R[g]` the residual on its card, `text[g]` the tokens its recurrent state was made from.
A residual is named by the request and position it belongs to, and is `Junk` once it was computed from
the wrong residual or the wrong state. In mode `pinned` the residual travels in the mailbox entry; in
mode `p2p` the producer's stream copies it to one of two device buffers (`hand`, `emit`) and the
consumer's stream copies it in after the event of that buffer (`recv`). The copies are steps of their
own, as late as the synchronisation of the streams allows. A stage may fail at any of its HIP calls:
it sets the error flag and stops the mailboxes one by one (`StopBox`), as `qf_hip4_free` does.

The driver is whoever holds `g_engine_mu` (`holder`, `phase`): a reset by sentinel, the prompt without
waiting, then logits one by one. `try_lock_for` may give up, the signal may come at any time, and the
engine is freed when all workers have left. `LongestPrompt` bounds prompts per mode: with two tokens
in flight at most the device buffers are safe, with more they are not (`handoff_reuse`).

### ExpertCache

One card: its host thread `hpc`, the compute stream `compute` and the transfer stream `copies`. A
dispatch handles the selected experts one by one (`DispatchHit`, `DispatchMiss`), lists the misses in
the mailbox and stamps it; the host spins on the stamp, gathers each missing expert into one of two
buffers that all layers share, and makes the compute stream wait for the copy. What a buffer or a
slot holds is named by layer and expert. The numbers of slots include as many as experts, where
everything is uploaded at start and no dispatch runs. The spin has no end in the model; in the code it
ends the engine after 2^34 turns, a guard against a dead card. The FP8 and int8 variants, which convert
an expert as it is uploaded, are left out. Fewer slots than selected experts cannot work
(see the deviations) and are left out.

### ServerShutdown

main is `mpc`, the thread that polls the signal's flag `wpc`, a connection worker `worker[w]`. Both
`run` and `stop` join the workers: `JoinBegins` of a thread that is being joined is undefined, and
either aborts the process (glibc) or lets both wait (musl). `SpawnRace` is stop() walking the vector
of threads that run is still filling. Of a request only who waits and who is run is kept; a client that
leaves changes neither, since its worker sets `cancel` and waits on (qf_server.cpp:363-371).

## Runs

| run | shows |
|---|---|
| `pipeline` | four cards, three slots, five chunks, two connections, no failure: slots, order, rows, exclusive operations, refinement of `ChunkService` |
| `pipeline_faults` | three cards, two slots, three chunks, any HIP call fails, the peer leaves: slots and buffers stay safe; if sends return, everything is retired and drains end |
| `scheduler` | two workers, a stream and a one-piece answer, two tokens, clients leaving, stop(): safety, refinement of `RequestService` |
| `scheduler_live` | one worker, two requests: if clients read or leave, everybody admitted is answered and stop() returns |
| `row_dense` | two processes, any crash or reboot, texts in the dense range: each token is chosen from its row's own text, both boxes agree on the parent |
| `row_sparse` | one process on a fresh server beyond the dense range: indexer keys of AMD follow the text through chunks, steps, forks, commits, those of the single Spark row through prime and ingest; a single row's tokens are of its own text |
| `reset_pools` (violation) | RESET keeps indexer pools: the next process selects with keys of the one before |
| `hip_pipeline` | three cards, the middle one may fail, two workers, two requests, both handoff modes: residuals, idleness, refinement of `SerialEngine`, the threads are released, and, if clients read or leave, the lock |
| `handoff_reuse` (violation) | device buffers and a prompt of four tokens: a token runs on the residual of a later one |
| `expert_cache` | two layers of four experts, two selected, 2..4 slots, two tokens of any selection, a failing upload: experts are read from slots that hold them, every token ends |
| `chunk_ring` | three prompts, a ring exactly as large as what is asked for ahead, a connection that breaks: rows in place, one reader; with a peer that serves, every prompt ends |
| `server_shutdown` | three workers, three connections, a signal at any time, failing bind and accept: the model is freed last, the process ends |

Bounds, and why they are enough. `pipeline`: every slot is used twice, a chunk is behind each card at
once, and an operation follows chunks. `pipeline_faults`: with two slots the third chunk reuses the
slot of one that failed. `scheduler`: one request more than a busy worker takes, a queue that fills,
and a token that ends inside a character followed by one that completes it. `row_dense`: a large
chunk (3), a batched body (2) and single rows; two rows make a fork, a commit and a loser; the second
process finds whatever the first left. `row_sparse`: TopK 1 and blocks of two positions make
selection matter from the fourth position, and its chunks (1 and 5) avoid the batched body.
`hip_pipeline`: the shortest pipeline with a card between two others; mailboxes of two fill with a
prompt of three. `expert_cache`: with two slots a token evicts all that the token before used, with
three one survives; two layers share the staging buffers in turn. `chunk_ring`: the ring (6) is
exactly two chunks of three pieces, so it fills and wraps within a prompt, and sockets and peer
together hold just what is under way; plans include an ingest that starts with the resident row and
an empty one. `server_shutdown`: one worker can be in accept, one in the queue and one in work.

Deadlock is not checked where the system may stop: no more requests, connections or clients come, or
the server has ended. The liveness properties say in each case what must still happen.

Fairness is weak fairness of threads and of cards. What a liveness property needs of the environment is
not in the fairness but in the property, as a hypothesis with a name; the one exception is
`ServerShutdown`. No socket of the code has a send timeout, so each of these hypotheses can fail, and
then the code does wait for ever (deviations).

* `RegionPipeline`: every thread and every card that can go on does, a thread in send or recv excepted.
  `ChunksRetired` and `DrainEnds` suppose `SendReturns`: the reply thread is not in send for good.
* `Scheduler`: threads run; `qf_generate` returns or produces a token, at most the budget. A thread that
  writes to a client is not fair. `AdmittedAnswered` and `StopEnds` suppose `ClientsRead`: each write
  ends, because the client reads or because it leaves. Nobody has to send a request, leave, or call
  stop().
* `HipPipeline`: stage threads, the copies on both streams, the holder of the engine while it does not
  write to its client (`Computes`), a worker that waits for the lock (which a timeout ends), main. No
  card has to fail, no signal to come. `EngineReleased` supposes `ClientsRead`: the holder is not in a
  write for good. `FreeEnds`, which begins when all workers have left, supposes nothing.
* `ExpertCache`: the host thread and both streams.
* `ChunkRing`: both threads, and nothing of the peer. `PromptEnds` supposes `PeerServes`: while the
  connection is up and something is asked for, the peer does not stop for good to read and to answer.
* `ServerShutdown`: threads run, decoding a request ends, a client reads what it is sent (writes have
  no deadline). No client has to come or leave.

A hypothesis is about what is never resumed, not about how long it takes. It stands to the left of
`=>` in the property, so the runs explore the behaviours that break it as well.

## Proofs

The theorems hold for every value of the constants the named ASSUME allows.

`RegionPipeline_proofs`, any number of cards, slots, requests and connections (`PipeAssumption`):

* `TypeCorrect`, `PipeWindowHolds`, `PipeImplementsService`: from `PipeInv`: the chunks of the queues
  and threads lie between head and submit and appear there once, in order.
* `SlotsSafe`, `RepliesOrdered`: from `HeaderInv` and `ReplyInv`: headers of owned slots increase with
  the chunk, and what was sent is older than what is owned. Both hold whatever fails.
* `RowsKept`: whatever fails. A failed call leaves copies on a card's stream that nobody waits for.
  `LeftInv`: a chunk whose event was recorded is on a stream only until somebody waited for it; one
  whose event was not may stay after it was retired, but then no card is given a chunk that was not in
  the pipe with it, so nothing on the streams is a whole ring ahead of it.
* `RowsCorrect`, `DrainIsComplete`: while no HIP call fails (`FailStages = {}`); with failures the
  first is false (deviations). `CardInv` says where a chunk's rows are by its position: behind card g
  once card g executed it, on the stream until then, and a slot is not written by card g before card
  g+1 has read the rows of the chunk before in the slot. It is needed because `RowsMatchHeader` alone
  says nothing of the rows under way.

`Scheduler_proofs`, any workers, requests, queue and budget:

* `TypeCorrect`, `OneOwnerHolds`, `SinkInFrameHolds`: from `OwnInv`, which ties the steps of handlers
  and workers to the queue, the running set and the flags of a request.
* `StopIsPromptHolds` from `Reached` (stop() has cancelled all that is in work, so no callback passes its
  check any more), `CancelledIsGoneHolds`
  from `Gone`, `StreamCompleteHolds` from `Texts` (delivered and held-back tokens are those counted).
* `NoLostWakeupHolds`: a queued request is matched with an awake worker or a notification; the
  counting over finite sets is the hard part.
* `SchedulerImplementsService`: from `ServInv`; every step maps to one step of `RequestService` or to a
  stutter.

`ServerShutdown_proofs` (`ShutdownAssumption`): `ModelFreedLastHolds` from `ShutInv`, which says of each
joiner that all workers before the one it is at have ended, and that no worker is created after.

`ChunkRing_proofs`, any prompts, ring, look-ahead, buffers and capacities (`RingAssumption`):

* `OneReaderHolds`: from `RingTypes`, `DriverInv` (what the driver has asked and waited for, against
  the ring's counters) and `NetInv`: the messages between the two threads are, in order, exactly the
  pieces from the tail of the ring to its head, or a single request or its reply and no piece at all.
* `RowsInPlaceHolds`: from `RowsInv`: an entry between tail and head names the buffer and place of its
  piece; a piece that was read without an error is in its place; and no piece asked for writes a place
  still to be read, because chunks that share a buffer are at least NBUF > LOOK apart.

`HipPipeline_proofs`, any number of cards, HTTP workers and requests, whichever cards fail
(`HipAssumption`):

* `IdleWhenFreeHolds`, both modes, prompts of any length: from `Types`, `Control` (who may be where),
  `Copying` (which copies a card has under way) and `Flow`. `IdleWhenFree` says nothing of the engine
  while somebody has it; `Flow` does: the engine rests, or one sentinel is under way and the cards it
  has passed are clear, or it is lost with a card, or the tokens of one request are under way in order.
  Order is counted: what a card passed on is what the next has taken or has in its mailbox. After a
  failure the counts go on only between cards that live, and the token waited for is behind the card
  that failed, so nobody is answered.
* `HandoffRaceFreeHolds`, `EngineImplements`: from `FullFlow`, which adds `Contents`. In the pinned mode
  the residual is in the mailbox entry. In the two-buffer mode `Offered` says that what is yet to be
  read is in the buffer or being copied there, and `Copied` that a copy out of a buffer still being
  filled waits for it. They need `Pace`: no card runs more than two tokens ahead of any behind it. The
  decode loop gives that, since the holder shows a token only with the logits of the last; a prompt
  gives it only up to two tokens. Hence the hypothesis `Paced` of both theorems, on `LongestPrompt` of
  the mode p2p alone; with three tokens and more the property is false (`handoff_reuse`).
  `EngineImplements` also needs `Older`: logits in hand are not taken for those waited for.

`ExpertCache_proofs`, any layers, experts, selection size and numbers of slots, tokens of any routing,
copies that fail or not (`CacheAssumption`):

* `CacheInvariant`: `CacheInv` is inductive. `MappedIsThere` is not: it says nothing of the middle of a
  dispatch, nor of what a copy under way will overwrite. `Queue` says what the compute stream can hold
  at each step of the host; `Waited`, that the last copy asked for has a wait of its own there, so no
  operation behind it runs before the copies are done; `Mail`, which stamp and count the host reads;
  `Inverses`, that the two maps are inverse, and `Identity` what they are when every expert has a slot;
  `Fill`, that for every mapped expert the last write to its slot (made, queued on the stream, or
  listed for the host and not yet served) is of this expert.
* `MappedIsThereAlways`: from `Fill`, for any number of slots.
* `ReadsOwnExpertAlways`: from `Routing`, that the slots routed to are still those of the selected
  experts when the experts run. A later miss of the same dispatch evicts the coldest slot; `Fresh` says
  that the slots just given out carry the youngest ages, so with at least TOPK slots some slot is older
  (counting over finite sets) and that one is taken. Hence the hypothesis `slots >= TOPK`; below it the
  property is false (deviations).

`RowState_proofs`, any rows, texts, chunk sizes, budgets, siblings, loops and processes (`RowAssumption`):

* `TypeCorrect`: from `Typed`. Tables are indexed by positions, so the types need `Counts` (the steps
  left in a decode, the calls left of a render, the tokens of an injection) and `Texts` (a row's position
  is that of its last token), and so the bounds on `MaxPos` in `RowAssumption`.
* `SampledFromOwn`, `ParentStays`: from `Follows`, one conjunct per phase of the driver. Both properties
  look at a few states only; between them `Phase` says of each box how much of which text it has run:
  `At(x, t, p)`, the recurrent state is the first p tokens of t and the KV entries below p are those of
  t, whatever older runs left above. In `Chunking`, the AMD row has `arow` tokens, Spark `at` chunks, and
  the chunks from `at` to `at + Look` are in staging buffers of their own (`Remainders`) as far as they
  were requested. In `Priming`, the rows before `at` are in their M-row buffers and the rows after it
  are still as RESET left them. In `Decoding`, the prefix may be a token ahead of the tail, and `Tip` is what
  `HasPrefix` may rely on. In `Forking` and `Committing`, the copies reach exactly as far as the text.
  `Exits`: a prime or several rows leave no exit behind for a later decode to reuse.
* The indexer pools go along with it. `Pools(x, t, p)`: every block has exactly those of its positions
  that are below p, in order, and a block that is whole has its key; `BlockGrows` says that a pass adds
  to each block just what its own positions add, wherever chunk and block boundaries fall. On the AMD
  server the pools are right in its first run (`Holding(served, ...)`); RESET leaves them, so in a later
  one they are not. On Spark only the single-row buffers have them, and only when no chunk takes the
  batched body (`Tailing`); fork and commit do not copy them, so several rows run without, and are known
  in the dense range only.
* The theorems hold within a reach (`InReach`) that these facts draw. `Within`: `Dense` (no kept position
  has more than TOPK complete blocks before it, so pools are not read) or the server's first run; beyond,
  `SampledFromOwnText` is false (`reset_pools`). `Covered(n)`: `Dense`, or the run has a single row and no prompt and no
  injection leaves a chunk of 2..SPEC_MAXT tokens (`AllPooled`; `Sized` carries it to the chunks under way); beyond, it
  is false as well (deviations). And the state is not in a `LoneLoop`, a loop of one row (deviations).
* `RowsFollowTheirTexts`: no loop of one row is ever entered when `1 \notin Siblings`, and then in the dense
  range both properties hold of every state.
* `AmdPoolsKept`: `AmdPoolsHold`, at any length of the texts, when `1 \notin Siblings`. A row that a pass has
  just run over is in a `Phase` that knows its text (`PassKeyed`); any other row keeps its keys, loses
  them with its state at RESET, or takes over both from another row (`KeyedCopy`).
* `SparkPoolsKept`: `SparkPoolsHold` when `AllPooled`, `Within` the reach of the AMD server, whose residuals
  Spark pools.

`Remainders` proves what the rings need from the division theorem: two different numbers less than n
apart have different remainders by n.

Only model-checked: liveness (`ChunksRetired`, `DrainEnds`, `AdmittedAnswered`, `StopEnds`,
`EngineReleased`, `FreeEnds`, `TokenEnds`, `PromptEnds`, `SignalEnds`), which is beyond the proof
system with fairness; the hypotheses they are stated under are above. Every invariant and every
action property of a passing run is stated by a theorem.

## Findings

Each is the counterexample of a `violation` run; `PROJECT.json` "findings" quotes the lines.

* `reset_pools`: qf4_stage_reset (qf_hip4_stage.hip:2152) leaves `pool_sum` and `pool_cnt`; counts of
  the next process never come back to the block size, and beyond the dense range it selects with old
  keys.
* `handoff_reuse`: qf_hip4_pipeline.cpp:26-31 calls its double buffering race-free because the
  producer cannot start token t+2 before the consumer has popped token t. It does: the copy into the
  slot is started (236) before the push (245) that would block, and a popped token has not been copied
  yet.

Deviations seen while modelling that no run shows any more or that a model would only repeat. The
modules contain the behaviour wherever it is theirs, and the properties are stated around it:

* a connection is closed (qf_m8_region_server.cpp:366) without draining the pipe or stopping the reply
  thread; the next accept (260) makes replies to the lost connection go to the new one;
* after a HIP call failed, a chunk is still passed on (qf_m8_region_server.cpp:108-110) and, its last
  event being complete since an earlier chunk, answered as a success with the slot's old rows (69-72);
* serve_blocking submits before it sets `on_token` (qf_server.cpp:399, 402): a quick worker drops the
  text of the first tokens;
* a peer that stays connected and stops reading holds the reply thread in send (io_all,
  qf_m8_region_server.cpp:142-147, no timeout), and with it pipe_drain (126-130), `SendReturns`; a client
  of the Spark server that does holds its worker (http_server.cpp:47, `cancel` is not looked at in send),
  those queued behind it and the join in stop(); a client of the HIP server holds the engine lock
  (qf_hip4_server.cpp:85-98), and others get 503;
* after a reply or the last card failed, `g_reply_fail` (69, 73) stays set and chunks are retired
  unanswered with the connection open and the server in recv (263): the Spark's receiver, and its driver
  behind it, wait for ever (`PeerServes`);
* RESET is answered as success whatever qf4_stage_reset returns (qf_m8_region_server.cpp:268-271): a card
  on which it failed keeps old state. `RowState` has RESET succeed;
* stop() may come between the check of `cancel` and the count of the token (scheduler.cpp:132, 144): one
  more token is then counted and sent (`StopIsPrompt`);
* QWEN_3_OCHO.md:29-31 and 43-46 say that fork and commit copy the indexer pools on both boxes. On the AMD
  server they do; on the Spark qf_fork_rows and qf_fork_commit_rows (qf.cu:5022-5060) copy recurrent state,
  conv ring and KV only, and the M-row body attends densely: past 512 blocks that is garbage
  (qf_qsa_index.cu:1-3), `Wrong` in `RowState`;
* an accept that fails with any error but EINTR and a lack of descriptors ends its worker for good
  (http_server.cpp:237-241);
* a queue of capacity 0 admits nothing (scheduler.cpp:22); scheduler.h says it admits when idle;
* chunks of 2..QF_SPEC_MAXT tokens go through a body without indexer pools (qf.cu:4764, 2469-2473),
  which the single-row tail then selects from;
* QF_M8_FORK=1 with QF_M8_FORK_LOOP is accepted (main.cu:379): the render of one row runs in the
  single-row buffers (qf.cu:5118), then qf_fork_commit_rows (qf.cu:5053) copies the M-row buffers, which
  are from before the render, over them, and the next field decodes from a stale state;
* the context cap bounds max_new only, not the steps of a field or of a refill (main.cu:362-394,
  578-592);
* with fewer slots than selected experts one dispatch evicts what it has just mapped
  (qf_router_wave64.hip:211); the number comes from free memory (qf_hip4_stage.hip:868) and is not
  compared with it;
* every orderly shutdown of the Spark server joins each connection worker twice (http_server.cpp, stop
  and run);
* on_signal of the HIP server (qf_hip4_server.cpp:77-81) closes the listening descriptor, which does not
  wake threads in accept: main waits in its joins for another connection;
* `g_wbuf` of the MoE client is said to hold up to 16 rows (qf_moe_client.cpp:62), chunks of the bf16
  wire have up to 256;
* QF_AMD_CHUNK and QF_PRIME_T can ask for more ahead than the ring of 64 or the sockets hold: the
  driver then waits for itself (`RingAssumption`);
* the signature's window is [P-4, P) (qf.cu:5062), its comment says [P-4, P+4).

## Plan

Done: `RegionPipeline`, `Scheduler`, `ServerShutdown`, `ChunkRing`, `HipPipeline`, `ExpertCache` and
`RowState` with proofs. Left, in order:

1. Two regions in flight (`run_region2` and the ring of eight pending regions in the client), which
   nothing in the documented deployment calls.
2. Speculative decode: accept and roll back over the row states of `RowState`.

## Not modelled

* MoE service and the other single-card servers (`qf_moe_serve.cpp`, `qf_m8_server.cpp`,
  `qf_moe_4card.cpp`): one request at a time in one thread; no interleaving, and what they compute is
  data.
* Speculative decode and the decode graphs: one thread copying whole row states; whether a captured
  graph baked in a stale pointer is a question about the addresses of every kernel.
* PLE lookup, planner, model store, reader: tables and placements computed once.
* Tokenizer, JSON, sampler, HTTP parsing: characters and floats. Only the text held back at a split
  UTF-8 character is modelled.
* GPU kernels and the stochastic experiments: floating-point arithmetic, out of TLC's reach.
* Scripts, records and the copies under `ru/`, `zh/` and `src/`: the same programs again, word for word
  or with translated comments. Together with the kernels they are the larger part of the repository's
  lines, so the mapped share of the whole tree is small; of the threads, locks, rings and protocols of
  `ocho/` little is left out.

`PROJECT.json` "components" names each with its reason.
