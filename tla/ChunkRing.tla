----------------------------- MODULE ChunkRing -----------------------------
(***************************************************************************)
(* The prompt pass of the Spark (qf_decode_batch_prime_region and          *)
(* qf_ingest_region in ocho/engine_spark/cuda/qf.cu) over the region       *)
(* client's ring of chunk requests (qf_region_amd.cpp) and its wire calls  *)
(* (qf_moe_client.cpp).                                                    *)
(*                                                                         *)
(* The driver thread cuts a prompt into chunks and each chunk into pieces, *)
(* asks the AMD box for the pieces up to LOOK chunks ahead of the chunk    *)
(* Spark computes, and waits for the pieces of a chunk before it computes  *)
(* it.  A receiver thread reads the replies off the socket into one of     *)
(* NBUF staging buffers in turn.  Between two prompts the driver makes     *)
(* calls of its own on the same socket and reads their replies itself.     *)
(*                                                                         *)
(* The peer answers in the order of the requests (module ChunkService), or *)
(* stops answering; sockets and peer hold a bounded number of messages.    *)
(***************************************************************************)
EXTENDS Integers, Sequences, FiniteSets

CONSTANTS RING,      \* QF_CP_RING
          LOOK,      \* chunks asked for ahead of the one Spark computes
          NBUF,      \* staging buffers
          Plans,     \* prompts: the chunk (1, 2, ...) of each piece, in order
          MaxCalls,  \* prompts run by one process (bound)
          ReqCap, PeerCap, RepCap,  \* messages to, in and from the peer
          MayFail    \* the connection may break, a chunk pass may fail

\* Pieces of the chunks up to the g-th.
Upto(plan, g) == Cardinality({i \in DOMAIN plan : plan[i] <= g})
Chunks(plan)  == IF plan = <<>> THEN 1 ELSE plan[Len(plan)]

\* The pieces of a prompt are asked for in the order of its chunks.
InOrder(plan) ==
  /\ plan \in Seq(Nat \ {0})
  /\ \A i, j \in DOMAIN plan : i < j => plan[i] <= plan[j]

\* Neither bound on what is under way is checked in the code.  With the default sizes a
\* chunk has 8 pieces, so 16 requests of about 1 KB are; QF_AMD_CHUNK and QF_PRIME_T
\* could ask for more than the ring's 64, and then the driver waits for itself.  The
\* second bound is needed because a request is sent with the mutex held.
UnderWay(p, g) == Upto(p, g + LOOK) - Upto(p, g)
ASSUME RingAssumption ==
  /\ RING \in Nat \ {0} /\ LOOK \in Nat \ {0} /\ NBUF \in Nat /\ NBUF > LOOK
  /\ MaxCalls \in Nat /\ MayFail \in BOOLEAN
  /\ {ReqCap, PeerCap, RepCap} \subseteq Nat \ {0}
  /\ \A p \in Plans :
       /\ InOrder(p)
       /\ \A g \in 0 .. Chunks(p) :
            UnderWay(p, g) <= RING /\ UnderWay(p, g) <= ReqCap + PeerCap + RepCap

Piece  == 1 .. RING  \* places of a staging buffer, in pieces
Buffer == 0 .. NBUF - 1
Empty  == <<0, 0>>   \* what a place holds before any rows arrived
Idle   == [piece |-> Empty, buf |-> 0, at |-> 1, err |-> FALSE]

VARIABLES
  mpc, call, plan,      \* driver: step, number of the prompt, its pieces
  chunk, goal,          \* chunk Spark is on; chunks asked for, or to be
  asked, had,           \* pieces submitted, pieces waited for
  g_cp, g_cp_head, g_cp_tail, g_cp_cons,  \* the ring; requests sent, read, waited for
  g_cm,                 \* who holds the mutex: "free", "driver"
  rpc, got,             \* receiver: step, the err it has to store
  staging,              \* hRc[b]: the piece whose rows each place holds
  req, peer, rep, up    \* socket to the peer, the peer, socket back; connection up

driverVars == <<mpc, call, plan, chunk, goal, asked, had>>
ringVars   == <<g_cp, g_cp_head, g_cp_tail, g_cp_cons, g_cm>>
rxVars     == <<rpc, got, staging>>
netVars    == <<req, peer, rep, up>>
vars == <<driverVars, ringVars, rxVars, netVars>>

Init ==
  /\ mpc = "call" /\ call = 0 /\ plan = <<>>
  /\ chunk = 1 /\ goal = 0 /\ asked = 0 /\ had = 0
  /\ g_cp = [j \in 0 .. RING - 1 |-> Idle]
  /\ g_cp_head = 0 /\ g_cp_tail = 0 /\ g_cp_cons = 0
  /\ g_cm = "free"
  /\ rpc = "take" /\ got = FALSE
  /\ staging = [b \in Buffer |-> [k \in Piece |-> Empty]]
  /\ req = <<>> /\ peer = <<>> /\ rep = <<>> /\ up = TRUE

Chunk(i) == [op |-> "chunk", piece |-> <<call, i>>]
Single   == [op |-> "single", piece |-> Empty]

-----------------------------------------------------------------------------
(* The driver. *)

\* qf_amd_region_reset before the first prompt, the fused steps of the decode between
\* two: a request, and its reply read by the driver.
Call ==
  /\ mpc = "call" /\ call < MaxCalls
  /\ IF up THEN Len(req) < ReqCap /\ req' = Append(req, Single) /\ mpc' = "reply"
           ELSE mpc' = "gone" /\ UNCHANGED req
  /\ UNCHANGED <<call, plan, chunk, goal, asked, had, ringVars, rxVars, peer, rep, up>>

\* The reply is read and its op compared; then the next prompt.
Reply ==
  /\ mpc = "reply" /\ (rep # <<>> \/ ~up)
  /\ rep' = IF rep = <<>> THEN rep ELSE Tail(rep)
  /\ IF rep # <<>> /\ Head(rep).op = "single"
     THEN /\ plan' \in Plans
          /\ mpc' = "submit" /\ call' = call + 1
          /\ chunk' = 1 /\ goal' = LOOK /\ asked' = 0 /\ had' = 0
     ELSE mpc' = "gone" /\ UNCHANGED <<call, plan, chunk, goal, asked, had>>
  /\ UNCHANGED <<ringVars, rxVars, req, peer, up>>

\* Mutant: one entry is kept free.
BadRingFull == g_cp_head - g_cp_cons >= RING - 1
RingFull == g_cp_head - g_cp_cons >= RING
\* Mutant: one staging buffer too few.
BadBufferOf(c) == c % LOOK
BufferOf(c) == c % NBUF

\* Where the rows of the i-th piece go: their place in the buffer of its chunk.
PlaceOf(i) == i - Upto(plan, plan[i] - 1)
EntryOf(i) == [piece |-> <<call, i>>, buf |-> BufferOf(plan[i]), at |-> PlaceOf(i),
               err |-> FALSE]

\* qf_region_amd_prefix_chunk_submit_to fills an entry; it then sends, the mutex held.
Submit ==
  /\ mpc = "submit" /\ asked < Upto(plan, goal)
  /\ g_cm = "free" /\ ~RingFull
  /\ g_cm' = "driver"
  /\ g_cp' = [g_cp EXCEPT ![g_cp_head % RING] = EntryOf(asked + 1)]
  /\ mpc' = "send"
  /\ UNCHANGED <<call, plan, chunk, goal, asked, had, g_cp_head, g_cp_tail, g_cp_cons,
                 rxVars, netVars>>
Send ==
  /\ mpc = "send" /\ g_cm' = "free"
  /\ IF up THEN /\ Len(req) < ReqCap
                /\ req' = Append(req, Chunk(asked + 1))
                /\ g_cp_head' = g_cp_head + 1 /\ asked' = asked + 1
                /\ mpc' = "submit"
           ELSE mpc' = "gone" /\ UNCHANGED <<req, g_cp_head, asked>>
  /\ UNCHANGED <<call, plan, chunk, goal, had, g_cp, g_cp_tail, g_cp_cons, rxVars,
                 peer, rep, up>>

\* The chunks to be asked for are: the first of them are waited for, later ones let
\* Spark begin.
Submitted ==
  /\ mpc = "submit" /\ asked = Upto(plan, goal)
  /\ mpc' = IF goal = LOOK THEN "wait" ELSE "spark"
  /\ UNCHANGED <<call, plan, chunk, goal, asked, had, ringVars, rxVars, netVars>>

\* Mutant: the last chunk is taken to have one piece less.
BadToWait == Upto(plan, chunk) - (IF chunk = Chunks(plan) /\ plan # <<>> THEN 1 ELSE 0)
ToWait == Upto(plan, chunk)
\* qf_region_amd_prefix_chunk_wait_done
WaitDone ==
  /\ mpc = "wait" /\ had < ToWait
  /\ g_cm = "free" /\ g_cp_tail > g_cp_cons
  /\ g_cp_cons' = g_cp_cons + 1 /\ had' = had + 1
  /\ mpc' = IF g_cp[g_cp_cons % RING].err THEN "gone" ELSE "wait"
  /\ UNCHANGED <<call, plan, chunk, goal, asked, g_cp, g_cp_head, g_cp_tail, g_cm,
                 rxVars, netVars>>
Waited ==
  /\ mpc = "wait" /\ had >= ToWait
  /\ goal' = chunk + LOOK /\ mpc' = "submit"
  /\ UNCHANGED <<call, plan, chunk, asked, had, ringVars, rxVars, netVars>>

\* The chunk pass of Spark, which reads the staging buffer of the chunk.
Computed ==
  /\ mpc = "spark"
  /\ IF chunk < Chunks(plan) THEN chunk' = chunk + 1 /\ mpc' = "wait"
                             ELSE mpc' = "call" /\ UNCHANGED chunk
  /\ UNCHANGED <<call, plan, goal, asked, had, ringVars, rxVars, netVars>>
ComputeFails ==
  /\ MayFail /\ mpc = "spark" /\ mpc' = "gone"
  /\ UNCHANGED <<call, plan, chunk, goal, asked, had, ringVars, rxVars, netVars>>

-----------------------------------------------------------------------------
(* The receiver thread, qf_rx_thread: it ends with the process. *)

RxTake ==
  /\ mpc # "gone"
  /\ rpc = "take" /\ g_cm = "free" /\ g_cp_tail # g_cp_head
  /\ rpc' = "read"
  /\ UNCHANGED <<driverVars, ringVars, got, staging, netVars>>

\* qf_amd_prefix_chunk_wait_fd, without the mutex: the rows go where the entry says.
RxRead ==
  LET cp == g_cp[g_cp_tail % RING]
      good == rep # <<>> /\ Head(rep).op = "chunk" IN
  /\ mpc # "gone"
  /\ rpc = "read" /\ (rep # <<>> \/ ~up)
  /\ rep' = IF rep = <<>> THEN rep ELSE Tail(rep)
  /\ staging' = IF good THEN [staging EXCEPT ![cp.buf][cp.at] = Head(rep).piece] ELSE staging
  /\ got' = ~good /\ rpc' = "store"
  /\ UNCHANGED <<driverVars, ringVars, req, peer, up>>

RxStore ==
  /\ mpc # "gone"
  /\ rpc = "store" /\ g_cm = "free"
  /\ g_cp' = [g_cp EXCEPT ![g_cp_tail % RING].err = got]
  /\ g_cp_tail' = g_cp_tail + 1
  /\ rpc' = "take" /\ got' = FALSE
  /\ UNCHANGED <<driverVars, g_cp_head, g_cp_cons, g_cm, staging, netVars>>

-----------------------------------------------------------------------------
(* The peer, and the connection. *)

\* A single operation has the cards to itself.
PeerTakes ==
  /\ up /\ req # <<>> /\ Len(peer) < PeerCap
  /\ Head(req).op = "single" => peer = <<>>
  /\ req' = Tail(req) /\ peer' = Append(peer, Head(req))
  /\ UNCHANGED <<driverVars, ringVars, rxVars, rep, up>>
PeerAnswers ==
  /\ up /\ peer # <<>> /\ Len(rep) < RepCap
  /\ peer' = Tail(peer) /\ rep' = Append(rep, Head(peer))
  /\ UNCHANGED <<driverVars, ringVars, rxVars, req, up>>

\* Replies that have arrived may still be read, or not.
Breaks ==
  /\ MayFail /\ up /\ mpc # "gone"
  /\ up' = FALSE /\ req' = <<>> /\ peer' = <<>> /\ rep' \in {rep, <<>>}
  /\ UNCHANGED <<driverVars, ringVars, rxVars>>

-----------------------------------------------------------------------------

Driver   == \/ Call \/ Reply \/ Submit \/ Send \/ Submitted \/ WaitDone \/ Waited
            \/ Computed
Receiver == RxTake \/ RxRead \/ RxStore
Peer     == PeerTakes \/ PeerAnswers
Next     == Driver \/ ComputeFails \/ Receiver \/ Peer \/ Breaks

Spec == Init /\ [][Next]_vars

\* Both threads run.
FairSpec == Spec /\ WF_vars(Driver) /\ WF_vars(Receiver)

-----------------------------------------------------------------------------
(* Properties. *)

\* While Spark computes a chunk every place of its staging buffer holds the rows of its
\* own piece of this prompt: none is still to arrive, none failed, none is overwritten
\* by a piece asked for ahead (qf.cu, hRc and submit_chunk; nothing in a reply but its
\* length is compared with what was asked for).
RowsInPlace ==
  mpc = "spark" =>
    \A i \in DOMAIN plan : plan[i] = chunk =>
      staging[BufferOf(chunk)][PlaceOf(i)] = <<call, i>>

\* Two threads read one socket: when the driver makes a call of its own the receiver is
\* not reading, and no chunk is asked for, in work or unread, so that neither takes the
\* reply of the other (no lock says so).
OneReader ==
  mpc \in {"call", "reply"} =>
    /\ rpc = "take" /\ g_cp_tail = g_cp_head
    /\ \A q \in {req, peer, rep} : \A i \in DOMAIN q : q[i].op = "single"

\* The peer takes the requests and answers them, as long as it has room for the
\* request or the reply and the connection is up.  The region server does, until a
\* card or a reply has failed: then it retires chunks without an answer and leaves the
\* connection open (module RegionPipeline, ReplySkip).
PeerServes == []<>~ENABLED Peer

\* With a peer that serves, a prompt that was begun is computed to its end, or the
\* process ends with an error: neither the full ring nor the send under the mutex
\* blocks both threads for good.  With one that has stopped answering the receiver
\* reads, and the driver waits for it, without a time limit.
PromptEnds == PeerServes => (mpc = "submit" ~> mpc \in {"call", "gone"})
=============================================================================
