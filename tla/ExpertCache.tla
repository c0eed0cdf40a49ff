---------------------------- MODULE ExpertCache ----------------------------
(***************************************************************************)
(* The expert slots of one card (ocho/amd_server/qf_expert_slots.cpp, the  *)
(* dispatch kernel in qf_router_wave64.hip and the MoE part of             *)
(* stage_run_impl in qf_hip4_stage.hip).                                   *)
(*                                                                         *)
(* A layer has fewer slots than experts.  For every token the dispatch     *)
(* kernel maps the selected experts to slots, evicting the coldest, and    *)
(* lists the misses in a mailbox of pinned memory; the host waits for the  *)
(* mailbox, gathers each missing expert into one of two staging buffers    *)
(* that all layers of the card share, and has the transfer stream copy it  *)
(* to its slot.  The compute stream waits for the copies and then runs the *)
(* experts out of the slots.  With a slot for every expert all of them are *)
(* uploaded at start and the mapping is the identity.                      *)
(*                                                                         *)
(* The contents of a buffer or slot are named by the expert they are of.   *)
(***************************************************************************)
EXTENDS Integers, Sequences, FiniteSets

CONSTANTS NL,           \* layers of the card
          NEXP,         \* experts of a layer
          TOPK,         \* experts selected for a token
          SlotChoices,  \* numbers of slots a layer may be given
          MaxTok,       \* tokens run (bound)
          MayFail       \* an upload may fail

ASSUME CacheAssumption ==
  /\ NL \in Nat \ {0} /\ NEXP \in Nat \ {0}
  /\ TOPK \in 1 .. NEXP
  /\ SlotChoices \subseteq 1 .. NEXP
  /\ MaxTok \in Nat /\ MayFail \in BOOLEAN

Layer    == 1 .. NL
Expert   == 0 .. NEXP - 1
Buffer   == {0, 1}
None     == -1
Nothing  == <<0, None>>   \* a buffer or slot that was never filled

\* The experts of a token, by weight: no two are the same.
Selections == {s \in [1 .. TOPK -> Expert] : \A i, j \in 1 .. TOPK : s[i] = s[j] => i = j}

VARIABLES
  slots,                            \* c->slots
  slot_for_expert, expert_in_slot,  \* per layer, on the card
  age, clock, route_slot,
  mb,                               \* per layer: the mailbox
  sel, at,                          \* sel_ids of the layer that is run; how many of
                                    \* them the dispatch kernel is through with
  compute,                          \* the compute stream, first operation first
  content,                          \* per layer: what its slots hold
  copies, done,                     \* the transfer stream; number of copies made
  buf, cur,                         \* staging buffers; xf->cur
  hpc, layer, miss,                 \* the host: step, layer, next miss to serve
  expected_seq, ntok

mapVars  == <<slot_for_expert, expert_in_slot, age, clock, route_slot>>
devVars  == <<mapVars, sel, at>>
copyVars == <<content, copies, done>>
bufVars  == <<buf, cur>>
hostVars == <<hpc, layer, miss, expected_seq, ntok>>
vars == <<slots, devVars, mb, compute, copyVars, bufVars, hostVars>>

Slot     == 0 .. slots - 1
Resident == slots = NEXP          \* fully_resident, once the prefill is through

\* qf4_expcache_init of every layer; the stage then prefills those with a slot for
\* every expert.
Init ==
  /\ slots \in SlotChoices
  /\ slot_for_expert = [l \in Layer |-> [e \in Expert |-> None]]
  /\ expert_in_slot = [l \in Layer |-> [s \in Slot |-> None]]
  /\ age = [l \in Layer |-> [s \in Slot |-> 0]]
  /\ clock = [l \in Layer |-> 0]
  /\ route_slot = [l \in Layer |-> [k \in 1 .. TOPK |-> None]]
  /\ mb = [l \in Layer |-> [seq |-> 0, miss_n |-> 0, misses |-> <<>>]]
  /\ expected_seq = [l \in Layer |-> 0]
  /\ content = [l \in Layer |-> [s \in Slot |-> Nothing]]
  /\ sel = [k \in 1 .. TOPK |-> k - 1] /\ at = 0
  /\ compute = <<>> /\ copies = <<>> /\ done = 0
  /\ buf = [b \in Buffer |-> Nothing] /\ cur = 0
  /\ hpc = (IF Resident THEN "prefill" ELSE "token")
  /\ layer = 1 /\ miss = 1 /\ ntok = 0

-----------------------------------------------------------------------------
(* The host: the thread of the card.  An operation of the compute stream is *)
(* [op, layer, n]; n is the stamp of a dispatch, the copy a wait is for.    *)

\* The event of a buffer is over when the last copy out of it is.
BufferFree(b) == \A i \in DOMAIN copies : copies[i].buf # b

\* xfer_expert: gathers the expert into the buffer, starts the copy, and makes the
\* compute stream wait for it.
Xfer(l, e, s) ==
  /\ BufferFree(cur)
  /\ cur' = 1 - cur
  /\ buf' = [buf EXCEPT ![cur] = <<l, e>>]
  /\ copies' = Append(copies, [buf |-> cur, layer |-> l, slot |-> s])
  /\ compute' = Append(compute, [op |-> "wait", layer |-> l, n |-> done + Len(copies) + 1])
  /\ UNCHANGED <<content, done>>

\* qf4_expcache_prefill: expert e goes to slot e, and the maps follow.
Prefill ==
  /\ hpc = "prefill" /\ miss <= NEXP
  /\ Xfer(layer, miss - 1, miss - 1)
  /\ slot_for_expert' = [slot_for_expert EXCEPT ![layer][miss - 1] = miss - 1]
  /\ expert_in_slot' = [expert_in_slot EXCEPT ![layer][miss - 1] = miss - 1]
  /\ miss' = miss + 1
  /\ UNCHANGED <<slots, age, clock, route_slot, sel, at, mb, hpc, layer, expected_seq, ntok>>
Prefilled ==
  /\ hpc = "prefill" /\ miss > NEXP
  /\ layer' = (IF layer < NL THEN layer + 1 ELSE 1)
  /\ hpc' = (IF layer < NL THEN "prefill" ELSE "sync")
  /\ miss' = 1
  /\ UNCHANGED <<slots, devVars, mb, compute, copyVars, bufVars, expected_seq, ntok>>

\* stage_run_impl for a layer: the router, and the dispatch unless all is resident.
Launch ==
  LET seq == expected_seq[layer] + 1 IN
  /\ hpc = "token" /\ (layer = 1 => ntok < MaxTok)
  /\ ntok' = (IF layer = 1 THEN ntok + 1 ELSE ntok)
  /\ expected_seq' = [expected_seq EXCEPT ![layer] = seq]
  /\ compute' = compute
       \o <<[op |-> "route", layer |-> layer, n |-> 0]>>
       \o (IF Resident THEN <<>> ELSE <<[op |-> "dispatch", layer |-> layer, n |-> seq]>>)
  /\ hpc' = (IF Resident THEN "moe" ELSE "spin")
  /\ UNCHANGED <<slots, devVars, mb, copyVars, bufVars, layer, miss>>

\* qf4_expcache_service: it spins on the stamp, then uploads every expert listed.  The
\* spin has no end here; in the code it ends the engine after 2^34 turns (431).
Stamped ==
  /\ hpc = "spin" /\ mb[layer].seq = expected_seq[layer]
  /\ hpc' = "serve" /\ miss' = 1
  /\ UNCHANGED <<slots, devVars, mb, compute, copyVars, bufVars, layer, expected_seq, ntok>>
Serve ==
  /\ hpc = "serve" /\ miss <= mb[layer].miss_n
  /\ LET m == mb[layer].misses[miss] IN Xfer(layer, m.expert, m.slot)
  /\ miss' = miss + 1
  /\ UNCHANGED <<slots, devVars, mb, hpc, layer, expected_seq, ntok>>
Served ==
  /\ hpc = "serve" /\ miss > mb[layer].miss_n
  /\ mb' = [mb EXCEPT ![layer].miss_n = 0]
  /\ hpc' = "moe" /\ miss' = 1
  /\ UNCHANGED <<slots, devVars, compute, copyVars, bufVars, layer, expected_seq, ntok>>

\* An entry is missing or a call fails: the card, and with it the engine, stops.
XferFails ==
  /\ MayFail
  /\ \/ hpc = "prefill" /\ miss <= NEXP
     \/ hpc = "serve" /\ miss <= mb[layer].miss_n
  /\ hpc' = "failed"
  /\ mb' = IF hpc = "serve" THEN [mb EXCEPT ![layer].miss_n = 0] ELSE mb
  /\ UNCHANGED <<slots, devVars, compute, copyVars, bufVars, layer, miss, expected_seq, ntok>>

\* The experts are launched; the host goes on to the next layer without waiting.
LaunchMoe ==
  /\ hpc = "moe"
  /\ compute' = Append(compute, [op |-> "moe", layer |-> layer, n |-> 0])
  /\ layer' = (IF layer < NL THEN layer + 1 ELSE 1)
  /\ hpc' = (IF layer < NL THEN "token" ELSE "sync")
  /\ UNCHANGED <<slots, devVars, mb, copyVars, bufVars, miss, expected_seq, ntok>>

\* hipStreamSynchronize at the end of a token, or of the prefill.
Sync ==
  /\ hpc = "sync" /\ compute = <<>>
  /\ hpc' = "token"
  /\ UNCHANGED <<slots, devVars, mb, compute, copyVars, bufVars, layer, miss, expected_seq, ntok>>

-----------------------------------------------------------------------------
(* The card: the compute stream and the transfer stream. *)

Running(op) == compute # <<>> /\ Head(compute).op = op

Route ==
  /\ Running("route")
  /\ sel' \in Selections /\ at' = 0
  /\ compute' = Tail(compute)
  /\ UNCHANGED <<slots, mapVars, mb, copyVars, bufVars, hostVars>>

\* The coldest slot, the lowest of equals.
\* Mutant: a hit does not count as a use.
BadTouch(a, s, now) == a
Touch(a, s, now) == [a EXCEPT ![s] = now]
Coldest(a) == CHOOSE s \in Slot : \A t \in Slot : a[s] < a[t] \/ (a[s] = a[t] /\ s <= t)

\* qf_rtr_dispatch for the next selected expert.
DispatchHit ==
  LET l == Head(compute).layer  e == sel[at + 1]  s == slot_for_expert[l][e] IN
  /\ Running("dispatch") /\ at < TOPK /\ s # None
  /\ age' = [age EXCEPT ![l] = Touch(@, s, clock[l] + 1)]
  /\ route_slot' = [route_slot EXCEPT ![l][at + 1] = s]
  /\ clock' = [clock EXCEPT ![l] = @ + 1]
  /\ mb' = IF at = 0 THEN [mb EXCEPT ![l].misses = <<>>] ELSE mb
  /\ at' = at + 1
  /\ UNCHANGED <<slots, slot_for_expert, expert_in_slot, sel, compute, copyVars, bufVars, hostVars>>

\* Mutant: the expert that loses its slot stays in the map.
BadUnmap(m, old) == m
Unmap(m, old) == IF old = None THEN m ELSE [m EXCEPT ![old] = None]
DispatchMiss ==
  LET l == Head(compute).layer  e == sel[at + 1]  s == Coldest(age[l]) IN
  /\ Running("dispatch") /\ at < TOPK /\ slot_for_expert[l][e] = None
  /\ slot_for_expert' =
       [slot_for_expert EXCEPT ![l] = [Unmap(@, expert_in_slot[l][s]) EXCEPT ![e] = s]]
  /\ expert_in_slot' = [expert_in_slot EXCEPT ![l][s] = e]
  /\ age' = [age EXCEPT ![l][s] = clock[l] + 1]
  /\ route_slot' = [route_slot EXCEPT ![l][at + 1] = s]
  /\ clock' = [clock EXCEPT ![l] = @ + 1]
  /\ mb' = [mb EXCEPT ![l].misses =
              Append(IF at = 0 THEN <<>> ELSE @, [expert |-> e, slot |-> s])]
  /\ at' = at + 1
  /\ UNCHANGED <<slots, sel, compute, copyVars, bufVars, hostVars>>

\* Mutant: nothing is reported when all experts are resident.
BadStampOf(l, n) == IF mb[l].misses = <<>> THEN mb[l].seq ELSE n
StampOf(l, n) == n

\* The kernel reports: the number of misses, and after a fence the stamp.
Report ==
  LET l == Head(compute).layer
      number == [mb EXCEPT ![l].miss_n = Len(mb[l].misses)]
      stamp  == [mb EXCEPT ![l].seq = StampOf(l, Head(compute).n)]
      last   == at = TOPK + 1
  IN
  /\ Running("dispatch") /\ at >= TOPK
  /\ mb' = IF last THEN stamp ELSE number
  /\ at' = IF last THEN 0 ELSE at + 1
  /\ compute' = IF last THEN Tail(compute) ELSE compute
  /\ UNCHANGED <<slots, mapVars, sel, copyVars, bufVars, hostVars>>

\* hipStreamWaitEvent is passed when that copy has been made.
PassWait ==
  /\ Running("wait") /\ done >= Head(compute).n
  /\ compute' = Tail(compute)
  /\ UNCHANGED <<slots, devVars, mb, copyVars, bufVars, hostVars>>

\* The experts of the layer, read out of their slots.
RunMoe ==
  /\ Running("moe")
  /\ compute' = Tail(compute)
  /\ UNCHANGED <<slots, devVars, mb, copyVars, bufVars, hostVars>>

\* The transfer stream.
Copy ==
  /\ copies # <<>>
  /\ LET c == Head(copies) IN content' = [content EXCEPT ![c.layer][c.slot] = buf[c.buf]]
  /\ copies' = Tail(copies)
  /\ done' = done + 1
  /\ UNCHANGED <<slots, devVars, mb, compute, bufVars, hostVars>>

-----------------------------------------------------------------------------

HostStep == \/ Prefill \/ Prefilled \/ Launch \/ Stamped \/ Serve \/ Served
            \/ LaunchMoe \/ Sync
CardStep == \/ Route \/ DispatchHit \/ DispatchMiss \/ Report
            \/ PassWait \/ RunMoe
Next == HostStep \/ CardStep \/ Copy \/ XferFails

Spec == Init /\ [][Next]_vars

\* The thread runs on and both streams of the card make progress; no call need fail.
FairSpec == Spec /\ WF_vars(HostStep) /\ WF_vars(CardStep) /\ WF_vars(Copy)

-----------------------------------------------------------------------------
(* Properties. *)

\* The slot the experts of a layer read for the k-th selected expert.
SlotSrc(l, k) == IF Resident THEN sel[k] ELSE route_slot[l][k]

\* When the experts of a layer run, each slot they read holds the expert the router
\* chose, of this layer: not one that was evicted or not yet copied, and not what a
\* staging buffer held for another layer (qf_hip4_stage.hip, the fused experts;
\* nothing checks the identity of what is in a slot).
ReadsOwnExpert ==
  Running("moe") =>
    LET l == Head(compute).layer IN
      \A k \in 1 .. TOPK : content[l][SlotSrc(l, k)] = <<l, sel[k]>>

\* A slot the map gives to an expert holds it, or will: its copy is under way, or it
\* is listed for the host (the kernel maps an expert before it is anywhere, and a
\* later token takes it for a hit without asking).
MappedIsThere ==
  hpc # "failed" =>
  \A l \in Layer : \A e \in Expert :
    LET s == slot_for_expert[l][e]
        uploading == \E i \in DOMAIN copies :
                       /\ copies[i].layer = l /\ copies[i].slot = s
                       /\ buf[copies[i].buf] = <<l, e>>
        listed == \E i \in DOMAIN mb[l].misses :
                    /\ mb[l].misses[i] = [expert |-> e, slot |-> s]
                    /\ l = layer /\ (hpc = "spin" \/ (hpc = "serve" /\ miss <= i))
    IN s # None => /\ expert_in_slot[l][s] = e
                   /\ (content[l][s] = <<l, e>> \/ uploading \/ listed)

\* The host does not wait for ever on a mailbox, a buffer or the stream: every token
\* that is begun reaches its end, unless the card has failed.
TokenEnds == (ntok > 0) ~> (hpc = "failed" \/ (hpc = "token" /\ layer = 1))
=============================================================================
