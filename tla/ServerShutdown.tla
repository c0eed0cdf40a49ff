--------------------------- MODULE ServerShutdown ---------------------------
(***************************************************************************)
(* Start and end of the OpenAI-style server of the Spark: main of          *)
(* ocho/engine_spark/server/qf_server.cpp with run, stop and worker_loop   *)
(* of http_server.cpp.                                                     *)
(*                                                                         *)
(* main starts the decode worker and a thread that polls the flag a signal *)
(* sets and then stops the HTTP server; main itself runs the HTTP server:  *)
(* it listens, creates the connection workers and joins them.  stop()      *)
(* closes the listening socket and joins the same workers.  When both are  *)
(* through, main stops the scheduler and frees the model.                  *)
(*                                                                         *)
(* What becomes of a request in the scheduler is module Scheduler; here a  *)
(* connection has at most one.                                             *)
(***************************************************************************)
EXTENDS Integers, FiniteSets

CONSTANTS NWORKERS,     \* connection workers, opt_.threads
          MaxConn,      \* connections (bound)
          AcceptErrors  \* accept may fail with an error of its own

ASSUME ShutdownAssumption ==
  NWORKERS \in Nat \ {0} /\ MaxConn \in Nat /\ AcceptErrors \in BOOLEAN

Worker == 1 .. NWORKERS
Joiner == {"main", "watch"}
None   == 0

VARIABLES
  mpc, wpc,        \* main and the thread that watches g_stop
  at,              \* the worker each of the two is at, when it joins
  g_stop, stop_,
  listen_fd,       \* "none", "open", "closed"
  worker,          \* per worker: "none", "loop", "accept", "serve", "wait", "ended"
  id,              \* per worker: the std::thread still names it
  joining,         \* per worker: who is in pthread_join for it
  conns,           \* connections accepted
  engine, owner,   \* decode worker: "idle", "busy", "ended"; whose request it runs
  queued           \* workers whose request waits

procVars  == <<mpc, wpc, at, g_stop>>
httpVars  == <<stop_, listen_fd, worker, id, joining, conns>>
engVars   == <<engine, owner, queued>>
vars == <<procVars, httpVars, engVars>>

\* main, once the model is loaded and app.start, signal() and the thread are through.
Init ==
  /\ mpc = "socket" /\ wpc = "poll" /\ at = [j \in Joiner |-> 1]
  /\ g_stop = FALSE /\ stop_ = FALSE
  /\ listen_fd = "none"
  /\ worker = [w \in Worker |-> "none"] /\ id = [w \in Worker |-> FALSE]
  /\ joining = [w \in Worker |-> {}]
  /\ conns = 0
  /\ engine = "idle" /\ owner = None /\ queued = {}

\* The process, and with it every thread, is gone.
Over == mpc \in {"exited", "aborted"}
Created == {w \in Worker : worker[w] # "none"}

Signal == /\ ~Over /\ ~g_stop /\ g_stop' = TRUE
          /\ UNCHANGED <<mpc, wpc, at, httpVars, engVars>>

-----------------------------------------------------------------------------
(* Joining.  To join a thread that is being joined is undefined: glibc      *)
(* answers EINVAL, std::thread::join throws and nothing catches it; musl    *)
(* lets both wait.                                                          *)

\* Where j goes once it is through with the worker it is at, or it aborts.
Goes(j, pc) == IF j = "main" THEN mpc' = pc /\ UNCHANGED wpc ELSE wpc' = pc /\ UNCHANGED mpc
Joins(j) == IF j = "main" THEN mpc = "join" ELSE wpc = "join"

JoinSkips(j) ==
  /\ ~Over /\ Joins(j) /\ at[j] \in Created /\ ~id[at[j]]
  /\ j \notin joining[at[j]]
  /\ at' = [at EXCEPT ![j] = @ + 1]
  /\ UNCHANGED <<mpc, wpc, g_stop, httpVars, engVars>>
JoinBegins(j) ==
  LET w == at[j] IN
  /\ ~Over /\ Joins(j) /\ w \in Created /\ id[w] /\ j \notin joining[w]
  /\ \/ joining' = [joining EXCEPT ![w] = @ \cup {j}] /\ UNCHANGED mpc
     \/ joining[w] # {} /\ mpc' = "aborted" /\ UNCHANGED joining
  /\ UNCHANGED <<wpc, at, g_stop, stop_, listen_fd, worker, id, conns, engVars>>
JoinEnds(j) ==
  LET w == at[j] IN
  /\ ~Over /\ Joins(j) /\ w \in Created /\ j \in joining[w] /\ worker[w] = "ended"
  /\ id' = [id EXCEPT ![w] = FALSE] /\ joining' = [joining EXCEPT ![w] = @ \ {j}]
  /\ at' = [at EXCEPT ![j] = @ + 1]
  /\ UNCHANGED <<mpc, wpc, g_stop, stop_, listen_fd, worker, conns, engVars>>
\* The loop over workers_ is at its end.
JoinOver(j) ==
  /\ ~Over /\ Joins(j) /\ at[j] \notin Created
  /\ Goes(j, IF j = "main" THEN "ran" ELSE "done")
  /\ UNCHANGED <<at, g_stop, httpVars, engVars>>

-----------------------------------------------------------------------------
(* main *)

\* HttpServer::run
Socket ==
  /\ mpc = "socket" /\ mpc' = "listen" /\ listen_fd' = "open"
  /\ UNCHANGED <<wpc, at, g_stop, stop_, worker, id, joining, conns, engVars>>
\* bind and listen, which fail on a socket that was closed, or when the port is taken.
Listen ==
  /\ mpc = "listen"
  /\ \/ listen_fd = "open" /\ mpc' = "spawn"
     \/ mpc' = "ran"
  /\ UNCHANGED <<wpc, at, g_stop, httpVars, engVars>>
Spawn ==
  /\ mpc = "spawn" /\ Created # Worker
  /\ LET w == Cardinality(Created) + 1 IN
       worker' = [worker EXCEPT ![w] = "loop"] /\ id' = [id EXCEPT ![w] = TRUE]
  /\ UNCHANGED <<procVars, stop_, listen_fd, joining, conns, engVars>>
\* stop() walks the vector that is being filled: it sees what there is of it, or what
\* is left of it after it moved.
SpawnRace ==
  /\ mpc = "spawn" /\ Created # Worker /\ wpc = "join" /\ mpc' = "aborted"
  /\ UNCHANGED <<wpc, at, g_stop, httpVars, engVars>>

\* Mutant: run leaves the workers to stop().
BadAfterSpawn == "ran"
AfterSpawn == "join"
Spawned ==
  /\ mpc = "spawn" /\ Created = Worker /\ mpc' = AfterSpawn
  /\ UNCHANGED <<wpc, at, g_stop, httpVars, engVars>>

\* watch.join, app.stop with its join of the decode worker, qf_model_free.
JoinWatch ==
  /\ mpc = "ran" /\ wpc = "done" /\ mpc' = "stopping"
  /\ UNCHANGED <<wpc, at, g_stop, httpVars, engVars>>
AppStopped ==
  /\ mpc = "stopping" /\ engine = "ended" /\ mpc' = "free"
  /\ UNCHANGED <<wpc, at, g_stop, httpVars, engVars>>
Free ==
  /\ mpc = "free" /\ mpc' = "exited"
  /\ UNCHANGED <<wpc, at, g_stop, httpVars, engVars>>

-----------------------------------------------------------------------------
(* The watching thread: HttpServer::stop *)

Poll ==
  /\ ~Over /\ wpc = "poll" /\ g_stop
  /\ stop_' = TRUE /\ wpc' = "close"
  /\ UNCHANGED <<mpc, at, g_stop, listen_fd, worker, id, joining, conns, engVars>>
Close ==
  /\ ~Over /\ wpc = "close" /\ wpc' = "join"
  /\ listen_fd' = IF listen_fd = "open" THEN "closed" ELSE listen_fd
  /\ UNCHANGED <<mpc, at, g_stop, stop_, worker, id, joining, conns, engVars>>

-----------------------------------------------------------------------------
(* A connection worker *)

Loop(w) ==
  /\ ~Over /\ worker[w] = "loop"
  /\ worker' = [worker EXCEPT ![w] = IF stop_ THEN "ended" ELSE "accept"]
  /\ UNCHANGED <<procVars, stop_, listen_fd, id, joining, conns, engVars>>

\* Mutant: the socket is closed but not shut down, which wakes no thread in accept.
BadWakes == FALSE
Wakes == listen_fd # "open"
Accept(w) ==
  /\ ~Over /\ worker[w] = "accept" /\ listen_fd = "open" /\ conns < MaxConn
  /\ worker' = [worker EXCEPT ![w] = "serve"] /\ conns' = conns + 1
  /\ UNCHANGED <<procVars, stop_, listen_fd, id, joining, engVars>>
Woken(w) ==
  /\ ~Over /\ worker[w] = "accept" /\ Wakes
  /\ worker' = [worker EXCEPT ![w] = "ended"]
  /\ UNCHANGED <<procVars, stop_, listen_fd, id, joining, conns, engVars>>
\* Any error but EINTR and being out of descriptors ends the worker.
AcceptFails(w) ==
  /\ ~Over /\ AcceptErrors /\ worker[w] = "accept"
  /\ worker' = [worker EXCEPT ![w] = "ended"]
  /\ UNCHANGED <<procVars, stop_, listen_fd, id, joining, conns, engVars>>

\* handle_conn: most requests go to the scheduler, and the worker waits for the answer.
\* It waits on when its client has left: it sets `cancel' and the request comes to its
\* end in the scheduler all the same (qf_server.cpp:363-371).
Submit(w) ==
  /\ ~Over /\ worker[w] = "serve"
  /\ worker' = [worker EXCEPT ![w] = "wait"] /\ queued' = queued \cup {w}
  /\ UNCHANGED <<procVars, stop_, listen_fd, id, joining, conns, engine, owner>>
Return(w) ==
  /\ ~Over
  /\ \/ worker[w] = "serve"
     \/ worker[w] = "wait" /\ w \notin queued /\ owner # w
  /\ worker' = [worker EXCEPT ![w] = "loop"]
  /\ UNCHANGED <<procVars, stop_, listen_fd, id, joining, conns, engVars>>

-----------------------------------------------------------------------------
(* The decode worker *)

Decode ==
  /\ ~Over /\ engine = "idle"
  /\ \/ \E w \in queued : engine' = "busy" /\ owner' = w /\ queued' = queued \ {w}
     \/ mpc = "stopping" /\ engine' = "ended" /\ UNCHANGED <<owner, queued>>
  /\ UNCHANGED <<procVars, httpVars>>
Decoded ==
  /\ ~Over /\ engine = "busy" /\ engine' = "idle" /\ owner' = None
  /\ UNCHANGED <<procVars, httpVars, queued>>

-----------------------------------------------------------------------------

MainStep  == \/ Socket \/ Listen \/ Spawn \/ Spawned \/ JoinWatch \/ AppStopped \/ Free
             \/ JoinSkips("main") \/ JoinBegins("main") \/ JoinEnds("main") \/ JoinOver("main")
WatchStep == \/ Poll \/ Close
             \/ JoinSkips("watch") \/ JoinBegins("watch") \/ JoinEnds("watch") \/ JoinOver("watch")
WorkerStep(w) == Loop(w) \/ Woken(w) \/ Return(w)
EngineStep == Decode \/ Decoded
Next == \/ MainStep \/ WatchStep \/ EngineStep \/ SpawnRace \/ Signal
        \/ \E w \in Worker :
             WorkerStep(w) \/ Accept(w) \/ AcceptFails(w) \/ Submit(w)

Spec == Init /\ [][Next]_vars

\* Every thread runs and every request that is decoded ends; nobody need connect, and
\* no client need leave.  A worker that reads a request or writes a response comes to
\* its end: reading has a deadline, and a client is taken to read what it is sent.
FairSpec ==
  /\ Spec
  /\ WF_vars(MainStep) /\ WF_vars(WatchStep) /\ WF_vars(EngineStep)
  /\ \A w \in Worker : WF_vars(WorkerStep(w))

-----------------------------------------------------------------------------
(* Properties. *)

\* The model is freed when no connection worker and no decode worker can use it or the
\* scheduler any more, also when the signal comes while the server is being set up
\* (qf_server.cpp, the end of main).
ModelFreedLast ==
  mpc \in {"free", "exited"} =>
    /\ engine = "ended" /\ wpc = "done"
    /\ \A w \in Worker : worker[w] \in {"none", "ended"}

\* After a signal the process ends, if not by the abort of a second join: nobody waits
\* for ever in accept, in a join, or for a request.
SignalEnds == g_stop ~> Over
=============================================================================
