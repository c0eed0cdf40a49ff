------------------------ MODULE ServerShutdown_proofs ------------------------
(***************************************************************************)
(* Proofs about ServerShutdown, for any number of connection workers.      *)
(***************************************************************************)
EXTENDS ServerShutdown, FiniteSetTheorems, TLAPS

-----------------------------------------------------------------------------
(* The inductive invariant. *)

MPc    == {"socket", "listen", "spawn", "join", "ran", "stopping", "free", "exited", "aborted"}
WPc    == {"poll", "close", "join", "done"}
Status == {"none", "loop", "accept", "serve", "wait", "ended"}

Types ==
  /\ mpc \in MPc /\ wpc \in WPc
  /\ at \in [Joiner -> Nat \ {0}]
  /\ worker \in [Worker -> Status]
  /\ id \in [Worker -> BOOLEAN]

\* The workers are created in order, by main in the loop of run, and main joins them
\* only when all of them are there.
Creation ==
  /\ \E k \in 0 .. NWORKERS : Created = 1 .. k
  /\ mpc \in {"socket", "listen"} => Created = {}
  /\ mpc = "join" => Created = Worker

\* A join that has been passed is of a worker that has ended: it was waited for, or the
\* other thread had waited for it.
Joined ==
  /\ \A w \in Worker : worker[w] # "none" /\ ~id[w] => worker[w] = "ended"
  /\ \A j \in Joiner, w \in Worker : w < at[j] => worker[w] = "ended"

\* Where main is tells who has gone.
Gone ==
  /\ mpc \in {"ran", "stopping", "free", "exited"} =>
       \A w \in Worker : worker[w] \in {"none", "ended"}
  /\ mpc \in {"stopping", "free", "exited"} => wpc = "done"
  /\ mpc \in {"free", "exited"} => engine = "ended"

ShutInv == Types /\ Creation /\ Joined /\ Gone

-----------------------------------------------------------------------------

LEMMA WorkerFacts ==
  /\ NWORKERS \in Nat /\ NWORKERS > 0
  /\ Worker = 1 .. NWORKERS
BY ShutdownAssumption DEF ShutdownAssumption, Worker

LEMMA ShutInit == Init => ShutInv
<1>1. SUFFICES ASSUME Init PROVE ShutInv
  OBVIOUS
<1>2. Created = {} /\ {} = 1 .. 0 /\ 0 \in 0 .. NWORKERS
  BY <1>1, WorkerFacts DEF Init, Created
<1>3. Types
  BY <1>1 DEF Init, Types, MPc, WPc, Status
<1>4. Creation
  BY <1>1, <1>2 DEF Init, Creation
<1>5. Joined
  BY <1>1, WorkerFacts DEF Init, Joined
<1>6. Gone
  BY <1>1 DEF Init, Gone
<1>7. QED
  BY <1>3, <1>4, <1>5, <1>6 DEF ShutInv

\* What creates no worker and takes no join or step of main past anything.
LEMMA WorkerMoves ==
  ASSUME ShutInv, NEW w \in Worker, NEW s \in Status \ {"none"},
         worker[w] \notin {"none", "ended"},
         worker' = [worker EXCEPT ![w] = s],
         UNCHANGED <<procVars, id, engine>>
  PROVE  ShutInv'
<1>1. Types'
  BY DEF ShutInv, Types, procVars
<1>2. Created' = Created
  BY DEF ShutInv, Types, Created
<1>3. Creation'
  BY <1>2 DEF ShutInv, Creation, procVars
<1>4. Joined'
  BY DEF ShutInv, Types, Joined, procVars
<1>5. Gone'
  BY DEF ShutInv, Types, Gone, procVars
<1>6. QED
  BY <1>1, <1>3, <1>4, <1>5 DEF ShutInv

LEMMA SpawnStep ==
  ASSUME ShutInv, Spawn
  PROVE  ShutInv'
<1>1. PICK k \in 0 .. NWORKERS : Created = 1 .. k
  BY DEF ShutInv, Creation
<1>2. Cardinality(Created) = k
  BY <1>1, FS_Interval, WorkerFacts
<1>3. k # NWORKERS /\ k + 1 \in Worker /\ k + 1 \in 0 .. NWORKERS
  BY <1>1, WorkerFacts DEF Spawn
<1>4. /\ worker' = [worker EXCEPT ![k + 1] = "loop"] /\ id' = [id EXCEPT ![k + 1] = TRUE]
      /\ mpc = "spawn" /\ UNCHANGED <<mpc, wpc, at>>
  BY <1>2 DEF Spawn, procVars
<1>5. worker[k + 1] = "none"
  BY <1>1, <1>3, WorkerFacts DEF Created
<1>6. Types'
  BY <1>3, <1>4 DEF ShutInv, Types, Status
<1>7. Created' = 1 .. k + 1
  <2>1. Created' = Created \cup {k + 1}
    BY <1>3, <1>4 DEF Created, ShutInv, Types
  <2>2. QED
    BY <2>1, <1>1
<1>8. Creation'
  BY <1>3, <1>4, <1>7 DEF Creation
<1>9. Joined'
  BY <1>3, <1>4, <1>5 DEF ShutInv, Types, Joined
<1>10. Gone'
  BY <1>4 DEF Gone
<1>11. QED
  BY <1>6, <1>8, <1>9, <1>10 DEF ShutInv

\* A join, of any of the two threads, passes only a worker that has ended.
LEMMA JoinStep ==
  ASSUME ShutInv, NEW j \in Joiner,
         JoinSkips(j) \/ JoinBegins(j) \/ JoinEnds(j) \/ JoinOver(j)
  PROVE  ShutInv'
<1>1. Created' = Created
  BY DEF JoinSkips, JoinBegins, JoinEnds, JoinOver, httpVars, Created
<1>2. CASE JoinSkips(j)
  <2>1. /\ at' = [at EXCEPT ![j] = @ + 1] /\ worker[at[j]] = "ended" /\ at[j] \in Worker
        /\ UNCHANGED <<mpc, wpc, worker, id, engine>>
    BY <1>2 DEF JoinSkips, ShutInv, Joined, Created, httpVars, engVars
  <2>2. Types' /\ Gone'
    BY <2>1 DEF ShutInv, Types, Gone
  <2>3. Creation'
    BY <1>1, <2>1 DEF ShutInv, Creation
  <2>4. Joined'
    BY <2>1, WorkerFacts DEF ShutInv, Types, Joined
  <2>5. QED
    BY <2>2, <2>3, <2>4 DEF ShutInv
<1>3. CASE JoinBegins(j)
  <2>1. /\ UNCHANGED <<wpc, at, worker, id, engine>>
        /\ mpc' = mpc \/ mpc' = "aborted"
    BY <1>3 DEF JoinBegins, engVars
  <2>2. Types' /\ Gone'
    BY <2>1 DEF ShutInv, Types, Gone, MPc
  <2>3. Creation'
    BY <1>1, <2>1 DEF ShutInv, Creation
  <2>4. Joined'
    BY <2>1 DEF ShutInv, Joined
  <2>5. QED
    BY <2>2, <2>3, <2>4 DEF ShutInv
<1>4. CASE JoinEnds(j)
  <2>1. /\ at' = [at EXCEPT ![j] = @ + 1] /\ worker[at[j]] = "ended" /\ at[j] \in Worker
        /\ id' = [id EXCEPT ![at[j]] = FALSE]
        /\ UNCHANGED <<mpc, wpc, worker, engine>>
    BY <1>4 DEF JoinEnds, Created, engVars
  <2>2. Types' /\ Gone'
    BY <2>1 DEF ShutInv, Types, Gone
  <2>3. Creation'
    BY <1>1, <2>1 DEF ShutInv, Creation
  <2>4. Joined'
    BY <2>1, WorkerFacts DEF ShutInv, Types, Joined
  <2>5. QED
    BY <2>2, <2>3, <2>4 DEF ShutInv
<1>5. CASE JoinOver(j)
  <2>1. /\ UNCHANGED <<at, worker, id, engine>>
        /\ at[j] \notin Created
        /\ \/ j = "main" /\ mpc = "join" /\ mpc' = "ran" /\ wpc' = wpc
           \/ j = "watch" /\ wpc = "join" /\ wpc' = "done" /\ mpc' = mpc
    BY <1>5 DEF JoinOver, Joins, Goes, httpVars, engVars, Joiner
  <2>2. Types'
    BY <2>1 DEF ShutInv, Types, MPc, WPc
  <2>3. Creation'
    BY <1>1, <2>1 DEF ShutInv, Creation
  <2>4. Joined'
    BY <2>1 DEF ShutInv, Joined
  <2>5. Gone'
    <3>1. CASE j = "watch"
      BY <2>1, <3>1 DEF ShutInv, Gone
    <3>2. CASE j = "main"
      <4>1. at["main"] \in Nat \ {0} /\ at["main"] \notin 1 .. NWORKERS
        BY <2>1, <3>2, WorkerFacts DEF ShutInv, Types, Creation, Joiner
      <4>2. \A w \in Worker : worker[w] = "ended"
        BY <4>1, WorkerFacts DEF ShutInv, Joined, Joiner
      <4>3. QED
        BY <2>1, <3>2, <4>2 DEF Gone
    <3>3. QED
      BY <3>1, <3>2 DEF Joiner
  <2>6. QED
    BY <2>2, <2>3, <2>4, <2>5 DEF ShutInv
<1>6. QED
  BY <1>2, <1>3, <1>4, <1>5

\* The other steps of main and of the watching thread, the signal and the decode worker
\* leave the workers alone.
LEMMA OtherStep ==
  ASSUME ShutInv, UNCHANGED <<worker, id>>,
         \/ Socket \/ Listen \/ Spawned \/ JoinWatch \/ AppStopped \/ Free
         \/ Poll \/ Close \/ Decode \/ Decoded \/ SpawnRace \/ Signal
  PROVE  ShutInv'
<1>1. Created' = Created
  BY DEF Created
<1>2. at' = at
  BY DEF Socket, Listen, Spawned, JoinWatch, AppStopped, Free, Poll, Close, Decode, Decoded,
         SpawnRace, Signal, procVars
<1>3. Types'
  BY <1>2 DEF ShutInv, Types, MPc, WPc, Socket, Listen, Spawned, AfterSpawn, JoinWatch,
       AppStopped, Free, Poll, Close, Decode, Decoded, SpawnRace, Signal, procVars
<1>4. Joined'
  BY <1>2 DEF ShutInv, Joined
<1>5. Creation'
  BY <1>1 DEF ShutInv, Creation, Socket, Listen, Spawned, AfterSpawn, JoinWatch,
       AppStopped, Free, Poll, Close, Decode, Decoded, SpawnRace, Signal, procVars
<1>6. Gone'
  <2>1. CASE Listen
    <3>1. \A w \in Worker : worker[w] = "none"
      BY <2>1 DEF ShutInv, Creation, Listen, Created
    <3>2. QED
      BY <2>1, <3>1 DEF ShutInv, Gone, Listen, engVars
  <2>2. CASE JoinWatch \/ AppStopped \/ Free
    BY <2>2 DEF ShutInv, Gone, JoinWatch, AppStopped, Free, engVars
  <2>3. CASE Socket \/ Spawned \/ SpawnRace \/ Poll \/ Close \/ Signal
    BY <2>3 DEF ShutInv, Gone, Socket, Spawned, AfterSpawn, SpawnRace, Poll, Close, Signal, engVars
  <2>4. CASE Decode \/ Decoded
    BY <2>4 DEF ShutInv, Gone, Decode, Decoded, Over, procVars
  <2>5. QED
    BY <2>1, <2>2, <2>3, <2>4
<1>7. QED
  BY <1>3, <1>4, <1>5, <1>6 DEF ShutInv

LEMMA ShutStep == ShutInv /\ [Next]_vars => ShutInv'
<1>1. SUFFICES ASSUME ShutInv, [Next]_vars PROVE ShutInv'
  OBVIOUS
<1>2. CASE Spawn
  BY <1>1, <1>2, SpawnStep
<1>3. CASE \E j \in Joiner : JoinSkips(j) \/ JoinBegins(j) \/ JoinEnds(j) \/ JoinOver(j)
  BY <1>1, <1>3, JoinStep
<1>4. CASE Socket \/ Listen \/ Spawned \/ JoinWatch \/ AppStopped \/ Free \/ Poll \/ Close
           \/ Decode \/ Decoded \/ SpawnRace \/ Signal
  <2>1. UNCHANGED <<worker, id>>
    BY <1>4 DEF Socket, Listen, Spawned, JoinWatch, AppStopped, Free, Poll, Close, Decode,
         Decoded, SpawnRace, Signal, httpVars
  <2>2. QED
    BY <1>1, <1>4, <2>1, OtherStep
<1>5. ASSUME NEW w \in Worker,
             WorkerStep(w) \/ Accept(w) \/ AcceptFails(w) \/ Submit(w)
      PROVE  ShutInv'
  <2>1. /\ UNCHANGED <<procVars, id, engine>> /\ worker[w] \notin {"none", "ended"}
        /\ \E s \in Status \ {"none"} : worker' = [worker EXCEPT ![w] = s]
    BY <1>5 DEF WorkerStep, Loop, Accept, Woken, AcceptFails, Submit, Return,
         engVars, Status
  <2>2. QED
    BY <1>1, <2>1, WorkerMoves
<1>6. CASE UNCHANGED vars
  <2>1. UNCHANGED <<mpc, wpc, at, worker, id, engine>> /\ Created' = Created
    BY <1>6 DEF vars, procVars, httpVars, engVars, Created
  <2>2. QED
    BY <1>1, <2>1 DEF ShutInv, Types, Creation, Joined, Gone
<1>7. QED
  BY <1>1, <1>2, <1>3, <1>4, <1>5, <1>6
    DEF Next, MainStep, WatchStep, EngineStep, Joiner

-----------------------------------------------------------------------------

\* However many workers there are, whenever the signal comes and whatever fails while the
\* server is set up: when main frees the model, the watching thread, every connection
\* worker and the decode worker have ended (the end of main in qf_server.cpp; run, stop
\* and worker_loop of http_server.cpp).
THEOREM ModelFreedLastHolds == Spec => []ModelFreedLast
<1>1. ShutInv => ModelFreedLast
  BY DEF ShutInv, Gone, ModelFreedLast
<1>2. QED
  BY <1>1, ShutInit, ShutStep, PTL DEF Spec
=============================================================================
