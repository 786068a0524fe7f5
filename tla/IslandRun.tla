----------------------------- MODULE IslandRun -----------------------------
(***************************************************************************)
(* One optimization run: the coordinator runOptimization (runner.js) on    *)
(* the main thread and the worker threads (island-worker.js) that host the *)
(* islands round-robin.  They share nothing but messages, in one FIFO      *)
(* channel each way per worker.                                            *)
(*                                                                         *)
(* A coordinator step is one event (a message, a tick of a poller) with    *)
(* all that runs after it until the next pending `await`; a worker step is *)
(* one message, or the evolve loop from one setImmediate to the next.      *)
(* Populations are left out: what is kept of a generation is its number,   *)
(* of migrants that they arrive, of a hypermutation its rates and timing.  *)
(***************************************************************************)
EXTENDS Integers, Sequences, FiniteSets, SequencesExt

CONSTANTS
    NumPlanets, NumIslands,     \* planets, and islands on each
    WorkerCount,                \* threads
    Generations, MigrationInterval, SpaceTravelInterval,
    Topology,                   \* "ring", "torus" or "random"
    SpecMode,                   \* a spec, rather than the legacy strategy
    AutoHyper,                  \* autoHyperEnabled
    HyperDuration, HyperCooldown,
    Faulty,                     \* workers whose module may fail to load
    MaxHyper                    \* bound on the hypermutations asked for

TotalWorkers == NumPlanets * NumIslands
Islands == 0..TotalWorkers - 1
Workers == 0..WorkerCount - 1

ASSUME ShapeAssumption == /\ NumPlanets \in Nat \ {0}
                          /\ NumIslands \in Nat \ {0}
                          /\ WorkerCount \in 1..TotalWorkers
                          /\ Topology \in {"ring", "torus", "random"}
ASSUME PaceAssumption == /\ Generations \in Nat \ {0}
                         /\ MigrationInterval \in Nat \ {0}
                         /\ TotalWorkers = 1 => MigrationInterval = Generations
                         /\ SpaceTravelInterval \in Nat \ {0}
ASSUME HyperAssumption == /\ AutoHyper \in BOOLEAN
                          /\ HyperDuration \in Nat \ {0}
                          /\ HyperCooldown \in Nat
                          /\ MaxHyper \in Nat
ASSUME LoadAssumption == Faulty \subseteq Workers /\ SpecMode \in BOOLEAN

VARIABLES
    phase,              \* what the coordinator awaits
    startGen,           \* first generation of the current batch
    awaited,            \* islands whose promise of this phase is pending
    deltas,             \* workers whose cache_delta is pending
    islandGen,          \* per island: the generation last reported
    generationLog,      \* the generations logged, in order
    totalMigrations, totalSpaceTravels,
    cancelSent, wfReport,
    cancelRequested, hyperRequested,    \* the flags of api/routes.js
    hyperQuota,         \* bound: hypermutations still to be asked for
    inbox, outbox,      \* per worker: the channels to it and from it
    thread,             \* per worker: "loading", "up" or "gone"
    cancelled,          \* per worker: its flag
    job,                \* per worker: where its evolve loop is
    evolved,            \* per island: the last generation it ran
    hyper,              \* per island: its hypermutation state
    lastBoosted         \* history, per island: last generation run boosted

counters == <<totalMigrations, totalSpaceTravels>>
reports == <<islandGen, generationLog>>
requests == <<cancelRequested, hyperRequested, hyperQuota>>
coordinator == <<phase, startGen, awaited, deltas, reports, counters, cancelSent, wfReport>>
workers == <<thread, cancelled, job, evolved, hyper, lastBoosted>>
vars == <<coordinator, requests, inbox, outbox, workers>>

None == -1
WorkerOf(i) == i % WorkerCount          \* islandToWorker
EndGen(g) == IF g + MigrationInterval - 1 < Generations
             THEN g + MigrationInterval - 1 ELSE Generations

Message(type, i, g) == [type |-> type, island |-> i, gen |-> g]
Signal(type) == Message(type, None, 0)

NoJob == [island |-> None, gen |-> 0, startGen |-> 0]
\* More generations than the cooldown before the first one: -Infinity.
NeverEnded == -(HyperCooldown + 1)
Calm == [active |-> 0, source |-> "none", lastEnd |-> NeverEnded,
         mutationRate |-> "base", perGeneMut |-> "base"]

TypeOK ==
    /\ phase \in {"spawn", "evolve", "migrate", "travel", "collect", "save",
                  "terminate", "walkForward", "returned", "failed", "spinning"}
    /\ startGen \in 1..Generations
    /\ awaited \subseteq Islands
    /\ deltas \subseteq Workers
    /\ islandGen \in [Islands -> 0..Generations]
    /\ generationLog \in Seq(1..Generations)
    /\ totalMigrations \in Nat /\ totalSpaceTravels \in Nat
    /\ cancelSent \in BOOLEAN /\ wfReport \in BOOLEAN
    /\ cancelRequested \in BOOLEAN /\ hyperRequested \in BOOLEAN
    /\ hyperQuota \in 0..MaxHyper
    /\ inbox \in [Workers -> Seq([ type : {"evolve", "migrate", "get_results",
                                            "hypermutate", "cancel"},
                                   island : Islands \cup {None},
                                   gen : 0..Generations ])]
    /\ outbox \in [Workers -> Seq([ type : {"ready", "gen_progress", "batch_done",
                                            "migrate_done", "results", "cache_delta"},
                                    island : Islands \cup {None},
                                    gen : 0..Generations ])]
    /\ thread \in [Workers -> {"loading", "up", "gone"}]
    /\ cancelled \in [Workers -> BOOLEAN]
    /\ job \in [Workers -> [ island : Islands \cup {None},
                             gen : 0..Generations + 1,
                             startGen : 0..Generations ]]
    /\ evolved \in [Islands -> 0..Generations]
    /\ hyper \in [Islands -> [ active : 0..HyperDuration,
                               source : {"none", "auto", "manual"},
                               lastEnd : {NeverEnded} \cup 0..Generations,
                               mutationRate : {"base", "boosted"},
                               perGeneMut : {"base", "boosted"} ]]
    /\ lastBoosted \in [Islands -> {NeverEnded} \cup 0..Generations]

Init ==
    /\ phase = "spawn"
    /\ startGen = 1
    /\ awaited = {} /\ deltas = {}
    /\ islandGen = [i \in Islands |-> 0]
    /\ generationLog = <<>>
    /\ totalMigrations = 0 /\ totalSpaceTravels = 0
    /\ cancelSent = FALSE /\ wfReport = FALSE
    /\ cancelRequested = FALSE /\ hyperRequested = FALSE
    /\ hyperQuota = MaxHyper
    /\ inbox = [w \in Workers |-> <<>>]
    /\ outbox = [w \in Workers |-> <<>>]
    /\ thread = [w \in Workers |-> "loading"]
    /\ cancelled = [w \in Workers |-> FALSE]
    /\ job = [w \in Workers |-> NoJob]
    /\ evolved = [i \in Islands |-> 0]
    /\ hyper = [i \in Islands |-> Calm]
    /\ lastBoosted = [i \in Islands |-> NeverEnded]

-----------------------------------------------------------------------------
(* Who sends migrants to whom.                                             *)

RoundedSqrt(n) == CHOOSE k \in 0..n : (2*k - 1)*(2*k - 1) <= 4*n /\ 4*n < (2*k + 1)*(2*k + 1)

\* The neighbours of cell k of n cells laid out row by row on a torus whose
\* last row may be incomplete.
TorusTargets(n, k) ==
    LET cols == IF RoundedSqrt(n) < 2 THEN 2 ELSE RoundedSqrt(n)
        rows == (n + cols - 1) \div cols
        r == k \div cols
        c == k % cols
    IN  { x \in (0..n - 1) \ {k} : x \in { r*cols + ((c + 1) % cols),
                                         r*cols + ((c - 1 + cols) % cols),
                                         ((r + 1) % rows)*cols + c,
                                         ((r - 1 + rows) % rows)*cols + c } }

\* The target sets that n nodes may draw.  A random target is drawn until it
\* differs from the sender, so that for n = 1 there is none and no end.
Drawings(n) ==
    LET Node == 0..n - 1
    IN  CASE Topology = "ring"   -> {[k \in Node |-> {(k + 1) % n}]}
          [] Topology = "torus"  -> {[k \in Node |-> TorusTargets(n, k)]}
          [] Topology = "random" -> {f \in [Node -> {{x} : x \in Node}] :
                                        \A k \in Node : k \notin f[k]}

\* getIslandTargets of every island: each stays on its planet.
IslandTargets ==
    { [i \in Islands |-> { (i \div NumIslands)*NumIslands + x :
                               x \in d[i \div NumIslands][i % NumIslands] }] :
        d \in [0..NumPlanets - 1 -> Drawings(NumIslands)] }

\* getSpaceTravelTargets of every planet, as <<from, to>>, and for each the
\* island where its traveller lands.
Routes == { {e \in (0..NumPlanets - 1) \X (0..NumPlanets - 1) : e[2] \in d[e[1]]} :
              d \in Drawings(NumPlanets) }
Landings(R) == { f \in [R -> Islands] :
                   \A e \in R : f[e] \div NumIslands = e[2] }

-----------------------------------------------------------------------------
(* The coordinator between two awaits.                                     *)

\* Posts the messages ms[w] to each worker w.
Post(ms) == inbox' = [w \in Workers |-> inbox[w] \o ms[w]]
ToAll(m) == [w \in Workers |-> <<m>>]

\* One `migrate` to the island to[d] for each d of D.
Migrates(D, to) ==
    [w \in Workers |->
        LET sent == SetToSeq({d \in D : WorkerOf(to[d]) = w})
        IN  [k \in 1..Len(sent) |-> Message("migrate", to[sent[k]], 0)]]

\* Leaves the batch loop: tell the workers, unless they know, and collect.
Collect(stopping) ==
    /\ phase' = "collect"
    /\ awaited' = Islands
    /\ deltas' = IF SpecMode THEN Workers ELSE {}
    /\ cancelSent' = (cancelSent \/ stopping)
    /\ Post([w \in Workers |->
          IF stopping /\ ~cancelSent
          THEN <<Signal("cancel"), Signal("get_results")>>
          ELSE <<Signal("get_results")>>])
    /\ UNCHANGED startGen

ShouldCancel == cancelRequested

\* Mutant: a cancel during a migration goes unnoticed.
EnterBatchUnchecked(g) ==
    IF g > Generations THEN Collect(FALSE)
    ELSE /\ phase' = "evolve"
         /\ startGen' = g
         /\ awaited' = Islands
         /\ Post(ToAll(Message("evolve", None, g)))
         /\ UNCHANGED <<deltas, cancelSent>>

\* The head of the batch loop for the batch that starts with generation g.
EnterBatch(g) ==
    IF g > Generations THEN Collect(FALSE)
    ELSE IF ShouldCancel THEN Collect(TRUE)
    ELSE /\ phase' = "evolve"
         /\ startGen' = g
         /\ awaited' = Islands
         /\ Post(ToAll(Message("evolve", None, g)))
         /\ UNCHANGED <<deltas, cancelSent>>

\* Mutant: batches overlap by one generation.
NextBatchOverlapping ==
    EnterBatch(IF EndGen(startGen) = Generations THEN Generations + 1 ELSE EndGen(startGen))
NextBatch == EnterBatch(EndGen(startGen) + 1)

\* Waits in phase p for one migrate_done from each of the islands sent to.
Await(p, D, to) ==
    /\ phase' = p
    /\ awaited' = {to[d] : d \in D}
    /\ Post(Migrates(D, to))
    /\ UNCHANGED <<startGen, deltas, cancelSent>>

\* The island migration is over.
Migrated ==
    /\ totalMigrations' = totalMigrations + 1
    /\ IF NumPlanets > 1 /\ totalMigrations' % SpaceTravelInterval = 0
       THEN \E R \in Routes : \E land \in Landings(R) :
                Await("travel", R, land)
       ELSE NextBatch
    /\ UNCHANGED totalSpaceTravels

\* The main thread never leaves the do loop of getIslandTargets.
Spin == /\ phase' = "spinning"
        /\ UNCHANGED <<startGen, awaited, deltas, cancelSent, counters, inbox>>

Migrate ==
    \/ \E targets \in IslandTargets :
         LET T == UNION {targets[i] : i \in Islands}
         IN  IF T = {} THEN Migrated
             ELSE Await("migrate", T, [i \in T |-> i]) /\ UNCHANGED counters
    \/ IslandTargets = {} /\ Spin

\* Every island has sent its batch_done.
BatchOver ==
    IF ShouldCancel THEN Collect(TRUE) /\ UNCHANGED counters
    ELSE IF TotalWorkers > 1 /\ EndGen(startGen) < Generations THEN Migrate
    ELSE NextBatch /\ UNCHANGED counters

-----------------------------------------------------------------------------
(* Messages to the coordinator.                                            *)

Arrives(w, type) == /\ phase # "spinning"
                    /\ outbox[w] # <<>> /\ Head(outbox[w]).type = type
Take(w) == outbox' = [outbox EXCEPT ![w] = Tail(@)]

OnReady(w) ==
    /\ Arrives(w, "ready")
    /\ Take(w)
    /\ IF phase = "spawn" /\ \A x \in Workers \ {w} : thread[x] = "up" /\ outbox[x] = <<>>
       THEN EnterBatch(1)
       ELSE UNCHANGED <<phase, startGen, awaited, deltas, cancelSent, inbox>>
    /\ UNCHANGED <<reports, counters, wfReport, requests, workers>>

\* The listener of island i for this batch is still attached.
Listening(i) == phase = "evolve" /\ i \in awaited

Logged(g) == IF g \in ToSet(generationLog) THEN generationLog ELSE Append(generationLog, g)

OnProgress(w) ==
    LET m == Head(outbox[w]) IN
    /\ Arrives(w, "gen_progress")
    /\ Take(w)
    /\ IF Listening(m.island)
       THEN /\ islandGen' = [islandGen EXCEPT ![m.island] = m.gen]
            /\ generationLog' = Logged(m.gen)
       ELSE UNCHANGED reports
    /\ UNCHANGED <<phase, startGen, awaited, deltas, counters, cancelSent, wfReport,
                   requests, inbox, workers>>

\* Mutant: Promise.race instead of Promise.all.
ResolveAny(i, Then) == Then

\* The promise of island i is resolved; after the last one, Then.
Resolve(i, Then) ==
    IF awaited = {i} THEN Then
    ELSE /\ awaited' = awaited \ {i}
         /\ UNCHANGED <<phase, startGen, deltas, counters, cancelSent, inbox>>

OnBatchDone(w) ==
    /\ Arrives(w, "batch_done")
    /\ Take(w)
    /\ phase = "evolve"
    /\ Resolve(Head(outbox[w]).island, BatchOver)
    /\ UNCHANGED <<reports, wfReport, requests, workers>>

\* A second answer of an island (two travellers landed on it) has no listener.
OnMigrateDone(w) ==
    LET i == Head(outbox[w]).island IN
    /\ Arrives(w, "migrate_done")
    /\ Take(w)
    /\ \/ /\ phase = "migrate" /\ i \in awaited
          /\ Resolve(i, Migrated)
       \/ /\ phase = "travel" /\ i \in awaited
          /\ Resolve(i, /\ NextBatch
                        /\ totalSpaceTravels' = totalSpaceTravels + 1
                        /\ UNCHANGED totalMigrations)
       \/ /\ ~(phase \in {"migrate", "travel"} /\ i \in awaited)
          /\ UNCHANGED <<phase, startGen, awaited, deltas, counters, cancelSent, inbox>>
    /\ UNCHANGED <<reports, wfReport, requests, workers>>

\* Results and cache deltas; the runner goes on when it has them all.
Collected == phase' = IF awaited' = {} /\ deltas' = {}
                      THEN IF SpecMode THEN "save" ELSE "terminate"
                      ELSE phase

OnResults(w) ==
    /\ Arrives(w, "results") \/ Arrives(w, "cache_delta")
    /\ Take(w)
    /\ phase = "collect"
    /\ awaited' = awaited \ {Head(outbox[w]).island}
    /\ deltas' = IF Arrives(w, "cache_delta") THEN deltas \ {w} ELSE deltas
    /\ Collected
    /\ UNCHANGED <<startGen, reports, counters, cancelSent, wfReport, requests, inbox, workers>>

-----------------------------------------------------------------------------
(* The rest of the coordinator, and the requests from outside.             *)

\* The pollers live as long as a batch.
PollCancel ==
    /\ phase = "evolve"
    /\ ShouldCancel /\ ~cancelSent
    /\ cancelSent' = TRUE
    /\ Post(ToAll(Signal("cancel")))
    /\ UNCHANGED <<phase, startGen, awaited, deltas, reports, counters, wfReport,
                   requests, outbox, workers>>

PollHyper ==
    /\ phase = "evolve"
    /\ hyperRequested
    /\ hyperRequested' = FALSE
    /\ Post(ToAll(Signal("hypermutate")))
    /\ UNCHANGED <<coordinator, cancelRequested, hyperQuota, outbox, workers>>

\* saveCache, whether it succeeds or not
SaveCache ==
    /\ phase = "save"
    /\ phase' = "terminate"
    /\ UNCHANGED <<startGen, awaited, deltas, reports, counters, cancelSent, wfReport,
                   requests, inbox, outbox, workers>>

TerminateWorkers ==
    /\ phase = "terminate"
    /\ phase' = IF SpecMode /\ ~cancelSent THEN "walkForward" ELSE "returned"
    /\ thread' = [w \in Workers |-> "gone"]
    /\ UNCHANGED <<startGen, awaited, deltas, reports, counters, cancelSent, wfReport,
                   requests, inbox, outbox, cancelled, job, evolved, hyper, lastBoosted>>

\* A failure is caught and leaves no report.
WalkForward ==
    /\ phase = "walkForward"
    /\ phase' = "returned"
    /\ wfReport' \in BOOLEAN
    /\ UNCHANGED <<startGen, awaited, deltas, reports, counters, cancelSent,
                   requests, inbox, outbox, workers>>

Live == phase \notin {"returned", "failed", "spinning"}

\* POST /api/runs/:id/cancel and .../hypermutate of the active run
RequestCancel ==
    /\ Live /\ ~cancelRequested
    /\ cancelRequested' = TRUE
    /\ UNCHANGED <<coordinator, hyperRequested, hyperQuota, inbox, outbox, workers>>

RequestHyper ==
    /\ Live /\ hyperQuota > 0
    /\ hyperRequested' = TRUE
    /\ hyperQuota' = hyperQuota - 1
    /\ UNCHANGED <<coordinator, cancelRequested, inbox, outbox, workers>>

-----------------------------------------------------------------------------
(* A worker.                                                               *)

\* The worker module has loaded, or has thrown, which rejects the run.
Load(w) ==
    /\ thread[w] = "loading"
    /\ \/ /\ thread' = [thread EXCEPT ![w] = "up"]
          /\ outbox' = [outbox EXCEPT ![w] = Append(@, Signal("ready"))]
          /\ UNCHANGED phase
       \/ /\ w \in Faulty
          /\ thread' = [thread EXCEPT ![w] = "gone"]
          /\ phase' = "failed"
          /\ UNCHANGED outbox
    /\ UNCHANGED <<startGen, awaited, deltas, reports, counters, cancelSent, wfReport,
                   requests, inbox, cancelled, job, evolved, hyper, lastBoosted>>

\* triggerHypermutation and decayHypermutation
Trigger(h, source) == [h EXCEPT !.active = HyperDuration, !.source = source,
                                !.mutationRate = "boosted", !.perGeneMut = "boosted"]

\* Mutant: one of the two rates is not restored.
DecayHalf(h, g) ==
    IF h.active = 0 THEN h
    ELSE IF h.active > 1 THEN [h EXCEPT !.active = @ - 1]
    ELSE [h EXCEPT !.active = 0, !.source = "none", !.lastEnd = g, !.perGeneMut = "base"]

\* Mutant: the end of an event is not noted.
DecayUnnoted(h, g) ==
    IF h.active = 0 THEN h
    ELSE IF h.active > 1 THEN [h EXCEPT !.active = @ - 1]
    ELSE [h EXCEPT !.active = 0, !.source = "none",
                   !.mutationRate = "base", !.perGeneMut = "base"]

Decay(h, g) ==
    IF h.active = 0 THEN h
    ELSE IF h.active > 1 THEN [h EXCEPT !.active = @ - 1]
    ELSE [h EXCEPT !.active = 0, !.source = "none", !.lastEnd = g,
                   !.mutationRate = "base", !.perGeneMut = "base"]

\* What generation g may run with: diversity has collapsed, or not.
Outcomes(h, g) ==
    IF AutoHyper /\ h.active = 0 /\ g - h.lastEnd > HyperCooldown
    THEN {h, Trigger(h, "auto")} ELSE {h}

\* Worker w sends msgs, runs generation g of island i, reports it and yields.
Evolve(w, i, g, from, msgs) ==
    \E h \in Outcomes(hyper[i], g) :
        /\ evolved' = [evolved EXCEPT ![i] = g]
        /\ hyper' = [hyper EXCEPT ![i] = Decay(h, g)]
        /\ lastBoosted' = IF h.mutationRate = "boosted"
                          THEN [lastBoosted EXCEPT ![i] = g] ELSE lastBoosted
        /\ outbox' = [outbox EXCEPT ![w] = @ \o msgs \o <<Message("gen_progress", i, g)>>]
        /\ job' = [job EXCEPT ![w] = [island |-> i, gen |-> g + 1, startGen |-> from]]

\* Mutant: a cancel breaks out of the loop over islands.
RestDoneFirst(i) == <<Message("batch_done", i, 0)>>

\* A message from island i and from every island of its worker after it.
FromEach(type, i) == [k \in 1..((TotalWorkers - 1 - i) \div WorkerCount) + 1 |->
                         Message(type, i + (k - 1)*WorkerCount, 0)]
RestDone(i) == FromEach("batch_done", i)

\* The loop ends; every island of the worker still to report does.
LastTurn(w, i) ==
    /\ outbox' = [outbox EXCEPT ![w] = @ \o RestDone(i)]
    /\ job' = [job EXCEPT ![w] = NoJob]
    /\ UNCHANGED <<evolved, hyper, lastBoosted>>

\* The evolve loop from one yield to the next.
Turn(w) ==
    LET i == job[w].island
        g == job[w].gen
        from == job[w].startGen
    IN
    /\ thread[w] = "up"
    /\ i # None
    /\ IF ~cancelled[w] /\ g <= EndGen(from) THEN Evolve(w, i, g, from, <<>>)
       ELSE IF ~cancelled[w] /\ i + WorkerCount \in Islands
       THEN Evolve(w, i + WorkerCount, from, from, <<Message("batch_done", i, 0)>>)
       ELSE LastTurn(w, i)
    /\ UNCHANGED <<coordinator, requests, inbox, thread, cancelled>>

\* Worker w handles a message of this type.
Receives(w, type) ==
    /\ thread[w] = "up"
    /\ inbox[w] # <<>> /\ Head(inbox[w]).type = type
    /\ inbox' = [inbox EXCEPT ![w] = Tail(@)]
    /\ UNCHANGED <<coordinator, requests, thread>>

OnEvolve(w) ==
    LET g == Head(inbox[w]).gen IN
    /\ Receives(w, "evolve")
    /\ IF cancelled[w] THEN LastTurn(w, w) ELSE Evolve(w, w, g, g, <<>>)
    /\ UNCHANGED cancelled

OnMigrate(w) ==
    /\ Receives(w, "migrate")
    /\ outbox' = [outbox EXCEPT ![w] =
                     Append(@, Message("migrate_done", Head(inbox[w]).island, 0))]
    /\ UNCHANGED <<cancelled, job, evolved, hyper, lastBoosted>>

Hosted(w) == {i \in Islands : WorkerOf(i) = w}

OnGetResults(w) ==
    /\ Receives(w, "get_results")
    /\ outbox' = [outbox EXCEPT ![w] =
          @ \o FromEach("results", w)
            \o (IF SpecMode THEN <<Signal("cache_delta")>> ELSE <<>>)]
    /\ UNCHANGED <<cancelled, job, evolved, hyper, lastBoosted>>

\* Nobody listens to its hypermutate_ack.
OnHypermutate(w) ==
    /\ Receives(w, "hypermutate")
    /\ hyper' = [i \in Islands |-> IF i \in Hosted(w) /\ hyper[i].active = 0
                                   THEN Trigger(hyper[i], "manual") ELSE hyper[i]]
    /\ UNCHANGED <<outbox, cancelled, job, evolved, lastBoosted>>

OnCancel(w) ==
    /\ Receives(w, "cancel")
    /\ cancelled' = [cancelled EXCEPT ![w] = TRUE]
    /\ UNCHANGED <<outbox, job, evolved, hyper, lastBoosted>>

-----------------------------------------------------------------------------

FromWorker(w) == \/ OnReady(w) \/ OnProgress(w) \/ OnBatchDone(w)
                 \/ OnMigrateDone(w) \/ OnResults(w)
ToWorker(w) == \/ OnEvolve(w) \/ OnMigrate(w) \/ OnGetResults(w)
               \/ OnHypermutate(w) \/ OnCancel(w)

Next ==
    \/ \E w \in Workers : Load(w) \/ Turn(w) \/ ToWorker(w) \/ FromWorker(w)
    \/ PollCancel \/ PollHyper
    \/ SaveCache \/ TerminateWorkers \/ WalkForward
    \/ RequestCancel \/ RequestHyper

Spec == Init /\ [][Next]_vars

\* Threads run, messages are delivered and promises settle; requests and the
\* ticks of the pollers need not come.
Fairness ==
    /\ \A w \in Workers : /\ WF_vars(Load(w))
                          /\ WF_vars(Turn(w))
                          /\ WF_vars(ToWorker(w))
                          /\ WF_vars(FromWorker(w))
    /\ WF_vars(SaveCache \/ TerminateWorkers \/ WalkForward)

FairSpec == Spec /\ Fairness

-----------------------------------------------------------------------------
(* What makes it correct.                                                  *)

Reply(type, i) == Message(type, i, 0)
Count(s, m) == Cardinality({k \in DOMAIN s : s[k] = m})

\* A worker is between two batches when it is told to begin one, to take in
\* migrants or to hand over its results: the `evolve` handler awaits between
\* generations, and such a message handled there would change populations
\* that a loop is working on.
WorkersAreFree ==
    \A w \in Workers :
        (inbox[w] # <<>> /\ Head(inbox[w]).type \in {"evolve", "migrate", "get_results"})
            => job[w] = NoJob

\* Exactly one migrate or migrate_done is under way for each island that the
\* island migration waits for, and none for the others.  Answers of a space
\* travel with two travellers to one island never satisfy a later migration:
\* the handlers match by island only.
RepliesMatch ==
    phase = "migrate" =>
        \A i \in Islands :
            Count(inbox[WorkerOf(i)], Reply("migrate", i))
                + Count(outbox[WorkerOf(i)], Reply("migrate_done", i))
              = IF i \in awaited THEN 1 ELSE 0

\* generationLog has every generation once, in order, and ends with the last
\* one any island has reported, although islands report in any order.
LogIsGapless ==
    /\ \A k \in 1..Len(generationLog) : generationLog[k] = k
    /\ \A i \in Islands : islandGen[i] <= Len(generationLog)
    /\ generationLog # <<>> => \E i \in Islands : islandGen[i] = Len(generationLog)

\* Once a batch is over, what the coordinator believes of each island is what
\* its worker has done, though the batch may have been cut short.
ReportsAreCurrent ==
    phase \notin {"spawn", "evolve", "failed"} => islandGen = evolved

\* A run that was not cancelled has run every island through all generations,
\* has migrated once between any two batches and travelled on every
\* SpaceTravelInterval-th of these occasions.
FullRunIsComplete ==
    (phase \in {"save", "terminate", "walkForward", "returned"} /\ ~cancelSent) =>
        LET migrations == IF TotalWorkers = 1 THEN 0
                          ELSE (Generations - 1) \div MigrationInterval
        IN  /\ \A i \in Islands : evolved[i] = Generations
            /\ totalMigrations = migrations
            /\ totalSpaceTravels = IF NumPlanets = 1 THEN 0
                                   ELSE migrations \div SpaceTravelInterval

\* What the coordinator and its workers know of each other fits together at any
\* time: messages find their receiver ready, nothing is awaited in vain, and log,
\* reports and counters say what the islands have done.
RunIsConsistent == /\ TypeOK
                   /\ WorkersAreFree /\ RepliesMatch
                   /\ LogIsGapless /\ ReportsAreCurrent /\ FullRunIsComplete

\* Both mutation rates are boosted exactly while an event is active and has a
\* source, whenever it was triggered and by whom.
RatesFollowEvent ==
    \A i \in Islands :
        LET h == hyper[i] IN
        /\ h.active > 0 <=> h.mutationRate = "boosted"
        /\ h.mutationRate = h.perGeneMut
        /\ h.active > 0 <=> h.source # "none"

\* No batch begins once a cancel has been asked for.
CancelEndsBatches ==
    [][cancelRequested => ~(phase # "evolve" /\ phase' = "evolve") /\ startGen' = startGen]_vars

\* An automatic event waits: an island that begins one has run more than
\* HyperCooldown generations since its last boosted one.
AutoWaits ==
    [][\A i \in Islands :
         (lastBoosted'[i] # lastBoosted[i] /\ hyper[i].active = 0)
            => evolved'[i] - lastBoosted[i] > HyperCooldown]_lastBoosted

\* The messages and the barrier implement rounds.
MigratesTo(i) == Count(inbox[WorkerOf(i)], Reply("migrate", i))
Round == CASE phase \in {"spawn", "evolve", "spinning"} -> startGen
           [] phase \in {"migrate", "travel"} -> EndGen(startGen) + 1
           [] OTHER -> 0

Rounds == INSTANCE IslandRounds WITH
              Island <- Islands, Length <- MigrationInterval, FullAge <- Generations,
              age <- evolved, round <- Round,
              due <- [i \in Islands |-> MigratesTo(i)], asked <- cancelRequested
RoundsSpec == Rounds!Spec

\* Every run ends, cancelled or not: one batch_done per island is what the
\* coordinator waits for (IMPORTANT comment of island-worker.js).
EveryRunEnds == <>(phase \in {"returned", "failed"})

=============================================================================
