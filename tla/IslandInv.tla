----------------------------- MODULE IslandInv -----------------------------
(***************************************************************************)
(* The inductive invariant of an optimization run (IslandRun): which       *)
(* messages the channels of a worker may hold in every phase of the        *)
(* coordinator, in which order, and what they say of the thread's loop, of *)
(* its islands and of the counters.                                        *)
(***************************************************************************)
EXTENDS IslandRun

Orders == {"cancel", "hypermutate"}
Before == {"spawn", "failed"}
Ending == {"collect", "save", "terminate", "walkForward", "returned"}

Only(s, types) == \A k \in DOMAIN s : s[k].type \in types
Has(s, type) == \E k \in DOMAIN s : s[k].type = type
Tells(s, type, i) == \E k \in DOMAIN s : s[k].type = type /\ s[k].island = i

-----------------------------------------------------------------------------
(* One worker.                                                             *)

(* Migrants and reports travel between an island and its own worker.       *)
MigrantsOf(w, s) == \A k \in DOMAIN s : s[k].type = "migrate" => s[k].island \in Hosted(w)
ReportsOf(w, s) ==
    \A k \in DOMAIN s : s[k].type \in {"migrate_done", "batch_done", "gen_progress"} =>
                           s[k].island \in Hosted(w)
Plain(s) == \A k \in DOMAIN s : s[k].type \in {"migrate", "migrate_done"} => s[k].gen = 0

Addressed(w) == /\ MigrantsOf(w, inbox[w]) /\ Plain(inbox[w])
                /\ ReportsOf(w, outbox[w]) /\ Plain(outbox[w])

(* What may come after what: an island's generations rise, nothing follows *)
(* its batch_done, and answers to migrants are older than any report; an   *)
(* evolve is the last message but for orders.                              *)
Follows(m, n) ==
    /\ m.type = "gen_progress" /\ n.type = "gen_progress" /\ m.island = n.island => m.gen < n.gen
    /\ m.type = "batch_done" /\ n.type \in {"gen_progress", "batch_done"} => m.island # n.island
    /\ m.type \in {"gen_progress", "batch_done"} => n.type # "migrate_done"
    /\ m.type = "evolve" => n.type \in Orders

Ordered(s) == \A k, l \in DOMAIN s : k < l => Follows(s[k], s[l])
InOrder(w) == Ordered(inbox[w]) /\ Ordered(outbox[w])

(* Nothing has happened while threads are loading.                         *)
Loading(w) ==
    /\ inbox[w] = << >>
    /\ outbox[w] \in {<< >>, <<Signal("ready")>>}
    /\ thread[w] = "loading" => outbox[w] = << >>
    /\ job[w] = NoJob
    /\ \A i \in Hosted(w) : evolved[i] = 0

(* How far worker w is in the batch: the island it is at.                  *)
Reached(w) == IF Has(inbox[w], "evolve") THEN None
              ELSE IF job[w] = NoJob THEN TotalWorkers ELSE job[w].island

(* A worker that has its evolve to come has none of the batch behind it.   *)
(* One that has begun gets nothing but orders.                             *)
Begins(w) ==
    /\ job[w] = NoJob
    /\ \A k \in DOMAIN inbox[w] : inbox[w][k].type = "evolve" => inbox[w][k].gen = startGen

Runs(w) ==
    LET i == job[w].island
    IN  /\ i \in Hosted(w)
        /\ job[w].startGen = startGen
        /\ job[w].gen = evolved[i] + 1
        /\ startGen <= evolved[i] /\ evolved[i] <= EndGen(startGen)

(* The islands before the one it is at are through, those after it have    *)
(* not begun, and these are all awaited.                                   *)
Progress(w, at) ==
    \A i \in Hosted(w) :
        /\ at < i => evolved[i] = startGen - 1
        /\ i < at => cancelled[w] \/ evolved[i] = EndGen(startGen)
        /\ at <= i => i \in awaited
        /\ startGen - 1 <= islandGen[i]

(* What it has said and the coordinator has not heard.                     *)
Spoken(w, s, at) ==
    /\ Only(s, {"gen_progress", "batch_done", "migrate_done"})
    /\ Has(s, "migrate_done") => Hosted(w) \subseteq awaited
    /\ \A i \in Hosted(w) :
          /\ Tells(s, "batch_done", i) <=> (i < at /\ i \in awaited)
          /\ Tells(s, "gen_progress", i) => i \in awaited

InBatch(w) ==
    /\ Only(inbox[w], {"evolve", "migrate"} \cup Orders)
    /\ Has(inbox[w], "evolve") => Begins(w)
    /\ ~ Has(inbox[w], "evolve") => Only(inbox[w], Orders) /\ (job[w] # NoJob => Runs(w))
    /\ Progress(w, Reached(w))
    /\ Spoken(w, outbox[w], Reached(w))

(* Between two batches no thread works, and migrants are under way.        *)
Between(w) ==
    /\ Only(inbox[w], {"migrate"} \cup Orders)
    /\ Only(outbox[w], {"migrate_done"})
    /\ job[w] = NoJob
    /\ \A i \in Hosted(w) : evolved[i] = EndGen(startGen)

(* In an island migration each is sent one migrate.                        *)
Once(s, type) ==
    \A k, l \in DOMAIN s :
        s[k].type = type /\ s[l].type = type /\ s[k].island = s[l].island => k = l
SentOnce(w) ==
    /\ Once(inbox[w], "migrate") /\ Once(outbox[w], "migrate_done")
    /\ \A i \in Hosted(w) :
          /\ ~ (Tells(inbox[w], "migrate", i) /\ Tells(outbox[w], "migrate_done", i))
          /\ i \in awaited <=> \/ Tells(inbox[w], "migrate", i)
                               \/ Tells(outbox[w], "migrate_done", i)

After(w) ==
    /\ Only(inbox[w], {"migrate", "get_results"} \cup Orders)
    /\ Only(outbox[w], {"migrate_done", "results", "cache_delta"})
    /\ job[w] = NoJob

InPhase(w) ==
    /\ phase \in Before => Loading(w)
    /\ phase \notin Before => thread[w] # "loading"
    /\ phase = "evolve" => InBatch(w)
    /\ phase \in {"migrate", "travel"} => Between(w)
    /\ phase = "migrate" => SentOnce(w)
    /\ phase \in Ending \cup {"spinning"} => After(w)
    /\ phase \in Ending /\ ~ cancelSent => \A i \in Hosted(w) : evolved[i] = Generations

(* The generations that an island has run and the coordinator has not      *)
(* heard of are on their way.                                              *)
Reported(w, s) ==
    /\ \A k \in DOMAIN s : s[k].type = "gen_progress" =>
          /\ islandGen[s[k].island] < s[k].gen
          /\ s[k].gen <= evolved[s[k].island]
    /\ \A i \in Hosted(w) :
          /\ islandGen[i] <= evolved[i]
          /\ \A g \in 1..Generations : islandGen[i] < g /\ g <= evolved[i] =>
                \E k \in DOMAIN s : s[k] = Message("gen_progress", i, g)

(* A thread stops early only when a cancel was asked for.                  *)
Stopped(w) == cancelled[w] \/ Has(inbox[w], "cancel") => cancelSent

Thread(w) == /\ Addressed(w) /\ InOrder(w) /\ InPhase(w)
             /\ Reported(w, outbox[w]) /\ Stopped(w)

-----------------------------------------------------------------------------
(* The coordinator: the batches so far, in migrations and travels.         *)
Travels(n) == IF NumPlanets = 1 THEN 0 ELSE n \div SpaceTravelInterval

Tally ==
    /\ phase \in {"spawn", "evolve", "migrate"} =>
          /\ MigrationInterval * totalMigrations = startGen - 1
          /\ totalSpaceTravels = Travels(totalMigrations)
    /\ phase = "travel" =>
          /\ MigrationInterval * totalMigrations = EndGen(startGen)
          /\ totalSpaceTravels + 1 = Travels(totalMigrations)
    /\ phase \in Ending /\ ~ cancelSent =>
          /\ totalMigrations = (Generations - 1) \div MigrationInterval
          /\ totalSpaceTravels = Travels(totalMigrations)

Coordinator ==
    /\ phase \in Before => startGen = 1 /\ ~ cancelSent
    /\ phase \in {"migrate", "travel"} => EndGen(startGen) < Generations
    /\ cancelSent => cancelRequested
    /\ Tally

Inductive == TypeOK /\ LogIsGapless /\ Coordinator /\ \A w \in Workers : Thread(w)
=============================================================================
