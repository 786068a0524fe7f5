------------------------------ MODULE Results -------------------------------
(***************************************************************************)
(* The results of a series of runs of one spec over one data set: what the *)
(* islands evaluate and remember, the ranking the runner draws from their  *)
(* caches, and the fitness cache on disk that links one run to the next    *)
(* (optimizer/runner.js, island-worker.js, fitness-cache.js).              *)
(*                                                                         *)
(* The fitness of a gene is determined by the gene, so a cache is a set of *)
(* genes.  Genes are numbers: of two that score alike, the smaller ranks   *)
(* first.                                                                  *)
(***************************************************************************)
EXTENDS Fitness, FiniteSets

CONSTANTS Islands,       \* the islands of a run
          WorkerOf(_),   \* the worker thread that owns an island
          Genes,         \* the genes that may be evaluated
          Metrics(_),    \* the metrics of a gene's backtest
          Config,        \* the fitness section of the spec
          Modes,         \* "spec" and "legacy"
          MinTrades,     \* the minTrades of the run (30)
          MaxDd,         \* the drawdown limit of the legacy fitness (500)
          TopK,          \* genes in the ranking (20)
          MaxEntries,    \* genes in a cache file (50000)
          MaxRuns        \* runs in the series

VARIABLES mode,          \* spec or legacy
          phase,         \* "idle", "running", "collecting", "saving", "renaming",
                       \* "ranking", "ranked"
          cache,         \* what each island has evaluated or was given
          preload,       \* what the run has read from disk
          reported,      \* the workers that have sent their results
          top,           \* the genes each island has reported
          deltas,        \* the new genes the workers have reported
          file, tmp,     \* the cache file and the file it is written to
          table,         \* the ranking of the last run
          winner,        \* the gene it ships; 0 is none
          runs,          \* runs so far
          saved          \* history: every gene of a run whose cache was saved and not lost

vars == <<mode, phase, cache, preload, reported, top, deltas, file, tmp, table, winner, runs, saved>>

Workers == {WorkerOf(i) : i \in Islands}
Score(g) == IF mode = "spec" THEN SpecScore(Metrics(g), Config)
            ELSE LegacyScore(Metrics(g), MinTrades, MaxDd)
Eligible(g) == Metrics(g).trades >= MinTrades

Before(g, h) == Score(g) > Score(h) \/ (Score(g) = Score(h) /\ g < h)
TopOf(S, n) == {g \in S : Cardinality({h \in S : Before(h, g)}) < n}

Init ==
    /\ mode \in Modes
    /\ phase = "idle"
    /\ cache = [i \in Islands |-> {}]
    /\ preload = {} /\ reported = {} /\ deltas = {}
    /\ top = [i \in Islands |-> {}]
    /\ file = {} /\ tmp = {} /\ table = {} /\ winner = 0 /\ runs = 0 /\ saved = {}

(* loadCache: a file that cannot be read counts as empty.                  *)
Start ==
    /\ phase \in {"idle", "ranked"} /\ runs < MaxRuns
    /\ \E read \in IF mode = "spec" THEN {file, {}} ELSE {{}} :
           /\ preload' = read
           /\ cache' = [i \in Islands |-> read]
           /\ saved' = IF read = file THEN saved ELSE {}
    /\ phase' = "running" /\ runs' = runs + 1
    /\ reported' = {} /\ deltas' = {} /\ top' = [i \in Islands |-> {}]
    /\ table' = {} /\ winner' = 0
    /\ UNCHANGED <<mode, file, tmp>>

(* fitness: a gene that is not in the island's cache is evaluated.         *)
Evaluate(i) ==
    /\ phase = "running"
    /\ \E g \in Genes \ cache[i] : cache' = [cache EXCEPT ![i] = @ \union {g}]
    /\ UNCHANGED <<mode, phase, preload, reported, top, deltas, file, tmp, table, winner, runs, saved>>

(* The last generation, or the end of a cancelled batch.                   *)
GetResults ==
    /\ phase = "running" /\ \A i \in Islands : cache[i] # {}
    /\ phase' = "collecting"
    /\ UNCHANGED <<mode, cache, preload, reported, top, deltas, file, tmp, table, winner, runs, saved>>

TopFromCache(known) == TopOf({g \in known : Eligible(g)}, TopK)
Delta(w) == UNION {cache[i] \ preload : i \in {j \in Islands : WorkerOf(j) = w}}
Report(w) ==
    /\ phase = "collecting" /\ w \notin reported
    /\ reported' = reported \union {w}
    /\ top' = [i \in Islands |-> IF WorkerOf(i) = w THEN TopFromCache(cache[i]) ELSE top[i]]
    /\ deltas' = IF mode = "spec" THEN deltas \union Delta(w) ELSE deltas
    /\ phase' = IF reported' # Workers THEN phase ELSE IF mode = "spec" THEN "saving" ELSE "ranking"
    /\ UNCHANGED <<mode, cache, preload, file, tmp, table, winner, runs, saved>>

(* Mutant of MergeCaches: what was on disk is not written back.            *)
MergeCachesNewOnly == deltas

MergeCaches == preload \union deltas
FilterAndCap(entries) == TopOf({g \in entries : Score(g) > 0}, MaxEntries)

(* saveCache: written beside the file, then moved; it may fail.            *)
WriteTmp ==
    /\ phase = "saving"
    /\ tmp' = FilterAndCap(MergeCaches) /\ phase' = "renaming"
    /\ UNCHANGED <<mode, cache, preload, reported, top, deltas, file, table, winner, runs, saved>>
Rename ==
    /\ phase = "renaming"
    /\ file' = tmp /\ saved' = saved \union UNION {cache[i] : i \in Islands}
    /\ phase' = "ranking"
    /\ UNCHANGED <<mode, cache, preload, reported, top, deltas, tmp, table, winner, runs>>
SaveFails ==
    /\ phase \in {"saving", "renaming"}
    /\ phase' = "ranking"
    /\ UNCHANGED <<mode, cache, preload, reported, top, deltas, file, tmp, table, winner, runs, saved>>

(* The population best of an island is one of the genes it has evaluated.  *)
PopulationBest == {b \in [Islands -> Genes] : \A i \in Islands : b[i] \in cache[i]}
Rank ==
    /\ phase = "ranking"
    /\ table' = TopOf(UNION {top[i] : i \in Islands}, TopK)
    /\ \E best \in PopulationBest :
           LET candidates == IF table' # {} THEN table' ELSE {best[i] : i \in Islands}
           IN winner' \in TopOf(candidates, 1)
    /\ phase' = "ranked"
    /\ UNCHANGED <<mode, cache, preload, reported, top, deltas, file, tmp, runs, saved>>

(* The process dies; only the files stay.                                  *)
Crash ==
    /\ phase \notin {"idle", "ranked"}
    /\ phase' = "idle"
    /\ cache' = [i \in Islands |-> {}] /\ preload' = {} /\ reported' = {} /\ deltas' = {}
    /\ top' = [i \in Islands |-> {}]
    /\ UNCHANGED <<mode, file, tmp, table, winner, runs, saved>>

Next ==
    \/ Start \/ GetResults \/ WriteTmp \/ Rename \/ SaveFails \/ Rank \/ Crash
    \/ \E i \in Islands : Evaluate(i)
    \/ \E w \in Workers : Report(w)
Spec == Init /\ [][Next]_vars

-----------------------------------------------------------------------------
(* What any island of the run, or an earlier run whose cache was saved,    *)
(* has evaluated.  The file keeps the MaxEntries best of it by score and   *)
(* knows nothing of MinTrades.                                             *)
Known == saved \union UNION {cache[i] : i \in Islands}
PushedOut(g) == Cardinality({h \in Known : Score(h) > 0 /\ Before(h, g)}) >= MaxEntries

(* table and winner are those of the genes that are known.                 *)
ListsTheBestOf(known) ==
    LET listable == {g \in known : Eligible(g) /\ Score(g) > 0}
    IN /\ {g \in table : Score(g) > 0} = TopOf(listable, TopK)
       /\ listable # {} => winner \in TopOf(listable, 1)

(* The ranking of a run lists the best scored genes of all that any of its *)
(* islands evaluated and of all that the earlier runs evaluated whose      *)
(* cache was saved, and ships the first of them, although an island        *)
(* reports only its own best, a worker only what is new, and the file      *)
(* keeps only the best: a gene of an earlier run is missing only where     *)
(* MaxEntries genes that score better, listable or not, are known.         *)
RankingIsComplete ==
    phase = "ranked" =>
        ListsTheBestOf({g \in Known : PushedOut(g) => \E i \in Islands : g \in cache[i]})

(* DOES NOT HOLD.  "Build topResults from the CACHE (all evaluations ever) *)
(* ... so the cache is the authoritative ranking" (optimizer/runner.js 966 *)
(* and 968): genes that score with too few trades to be listed push        *)
(* listable ones out of the file (fitness-cache.js 196).                   *)
RankingIsAuthoritative == phase = "ranked" => ListsTheBestOf(Known)
=============================================================================
