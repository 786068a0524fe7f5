----------------------------- MODULE MCPipeline -----------------------------
(***************************************************************************)
(* The way of a spec, station by station: it is edited and saved           *)
(* (SpecEditor), an island breeds genes for it (GenePool), a gene is       *)
(* evaluated on the bars of the market (Evaluation), and the results are   *)
(* collected, ranked and kept (Results).  The stations share no state: the *)
(* initial state chooses one, and the variables of the others stay Off.    *)
(***************************************************************************)
EXTENDS Integers, Sequences, FiniteSets

CONSTANTS Registry, Files, Typed, MaxSteps,
          GeneSetups, GeneScore(_),
          RunSetups, BarKinds, MaxBars, WarmupBars, MinBars, OosShare, SqueezeBars,
          Islands, WorkerOf(_), Genes, Metrics(_), Config, Modes,
          MinTrades, MaxDd, TopK, MaxEntries, MaxRuns

ASSUME GenesAssumption == Genes \subseteq Nat \ {0} /\ IsFiniteSet(Genes) /\ Islands # {}
ASSUME MetricsAssumption ==
    \A g \in Genes : Metrics(g) \in [error : BOOLEAN, positions : Nat, trades : Nat,
                                    pf : Int, dd : Int, ret : Int, net : Int,
                                    regimes : SUBSET [trades : Nat, pf : Int]]
ASSUME ConfigAssumption ==
    /\ Config \in [weights : [pf : Int, dd : Int, ret : Int],
                   capPf : Nat \ {0}, capRet : Nat \ {0},
                   minTradesPerWindow : Nat, frequencyTarget : Int, worstRegimePfFloor : Int]
    /\ MinTrades \in Nat /\ MaxDd \in Nat \ {0}
ASSUME WindowsAssumption ==
    /\ \A s \in RunSetups : s.nWindows \in Nat \ {0}
    /\ OosShare[1] \in Nat /\ OosShare[2] \in Nat \ {0}
ASSUME CapsAssumption == TopK \in Nat \ {0} /\ MaxEntries \in Nat

VARIABLES part,
          blocks, defaults, awaited, form, current, files, net, steps, origin,
          setup, mask, pop,
          gene, market,
          mode, phase, cache, preload, reported, top, deltas, file, tmp, table, winner, runs, saved

Case == INSTANCE PipelineCases
MCRegistry == Case!SmallRegistry
MCFiles == Case!SmallFiles
MCTyped == Case!TypedNumbers
MCGeneSetups == Case!CaseSetups
MCGeneScore(g) == Case!CaseScore(g)
MCRunSetups == Case!EvaluationSetups
MCBarKinds == Case!CaseBars
MCOosShare == Case!CaseShare
MCIslands == Case!TwoIslands
MCWorkerOf(i) == Case!OwnWorker(i)
MCGenes == Case!FourGenes
MCMetrics(g) == Case!CaseMetrics(g)
MCConfig == Case!CaseConfig

Editor == INSTANCE SpecEditor
Island == INSTANCE GenePool WITH Setups <- GeneSetups, Score <- GeneScore
Eval == INSTANCE Evaluation WITH Setups <- RunSetups, setup <- gene
Res == INSTANCE Results

\* The contract of blocks: a parameter has a range and a step.  Numbers are in
\* units in which they are natural, since Blank is an empty input.  The server
\* accepts the files.
ASSUME RegistryAssumption ==
    /\ Editor!None \notin DOMAIN Registry
    /\ \A b \in DOMAIN Registry : \A x \in DOMAIN Registry[b].params :
           LET p == Registry[b].params[x]
           IN p.min \in Nat /\ p.max \in Nat /\ p.step \in Nat \ {0} /\ p.min <= p.max
ASSUME FilesAssumption ==
    /\ Typed \subseteq Int
    /\ \A f \in DOMAIN Files : \/ Files[f] = Editor!NoSpec
                               \/ Editor!IsSpec(Files[f]) /\ Editor!Valid(Files[f])

\* Setups that can be run: fewer migrants come in one message than an island
\* has individuals (3 of 80, unless the user asks otherwise), and the score of
\* a gene is a number.
ASSUME SetupsAssumption ==
    \A s \in GeneSetups :
        /\ s.size \in Nat \ {0} /\ s.migrants \in Nat /\ s.migrants < s.size /\ s.elite \in Int
        /\ \A x \in DOMAIN s.params : Island!IsParam(s.params[x])
        /\ Len(s.constraints) \in Nat /\ DOMAIN s.constraints = 1 .. Len(s.constraints)
        /\ \A n \in DOMAIN s.constraints : Island!IsConstraint(s.params, s.constraints[n])
        /\ \A m \in s.masks : DOMAIN m \subseteq DOMAIN s.params /\ \A x \in DOMAIN m : m[x] \in Int
        /\ \A g \in Island!GenesOf(s.params, s.masks) : GeneScore(g) \in Int

editing == <<blocks, defaults, awaited, form, current, files, net, steps, origin>>
breeding == <<setup, mask, pop>>
evaluating == <<gene, market>>
ranking == <<mode, phase, cache, preload, reported, top, deltas, file, tmp, table, winner, runs, saved>>
vars == <<part, editing, breeding, evaluating, ranking>>

Init ==
    /\ part \in {"edit", "breed", "evaluate", "rank"}
    /\ IF part = "edit" THEN Editor!Init
       ELSE /\ blocks = 0 /\ defaults = 0 /\ awaited = 0 /\ form = 0 /\ current = 0
            /\ files = 0 /\ net = 0 /\ steps = 0 /\ origin = 0
    /\ IF part = "breed" THEN Island!Init ELSE setup = 0 /\ mask = 0 /\ pop = 0
    /\ IF part = "evaluate" THEN Eval!Init ELSE gene = 0 /\ market = 0
    /\ IF part = "rank" THEN Res!Init
       ELSE /\ mode = 0 /\ phase = 0 /\ cache = 0 /\ preload = 0 /\ reported = 0 /\ top = 0 /\ deltas = 0
            /\ file = 0 /\ tmp = 0 /\ table = 0 /\ winner = 0 /\ runs = 0 /\ saved = 0

Editing == part = "edit" /\ UNCHANGED <<part, breeding, evaluating, ranking>>
Breeding == part = "breed" /\ UNCHANGED <<part, editing, evaluating, ranking>>
Evaluating == part = "evaluate" /\ UNCHANGED <<part, editing, breeding, ranking>>
Ranking == part = "rank" /\ UNCHANGED <<part, editing, breeding, evaluating>>
Next ==
    \/ Editing /\ Editor!BlocksArrive
    \/ Editing /\ Editor!DefaultsArrive
    \/ Editing /\ Editor!ClickReset
    \/ Editing /\ Editor!ClickLoad
    \/ Editing /\ Editor!ServeLoad
    \/ Editing /\ Editor!Loaded
    \/ Editing /\ Editor!Edit
    \/ Editing /\ Editor!ClickSave
    \/ Editing /\ Editor!ServeSave
    \/ Editing /\ Editor!Saved
    \/ Editing /\ Editor!Rejected
    \/ Editing /\ Editor!Confirmed
    \/ Editing /\ Editor!Declined
    \/ Breeding /\ Island!Mutation
    \/ Breeding /\ Island!Crossover
    \/ Breeding /\ Island!Migrate
    \/ Breeding /\ Island!Hypermutate
    \/ Evaluating /\ Eval!Arrive
    \/ Ranking /\ Res!Start
    \/ \E i \in Islands : Ranking /\ Res!Evaluate(i)
    \/ Ranking /\ Res!GetResults
    \/ \E w \in Res!Workers : Ranking /\ Res!Report(w)
    \/ Ranking /\ Res!WriteTmp
    \/ Ranking /\ Res!Rename
    \/ Ranking /\ Res!SaveFails
    \/ Ranking /\ Res!Rank
    \/ Ranking /\ Res!Crash
Spec == Init /\ [][Next]_vars

-----------------------------------------------------------------------------
(* A spec that the form can tell and that is loaded and not edited would   *)
(* be saved with the meaning it has, and the server would accept it        *)
(* (SpecEditor).                                                           *)
SaveKeepsTheSpec == part = "edit" => Editor!SaveKeepsTheSpec

(* DOES NOT HOLD: a cap of the return that a file leaves out is filled     *)
(* with the page's own (SpecEditor).                                       *)
OmittedCapStays == part = "edit" => Editor!OmittedCapStays

(* For every configuration, the constraints that one pass settles.         *)
SettledIn == [s \in GeneSetups |-> Island!SettledOf(s.params, s.constraints)]

(* Every individual of a planet with a knockout carries the frozen values, *)
(* whatever mutation, crossover, repair, migration from a planet with      *)
(* another mask, or hypermutation did to it; and a run without knockouts   *)
(* only evaluates genes that satisfy every constraint that one pass over   *)
(* the constraints settles.  A constraint with a pinned side is not one:   *)
(* it is skipped, and the genes may violate it (GenePool).                 *)
GenesFit ==
    part = "breed" => Island!FrozenGenesHold /\ Island!UnfrozenIsFeasible(SettledIn[setup])

(* Migration and hypermutation never cost an island its best individual,   *)
(* although a migrant's score was computed under another mask (GenePool).  *)
BestSurvives == [][part = "breed" => Island!Best(pop') >= Island!Best(pop)]_vars

(* Nothing that a block says on a bar of a walk-forward window depends on  *)
(* a bar that came after the window (Evaluation).                          *)
NoLookahead == part = "evaluate" => Eval!NoLookahead

(* The walk-forward windows lie in the data, none is empty, and their      *)
(* futures follow each other without gap or overlap (Evaluation).          *)
WindowsTile == part = "evaluate" => Eval!WindowsTile

(* The recomputed trades of a finished run follow the same signals that    *)
(* the run was scored on (Evaluation).                                     *)
RecalcSeesTheRun == part = "evaluate" => Eval!RecalcSeesTheRun

(* The ranking lists the best genes that any island evaluated, and those   *)
(* that were saved before and that MaxEntries better ones did not push out *)
(* of the cache file, and ships the first of them (Results).               *)
RankingIsComplete == part = "rank" => Res!RankingIsComplete

(* DOES NOT HOLD: genes with too few trades push listable ones out of the  *)
(* cache file (Results).                                                   *)
RankingIsAuthoritative == part = "rank" => Res!RankingIsAuthoritative
=============================================================================
