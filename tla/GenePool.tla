------------------------------ MODULE GenePool ------------------------------
(***************************************************************************)
(* The population of one island of an optimization run, from the worker's  *)
(* point of view: ga-island breeds, other islands send migrants, and a     *)
(* hypermutation replaces the weakest individuals.                         *)
(*                                                                         *)
(* A setup is one configuration of a run: the parameter space, its         *)
(* constraints, the knockout masks of the planets, the size of the         *)
(* population, how many migrants a message holds and how many individuals  *)
(* a hypermutation replaces.  The fitness of a gene is any function of it. *)
(***************************************************************************)
EXTENDS ParamSpace, FiniteSets

CONSTANTS Setups,      \* the configurations
          Score(_)     \* the fitness of a gene

VARIABLES setup,       \* the configuration of this run
          mask,        \* the knockout mask of this island's planet
          pop          \* the population, by index

vars == <<setup, mask, pop>>

NoMask == << >>
Slots == 1 .. setup.size

Init ==
    /\ setup \in Setups
    /\ mask \in setup.masks
    /\ pop \in [1 .. setup.size -> FrozenIndividuals(setup.params, setup.constraints, mask)]

(* Mutant of Worse: the sort is from best to worst.                        *)
Stronger(a, b) == Score(pop[a]) > Score(pop[b]) \/ (Score(pop[a]) = Score(pop[b]) /\ a < b)

(* The slots from worst to best; equal scores stay in the order of slots.  *)
Worse(a, b) == Score(pop[a]) < Score(pop[b]) \/ (Score(pop[a]) = Score(pop[b]) /\ a < b)
Ranks == [k \in Slots |-> 1 + Cardinality({o \in Slots : Worse(o, k)})]
Best(p) == CHOOSE v \in {Score(p[k]) : k \in DOMAIN p} :
               \A k \in DOMAIN p : v >= Score(p[k])

(* ga-island, one child at a time: a slot gets a mutant or a crossing of   *)
(* members, and the fittest member is kept.                                *)
Replaceable == {k \in Slots : \E other \in Slots \ {k} : Score(pop[other]) >= Score(pop[k])}

Mutation ==
    /\ \E k \in Replaceable, parent \in Slots :
           \E child \in Mutated(setup.params, setup.constraints, mask, pop[parent]) :
               pop' = [pop EXCEPT ![k] = child]
    /\ UNCHANGED <<setup, mask>>

Crossover ==
    /\ \E k \in Replaceable, a, b \in Slots :
           \E child \in FrozenCrossed(setup.params, setup.constraints, mask, pop[a], pop[b]) :
               pop' = [pop EXCEPT ![k] = child]
    /\ UNCHANGED <<setup, mask>>

(* What another island may have sent: its best individuals, best first,    *)
(* with their scores.  It may belong to a planet with another mask.        *)
Sendable(sender) == FrozenIndividuals(setup.params, setup.constraints, sender)
Batches ==
    UNION {{b \in [1 .. setup.migrants -> Sendable(sender)] :
                \A n \in 1 .. setup.migrants - 1 : Score(b[n]) >= Score(b[n + 1])} :
           sender \in setup.masks}

(* 'migrate': the best migrant against the worst member, and so on; one    *)
(* that scores higher takes the place and is given this island's mask.     *)
Enters(ranks, batch, k) ==
    /\ ranks[k] <= setup.migrants
    /\ Score(batch[ranks[k]]) > Score(pop[k])
Migrate ==
    /\ setup.migrants > 0
    /\ LET ranks == Ranks
       IN \E batch \in Batches :
              pop' = [k \in Slots |-> IF Enters(ranks, batch, k)
                                     THEN ApplyFrozen(batch[ranks[k]], mask) ELSE pop[k]]
    /\ UNCHANGED <<setup, mask>>

(* triggerHypermutation: the weakest make way for random individuals.      *)
Fresh == {ApplyFrozen(g, mask) : g \in RandomIndividual(setup.params, setup.constraints)}
Immigrants == Lower(setup.size \div 4, Higher(0, setup.size - setup.elite))
Hypermutate ==
    /\ LET weakest == {k \in Slots : Ranks[k] <= Immigrants}
       IN IF weakest = {} THEN pop' = pop
          ELSE \E fresh \in [weakest -> Fresh] :
                   pop' = [k \in Slots |-> IF k \in weakest THEN fresh[k] ELSE pop[k]]
    /\ UNCHANGED <<setup, mask>>

Next == Mutation \/ Crossover \/ Migrate \/ Hypermutate
Spec == Init /\ [][Next]_vars

-----------------------------------------------------------------------------
(* Every individual of a planet with a knockout carries the frozen values, *)
(* whatever mutation, crossover, repair, migration from a planet with      *)
(* another mask, or hypermutation did to it.                               *)
FrozenGenesHold == \A k \in Slots : \A x \in DOMAIN mask : pop[k][x] = mask[x]

(* A run without knockouts only evaluates genes that satisfy every         *)
(* constraint that one pass over the constraints settles, the single pass  *)
(* that every operator makes.  A constraint with a pinned side is not one: *)
(* enforceConstraints skips it, and the genes may violate it.              *)
UnfrozenIsFeasible(settled) ==
    setup.masks = {NoMask} =>
        \A n \in settled, k \in Slots : Satisfied(pop[k], setup.constraints[n])

(* Migration and hypermutation never cost an island its best individual,   *)
(* although a migrant's score was computed under another mask.             *)
BestSurvives == [][Best(pop') >= Best(pop)]_vars
=============================================================================
