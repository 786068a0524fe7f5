----------------------------- MODULE ParamSpace -----------------------------
(***************************************************************************)
(* The parameter space of the genetic algorithm: optimizer/param-space.js  *)
(* for a spec, optimizer/params.js for the legacy strategy.                *)
(*                                                                         *)
(* Values are in hundredths.  A parameter is [type, min, max, step, unit], *)
(* unit being the precision its values are rounded to; a space is a        *)
(* function from ids to parameters; a gene a function from the same ids to *)
(* values.  A constraint is [form, lhs, rhs, ...]: "spec" for those of a   *)
(* spec, "order" and "sum" for those of the legacy strategy.  A constraint *)
(* of a spec may name a value that is pinned: a space and its genes do not *)
(* have it.                                                                *)
(***************************************************************************)
EXTENDS Integers, Sequences

(* Math.round on a value divided by u, times u: halves round up.           *)
RoundTo(v, u) == ((2 * v + u) \div (2 * u)) * u

(* roundToStep: 10^ceil(-log10(step)) steps per 1.  A step of 0.25 has one *)
(* digit, so its grid is rounded to tenths.                                *)
StepUnit(step) == IF step >= 100 THEN 100 ELSE IF step >= 10 THEN 10 ELSE 1

SpecParam(type, min, max, step) ==
    [type |-> type, min |-> min, max |-> max, step |-> step,
     unit |-> IF type = "int" THEN 100 ELSE StepUnit(step)]

LegacyParam(type, min, max, step) ==
    [type |-> type, min |-> min, max |-> max, step |-> step,
     unit |-> IF type = "int" THEN 100 ELSE 1]

Clamp(v, p) ==
    LET c == IF v < p.min THEN p.min ELSE IF v > p.max THEN p.max ELSE v
    IN RoundTo(RoundTo(c - p.min, p.step) + p.min, p.unit)

(* The outcomes of randomParam.                                            *)
RandomParam(p) ==
    {RoundTo(p.min + k * p.step, p.unit) : k \in 0 .. RoundTo(p.max - p.min, p.step) \div p.step}

(* pickFrozenValue in the mode 'midpoint', which rounds to hundredths.     *)
Midpoint(p) == RoundTo(RoundTo((p.max - p.min) \div 2, p.step) + p.min,
                       IF p.type = "int" THEN 100 ELSE 1)

Holds(a, op, b) ==
    CASE op = "<"  -> a < b
      [] op = "<=" -> a <= b
      [] op = ">"  -> a > b
      [] op = ">=" -> a >= b
      [] op = "!=" -> a # b

(* shiftToSatisfy: the value nearest to self that stands on the right side *)
(* of fixed; op reads from self to fixed when self is the left-hand side.  *)
Lower(a, b) == IF a < b THEN a ELSE b
Higher(a, b) == IF a > b THEN a ELSE b
ShiftLhs(self, fixed, op, step) ==
    CASE op = "<"  -> Lower(fixed - step, self)
      [] op = "<=" -> Lower(fixed, self)
      [] op = ">"  -> Higher(fixed + step, self)
      [] op = ">=" -> Higher(fixed, self)
      [] op = "!=" -> self + step
ShiftRhs(self, fixed, op, step) ==
    CASE op = "<"  -> Higher(fixed + step, self)
      [] op = "<=" -> Higher(fixed, self)
      [] op = ">"  -> Lower(fixed - step, self)
      [] op = ">=" -> Lower(fixed, self)
      [] op = "!=" -> self + step

Rhs(g, c) == IF c.literal THEN c.rhs ELSE g[c.rhs]

(* The ids a constraint relates.                                           *)
Sides(c) == IF c.form = "spec" /\ c.literal THEN {c.lhs} ELSE {c.lhs, c.rhs}

(* One constraint of a spec, repaired on the side it names; one with a     *)
(* pinned side is skipped.                                                 *)
RepairSpec(ps, g, c) ==
    IF ~(Sides(c) \subseteq DOMAIN g) THEN g
    ELSE IF Holds(g[c.lhs], c.op, Rhs(g, c)) THEN g
    ELSE IF c.repair = "clamp-rhs" /\ ~c.literal
         THEN [g EXCEPT ![c.rhs] = Clamp(ShiftRhs(@, g[c.lhs], c.op, ps[c.rhs].step), ps[c.rhs])]
         ELSE [g EXCEPT ![c.lhs] = Clamp(ShiftLhs(@, Rhs(g, c), c.op, ps[c.lhs].step), ps[c.lhs])]

(* emaFast < emaSlow, tp1Mult < tp2Mult < tp3Mult: the right-hand side is  *)
(* moved to a margin above the left-hand side.                             *)
RepairOrder(ps, g, c) ==
    IF g[c.lhs] < g[c.rhs] THEN g
    ELSE [g EXCEPT ![c.rhs] = Clamp(g[c.lhs] + c.margin, ps[c.rhs])]

(* tp1Pct + tp2Pct <= 90.                                                  *)
RepairSum(ps, g, c) ==
    IF g[c.lhs] + g[c.rhs] <= c.limit THEN g
    ELSE [g EXCEPT ![c.rhs] = Clamp(c.limit - g[c.lhs], ps[c.rhs])]

Repair(ps, g, c) ==
    CASE c.form = "spec"  -> RepairSpec(ps, g, c)
      [] c.form = "order" -> RepairOrder(ps, g, c)
      [] c.form = "sum"   -> RepairSum(ps, g, c)

(* enforceConstraints: one pass, in the order of the constraints.          *)
Enforce(ps, cs, g) ==
    LET pass[n \in 0 .. Len(cs)] == IF n = 0 THEN g ELSE Repair(ps, pass[n - 1], cs[n])
    IN pass[Len(cs)]

Satisfied(g, c) ==
    CASE c.form = "spec"  -> Holds(g[c.lhs], c.op, Rhs(g, c))
      [] c.form = "order" -> g[c.lhs] < g[c.rhs]
      [] c.form = "sum"   -> g[c.lhs] + g[c.rhs] <= c.limit

(* The genes before repair, and the outcomes of randomIndividual.          *)
RawGenes(ps) ==
    {g \in [DOMAIN ps -> UNION {RandomParam(ps[x]) : x \in DOMAIN ps}] :
        \A x \in DOMAIN ps : g[x] \in RandomParam(ps[x])}
RandomIndividual(ps, cs) == {Enforce(ps, cs, g) : g \in RawGenes(ps)}

(* Mutant of Crossed: the child is not repaired.                           *)
CrossedUnrepaired(ps, cs, a, b) ==
    {[x \in DOMAIN ps |-> IF x \in fromA THEN a[x] ELSE b[x]] : fromA \in SUBSET DOMAIN ps}

(* crossover: every value from one of the two parents.                     *)
Crossed(ps, cs, a, b) ==
    {Enforce(ps, cs, [x \in DOMAIN ps |-> IF x \in fromA THEN a[x] ELSE b[x]]) :
        fromA \in SUBSET DOMAIN ps}

(* applyFrozen: a mask is a function from some of the ids to values.       *)
ApplyFrozen(g, mask) == [x \in DOMAIN g |-> IF x \in DOMAIN mask THEN mask[x] ELSE g[x]]

(* mutate of the worker: up to three steps either way in the values that   *)
(* the mask leaves free, then repair, then the mask.                       *)
MutateRaw(ps, g, shift) ==
    [x \in DOMAIN ps |-> IF shift[x] = 0 THEN g[x] ELSE Clamp(g[x] + shift[x] * ps[x].step, ps[x])]
Mutated(ps, cs, mask, g) ==
    {ApplyFrozen(Enforce(ps, cs, MutateRaw(ps, g, shift)), mask) :
        shift \in {s \in [DOMAIN ps -> -3 .. 3] : \A x \in DOMAIN mask : s[x] = 0}}

(* frozenRandomIndividual and frozenCrossover of the worker.               *)
FrozenIndividuals(ps, cs, mask) ==
    {ApplyFrozen(Enforce(ps, cs, ApplyFrozen(g, mask)), mask) : g \in RandomIndividual(ps, cs)}
FrozenCrossed(ps, cs, mask, a, b) == {ApplyFrozen(g, mask) : g \in Crossed(ps, cs, a, b)}

-----------------------------------------------------------------------------
(* What makes a space and a constraint on it: the ranges are not empty,    *)
(* and a constraint names parameters of the space or, between two          *)
(* parameters of a spec, pinned ones.                                      *)
IsParam(p) ==
    /\ {p.min, p.max} \subseteq Int /\ p.min <= p.max
    /\ {p.step, p.unit} \subseteq Nat \ {0}
IsConstraint(ps, c) ==
    /\ c.form \in {"spec", "order", "sum"}
    /\ c.form = "spec" => /\ c.op \in {"<", "<=", ">", ">=", "!="} /\ c.literal \in BOOLEAN
                          /\ c.literal => c.lhs \in DOMAIN ps /\ c.rhs \in Int
    /\ c.form # "spec" => {c.lhs, c.rhs} \subseteq DOMAIN ps
    /\ c.form = "order" => c.margin \in Int
    /\ c.form = "sum" => c.limit \in Int

(* The genes of a space whose values are those of randomParam or those a   *)
(* mask freezes them to.                                                   *)
GenesOf(ps, masks) ==
    LET values == [x \in DOMAIN ps |->
                      RandomParam(ps[x]) \union {m[x] : m \in {n \in masks : x \in DOMAIN n}}]
    IN {g \in [DOMAIN ps -> UNION {values[x] : x \in DOMAIN ps}] :
           \A x \in DOMAIN ps : g[x] \in values[x]}

(* The n-th constraint is one that a single pass settles: the space has    *)
(* its sides, its repair satisfies it, whatever the gene, and no repair of *)
(* a later constraint undoes that.  A range without room for the repair, a *)
(* grid that misses the literal, or a later constraint that moves the same *)
(* value the other way leave it open.                                      *)
Settled(ps, cs, n) ==
    LET genes == GenesOf(ps, {<< >>})
    IN /\ Sides(cs[n]) \subseteq DOMAIN ps
       /\ \A g \in genes : Satisfied(Repair(ps, g, cs[n]), cs[n])
       /\ \A m \in n + 1 .. Len(cs) : \A g \in genes :
              Satisfied(g, cs[n]) => Satisfied(Repair(ps, g, cs[m]), cs[n])
SettledOf(ps, cs) == {n \in DOMAIN cs : Settled(ps, cs, n)}
=============================================================================
