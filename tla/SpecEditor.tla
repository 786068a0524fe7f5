----------------------------- MODULE SpecEditor -----------------------------
(***************************************************************************)
(* The spec editor of the page (ui/app.js) and the endpoints behind it:    *)
(* the form is filled from a file, edited, and read back into the spec     *)
(* that is posted, validated, completed and written (api/routes.js,        *)
(* engine/spec.js).                                                        *)
(*                                                                         *)
(* A spec is [name, slots, entries, filters, mode, threshold, fmode,       *)
(* fitness, other]; a block reference is [block, instance, params]; params *)
(* has an entry for some of the block's parameters, <<value>> or           *)
(* <<min, max, step>>.  A fitness section is [weights, ret, rest, extras]: *)
(* the three weights, the cap of the return, the other cap with the gates, *)
(* and the fields without a control; each may be left out.  other stands   *)
(* for the constraints and the settings of the walk-forward, which the     *)
(* form has no control for.                                                *)
(***************************************************************************)
EXTENDS Integers, Sequences, SequencesExt

CONSTANTS Registry,    \* id -> [kind, needsStop, params : id -> [min, max, step]]
          Files,       \* name -> spec: the specs in strategies/ at first
          Typed,       \* what is typed into a number input
          MaxSteps     \* clicks of the user

VARIABLES blocks,      \* the ids of the blocks the page knows
          defaults,    \* the cap of the return that Reset writes
          awaited,     \* the answers still to come of "blocks", "defaults"
          form,        \* the controls
          current,     \* the file the form was loaded from or saved to
          files,       \* strategies/
          net,         \* requests and answers on their way
          steps,
          origin       \* history: the spec loaded, as long as nothing is edited

vars == <<blocks, defaults, awaited, form, current, files, net, steps, origin>>

None == "none"
Blank == -1
NoSpec == [name |-> None]
Slots == {"regime", "hardStop", "target", "trail", "sizing"}
NoParams == [x \in {} |-> 0]
NoFitness == [rest |-> None]
NoRef == [block |-> None, instance |-> None, params |-> NoParams]
Main == "main"
DefaultFitness ==
    [weights |-> <<50, 30, 20>>, ret |-> 100, rest |-> "default", extras |-> "default"]

(* The settings written in the page are those of the server but for one.   *)
PageRet == 200

(* The form of a spec: validateSpec, up to what its blocks permit.         *)
IsList(l) == Len(l) \in Nat /\ l = [n \in 1 .. Len(l) |-> l[n]]
IsEntry(entry) == entry \in Seq(Int) /\ Len(entry) \in {1, 3}
IsRef(ref) ==
    /\ ref = [block |-> ref.block, instance |-> ref.instance, params |-> ref.params]
    /\ ref.block \in DOMAIN Registry
    /\ \A x \in DOMAIN ref.params : IsEntry(ref.params[x])
IsSpec(o) ==
    /\ o = [name |-> o.name, slots |-> o.slots, entries |-> o.entries, filters |-> o.filters,
            mode |-> o.mode, threshold |-> o.threshold, fmode |-> o.fmode,
            fitness |-> o.fitness, other |-> o.other]
    /\ o.slots = [s \in Slots |-> o.slots[s]]
    /\ \A s \in Slots : o.slots[s] = NoRef \/ IsRef(o.slots[s])
    /\ IsList(o.entries) /\ \A n \in DOMAIN o.entries : IsRef(o.entries[n])
    /\ IsList(o.filters) /\ \A n \in DOMAIN o.filters : IsRef(o.filters[n])
    /\ o.mode \in {"all", "any", "score", None}
    /\ IF o.mode = "score" THEN IsEntry(o.threshold) ELSE o.threshold = << >>
    /\ \/ o.fitness = NoFitness
       \/ /\ o.fitness = [weights |-> o.fitness.weights, ret |-> o.fitness.ret,
                          rest |-> o.fitness.rest, extras |-> o.fitness.extras]
          /\ o.fitness.weights \in [1 .. 3 -> Int]

Params(b) == IF b \in blocks THEN Registry[b].params ELSE NoParams
OfKind(kind) == {b \in blocks : Registry[b].kind = kind}
SetSelect(options, value) == IF value \in options THEN value ELSE None

-----------------------------------------------------------------------------
(* The row of controls of a parameter, and what is read from it.           *)
IsPinned(entry) == Len(entry) = 1
Midpoint(p) == (p.min + p.max + 1) \div 2
RowOf(p, entry) ==
    CASE entry = << >>   -> [pin |-> FALSE, min |-> p.min, max |-> p.max, step |-> p.step, value |-> Midpoint(p)]
      [] IsPinned(entry) -> [pin |-> TRUE, min |-> p.min, max |-> p.max, step |-> p.step, value |-> entry[1]]
      [] OTHER           -> [pin |-> FALSE, min |-> entry[1], max |-> entry[2], step |-> entry[3], value |-> Midpoint(p)]

Clamp(v, p) == IF v = Blank THEN Blank ELSE IF v < p.min THEN p.min ELSE IF v > p.max THEN p.max ELSE v
Or(v, fallback) == IF v = Blank THEN fallback ELSE v
ReadRow(p, row) ==
    LET mn == Clamp(row.min, p)
        mx == Clamp(row.max, p)
    IN IF row.pin THEN <<Or(Clamp(row.value, p), p.min)>>
       ELSE IF mn # Blank /\ mn = mx THEN <<mn>>
       ELSE <<Or(mn, p.min), Or(mx, p.max), IF row.step > 0 THEN row.step ELSE p.step>>

Entry(params, x) == IF x \in DOMAIN params THEN params[x] ELSE << >>
Rendered(b, params) ==
    [block |-> b, rows |-> [x \in DOMAIN Params(b) |-> RowOf(Params(b)[x], Entry(params, x))]]
BlockRef(picked) ==
    IF picked.block \notin blocks THEN NoRef
    ELSE [block |-> picked.block, instance |-> Main,
          params |-> [x \in DOMAIN Params(picked.block) |->
                         ReadRow(Params(picked.block)[x],
                                 IF x \in DOMAIN picked.rows THEN picked.rows[x]
                                 ELSE RowOf(Params(picked.block)[x], << >>))]]

(* A field of the spec that is read from the form.                         *)
ReadRows(rows) ==
    LET read[n \in 0 .. Len(rows)] ==
            IF n = 0 THEN << >>
            ELSE IF BlockRef(rows[n]) = NoRef THEN read[n - 1] ELSE Append(read[n - 1], BlockRef(rows[n]))
    IN read[Len(rows)]
Threshold ==
    LET mn == IF form.thrMin > 0 THEN form.thrMin ELSE 1
        mx == IF form.thrMax > 0 THEN form.thrMax ELSE mn
    IN IF form.mode # "score" THEN << >> ELSE IF mn = mx THEN <<mn>> ELSE <<mn, mx, 1>>
BuildSpecFromUi ==
    [name |-> form.name, slots |-> [s \in Slots |-> BlockRef(form.slots[s])],
     entries |-> ReadRows(form.entries), filters |-> ReadRows(form.filters),
     mode |-> form.mode, threshold |-> Threshold, fmode |-> form.fmode,
     fitness |-> [weights |-> form.weights, ret |-> Or(form.ret, defaults),
                  rest |-> form.rest, extras |-> form.extras],
     other |-> "default"]

-----------------------------------------------------------------------------
(* The sliders of the weights have 20 notches.                             *)
Snap(w) == ((w + 2) \div 5) * 5
Snapped(weights) == [k \in 1 .. 3 |-> Snap(weights[k])]

(* Weights and settings that are left out.                                 *)
AllWeights(fitness) == [k \in 1 .. 3 |-> Or(fitness.weights[k], DefaultFitness.weights[k])]
AllRest(fitness) == IF fitness.rest = None THEN DefaultFitness.rest ELSE fitness.rest

(* Mutant of WithFitness: the fields without a control stay.               *)
WithFitnessAndExtras(f, fitness) ==
    IF fitness = NoFitness THEN f
    ELSE [f EXCEPT !.weights = Snapped(AllWeights(fitness)), !.ret = Or(fitness.ret, PageRet),
                   !.rest = AllRest(fitness),
                   !.extras = IF fitness.extras = None THEN @ ELSE fitness.extras]

(* A file without a fitness section leaves the inputs as they are.         *)
WithFitness(f, fitness) ==
    IF fitness = NoFitness THEN [f EXCEPT !.extras = None]
    ELSE [f EXCEPT !.weights = Snapped(AllWeights(fitness)), !.ret = Or(fitness.ret, PageRet),
                   !.rest = AllRest(fitness), !.extras = fitness.extras]

RowFor(kind, ref) ==
    LET b == SetSelect(OfKind(kind), ref.block) IN Rendered(b, ref.params)
LoadSpecIntoEditor(spec) ==
    LET base == [form EXCEPT
            !.name = spec.name,
            !.slots = [s \in Slots |-> Rendered(spec.slots[s].block, spec.slots[s].params)],
            !.entries = [n \in DOMAIN spec.entries |-> RowFor("entry", spec.entries[n])],
            !.filters = [n \in DOMAIN spec.filters |-> RowFor("filter", spec.filters[n])],
            !.mode = SetSelect({"all", "any", "score"}, spec.mode),
            !.fmode = SetSelect({"all", "any"}, spec.fmode),
            !.thrMin = IF spec.mode = "score" THEN spec.threshold[1] ELSE @,
            !.thrMax = IF spec.mode = "score"
                       THEN spec.threshold[IF IsPinned(spec.threshold) THEN 1 ELSE 2] ELSE @]
    IN WithFitness(base, spec.fitness)

FirstSizing == IF "flat" \in OfKind("sizing") THEN "flat" ELSE None
Emptied == [block |-> None, rows |-> NoParams]
WithDefaults(f) ==
    [f EXCEPT !.weights = DefaultFitness.weights, !.ret = defaults, !.rest = DefaultFitness.rest]
ResetForm ==
    WithDefaults([form EXCEPT
        !.name = None, !.entries = << >>, !.filters = << >>, !.mode = "all", !.fmode = "all",
        !.thrMin = 1, !.thrMax = 1, !.extras = None,
        !.slots = [s \in Slots |-> IF s = "sizing" THEN Rendered(FirstSizing, NoParams) ELSE Emptied]])

-----------------------------------------------------------------------------
(* The server: validateSpec, normalizeSpec.                                *)
FitsRange(entry, p) ==
    \/ entry = << >>
    \/ IsPinned(entry) /\ entry[1] \in p.min .. p.max /\ (entry[1] - p.min) % p.step = 0
    \/ /\ Len(entry) = 3
       /\ p.min <= entry[1] /\ entry[1] < entry[2] /\ entry[2] <= p.max
       /\ entry[3] > 0 /\ entry[3] % p.step = 0
ValidRef(ref, kind) ==
    /\ Registry[ref.block].kind = kind
    /\ \A x \in DOMAIN ref.params : x \in DOMAIN Registry[ref.block].params
           /\ FitsRange(ref.params[x], Registry[ref.block].params[x])
SumOf(weights) == Or(weights[1], 0) + Or(weights[2], 0) + Or(weights[3], 0)
Valid(spec) ==
    /\ spec.name # None
    /\ \A s \in Slots : spec.slots[s] # NoRef => ValidRef(spec.slots[s], s)
    /\ spec.entries # << >> /\ \A n \in DOMAIN spec.entries : ValidRef(spec.entries[n], "entry")
    /\ \A n \in DOMAIN spec.filters : ValidRef(spec.filters[n], "filter")
    /\ spec.mode # None /\ spec.fmode # None
    /\ spec.mode = "score" => spec.threshold # << >>
           /\ FitsRange(spec.threshold, [min |-> 1, max |-> 100, step |-> 1])
    /\ spec.slots.sizing # NoRef
    /\ \E s \in {"hardStop", "target", "trail"} : spec.slots[s] # NoRef
    /\ Registry[spec.slots.sizing.block].needsStop => spec.slots.hardStop # NoRef
    /\ spec.fitness # NoFitness =>
           /\ SumOf(spec.fitness.weights) \in {0} \union 99 .. 101
           /\ spec.fitness.ret = Blank \/ spec.fitness.ret > 0
Completed(fitness) ==
    IF fitness = NoFitness THEN DefaultFitness
    ELSE [weights |-> AllWeights(fitness), ret |-> Or(fitness.ret, DefaultFitness.ret),
          rest |-> AllRest(fitness),
          extras |-> IF fitness.extras = None THEN DefaultFitness.extras ELSE fitness.extras]
Normalized(spec) == [spec EXCEPT !.fitness = Completed(@)]

-----------------------------------------------------------------------------
(* The initial controls are those of index.html.                           *)
Init ==
    /\ blocks = {} /\ defaults = PageRet /\ awaited = {"blocks", "defaults"}
    /\ form = [name |-> None, slots |-> [s \in Slots |-> Emptied], entries |-> << >>, filters |-> << >>,
               mode |-> "score", fmode |-> "all", thrMin |-> 1, thrMax |-> 3,
               weights |-> DefaultFitness.weights, ret |-> PageRet, rest |-> DefaultFitness.rest,
               extras |-> None]
    /\ current = None /\ files = Files /\ net = {} /\ steps = 0 /\ origin = NoSpec

(* populateSpecEditorPickers: a value stays if it is an option, and the    *)
(* parameters of the fixed pickers are rendered anew.                      *)
Options(s, known) == {b \in known : Registry[b].kind = s}
Repicked(s, known) ==
    LET kept == SetSelect(Options(s, known), form.slots[s].block)
    IN IF kept # None \/ s # "sizing" THEN kept ELSE SetSelect(Options(s, known), "flat")
BlocksArrive ==
    /\ "blocks" \in awaited /\ awaited' = awaited \ {"blocks"}
    /\ \E known \in {DOMAIN Registry, {}} :
           /\ blocks' = known
           /\ form' = [form EXCEPT !.slots = [s \in Slots |->
                  LET b == Repicked(s, known)
                  IN [block |-> b,
                      rows |-> IF b = None THEN NoParams
                               ELSE [x \in DOMAIN Registry[b].params |-> RowOf(Registry[b].params[x], << >>)]]]]
    /\ origin' = NoSpec
    /\ UNCHANGED <<defaults, current, files, net, steps>>

(* loadFitnessDefaults fills the inputs; when the request fails, with the  *)
(* settings that are written in the page.                                  *)
DefaultsArrive ==
    /\ "defaults" \in awaited /\ awaited' = awaited \ {"defaults"}
    /\ defaults' \in {PageRet, DefaultFitness.ret}
    /\ form' = [WithDefaults(form) EXCEPT !.ret = defaults'] /\ origin' = NoSpec
    /\ UNCHANGED <<blocks, current, files, net, steps>>

Click == steps < MaxSteps /\ steps' = steps + 1

(* The picker's first option is "new spec".                                *)
ClickReset ==
    /\ Click
    /\ form' = ResetForm /\ current' = None /\ origin' = NoSpec
    /\ UNCHANGED <<blocks, defaults, awaited, files, net>>

ClickLoad ==
    /\ Click
    /\ \E f \in {x \in DOMAIN files : files[x] # NoSpec} : net' = net \union {[type |-> "load", file |-> f]}
    /\ UNCHANGED <<blocks, defaults, awaited, form, current, files, origin>>

Serve(m, answer) == net' = (net \ {m}) \union {answer}
ServeLoad ==
    /\ \E m \in net :
           /\ m.type = "load"
           /\ Serve(m, [type |-> "loaded", file |-> m.file, spec |-> files[m.file]])
    /\ UNCHANGED <<blocks, defaults, awaited, form, current, files, steps, origin>>

Loaded ==
    /\ \E m \in net :
           /\ m.type = "loaded" /\ net' = net \ {m}
           /\ form' = LoadSpecIntoEditor(m.spec)
           /\ current' = m.file
           /\ origin' = IF awaited = {} /\ blocks # {} THEN m.spec ELSE NoSpec
    /\ UNCHANGED <<blocks, defaults, awaited, files, steps>>

(* Everything that changes a control.                                      *)
Retyped(row, p) ==
    {[row EXCEPT !.pin = ~@], RowOf(p, << >>),
     [row EXCEPT !.min = Clamp(@, p)], [row EXCEPT !.max = Clamp(@, p)], [row EXCEPT !.value = Clamp(@, p)]}
        \union UNION {{[row EXCEPT !.min = v], [row EXCEPT !.max = v],
                       [row EXCEPT !.step = v], [row EXCEPT !.value = v]} : v \in Typed}
Repainted(picked) ==
    UNION {{[picked EXCEPT !.rows[x] = row] : row \in Retyped(picked.rows[x], Params(picked.block)[x])} :
           x \in DOMAIN picked.rows}
EditedSlots ==
    UNION {{[form EXCEPT !.slots[s] = picked] :
               picked \in Repainted(form.slots[s]) \union {Rendered(b, NoParams) : b \in Options(s, blocks)}
                              \union (IF s = "sizing" THEN {} ELSE {Emptied})} : s \in Slots}
Kind(l) == IF l = "entries" THEN "entry" ELSE "filter"
EditedList(l) ==
    {[form EXCEPT ![l] = Append(@, Emptied)]}
        \union {[form EXCEPT ![l] = RemoveAt(@, n)] : n \in DOMAIN form[l]}
        \union UNION {{[form EXCEPT ![l][n] = picked] :
                          picked \in Repainted(form[l][n])
                                         \union {Rendered(b, NoParams) : b \in OfKind(Kind(l))}} :
                      n \in DOMAIN form[l]}
EditedRest ==
    {[form EXCEPT !.name = f] : f \in DOMAIN files}
        \union {[form EXCEPT !.mode = m] : m \in {"all", "any", "score"}}
        \union {[form EXCEPT !.fmode = m] : m \in {"all", "any"}}
        \union (UNION {{[form EXCEPT !.thrMin = v], [form EXCEPT !.thrMax = v]} : v \in Typed})
        \union {[form EXCEPT !.ret = v] : v \in Typed}
        \union {WithDefaults(form), [form EXCEPT !.weights = <<40, 40, 20>>, !.rest = "edited"]}
Edit ==
    /\ Click
    /\ form' \in EditedSlots \union EditedList("entries") \union EditedList("filters") \union EditedRest
    /\ origin' = NoSpec
    /\ UNCHANGED <<blocks, defaults, awaited, current, files, net>>

(* Save As asks for a new name when the spec would go to the loaded file.  *)
Post(saveAs, confirmed, others) ==
    \E name \in IF saveAs /\ current # None /\ form.name = current THEN DOMAIN files ELSE {form.name} :
        /\ form' = [form EXCEPT !.name = name]
        /\ origin' = IF name = form.name THEN origin ELSE NoSpec
        /\ net' = others \union
               {[type |-> "save", spec |-> [BuildSpecFromUi EXCEPT !.name = name], saveAs |-> saveAs,
                 overwrite |-> confirmed \/ (~saveAs /\ current # None)]}
ClickSave ==
    /\ Click
    /\ \E saveAs \in BOOLEAN : Post(saveAs, FALSE, net)
    /\ UNCHANGED <<blocks, defaults, awaited, current, files>>

ServeSave ==
    /\ \E m \in net :
           /\ m.type = "save"
           /\ IF ~Valid(m.spec)
              THEN Serve(m, [type |-> "rejected"]) /\ files' = files
              ELSE IF files[m.spec.name] # NoSpec /\ ~m.overwrite
              THEN Serve(m, [type |-> "conflict", saveAs |-> m.saveAs]) /\ files' = files
              ELSE /\ Serve(m, [type |-> "saved", file |-> m.spec.name])
                   /\ files' = [files EXCEPT ![m.spec.name] = Normalized(m.spec)]
    /\ UNCHANGED <<blocks, defaults, awaited, form, current, steps, origin>>

(* The answer names the file, whatever is in the form by now.              *)
Saved ==
    /\ \E m \in net : m.type = "saved" /\ net' = net \ {m} /\ current' = m.file
    /\ UNCHANGED <<blocks, defaults, awaited, form, files, steps, origin>>
Rejected ==
    /\ \E m \in net : m.type = "rejected" /\ net' = net \ {m}
    /\ UNCHANGED <<blocks, defaults, awaited, form, current, files, steps, origin>>

(* confirm(): the form is read again.                                      *)
Confirmed ==
    /\ \E m \in net : m.type = "conflict" /\ Post(m.saveAs, TRUE, net \ {m})
    /\ UNCHANGED <<blocks, defaults, awaited, current, files, steps>>
Declined ==
    /\ \E m \in net : m.type = "conflict" /\ net' = net \ {m}
    /\ UNCHANGED <<blocks, defaults, awaited, form, current, files, steps, origin>>

Next ==
    \/ BlocksArrive \/ DefaultsArrive \/ ClickReset \/ ClickLoad \/ ServeLoad \/ Loaded
    \/ Edit \/ ClickSave \/ ServeSave \/ Saved \/ Rejected \/ Confirmed \/ Declined
Spec == Init /\ [][Next]_vars

-----------------------------------------------------------------------------
(* What a spec means: a parameter that is left out has the range that the  *)
(* block declares, and a fitness section its defaults.                     *)
Declared(p) == IF p.min = p.max THEN <<p.min>> ELSE <<p.min, p.max, p.step>>
MeaningOf(ref) ==
    IF ref = NoRef THEN ref
    ELSE LET ps == Registry[ref.block].params
         IN [ref EXCEPT !.params = [x \in DOMAIN ps |->
                IF x \in DOMAIN ref.params THEN ref.params[x] ELSE Declared(ps[x])]]
Meaning(spec) ==
    [Normalized(spec) EXCEPT !.slots = [s \in Slots |-> MeaningOf(spec.slots[s])],
                             !.entries = [n \in DOMAIN @ |-> MeaningOf(@[n])],
                             !.filters = [n \in DOMAIN @ |-> MeaningOf(@[n])],
                             !.other = "default"]

(* What the controls of the form can tell of a spec.  Every instance is    *)
(* called main, the filters have no score and the threshold a step of 1;   *)
(* the sliders have notches, and weights of which one is left out are      *)
(* filled up to a sum that the server rejects.                             *)
TellsBlocks(spec) ==
    /\ \A s \in Slots : spec.slots[s] # NoRef => spec.slots[s].instance = Main
    /\ \A n \in DOMAIN spec.entries : spec.entries[n].instance = Main
    /\ \A n \in DOMAIN spec.filters : spec.filters[n].instance = Main
    /\ spec.fmode \in {"all", "any"}
    /\ spec.mode = "score" /\ ~IsPinned(spec.threshold) => spec.threshold[3] = 1
TellsWeights(spec) ==
    /\ spec.fitness # NoFitness
    /\ \/ spec.fitness.weights = Snapped(spec.fitness.weights)
       \/ \A k \in 1 .. 3 : spec.fitness.weights[k] = Blank
Representable(spec) == TellsBlocks(spec) /\ TellsWeights(spec) /\ spec.fitness.ret # Blank

(* Once the page has the blocks and the defaults, a spec that the form can *)
(* tell and that is loaded and not edited would be saved with the meaning  *)
(* it has, and the server would accept it, whatever was loaded, edited or  *)
(* saved before, and in whatever order answers come; only constraints and  *)
(* walk-forward settings are lost.                                         *)
SaveKeepsTheSpec ==
    origin # NoSpec /\ Representable(origin) =>
        /\ Meaning(BuildSpecFromUi) = Meaning(origin)
        /\ Valid(BuildSpecFromUi)

(* DOES NOT HOLD.  The settings of the page are "the same values           *)
(* engine/spec.js defines" (ui/app.js 3410): a cap of the return that a    *)
(* file leaves out is filled with 2.0 (app.js 3828), and means 1.0 to the  *)
(* server (spec.js 86).                                                    *)
OmittedCapStays ==
    origin # NoSpec /\ TellsBlocks(origin) /\ TellsWeights(origin) =>
        Meaning(BuildSpecFromUi) = Meaning(origin)
=============================================================================
