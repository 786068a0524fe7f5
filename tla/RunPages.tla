------------------------------- MODULE RunPages -------------------------------
(***************************************************************************)
(* The detail page and the compare page of the browser (ui/app.js).        *)
(*                                                                         *)
(* A run is opened: the page is blanked and the run is asked for.          *)
(* "Recalculate" and the sizing toggle ask for its trades, "Generate Pine" *)
(* for its script.  Each answer is written to the page when it arrives,    *)
(* whatever has been opened or chosen since.  The compare page does the    *)
(* same with two runs at a time.                                           *)
(*                                                                         *)
(* hurried says that the user did something while an answer was out that   *)
(* the answer does not account for.  Which page is displayed is left out.  *)
(***************************************************************************)
EXTENDS Integers, Sequences, SequencesExt

CONSTANTS Kinds,       \* per run: spec (it has a spec_hash), gene (it has a best
                       \* gene), traded (its trade list is not empty), scheme (of
                       \* its walk-forward report, or Nothing)
          Sizings,
          MaxAsked,    \* bound: requests in flight
          MaxErrors    \* bound: requests that fail

VARIABLES
    detail,          \* the detail page: the run it is open for and what it shows
    detailSizing,    \* the sizing toggle
    pair,            \* the compare page: the runs in its title and what it shows
    requests,        \* what is in flight
    errors,          \* failures so far
    hurried

vars == <<detail, detailSizing, pair, requests, errors, hurried>>

Nothing == "nothing"
Runs == DOMAIN Kinds

(* Trades are told apart by the run and the sizing they were computed with:*)
(* a run with a spec is sized by its spec, whatever is asked for.          *)
SizingOf(run, asked) == IF Kinds[run].spec THEN "own" ELSE asked
View(run, asked) == <<run, SizingOf(run, asked)>>
NoView == << >>

Asked(what, run, sizing) == [what |-> what, run |-> run, sizing |-> sizing]
Ask(request) == Len(requests) < MaxAsked /\ requests' = Append(requests, request)
Out(what) == \E i \in DOMAIN requests : requests[i].what = what

Init ==
    /\ detail = [run |-> Nothing, title |-> Nothing, params |-> Nothing, cards |-> Nothing,
                 metrics |-> NoView, trades |-> NoView, table |-> NoView, charts |-> NoView,
                 recalc |-> TRUE, pine |-> TRUE, source |-> Nothing]
    /\ detailSizing \in Sizings
    /\ pair = [title |-> << >>, columns |-> << >>, missing |-> {}, mismatch |-> FALSE]
    /\ requests = << >>
    /\ errors = 0
    /\ hurried = FALSE

-----------------------------------------------------------------------------
(* The detail page.  Opening a run blanks everything but the Pine button   *)
(* and its result, which wait for the answer.                              *)
BlankedKeepingTrades(run) ==                            \* mutant of Blanked
    [detail EXCEPT !.run = run, !.title = "loading", !.params = Nothing, !.cards = Nothing,
                   !.metrics = NoView, !.table = NoView, !.charts = NoView, !.recalc = TRUE]

Blanked(run) ==
    [detail EXCEPT !.run = run, !.title = "loading", !.params = Nothing, !.cards = Nothing,
                   !.metrics = NoView, !.trades = NoView, !.table = NoView,
                   !.charts = NoView, !.recalc = TRUE]

OpenRunDetail(run) ==
    /\ detail' = Blanked(run)
    /\ hurried' = (requests # << >>)
    /\ Ask(Asked("run", run, Nothing))
    /\ UNCHANGED <<detailSizing, pair, errors>>

(* The button is closed and the former result goes, but the charts and the *)
(* list that an export would write stay.  The toggle does not look at the  *)
(* button.                                                                 *)
RecalcRun(sizing) ==
    /\ detail' = [detail EXCEPT !.recalc = FALSE, !.metrics = NoView, !.table = NoView]
    /\ hurried' = (hurried \/ Out("trades"))
    /\ Ask(Asked("trades", detail.run, sizing))

Recalculate ==
    /\ detail.run # Nothing /\ detail.recalc
    /\ RecalcRun(detailSizing)
    /\ UNCHANGED <<detailSizing, pair, errors>>

ChooseSizing(sizing) ==
    /\ sizing # detailSizing
    /\ detailSizing' = sizing
    /\ IF detail.run = Nothing THEN UNCHANGED <<detail, requests, hurried>> ELSE RecalcRun(sizing)
    /\ UNCHANGED <<pair, errors>>

GeneratePine ==
    /\ detail.run # Nothing /\ detail.pine
    /\ detail' = [detail EXCEPT !.pine = FALSE, !.source = Nothing]
    /\ hurried' = (hurried \/ Out("run"))
    /\ Ask(Asked("pine", detail.run, Nothing))
    /\ UNCHANGED <<detailSizing, pair, errors>>

-----------------------------------------------------------------------------
(* Answers.  The server refuses trades without a gene, and a script without*)
(* a spec or a gene; a request may also fail anywhere, once served or not. *)
Tradeless(run) == ~ Kinds[run].gene
Scriptless(run) == ~ (Kinds[run].spec /\ Kinds[run].gene)
Refused(r) == \/ r.what = "trades" /\ Tradeless(r.run)
              \/ r.what = "pine" /\ Scriptless(r.run)

If(condition, value) == IF condition THEN value ELSE Nothing
TradesOf(view) == IF Kinds[view[1]].traded THEN view ELSE NoView

Loaded(run) ==
    [detail EXCEPT !.title = run, !.params = If(Kinds[run].gene, run),
                   !.cards = If(Kinds[run].spec, run),
                   !.pine = Kinds[run].spec, !.source = Nothing]

Recalculated(run, sizing) ==
    LET v == View(run, sizing)
    IN  [detail EXCEPT !.metrics = v, !.charts = v, !.recalc = TRUE,
                       !.trades = TradesOf(v),
                       !.table = IF Kinds[run].traded THEN v ELSE @]

Answered(r) == CASE r.what = "run" -> Loaded(r.run)
                 [] r.what = "trades" -> Recalculated(r.run, r.sizing)
                 [] r.what = "pine" -> [detail EXCEPT !.pine = TRUE, !.source = r.run]

(* An error that the server answers is not looked at when a run is loaded: *)
(* the page reads a run without any field out of it.                       *)
Errors(r) ==
    CASE r.what = "run" -> { [detail EXCEPT !.title = "error"],
                             [detail EXCEPT !.title = "undefined", !.params = Nothing, !.cards = Nothing,
                                            !.pine = FALSE, !.source = Nothing] }
      [] r.what = "trades" -> { [detail EXCEPT !.recalc = TRUE] }
      [] r.what = "pine" -> { [detail EXCEPT !.pine = TRUE] }

Arrive(i) ==
    LET r == requests[i]
    IN  /\ r.what # "pair"
        /\ requests' = RemoveAt(requests, i)
        /\ \/ /\ ~ Refused(r)
              /\ detail' = Answered(r)
              /\ UNCHANGED errors
           \/ /\ Refused(r) \/ errors < MaxErrors
              /\ detail' \in Errors(r)
              /\ errors' = IF Refused(r) THEN errors ELSE errors + 1
        /\ UNCHANGED <<detailSizing, pair, hurried>>

-----------------------------------------------------------------------------
(* The compare page.  The columns keep the former runs until both answers  *)
(* are there.                                                              *)
OpenCompare(a, b) ==
    /\ pair' = [pair EXCEPT !.title = <<a, b>>, !.missing = {}, !.mismatch = FALSE]
    /\ hurried' = Out("pair")
    /\ Ask(Asked("pair", <<a, b>>, Nothing))
    /\ UNCHANGED <<detail, detailSizing, errors>>

Scheme(column) == IF column \in Runs THEN Kinds[column].scheme ELSE Nothing

(* lost: the columns whose run could not be had. *)
ArrivePair(i, lost) ==
    LET r == requests[i]
        columns == [c \in 1..2 |-> If(c \notin lost, r.run[c])]
        schemes == [c \in 1..2 |-> Scheme(columns[c])]
        missing == {c \in 1..2 : schemes[c] = Nothing}
    IN  /\ r.what = "pair"
        /\ lost # {} => errors < MaxErrors
        /\ requests' = RemoveAt(requests, i)
        /\ errors' = IF lost = {} THEN errors ELSE errors + 1
        /\ pair' = [pair EXCEPT !.columns = columns,
                                !.missing = IF missing = {} THEN @ ELSE missing,
                                !.mismatch = @ \/ (missing = {} /\ schemes[1] # schemes[2])]
        /\ UNCHANGED <<detail, detailSizing, hurried>>

Next ==
    \/ \E run \in Runs : OpenRunDetail(run)
    \/ Recalculate
    \/ \E sizing \in Sizings : ChooseSizing(sizing)
    \/ GeneratePine
    \/ \E i \in DOMAIN requests : Arrive(i)
    \/ \E a, b \in Runs : OpenCompare(a, b)
    \/ \E i \in DOMAIN requests, lost \in SUBSET (1..2) : ArrivePair(i, lost)

Spec == Init /\ [][Next]_vars

-----------------------------------------------------------------------------
(* What "Export CSV" writes: the list, under the name of the open run. *)
Exported == [name |-> detail.run, list |-> detail.trades]

(* What is on the detail page belongs to the run it is open for: what was  *)
(* loaded, the trades (also those of an export) and the metrics; trades,   *)
(* charts and table agree with the metrics.  These are of the chosen       *)
(* sizing for a run without a spec, and of the spec's own for the others,  *)
(* though the page names the chosen one.  A loaded run offers a script     *)
(* only when it has a spec.  All this unless the user hurried.             *)
DetailFits ==
    ~ hurried /\ detail.run # Nothing =>
        /\ {detail.params, detail.cards, detail.title} \subseteq
               {Nothing, "loading", "error", "undefined", detail.run}
        /\ Exported.list # NoView => Exported.list[1] = Exported.name
        /\ detail.charts # NoView => detail.charts[1] = detail.run
        /\ detail.metrics # NoView =>
               /\ detail.metrics = View(detail.run, detailSizing)
               /\ detail.charts = detail.metrics
               /\ {detail.trades, detail.table} = {TradesOf(detail.metrics)}
        /\ detail.table # NoView => detail.table = detail.metrics
        /\ detail.recalc <=> ~ Out("trades")
        /\ detail.title = detail.run =>
               /\ detail.source \in {Nothing, detail.run}
               /\ detail.pine => Kinds[detail.run].spec

(* Once the answers are there, the columns show the runs of the title, and *)
(* the warnings are about these columns.                                   *)
PairFits ==
    ~ hurried /\ pair.title # << >> /\ ~ Out("pair") =>
        /\ \A c \in 1..2 : pair.columns[c] \in {Nothing, pair.title[c]}
        /\ pair.missing = {c \in 1..2 : Scheme(pair.columns[c]) = Nothing}
        /\ pair.mismatch <=> pair.missing = {} /\ Scheme(pair.columns[1]) # Scheme(pair.columns[2])

(* The runs that are compared are those of the URL, which is what the      *)
(* title shows, also when another pair was opened while an answer was out. *)
(* The page promises it; it does not hold.                                 *)
ScreenIsTheUrl ==
    pair.title # << >> /\ ~ Out("pair") =>
        \A c \in 1..2 : pair.columns[c] \in {Nothing, pair.title[c]}

(* No script is asked for a run without a spec: the button is closed for   *)
(* these.  The page promises it; it does not hold while such a run loads.  *)
LegacyIsNotAsked ==
    \A i \in DOMAIN requests : requests[i].what = "pine" => Kinds[requests[i].run].spec
=============================================================================
