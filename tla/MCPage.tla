------------------------------- MODULE MCPage -------------------------------
(***************************************************************************)
(* What a user has on the screen: the runs table of the page (Page), the   *)
(* date range of its dialog (Timeline), the TradingView chart that a run   *)
(* is sent to (TvBridge), the scripts that are brought to TradingView      *)
(* (PineScripts), and the detail and the compare page of runs (RunPages).  *)
(* They share nothing: the initial state chooses one of Screens, and the   *)
(* variables of the others stay 0.  RunPages is two of them: its two pages *)
(* share only code.                                                        *)
(***************************************************************************)
EXTENDS Integers, Sequences, FiniteSets

CONSTANTS Screens,     \* the parts that are looked at
          MaxRuns, MaxFaults, Slots,
          Symbols, Intervals, DefaultWarmup, Periods, Day,
          Senders, Wanted(_), MaxPolls, MaxParts,
          Clouds, MaxEvents,
          Kinds, Sizings, MaxAsked, MaxErrors

ASSUME PageAssumption == MaxRuns \in Nat /\ MaxFaults \in Nat /\ Slots # {}
ASSUME TimelineAssumption ==
    /\ IsFiniteSet(DOMAIN Symbols)
    /\ \A s \in DOMAIN Symbols : /\ {Symbols[s].first, Symbols[s].last} \subseteq Int
                                 /\ Symbols[s].first <= Symbols[s].last
    /\ Intervals \subseteq Int /\ IsFiniteSet(Intervals) /\ DefaultWarmup \in Int
    /\ Day \in Nat \ {0}
    /\ \A p \in Periods : p \in Nat /\ p % Day = 0
ASSUME BridgeAssumption ==
    /\ MaxPolls \in Nat /\ MaxParts \in Nat
    /\ \A s \in Senders : Wanted(s) = [symbol |-> Wanted(s).symbol, gene |-> Wanted(s).gene,
                                      resolution |-> Wanted(s).resolution]
ASSUME ScriptsAssumption == Clouds \subseteq Seq([title : STRING, source : STRING])
ASSUME KindsAssumption ==
    \A run \in DOMAIN Kinds : /\ run \notin {"nothing", "loading", "error", "undefined"}
                              /\ Kinds[run].spec \in BOOLEAN

VARIABLES part,
          runs, answers, faults, rows, boxes, cells, go,
          selectedRunIds, compareMode, expandedRunId, visible,
          symbols, intervals, period, tl, drag,
          chart, report, parts, looks, slow, sender,
          options, step, exit, found, tmp, generated, cloud, before, opened, editor, late,
          overtaken, disturbed, events,
          detail, detailSizing, pair, requests, errors, hurried

Table == INSTANCE Page
Dialog == INSTANCE Timeline
Bridge == INSTANCE TvBridge
Scripts == INSTANCE PineScripts
Pages == INSTANCE RunPages

table == <<runs, answers, faults, rows, boxes, cells, go,
           selectedRunIds, compareMode, expandedRunId, visible>>
dialog == <<symbols, intervals, period, tl, drag>>
bridge == <<chart, report, parts, looks, slow, sender>>
scripts == <<options, step, exit, found, tmp, generated, cloud, before, opened, editor, late,
             overtaken, disturbed, events>>
pages == <<detail, detailSizing, pair, requests, errors, hurried>>
vars == <<part, table, dialog, bridge, scripts, pages>>

-----------------------------------------------------------------------------
MCSymbols == [a |-> [first |-> 10, last |-> 17], b |-> [first |-> 13, last |-> 20]]
MCWanted(s) == IF s = "run 1" THEN [symbol |-> "BTC", resolution |-> 240, gene |-> 1]
               ELSE [symbol |-> "ETH", resolution |-> 60, gene |-> 2]
Script(title, source) == [title |-> title, source |-> source]
MCClouds == {<< >>, <<Script("users", "users")>>,
             <<Script("users", "users"), Script("title", "old")>>,
             <<Script("title", "indicator")>>}
Kind(spec, gene, traded, scheme) == [spec |-> spec, gene |-> gene, traded |-> traded, scheme |-> scheme]
MCKinds == [rolling |-> Kind(TRUE, TRUE, TRUE, "rolling"),
            anchored |-> Kind(TRUE, TRUE, FALSE, "anchored"),
            legacy |-> Kind(FALSE, TRUE, TRUE, "nothing"),
            new |-> Kind(TRUE, FALSE, FALSE, "nothing")]

Init ==
    /\ part \in Screens
    /\ IF part = "table" THEN Table!Init
       ELSE /\ runs = 0 /\ answers = 0 /\ faults = 0 /\ rows = 0 /\ boxes = 0 /\ cells = 0 /\ go = 0
            /\ selectedRunIds = 0 /\ compareMode = 0 /\ expandedRunId = 0 /\ visible = 0
    /\ IF part = "dialog" THEN Dialog!Init
       ELSE symbols = 0 /\ intervals = 0 /\ period = 0 /\ tl = 0 /\ drag = 0
    /\ IF part = "bridge" THEN Bridge!Init
       ELSE chart = 0 /\ report = 0 /\ parts = 0 /\ looks = 0 /\ slow = 0 /\ sender = 0
    /\ IF part = "scripts" THEN Scripts!Init
       ELSE /\ options = 0 /\ step = 0 /\ exit = 0 /\ found = 0 /\ tmp = 0 /\ generated = 0
            /\ cloud = 0 /\ before = 0 /\ opened = 0 /\ editor = 0 /\ late = 0
            /\ overtaken = 0 /\ disturbed = 0 /\ events = 0
    /\ IF part \in {"detail", "compare"} THEN Pages!Init
       ELSE detail = 0 /\ detailSizing = 0 /\ pair = 0 /\ requests = 0 /\ errors = 0 /\ hurried = 0

Browsing == part = "table" /\ UNCHANGED <<part, dialog, bridge, scripts, pages>>
Asking == part = "dialog" /\ UNCHANGED <<part, table, bridge, scripts, pages>>
Charting == part = "bridge" /\ UNCHANGED <<part, table, dialog, scripts, pages>>
Deploying == part = "scripts" /\ UNCHANGED <<part, table, dialog, bridge, pages>>
Looking == part = "detail" /\ UNCHANGED <<part, table, dialog, bridge, scripts>>
Comparing == part = "compare" /\ UNCHANGED <<part, table, dialog, bridge, scripts>>

LoadRuns == Browsing /\ Table!LoadRuns
Serve(s) == Browsing /\ Table!Serve(s)
Arrive(s) == Browsing /\ Table!Arrive(s)

Next ==
    \/ Browsing /\ Table!Post
    \/ Browsing /\ \E id \in DOMAIN runs : Table!Progress(id)
    \/ LoadRuns
    \/ \E s \in Slots : Serve(s)
    \/ \E s \in Slots : Arrive(s)
    \/ \E s \in Slots : Browsing /\ Table!Fail(s)
    \/ Browsing /\ Table!Reload
    \/ Browsing /\ \E id \in DOMAIN rows : Table!ToggleRunDetails(id)
    \/ Browsing /\ \E id \in DOMAIN rows : Table!ChangeBox(id)
    \/ Browsing /\ Table!CloseExpand
    \/ Browsing /\ Table!ToggleCompare
    \/ \E checked \in BOOLEAN : Browsing /\ Table!SelectAll(checked)
    \/ Asking /\ Dialog!Open
    \/ \E s \in DOMAIN Symbols : Asking /\ Dialog!CheckSymbol(s)
    \/ \E m \in Intervals : Asking /\ Dialog!CheckInterval(m)
    \/ \E p \in Periods : Asking /\ Dialog!ChoosePeriod(p)
    \/ Asking /\ Dialog!MouseDown
    \/ Asking /\ \E delta \in Dialog!Deltas : Dialog!MouseMove(delta)
    \/ Asking /\ Dialog!MouseUp
    \/ Charting /\ Bridge!Recalculate
    \/ \E s \in Senders : Charting /\ Bridge!Connect(s)
    \/ \E s \in Senders : Charting /\ Bridge!ReadSymbol(s)
    \/ \E s \in Senders : Charting /\ Bridge!SetSymbol(s)
    \/ \E s \in Senders : Charting /\ Bridge!ReadResolution(s)
    \/ \E s \in Senders : Charting /\ Bridge!SetResolution(s)
    \/ \E s \in Senders : Charting /\ Bridge!ReadChart(s)
    \/ \E s \in Senders : Charting /\ Bridge!SetInputs(s)
    \/ \E s \in Senders : Charting /\ Bridge!Wait(s)
    \/ \E s \in Senders : Charting /\ Bridge!Poll(s)
    \/ \E s \in Senders : Charting /\ Bridge!Fail(s)
    \/ Deploying /\ Scripts!Generate
    \/ Deploying /\ Scripts!CallFails
    \/ Deploying /\ Scripts!Check
    \/ Deploying /\ Scripts!List
    \/ Deploying /\ Scripts!Open
    \/ Deploying /\ Scripts!Set
    \/ Deploying /\ Scripts!Probe
    \/ Deploying /\ Scripts!Save
    \/ Deploying /\ Scripts!Poll
    \/ Deploying /\ Scripts!ListAgain
    \/ Deploying /\ Scripts!Compile
    \/ Deploying /\ Scripts!OpenAgain
    \/ Deploying /\ Scripts!Export
    \/ Deploying /\ Scripts!Push
    \/ Deploying /\ Scripts!LateShow
    \/ Deploying /\ \E id \in DOMAIN cloud : Scripts!Switch(id)
    \/ Deploying /\ Scripts!Twin
    \/ Looking /\ \E run \in Pages!Runs : Pages!OpenRunDetail(run)
    \/ Looking /\ Pages!Recalculate
    \/ Looking /\ \E sizing \in Sizings : Pages!ChooseSizing(sizing)
    \/ Looking /\ Pages!GeneratePine
    \/ Looking /\ \E i \in DOMAIN requests : Pages!Arrive(i)
    \/ Comparing /\ \E a, b \in Pages!Runs : Pages!OpenCompare(a, b)
    \/ Comparing /\ \E i \in DOMAIN requests, lost \in SUBSET (1..2) : Pages!ArrivePair(i, lost)

(* The page's timer fires, the server answers, and answers arrive. *)
Spec == /\ Init /\ [][Next]_vars
        /\ WF_vars(LoadRuns)
        /\ \A s \in Slots : WF_vars(Serve(s)) /\ WF_vars(Arrive(s))

-----------------------------------------------------------------------------
(* Boxes, selection and buttons of the table fit together, whatever        *)
(* refreshes and old answers do to it (Page).                              *)
SelectionSurvives == part = "table" => Table!SelectionSurvives

(* Unless the page holds a row for expanded, the table ends up as the      *)
(* server's list of runs (Page).                                           *)
Collapsed == part = "table" => expandedRunId = Table!NoRun
Converged == part = "table" => rows = runs
TableConverges == <>[]Collapsed => <>[]Converged

(* The bar of the dialog and the dates a run would be posted with fit the  *)
(* data, the warm-up and the chosen length, the dates within a day         *)
(* (Timeline).                                                             *)
TimelineFits == part = "dialog" => Dialog!TimelineFits

(* A request alone on the chart of a TradingView that is not slow is       *)
(* answered with its own metrics, unless its polls run out (TvBridge).     *)
AnswersAreOwn == part = "bridge" => Bridge!AnswersAreOwn

(* The same of a TradingView that may be slow (TvBridge).  Does not hold.  *)
SettledIsOwn == part = "bridge" => Bridge!SettledIsOwn

(* A deployment that is alone keeps the scripts that are not its own, but  *)
(* for the one that TradingView still showed when the source was set; and  *)
(* what is reported as newly deployed is stored, if TradingView was in     *)
(* time (PineScripts).                                                     *)
DeployIsHonest == part = "scripts" => Scripts!DeployIsHonest

(* The same of a TradingView that may be late (PineScripts).  Does not     *)
(* hold.                                                                   *)
NonDestructive == part = "scripts" => Scripts!NonDestructive

(* What is reported as deployed is stored, a script that was there         *)
(* included (PineScripts).  Does not hold.                                 *)
DeployedIsStored == part = "scripts" => Scripts!DeployedIsStored

(* What the detail page and the compare page show belongs to the run that  *)
(* is open, the sizing that is in force and the compared runs, as long as  *)
(* no answer is overtaken by another request (RunPages).                   *)
PagesFit == part \in {"detail", "compare"} => Pages!DetailFits /\ Pages!PairFits

(* The compare page shows the runs of the URL, whatever order its answers  *)
(* come in (RunPages).  Does not hold.                                     *)
ScreenIsTheUrl == part = "compare" => Pages!ScreenIsTheUrl

(* No script is asked for a run without a spec (RunPages).  Does not hold. *)
LegacyIsNotAsked == part = "detail" => Pages!LegacyIsNotAsked
=============================================================================
