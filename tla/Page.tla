-------------------------------- MODULE Page --------------------------------
(***************************************************************************)
(* The runs table of the optimizer page (ui/app.js) against the server's   *)
(* list of runs: rows are rebuilt from whatever answer of GET /api/runs    *)
(* arrives, while the user selects runs to compare and expands rows.       *)
(*                                                                         *)
(* A refresh is asked for every ten seconds, after every run event of the  *)
(* WebSocket and after a POST.  The ten-second timer may fire at any time, *)
(* so the events, which only ask for the same refresh, add nothing to it.  *)
(* Answers may overtake each other, requests may fail, and the page may be *)
(* reloaded (which it does by itself when the WebSocket is closed).        *)
(***************************************************************************)
EXTENDS Integers, Sequences, FiniteSets

CONSTANTS MaxRuns,     \* bound: runs posted
          MaxFaults,   \* bound: failed requests and reloads
          Slots        \* bound: requests in flight

VARIABLES
    runs,            \* the server's runs in the order of their ids: their status
    answers,         \* what is in flight, per slot
    faults,          \* failures so far
    rows,            \* the rows of the table: the status shown of run 1, 2, ...
    boxes,           \* the rows whose box is checked
    cells,           \* the boxes' column is displayed
    go,              \* the button "Compare" is displayed
    selectedRunIds, compareMode, expandedRunId,
    visible          \* the row that is displayed expanded

vars == <<runs, answers, faults, rows, boxes, cells, go,
          selectedRunIds, compareMode, expandedRunId, visible>>
table == <<rows, boxes, cells>>
choice == <<selectedRunIds, compareMode, go>>
expansion == <<expandedRunId, visible>>
page == <<table, choice, expansion>>

Free == << >>
Asked == <<"asked">>
Answer(list) == <<"answer", list>>
NoRun == 0

Fresh == /\ rows = << >> /\ boxes = {} /\ cells = FALSE /\ go = FALSE
         /\ selectedRunIds = {} /\ compareMode = FALSE
         /\ expandedRunId = NoRun /\ visible = NoRun

Init ==
    /\ runs \in {<< >>, <<"done">>}
    /\ \E s \in Slots : answers = [x \in Slots |-> IF x = s THEN Asked ELSE Free]
    /\ faults = 0
    /\ Fresh

-----------------------------------------------------------------------------
(* The server. *)
Post ==
    /\ Len(runs) < MaxRuns
    /\ runs' = Append(runs, "pending")
    /\ UNCHANGED <<answers, faults, page>>

(* A pending run is started or swept away, a running one ends. *)
Progress(id) ==
    /\ \/ /\ runs[id] = "pending"
          /\ \A other \in DOMAIN runs : runs[other] # "running"
          /\ runs' = [runs EXCEPT ![id] = "running"]
       \/ runs[id] = "pending" /\ runs' = [runs EXCEPT ![id] = "cancelled"]
       \/ runs[id] = "running" /\ runs' = [runs EXCEPT ![id] = "done"]
    /\ UNCHANGED <<answers, faults, page>>

Serve(s) ==
    /\ answers[s] = Asked
    /\ answers' = [answers EXCEPT ![s] = Answer(runs)]
    /\ UNCHANGED <<runs, faults, page>>

-----------------------------------------------------------------------------
(* loadRuns up to its await: nothing is asked while a row is expanded. *)
MayRefreshUnlessSelecting == expandedRunId = NoRun /\ ~ compareMode   \* mutant of MayRefresh

MayRefresh == expandedRunId = NoRun
LoadRuns ==
    /\ MayRefresh
    /\ \E s \in Slots : answers[s] = Free /\ answers' = [answers EXCEPT ![s] = Asked]
    /\ UNCHANGED <<runs, faults, page>>

(* ... and after it: the table is rebuilt, whatever happened meanwhile.    *)
(* The cells are rendered hidden, and a rebuilt row is never expanded.     *)
Arrive(s) ==
    /\ answers[s] \notin {Free, Asked}
    /\ answers' = [answers EXCEPT ![s] = Free]
    /\ rows' = answers[s][2]
    /\ boxes' = selectedRunIds \cap DOMAIN rows'
    /\ cells' = compareMode
    /\ visible' = NoRun
    /\ UNCHANGED <<runs, faults, choice, expandedRunId>>

Fail(s) ==
    /\ answers[s] # Free
    /\ faults < MaxFaults
    /\ faults' = faults + 1
    /\ answers' = [answers EXCEPT ![s] = Free]
    /\ UNCHANGED <<runs, page>>

(* location.reload: all is forgotten, and the new page asks for the runs. *)
Reload ==
    /\ faults < MaxFaults
    /\ faults' = faults + 1
    /\ \E s \in Slots : answers' = [x \in Slots |-> IF x = s THEN Asked ELSE Free]
    /\ rows' = << >> /\ boxes' = {} /\ cells' = FALSE /\ go' = FALSE
    /\ selectedRunIds' = {} /\ compareMode' = FALSE
    /\ expandedRunId' = NoRun /\ visible' = NoRun
    /\ UNCHANGED runs

-----------------------------------------------------------------------------
(* The user. *)
ToggleRunDetails(id) ==
    /\ expandedRunId' = IF visible = id THEN NoRun ELSE id
    /\ visible' = expandedRunId'
    /\ UNCHANGED <<runs, answers, faults, table, choice>>

CloseExpand ==
    /\ visible # NoRun
    /\ expandedRunId' = NoRun
    /\ visible' = NoRun
    /\ UNCHANGED <<runs, answers, faults, table, choice>>

UpdateCompareButtons == go' = (compareMode' /\ Cardinality(selectedRunIds') >= 2)

KeptSelection(set) == set   \* mutant of Cleared

Cleared(set) == {}
ToggleCompare ==
    /\ compareMode' = ~ compareMode
    /\ selectedRunIds' = IF compareMode' THEN selectedRunIds ELSE Cleared(selectedRunIds)
    /\ boxes' = IF compareMode' THEN boxes ELSE {}
    /\ cells' = compareMode'
    /\ UpdateCompareButtons
    /\ UNCHANGED <<runs, answers, faults, rows, expansion>>

ChangeBox(id) ==
    /\ cells
    /\ boxes' = IF id \in boxes THEN boxes \ {id} ELSE boxes \cup {id}
    /\ selectedRunIds' = IF id \in boxes' THEN selectedRunIds \cup {id} ELSE selectedRunIds \ {id}
    /\ UNCHANGED <<runs, answers, faults, rows, cells, compareMode, expansion>>
    /\ UpdateCompareButtons

(* The box in the header: all rows, and only those that are shown. *)
SelectAll(checked) ==
    /\ compareMode
    /\ boxes' = IF checked THEN DOMAIN rows ELSE {}
    /\ selectedRunIds' = IF checked THEN selectedRunIds \cup DOMAIN rows
                         ELSE selectedRunIds \ DOMAIN rows
    /\ UNCHANGED <<runs, answers, faults, rows, cells, compareMode, expansion>>
    /\ UpdateCompareButtons

Next ==
    \/ Post
    \/ \E id \in DOMAIN runs : Progress(id)
    \/ LoadRuns
    \/ \E s \in Slots : Serve(s) \/ Arrive(s) \/ Fail(s)
    \/ Reload
    \/ \E id \in DOMAIN rows : ToggleRunDetails(id) \/ ChangeBox(id)
    \/ CloseExpand
    \/ ToggleCompare
    \/ \E checked \in BOOLEAN : SelectAll(checked)

(* The timer fires, the server answers, and answers arrive. *)
Fairness == /\ WF_vars(LoadRuns)
            /\ \A s \in Slots : WF_vars(Serve(s)) /\ WF_vars(Arrive(s))

Spec == Init /\ [][Next]_vars /\ Fairness

-----------------------------------------------------------------------------
(* Whatever refreshes, old answers, clicks and reloads do to the table: a  *)
(* row's box is checked exactly if its run is selected, the boxes are      *)
(* displayed exactly in compare mode, and the button exactly if there are  *)
(* two runs to compare.                                                    *)
SelectionSurvives ==
    /\ boxes = selectedRunIds \cap DOMAIN rows
    /\ rows # << >> => cells = compareMode
    /\ go = (compareMode /\ Cardinality(selectedRunIds) >= 2)
    /\ ~ compareMode => selectedRunIds = {}

(* Unless the page holds a row for expanded, the table ends up showing the *)
(* runs as the server has them: no lost request, no late answer and no     *)
(* selection keeps it on an old state.                                     *)
TableConverges == <>[](expandedRunId = NoRun) => <>[](rows = runs)
=============================================================================
