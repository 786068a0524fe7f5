----------------------------- MODULE PineScripts -----------------------------
(***************************************************************************)
(* The places that a generated Pine script goes to, and the three that     *)
(* bring it there: the deploy script (scripts/pine-deploy.js), which saves *)
(* the indicator in TradingView in eight steps, each of them calls of the  *)
(* `tv' tool that may fail, and the requests pine-export and pine-push of  *)
(* the server.  All of them share the editor of one TradingView window and *)
(* the directory pine/generated.                                           *)
(*                                                                         *)
(* TradingView itself is external: the scripts saved in its cloud, the     *)
(* editor with one of them or a new one, and the class of its save button. *)
(* Who else uses it (the user, another device) is part of the environment. *)
(***************************************************************************)
EXTENDS Integers, Sequences

CONSTANTS Clouds,     \* what may be saved in TradingView before
          MaxEvents   \* bound: events beside the deploy script

VARIABLES
    options,   \* [overwrite, dryRun], the command line
    step,      \* what the deploy script does next, or "done"
    exit,      \* its exit code
    found,     \* the script it found under its title, or None
    tmp,       \* its temporary file is there
    generated, \* the file <spec>-<gene hash>.pine holds this source
    cloud,     \* the saved scripts
    before,    \* ... as they were when the deploy script was started
    opened,    \* the script that the editor showed then
    editor,    \* the script it shows and the source in it
    late,      \* the script that it is still about to show, NewTab, or None
    overtaken, \* the source was set while it was still about to
    disturbed, \* someone else has used TradingView since then
    events

deploying == <<options, step, exit, found, tmp>>
tradingView == <<cloud, editor, late>>
ghosts == <<before, opened, overtaken>>
vars == <<deploying, generated, tradingView, ghosts, disturbed, events>>

None == 0
NewTab == -1
NotYet == -1
Ours == "indicator"
Title == "title"
Untitled == [shows |-> None, source |-> "blank"]

Script(title, source) == [title |-> title, source |-> source]
Titled(title) == {id \in DOMAIN cloud : cloud[id].title = title}
Started == step # "generate"

-----------------------------------------------------------------------------
(* TradingView: a save of a new script asks for a title, and makes the     *)
(* title another one if it is taken.                                       *)
FreeTitle == IF Titled(Title) = {} THEN Title ELSE "title 1"
Store == IF editor.shows = None
         THEN /\ cloud' = Append(cloud, Script(FreeTitle, editor.source))
              /\ editor' = [editor EXCEPT !.shows = Len(cloud')]
         ELSE /\ cloud' = [cloud EXCEPT ![editor.shows].source = editor.source]
              /\ UNCHANGED editor
Show(id) == editor' = [shows |-> id, source |-> cloud[id].source]
Unsaved == editor.shows = None \/ cloud[editor.shows].source # editor.source
ButtonClass == IF Unsaved THEN "unsaved-" ELSE "saved-"

(* The class is searched for the text "saved-", which "unsaved-" contains. *)
LooksSaved(class) == class \in {"saved-", "unsaved-"}

-----------------------------------------------------------------------------
Init ==
    /\ options \in [overwrite : BOOLEAN, dryRun : BOOLEAN]
    /\ step = "generate"
    /\ exit = NotYet
    /\ found = None
    /\ tmp = FALSE
    /\ generated \in {"none", Ours, "strategy"}
    /\ cloud \in Clouds
    /\ before = cloud
    /\ editor \in {Untitled} \cup {[shows |-> id, source |-> cloud[id].source] : id \in DOMAIN cloud}
    /\ opened = editor.shows
    /\ late = None
    /\ overtaken = FALSE
    /\ disturbed = FALSE
    /\ events = 0

Quiet == UNCHANGED <<ghosts, disturbed, events, options>>
Continue(next) == step' = next /\ UNCHANGED exit
Exit(code) == step' = "done" /\ exit' = code
Watch == UNCHANGED tradingView   \* the step only looks at TradingView

(* [1/8] The source is kept in pine/generated, whatever comes of it. *)
Generate ==
    /\ step = "generate"
    /\ generated' = Ours
    /\ tmp' = TRUE
    /\ before' = cloud
    /\ opened' = editor.shows
    /\ Continue("check")
    /\ Watch /\ UNCHANGED <<options, found, overtaken, disturbed, events>>

(* Every call of the tool may fail and end the script. *)
CallFails ==
    /\ step \notin {"generate", "open again", "done"}
    /\ Exit(1)
    /\ Quiet /\ Watch /\ UNCHANGED <<found, tmp, generated>>

(* [2/8] *)
Check ==
    /\ step = "check"
    /\ Continue("list") \/ Exit(3)
    /\ Quiet /\ Watch /\ UNCHANGED <<found, tmp, generated>>

(* [3/8] *)
First(ids) == IF ids = {} THEN None ELSE CHOOSE id \in ids : \A other \in ids : id <= other
Collides == Titled(Title) # {} /\ ~ options.overwrite
List ==
    /\ step = "list"
    /\ found' = First(Titled(Title))
    /\ \/ Collides /\ Exit(4) /\ UNCHANGED tmp
       \/ ~ Collides /\ options.dryRun /\ Exit(0) /\ tmp' = FALSE
       \/ ~ Collides /\ ~ options.dryRun /\ Continue("open") /\ UNCHANGED tmp
    /\ Quiet /\ Watch /\ UNCHANGED generated

(* [4/8] The script that is there, or a new one.  Nothing checks that the  *)
(* editor shows it: TradingView may take longer than the script waits.     *)
AlwaysNew == FALSE   \* mutant of WantOverwrite

WantOverwrite == options.overwrite /\ found # None
Open ==
    /\ step = "open"
    /\ \/ Exit(5) /\ Watch
       \/ /\ Continue("set")
          /\ \/ ~ WantOverwrite /\ editor' = Untitled /\ UNCHANGED <<cloud, late>>
             \/ WantOverwrite /\ Show(found) /\ UNCHANGED <<cloud, late>>
             \/ late' = (IF WantOverwrite THEN found ELSE NewTab) /\ UNCHANGED <<cloud, editor>>
    /\ Quiet /\ UNCHANGED <<found, tmp, generated>>

(* [5/8] *)
Set ==
    /\ step = "set"
    /\ editor' = [editor EXCEPT !.source = Ours]
    /\ overtaken' = (late # None)
    /\ Continue("probe")
    /\ UNCHANGED <<options, found, tmp, generated, cloud, before, opened, late, disturbed, events>>

(* [6/8] The save button is clicked if something is unsaved; the dialog    *)
(* may not be confirmed, and then nothing is stored.                       *)
Probe ==
    /\ step = "probe"
    /\ Exit(6) \/ Continue(IF Unsaved THEN "save" ELSE "poll")
    /\ Quiet /\ Watch /\ UNCHANGED <<found, tmp, generated>>
Save ==
    /\ step = "save"
    /\ Store \/ UNCHANGED <<cloud, editor>>
    /\ Continue("poll")
    /\ Quiet /\ UNCHANGED <<found, tmp, generated, late>>

(* The button may be missing or show "pending" until the polls run out. *)
Poll ==
    /\ step = "poll"
    /\ Exit(6) \/ (LooksSaved(ButtonClass) /\ Continue("list again"))
    /\ Quiet /\ Watch /\ UNCHANGED <<found, tmp, generated>>
ListAgain ==
    /\ step = "list again"
    /\ IF Titled(Title) # {} THEN Continue("compile") ELSE Exit(6)
    /\ Quiet /\ Watch /\ UNCHANGED <<found, tmp, generated>>

(* [7/8] *)
Compile ==
    /\ step = "compile"
    /\ Exit(6) \/ Continue("open again")
    /\ Quiet /\ Watch /\ UNCHANGED <<found, tmp, generated>>

(* [8/8] *)
OpenAgain ==
    /\ step = "open again"
    /\ \/ Exit(7) /\ Watch /\ UNCHANGED tmp
       \/ /\ Titled(Title) # {}
          /\ Show(First(Titled(Title)))
          /\ Exit(0)
          /\ tmp' = FALSE
          /\ UNCHANGED <<cloud, late>>
    /\ Quiet /\ UNCHANGED <<found, generated>>

-----------------------------------------------------------------------------
Beside == events < MaxEvents /\ events' = events + 1
Disturb == disturbed' = (disturbed \/ Started)
Elsewhere == Beside /\ UNCHANGED <<deploying, ghosts>>

(* POST pine-export keeps a file that is there, whatever it holds. *)
KeepOrWrite(source) == generated' = IF generated = "none" THEN source ELSE generated

Export ==
    /\ Elsewhere
    /\ KeepOrWrite(Ours)
    /\ UNCHANGED <<tradingView, disturbed>>

(* POST pine-push replaces the source in the editor, whatever script that  *)
(* shows, clicks the button that saves it and adds it to the chart, and    *)
(* keeps the source in the same file.                                      *)
PushPineToTV(source) ==
    /\ editor' = [editor EXCEPT !.source = source]
    /\ cloud' = IF editor.shows = None THEN cloud
                ELSE [cloud EXCEPT ![editor.shows].source = source]

Push ==
    /\ Elsewhere
    /\ PushPineToTV("strategy")
    /\ KeepOrWrite("strategy")
    /\ Disturb
    /\ UNCHANGED late

(* The editor shows at last what it was told to. *)
LateShow ==
    /\ late # None
    /\ IF late = NewTab THEN editor' = Untitled ELSE Show(late)
    /\ late' = None
    /\ UNCHANGED <<deploying, generated, cloud, ghosts, disturbed, events>>

(* The user turns to another script. *)
Switch(id) ==
    /\ Elsewhere
    /\ Show(id)
    /\ Disturb
    /\ UNCHANGED <<generated, cloud, late>>

(* Another device saves a script of the same title. *)
Twin ==
    /\ Elsewhere
    /\ Titled(Title) = {}
    /\ cloud' = Append(cloud, Script(Title, "other"))
    /\ Disturb
    /\ UNCHANGED <<generated, editor, late>>

Next ==
    \/ Generate \/ CallFails \/ Check \/ List \/ Open \/ Set \/ Probe \/ Save
    \/ Poll \/ ListAgain \/ Compile \/ OpenAgain
    \/ Export \/ Push \/ LateShow \/ Twin
    \/ \E id \in DOMAIN cloud : Switch(id)

Spec == Init /\ [][Next]_vars

-----------------------------------------------------------------------------
Deployed == exit = 0 /\ ~ options.dryRun
Alone == Started /\ ~ disturbed
IsStored == \E id \in Titled(Title) : cloud[id].source = Ours
MayReplace(id) == options.overwrite /\ cloud[id].title = Title

(* If nobody else uses TradingView meanwhile, whatever step fails: a       *)
(* script that was saved before is as it was, unless it has the title and  *)
(* was to be overwritten, or is the one that the editor still showed when  *)
(* the source was set, because TradingView was slower than the wait; a     *)
(* deployment that ends at the pre-flight checks or is a dry run changed   *)
(* nothing; and if TradingView was in time, no sibling "title 1" is made   *)
(* of a script that is there, and a new script that is reported as         *)
(* deployed is stored under its title.                                     *)
DeployIsHonest ==
    Alone =>
        /\ \A id \in DOMAIN before :
               cloud[id] = before[id] \/ MayReplace(id) \/ (overtaken /\ id = opened)
        /\ exit \in {3, 4} \/ (exit = 0 /\ options.dryRun) => cloud = before
        /\ ~ overtaken => Titled("title 1") \subseteq DOMAIN before
        /\ Deployed /\ found = None /\ ~ overtaken => IsStored

(* The promise of the deploy script that it is non-destructive: as long as *)
(* nobody else uses TradingView, no other script of the user's is changed. *)
(* It does not hold: when the editor shows the new tab, or the script to   *)
(* be overwritten, later than the wait of half a second, the source is set *)
(* in and saved over the script that the user had open.                    *)
NonDestructive ==
    Alone => \A id \in DOMAIN before : cloud[id] = before[id] \/ MayReplace(id)

(* As long as nobody else uses TradingView and it is in time, what is      *)
(* reported as deployed is stored: that the button is polled until it      *)
(* shows that the script is saved.  It does not hold when the script is to *)
(* be overwritten: "unsaved-" is taken for "saved-", and the list has the  *)
(* title whatever was stored.                                              *)
DeployedIsStored == Alone /\ ~ overtaken /\ Deployed => IsStored
=============================================================================
