------------------------------ MODULE RunQueue ------------------------------
(***************************************************************************)
(* The optimizer server around the run queue: the drain loop processQueue, *)
(* its timers, the HTTP handlers that enqueue, cancel and recover runs     *)
(* (api/routes.js), the boot sequence (server.js) and the crash of the     *)
(* process.  RunTable is the table they share.                             *)
(*                                                                         *)
(* JavaScript runs one callback at a time, so a step here is the code from *)
(* one `await` to the next.  Every actor (the drain, the boot code, the    *)
(* three fire-and-forget timers and each HTTP request) has at most one SQL *)
(* statement outstanding: task[a] says which, "issued" until DuckDB has    *)
(* executed it and "done" or "failed" until the answer is handled.  The    *)
(* steps of other actors come in between, at both places.                  *)
(*                                                                         *)
(* What the code takes for granted is a constant, so that each run of TLC  *)
(* says which of it its properties need:                                   *)
(*   InOrder      the one DuckDB connection executes the statements, and   *)
(*                hands back the answers, in the order they were issued    *)
(*   Prompt       no stale-lease timeout elapses while a recover request   *)
(*                is being handled or a claimed run is being set up        *)
(*   ColdRestart  the process stays down longer than the boot timeout (1s) *)
(***************************************************************************)
EXTENDS RunTable, Sequences, FiniteSets

CONSTANTS
    Clients,        \* HTTP requests that can be in flight together
    Ops,            \* the requests that clients make and the timers that fire
    MaxBatch,       \* bound on the configs of one POST /api/runs
    MaxCrashes,     \* bound on crashes
    MaxDbErrors,    \* bound on statements that DuckDB rejects
    SpecRuns,       \* runs enqueued with a spec
    BadSpecRuns,    \* of those, runs whose spec row is missing
    BarrenRuns,     \* runs whose result has no best gene (zero islands)
    InOrder, Prompt, ColdRestart

ASSUME ClientsAssumption == Clients \cap {"drain", "boot", "beat", "poll", "save"} = {}
ASSUME OpsAssumption ==
    Ops \subseteq {"enqueue", "cancel", "recover", "beat", "poll", "save"}
ASSUME BoundsAssumption == /\ MaxBatch \in Nat
                           /\ MaxCrashes \in Nat
                           /\ MaxDbErrors \in Nat
ASSUME RunSetsAssumption == /\ SpecRuns \subseteq Runs
                            /\ BadSpecRuns \subseteq SpecRuns
                            /\ BarrenRuns \subseteq Runs
ASSUME FlagsAssumption == /\ InOrder \in BOOLEAN
                          /\ Prompt \in BOOLEAN
                          /\ ColdRestart \in BOOLEAN

VARIABLES
    rows,               \* the runs table, which survives a crash
    server,             \* "down", "booting" or "up"
    process,            \* number of the current process: its WORKER_ID
    processing,         \* the guard of processQueue
    activeRun,          \* id of the run that holds the GA, 0 when idle
    cancelRequested,    \* the flag shouldCancel() reads
    task,               \* per actor: the statement it awaits
    line,               \* the outstanding statements in issue order
    quota, dbErrors,    \* bounds: rows still to enqueue, errors so far
    told                \* history: the last event broadcast per run

memory == <<processing, activeRun, cancelRequested>>
bounds == <<quota, dbErrors>>
vars == <<rows, server, process, memory, task, line, bounds, told>>

Timers == {"beat", "poll", "save"}
Actors == {"drain", "boot"} \cup Timers \cup Clients

None == 0

Idle == [op |-> "none", run |-> None, phase |-> "done", val |-> 0, arg |-> "none", left |-> 0]
Statement(op, r) == [Idle EXCEPT !.op = op, !.run = r, !.phase = "issued"]
Complete(op, r, status) == [Statement(op, r) EXCEPT !.arg = status]

Task == [ op    : {"none", "insert", "maxId", "flag", "bump", "rescue", "retry",
                   "sweep", "claim", "getSpec", "reject", "evolve", "complete",
                   "fail", "beat", "poll", "save"},
          run   : 0..MaxRuns,
          phase : {"issued", "done", "failed"},
          val   : 0..MaxRuns,
          arg   : {"none"} \cup Final,
          left  : 0..MaxBatch ]

TypeOK ==
    /\ rows \in [Runs -> Row]
    /\ server \in {"down", "booting", "up"}
    /\ process \in Nat
    /\ processing \in BOOLEAN
    /\ activeRun \in 0..MaxRuns
    /\ cancelRequested \in BOOLEAN
    /\ task \in [Actors -> Task]
    /\ line \in Seq(Actors)
    /\ quota \in 0..MaxRuns
    /\ dbErrors \in 0..MaxDbErrors
    /\ told \in [Runs -> {"none", "started", "error", "completed", "cancelled"}]

Init ==
    /\ rows = [r \in Runs |-> AbsentRow]
    /\ server = "booting"
    /\ process = 1
    /\ processing = FALSE
    /\ activeRun = None
    /\ cancelRequested = FALSE
    /\ task = [a \in Actors |-> IF a = "boot" THEN Statement("rescue", None) ELSE Idle]
    /\ line = IF InOrder THEN <<"boot">> ELSE <<>>
    /\ quota = MaxRuns
    /\ dbErrors = 0
    /\ told = [r \in Runs |-> "none"]

-----------------------------------------------------------------------------
(* The connection.                                                         *)

Push(l, a) == IF InOrder THEN Append(l, a) ELSE l
Pop == IF InOrder THEN Tail(line) ELSE line

\* Actor a issues statement s.
Issue(a, s) == /\ task' = [task EXCEPT ![a] = s]
               /\ line' = Push(line, a)

\* Actor a handles its answer and issues statement s ...
Continue(a, s) == /\ task' = [task EXCEPT ![a] = s]
                  /\ line' = Push(Pop, a)

\* ... or is through.
Finish(a) == /\ task' = [task EXCEPT ![a] = Idle]
             /\ line' = Pop

\* Nothing that was issued before a's statement is still to be executed.
IsNext(a) == \E i \in 1..Len(line) :
                /\ line[i] = a
                /\ \A j \in 1..(i - 1) : task[line[j]].phase # "issued"

\* DuckDB executes the statement `op` of actor a, with answer val.
Executes(a, op, val) ==
    /\ task[a].op = op
    /\ task[a].phase = "issued"
    /\ InOrder => IsNext(a)
    /\ task' = [task EXCEPT ![a].phase = "done", ![a].val = val]
    /\ UNCHANGED <<server, process, memory, line, bounds, told>>

Answered(a, op) == /\ task[a].op = op
                   /\ task[a].phase = "done"
                   /\ InOrder => line # <<>> /\ Head(line) = a

Rejected(a, op) == /\ task[a].op = op
                   /\ task[a].phase = "failed"
                   /\ InOrder => line # <<>> /\ Head(line) = a

\* The step changes nothing but what its actor awaits.
OnlyTasks == UNCHANGED <<rows, server, process, memory, bounds, told>>

BOOL(b) == IF b THEN 1 ELSE 0

-----------------------------------------------------------------------------
(* Execution of the statements, one action each.                           *)

ExecInsert(c) == \E r \in Runs :
    /\ IsNextId(rows, r)
    /\ Executes(c, "insert", r)
    /\ rows' = Inserted(rows, r)

ExecMaxId(c) == \E r \in Present(rows) :
    /\ \A q \in Present(rows) : q <= r
    /\ Executes(c, "maxId", r)
    /\ UNCHANGED rows

ExecFlag(c) ==
    /\ Executes(c, "flag", BOOL(Cancellable(rows, task[c].run)))
    /\ rows' = Flagged(rows, task[c].run)

ExecHeartbeat(a) ==
    /\ \E op \in {"bump", "beat"} : Executes(a, op, 0)
    /\ rows' = Beaten(rows, task[a].run)

ExecRescue(a) ==
    /\ Executes(a, "rescue", 0)
    /\ rows' = Rescued(rows)

ExecRetry(a) ==
    /\ Executes(a, "retry", 0)
    /\ rows' = Retried(rows)

ExecSweep ==
    /\ Executes("drain", "sweep", 0)
    /\ rows' = Swept(rows)

ExecClaim ==
    /\ \/ \E r \in Runs : /\ IsClaimed(rows, r)
                          /\ Executes("drain", "claim", r)
                          /\ rows' = Claimed(rows, r, process)
       \/ /\ Claimable(rows) = {}
          /\ Executes("drain", "claim", None)
          /\ UNCHANGED rows

ExecGetSpec ==
    /\ Executes("drain", "getSpec", BOOL(task["drain"].run \notin BadSpecRuns))
    /\ UNCHANGED rows

\* The result carries a gene unless the run failed or had no island.
Gene(op, r) == IF op = "complete" /\ r \notin BarrenRuns THEN "final" ELSE "null"

ExecComplete ==
    LET t == task["drain"] IN
    /\ \E op \in {"reject", "complete", "fail"} : Executes("drain", op, 0)
    /\ rows' = Completed(rows, t.run, t.arg, Gene(t.op, t.run))

ExecPoll ==
    /\ Executes("poll", "poll", BOOL(rows[task["poll"].run].cancel_requested))
    /\ UNCHANGED rows

ExecSave ==
    /\ Executes("save", "save", 0)
    /\ rows' = Saved(rows, task["save"].run)

\* A rejected statement is answered with an exception.  Where nothing catches
\* it, an unhandled rejection ends the process: that is Crash, not this.
ExecFails(a) ==
    /\ dbErrors < MaxDbErrors
    /\ task[a].phase = "issued"
    /\ task[a].op \notin {"sweep", "claim", "reject"}
    /\ a # "boot"
    /\ InOrder => IsNext(a)
    /\ task' = [task EXCEPT ![a].phase = "failed"]
    /\ dbErrors' = dbErrors + 1
    /\ UNCHANGED <<rows, server, process, memory, line, quota, told>>

Execute(a) ==
    \/ a \in Clients /\ (ExecInsert(a) \/ ExecMaxId(a) \/ ExecFlag(a))
    \/ a \in Clients \cup {"beat"} /\ ExecHeartbeat(a)
    \/ a \in Clients \cup {"boot"} /\ (ExecRescue(a) \/ ExecRetry(a))
    \/ a = "drain" /\ (ExecSweep \/ ExecClaim \/ ExecGetSpec \/ ExecComplete)
    \/ a = "poll" /\ ExecPoll
    \/ a = "save" /\ ExecSave

-----------------------------------------------------------------------------
(* HTTP requests.                                                          *)

Request(c, op) == /\ server = "up"
                  /\ task[c] = Idle
                  /\ op \in Ops

\* POST /api/runs with n configs.
PostRuns(c, n) ==
    /\ Request(c, "enqueue")
    /\ n <= quota
    /\ quota' = quota - n
    /\ Issue(c, [Statement("insert", None) EXCEPT !.left = n])
    /\ UNCHANGED <<rows, server, process, memory, dbErrors, told>>

\* ... of which none names a known interval: the kick alone.
PostNothing(c) ==
    /\ Request(c, "enqueue")
    /\ ~processing
    /\ processing' = TRUE
    /\ Issue("drain", Statement("sweep", None))
    /\ UNCHANGED <<rows, server, process, activeRun, cancelRequested, bounds, told>>

\* POST /api/runs/:id/cancel
CancelRun(c, r) ==
    /\ Request(c, "cancel")
    /\ Issue(c, Statement("flag", r))
    /\ OnlyTasks

\* Mutant of RecoverRuns: no bump of the active run.
RecoverRunsUnbumped(c) ==
    /\ Request(c, "recover")
    /\ Issue(c, Statement("rescue", None))
    /\ OnlyTasks

\* POST /api/queue/recover: bump the active run first, if there is one.
RecoverRuns(c) ==
    /\ Request(c, "recover")
    /\ Issue(c, IF activeRun # None THEN Statement("bump", activeRun)
                                    ELSE Statement("rescue", None))
    /\ OnlyTasks

-----------------------------------------------------------------------------
(* What the handlers do with the answers.                                  *)

\* Client c's handler ends by calling processQueue(): a no-op when a drain is
\* already at work, else the drain issues its first sweep.
KickAndRespond(c) ==
    IF processing
      THEN Finish(c) /\ UNCHANGED processing
      ELSE /\ processing' = TRUE
           /\ task' = [task EXCEPT ![c] = Idle, !["drain"] = Statement("sweep", None)]
           /\ line' = Push(Pop, "drain")

\* The INSERT returns no id, so the handler asks for the largest one.  (The run
\* field is a ghost: the row this request inserted.)
AfterInsert(c) ==
    /\ Answered(c, "insert")
    /\ Continue(c, [Statement("maxId", task[c].val) EXCEPT !.left = task[c].left])
    /\ OnlyTasks

AfterMaxId(c) ==
    /\ Answered(c, "maxId")
    /\ IF task[c].left > 1
         THEN /\ Continue(c, [Statement("insert", None) EXCEPT !.left = task[c].left - 1])
              /\ UNCHANGED processing
         ELSE KickAndRespond(c)
    /\ UNCHANGED <<rows, server, process, activeRun, cancelRequested, bounds, told>>

AfterFlag(c) ==
    /\ Answered(c, "flag")
    /\ \/ /\ task[c].val = 0                                  \* 404
          /\ Finish(c)
          /\ UNCHANGED <<processing, cancelRequested>>
       \/ /\ task[c].val = 1
          /\ activeRun = task[c].run                          \* 'cancelling'
          /\ cancelRequested' = TRUE
          /\ Finish(c)
          /\ UNCHANGED processing
       \/ /\ task[c].val = 1
          /\ activeRun # task[c].run                          \* 'cancel_requested'
          /\ KickAndRespond(c)
          /\ UNCHANGED cancelRequested
    /\ UNCHANGED <<rows, server, process, activeRun, bounds, told>>

\* An error of the bump is swallowed.
AfterBump(c) ==
    /\ Answered(c, "bump") \/ Rejected(c, "bump")
    /\ Continue(c, Statement("rescue", None))
    /\ OnlyTasks

AfterRescue(a) ==
    /\ Answered(a, "rescue")
    /\ Continue(a, Statement("retry", None))
    /\ OnlyTasks

\* No kick: the handler responds, the boot code starts to listen.
AfterRetry(a) ==
    /\ Answered(a, "retry")
    /\ Finish(a)
    /\ server' = "up"
    /\ UNCHANGED <<rows, process, memory, bounds, told>>

\* 500, and nothing else: rows already inserted stay, without a kick.
RespondError(c) ==
    /\ \E op \in {"insert", "maxId", "flag", "rescue", "retry"} : Rejected(c, op)
    /\ Finish(c)
    /\ OnlyTasks

Respond(c) ==
    \/ AfterInsert(c) \/ AfterMaxId(c) \/ AfterFlag(c) \/ AfterBump(c)
    \/ AfterRescue(c) \/ AfterRetry(c) \/ RespondError(c)

-----------------------------------------------------------------------------
(* processQueue.                                                           *)

AfterSweep ==
    /\ Answered("drain", "sweep")
    /\ Continue("drain", Statement("claim", None))
    /\ OnlyTasks

\* Publish the active run, start the timers, call runOptimization.
Start(r) ==
    /\ task' = [task EXCEPT !["drain"] = [Idle EXCEPT !.op = "evolve", !.run = r]]
    /\ line' = Pop
    /\ activeRun' = r
    /\ cancelRequested' = FALSE
    /\ told' = [told EXCEPT ![r] = "started"]
    /\ UNCHANGED <<rows, server, process, processing, bounds>>

\* Mutant of ClaimIsEmpty: the guard stays up when the loop ends.
ClaimIsEmptyStillProcessing ==
    /\ Answered("drain", "claim")
    /\ task["drain"].val = None
    /\ Finish("drain")
    /\ UNCHANGED <<rows, server, process, memory, bounds, told>>

ClaimIsEmpty ==
    /\ Answered("drain", "claim")
    /\ task["drain"].val = None
    /\ Finish("drain")
    /\ processing' = FALSE
    /\ UNCHANGED <<rows, server, process, activeRun, cancelRequested, bounds, told>>

ClaimIsLegacy ==
    /\ Answered("drain", "claim")
    /\ task["drain"].val \in Runs \ SpecRuns
    /\ Start(task["drain"].val)

ClaimHasSpec ==
    /\ Answered("drain", "claim")
    /\ task["drain"].val \in SpecRuns
    /\ Continue("drain", Statement("getSpec", task["drain"].val))
    /\ OnlyTasks

SpecFound ==
    /\ Answered("drain", "getSpec")
    /\ task["drain"].val = 1
    /\ Start(task["drain"].run)

\* Mutant of SpecMissing: `continue` without completeRun.
SpecMissingUnrecorded ==
    /\ Answered("drain", "getSpec") /\ task["drain"].val = 0
    /\ Continue("drain", Statement("sweep", None))
    /\ OnlyTasks

SpecMissing ==
    /\ \/ Answered("drain", "getSpec") /\ task["drain"].val = 0
       \/ Rejected("drain", "getSpec")
    /\ Continue("drain", Complete("reject", task["drain"].run, "failed"))
    /\ OnlyTasks

AfterReject ==
    /\ Answered("drain", "reject")
    /\ Continue("drain", Statement("sweep", None))
    /\ told' = [told EXCEPT ![task["drain"].run] = "error"]
    /\ UNCHANGED <<rows, server, process, memory, bounds>>

\* runOptimization returns, having stopped early or not; the status written is
\* decided now.
RunnerReturns ==
    /\ task["drain"].op = "evolve"
    /\ Issue("drain", Complete("complete", activeRun,
                IF cancelRequested THEN "cancelled" ELSE "completed"))
    /\ OnlyTasks

RunnerThrows ==
    /\ task["drain"].op = "evolve"
    /\ Issue("drain", Complete("fail", activeRun, "failed"))
    /\ OnlyTasks

\* The finally block, and the next turn of the loop.
NextTurn(event) ==
    /\ Continue("drain", Statement("sweep", None))
    /\ told' = [told EXCEPT ![task["drain"].run] = event]
    /\ activeRun' = None
    /\ cancelRequested' = FALSE
    /\ UNCHANGED <<rows, server, process, processing, bounds>>

\* Mutant of AfterComplete: run_completed whatever was stored.
AfterCompleteAlwaysCompleted ==
    /\ Answered("drain", "complete")
    /\ task["drain"].run \notin BarrenRuns
    /\ NextTurn("completed")

\* The broadcast looks at cancelRequested again.
AfterComplete ==
    /\ Answered("drain", "complete")
    /\ task["drain"].run \notin BarrenRuns
    /\ NextTurn(IF cancelRequested THEN "cancelled" ELSE "completed")

\* completeRun was rejected, or geneShort(undefined) threw after it: catch.
CatchAfterComplete ==
    /\ \/ Answered("drain", "complete") /\ task["drain"].run \in BarrenRuns
       \/ Rejected("drain", "complete")
    /\ Continue("drain", Complete("fail", task["drain"].run, "failed"))
    /\ OnlyTasks

\* The catch block swallows an error of its own completeRun.
AfterFail ==
    /\ Answered("drain", "fail") \/ Rejected("drain", "fail")
    /\ NextTurn("error")

RunnerEnds == RunnerReturns \/ RunnerThrows

DrainHandles ==
    \/ AfterSweep \/ ClaimIsEmpty \/ ClaimIsLegacy \/ ClaimHasSpec
    \/ SpecFound \/ SpecMissing \/ AfterReject
    \/ AfterComplete \/ CatchAfterComplete \/ AfterFail

-----------------------------------------------------------------------------
(* The timers of the active run, and its periodic save.                    *)

Tick(t) == /\ t \in Ops
           /\ activeRun # None
           /\ task[t] = Idle
           /\ Issue(t, Statement(t, activeRun))
           /\ OnlyTasks

BeatTick == Tick("beat")

PollTick == ~cancelRequested /\ Tick("poll")

\* onProgress at every tenth generation: only while the GA evolves, and never
\* when it has no island.
SaveTick == /\ task["drain"].op = "evolve"
            /\ activeRun \notin BarrenRuns
            /\ Tick("save")

\* The poll's callback does not look at which run is active by now.
PollAnswered ==
    /\ Answered("poll", "poll")
    /\ cancelRequested' = (cancelRequested \/ task["poll"].val = 1)
    /\ Finish("poll")
    /\ UNCHANGED <<rows, server, process, processing, activeRun, bounds, told>>

TimerSettles(t) ==
    /\ \/ t # "poll" /\ Answered(t, t)
       \/ Rejected(t, t)
    /\ Finish(t)
    /\ OnlyTasks

-----------------------------------------------------------------------------
(* Time, crashes and restarts.                                             *)

Recovering == \E c \in Clients : task[c].op \in {"bump", "rescue", "retry"}
SettingUp == task["drain"].op \in {"claim", "getSpec", "reject"}

TimePasses ==
    /\ rows' = Aged(rows)
    /\ rows' # rows
    /\ Prompt => ~Recovering /\ ~SettingUp
    /\ UNCHANGED <<server, process, memory, task, line, bounds, told>>

\* Everything in memory is gone, statements not yet executed included.
Crash ==
    /\ server # "down"
    /\ process <= MaxCrashes
    /\ server' = "down"
    /\ processing' = FALSE
    /\ activeRun' = None
    /\ cancelRequested' = FALSE
    /\ task' = [a \in Actors |-> Idle]
    /\ line' = <<>>
    /\ UNCHANGED <<rows, process, bounds, told>>

\* server.js: recoverStaleRuns({ timeoutMs: 1_000 }) before it listens.
Boot ==
    /\ server = "down"
    /\ ColdRestart => \A r \in Runs : rows[r].heartbeat_at # "fresh"
    /\ server' = "booting"
    /\ process' = process + 1
    /\ Issue("boot", Statement("rescue", None))
    /\ UNCHANGED <<rows, memory, bounds, told>>

-----------------------------------------------------------------------------
Next ==
    \/ \E c \in Clients : \/ \E n \in 1..MaxBatch : PostRuns(c, n)
                          \/ PostNothing(c)
                          \/ \E r \in Runs : CancelRun(c, r)
                          \/ RecoverRuns(c)
                          \/ Respond(c)
    \/ \E a \in Actors : Execute(a) \/ ExecFails(a)
    \/ AfterRescue("boot") \/ AfterRetry("boot")
    \/ DrainHandles \/ RunnerEnds
    \/ BeatTick \/ PollTick \/ SaveTick
    \/ PollAnswered \/ \E t \in Timers : TimerSettles(t)
    \/ TimePasses \/ Crash \/ Boot

Spec == Init /\ [][Next]_vars

(* DuckDB answers, the event loop runs callbacks, the GA has finitely many *)
(* generations, and somebody restarts a server that is down.  Nobody has   *)
(* to send a request, and no timer has to fire.                            *)
Fairness ==
    /\ \A a \in Actors : WF_vars(Execute(a))
    /\ \A c \in Clients : WF_vars(Respond(c))
    /\ WF_vars(AfterRescue("boot") \/ AfterRetry("boot"))
    /\ WF_vars(DrainHandles) /\ WF_vars(RunnerEnds)
    /\ WF_vars(PollAnswered) /\ \A t \in Timers : WF_vars(TimerSettles(t))
    /\ WF_vars(Boot)

FairSpec == Spec /\ Fairness
-----------------------------------------------------------------------------
(* Properties.                                                             *)

\* The drain holds run r: from the execution of its claim to the execution of
\* the statement that completes it.
Holds(r) ==
    LET d == task["drain"] IN
    \/ d.op = "claim" /\ d.phase = "done" /\ d.val = r
    \/ d.op \in {"getSpec", "evolve"} /\ d.run = r
    \/ d.op \in {"reject", "complete", "fail"} /\ d.phase # "done" /\ d.run = r

\* Invariant.  Once the server listens, the rows that say "running" are exactly
\* the one the drain loop is working on, under this process's name: no request,
\* timer, crash or restart leaves a run claimed with nobody executing it, or
\* takes the row away from the loop that executes it.
RunningIffHeld ==
    server = "up" =>
        \A r \in Runs : /\ (rows[r].status = "running") <=> Holds(r)
                        /\ Holds(r) => rows[r].claimed_by = process

\* Invariant.  A row that waits carries no result and no owner: what recovery
\* sends back to the queue never drags along a gene saved by the lost run.
PendingIsClean ==
    \A r \in Runs : rows[r].status = "pending" =>
        rows[r].best_gene = "null" /\ rows[r].claimed_by = 0

\* Invariant.  A run ends as cancelled only if a cancel was requested for that
\* run, although the flag the runner reads belongs to no run in particular.
CancelledWasAsked ==
    \A r \in Runs : rows[r].status = "cancelled" => rows[r].cancel_requested

\* Invariant.  run_completed and run_error are broadcast only about rows stored
\* that way.  run_cancelled is not: cancelRequested is read before and after the
\* await of completeRun, and a cancel of this very run that comes in between is
\* announced over a row stored as completed.  No other row is announced so.
BroadcastFitsRow ==
    \A r \in Runs :
        /\ told[r] = "completed" => rows[r].status = "completed"
        /\ told[r] = "error" => rows[r].status = "failed"
        /\ told[r] = "cancelled" => /\ rows[r].cancel_requested
                                    /\ rows[r].status \in {"cancelled", "completed"}

\* Invariant.  A run is stored as cancelled only if its own cancel was asked for,
\* and the end that is broadcast is the stored one, but for the late cancel.
EndsAreTrue == CancelledWasAsked /\ BroadcastFitsRow

\* Invariant.  A run is left claimed with nobody executing it only when both the
\* result and the failure could not be written, and then run_error said so.
OrphansWereTold ==
    server = "up" =>
        \A r \in Runs : (rows[r].status = "running" /\ ~Holds(r)) => told[r] = "error"

\* Invariant (does not hold).  What the cancel handler says of the active run,
\* that the runner sees cancelRequested and stops: a run that is still active
\* and has been answered 'cancelling' is not stored as completed.
CancellingIsSeen ==
    \A r \in Runs : (activeRun = r /\ cancelRequested) => rows[r].status # "completed"

\* Action property.  A pending run with a cancel requested is never executed,
\* even when the request lands between the sweep and the claim.
CancelledNeverClaimed ==
    [][\A r \in Runs :
            (rows[r].status = "pending" /\ rows[r].cancel_requested)
                => rows'[r].status # "running"]_rows

\* Action property.  Nothing rewrites the status or the result of a run that is
\* over: not a late progress save, a recovery, a second completion.
TerminalIsFinal ==
    [][\A r \in Runs : rows[r].status \in Final =>
            /\ rows'[r].status = rows[r].status
            /\ rows'[r].best_gene = rows[r].best_gene]_rows

\* Refinement.  The server implements RunBoard.
Held == IF \E r \in Runs : Holds(r) THEN CHOOSE r \in Runs : Holds(r) ELSE None

Board == INSTANCE RunBoard WITH
    Run <- Runs, Nobody <- None,
    status <- [r \in Runs |-> rows[r].status], holder <- Held

BoardSpec == Board!Spec

\* Liveness.  Without crashes, a claimed run is eventually over.
ClaimedRunEnds ==
    \A r \in Runs : (rows[r].status = "running") ~> (rows[r].status \in Final)

\* Liveness.  Without crashes, an enqueued run does not wait for ever: the kick
\* that comes after the INSERT is not lost on a drain loop about to stop.
EnqueuedIsServed ==
    \A r \in Runs : 
        (rows[r].status = "pending") ~>
            (rows[r].status # "pending" \/ rows[r].cancel_requested)

-----------------------------------------------------------------------------
(* What a comment of the code says and its steps do not keep: the subject  *)
(* of a run that TLC ends with a counterexample.                           *)

\* Liveness (routes.js, cancel endpoint: "a single processQueue() call promptly
\* transitions this row"): a pending run with a cancel requested leaves the queue.
CancelledLeavesQueue ==
    \A r \in Runs :
        (rows[r].status = "pending" /\ rows[r].cancel_requested)
            ~> (rows[r].status # "pending")

=============================================================================
