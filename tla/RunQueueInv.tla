---------------------------- MODULE RunQueueInv ----------------------------
(***************************************************************************)
(* The inductive invariants of the run queue.                              *)
(*                                                                         *)
(* Inductive is what RunningIffHeld and PendingIsClean rest on.  Neither is*)
(* inductive: a recovery spares the run being executed only because its    *)
(* lease is fresh, and the lease is fresh because of what the drain loop,  *)
(* the recovering requests and the boot code have done before.             *)
(*                                                                         *)
(* Ends is what EndsAreTrue and TerminalIsFinal rest on beyond that: the   *)
(* order of the connection, which keeps a poll or a progress save of one   *)
(* run away from the next.                                                 *)
(*                                                                         *)
(* Orphans is what OrphansWereTold rests on, with rejected statements and  *)
(* lost leases.                                                            *)
(***************************************************************************)
EXTENDS RunQueue

Fresh(r) == rows[r].heartbeat_at = "fresh"
Running(r) == rows[r].status = "running"

\* A statement that ends a run carries a final status.
EndsFinal == task["drain"].op \in {"reject", "complete", "fail"}
                => task["drain"].arg \in Final

\* Nothing was rejected.
Settled == \A a \in Actors : task[a].phase # "failed"

\* While the server is not up, only the boot code is at work; and only then.
OnlyBoot ==
    /\ server # "up" => /\ \A a \in Actors \ {"boot"} : task[a] = Idle
                        /\ activeRun = None
                        /\ ~processing
    /\ server = "booting" => task["boot"].op \in {"rescue", "retry"}
    /\ server # "booting" => task["boot"] = Idle

\* The boot code finds every lease expired, and clears the running rows in two
\* statements.
BootProgress ==
    server = "booting" =>
        \A r \in Runs :
            /\ ~Fresh(r)
            /\ ( \/ task["boot"].op = "retry"
                 \/ task["boot"].op = "rescue" /\ task["boot"].phase = "done" )
                   => (Running(r) => rows[r].best_gene = "null")
            /\ (task["boot"].op = "retry" /\ task["boot"].phase = "done") => ~Running(r)

\* Which statement the drain awaits says whether a run is active.
DrainShape ==
    /\ task["drain"].op \in {"none", "sweep", "claim", "getSpec", "reject",
                             "evolve", "complete", "fail"}
    /\ ~processing => task["drain"].op = "none"
    /\ task["drain"].op = "getSpec" => task["drain"].run # None
    /\ IF task["drain"].op \in {"evolve", "complete", "fail"}
         THEN activeRun = task["drain"].run /\ activeRun # None
         ELSE activeRun = None

\* The lease of the run being executed is fresh while it is being set up, and
\* whenever a recovery is about to look at it.
Lease ==
    \A r \in Runs : Holds(r) =>
        /\ task["drain"].op \in {"claim", "getSpec", "reject"} => Fresh(r)
        /\ \A c \in Clients :
              /\ task[c].op \in {"rescue", "retry"} => Fresh(r)
              /\ task[c].op = "bump" =>
                    Fresh(r) \/ (task[c].phase = "issued" /\ task[c].run = r)

\* A progress save that is still to be executed is about a run that is being
\* executed or is over.
SaveTarget ==
    (task["save"].op = "save" /\ task["save"].phase = "issued") =>
        \A r \in Runs : task["save"].run = r =>
            Holds(r) \/ rows[r].status \in Final

Ownership ==
    /\ Settled /\ OnlyBoot /\ BootProgress /\ DrainShape /\ Lease /\ SaveTarget
    /\ RunningIffHeld /\ PendingIsClean

\* Invariant.  Everything the two invariants rest on.
Inductive == TypeOK /\ EndsFinal /\ Ownership

-----------------------------------------------------------------------------
(* How runs end.                                                           *)

Outstanding(a, l) == \E i \in 1..Len(l) : l[i] = a
Once(l) == \A i, j \in 1..Len(l) : l[i] = l[j] => i = j

\* Wherever b is outstanding, a was issued before it.
Ahead(a, b, l) == \A i \in 1..Len(l) : l[i] = b => \E j \in 1..(i - 1) : l[j] = a

Waits(t) == t.op \notin {"none", "evolve"}

\* The connection holds every actor that awaits a statement, once.
LineIsTasks ==
    /\ Once(line)
    /\ \A a \in Actors : Outstanding(a, line) <=> Waits(task[a])

\* A poll that is not yet handled is about the active run, or the drain is at
\* the sweep it issued after that run was over, and the poll comes first.
PollOrder ==
    task["poll"].op = "poll" =>
        \/ activeRun # None /\ activeRun = task["poll"].run
        \/ task["drain"].op = "sweep" /\ Ahead("poll", "drain", line)

\* A save that is not yet executed is about the run that evolves, or comes
\* before the statement that completes that run.
SaveOrder ==
    (task["save"].op = "save" /\ task["save"].phase = "issued") =>
        /\ task["drain"].run = task["save"].run
        /\ \/ task["drain"].op = "evolve"
           \/ /\ task["drain"].op \in {"complete", "fail"}
              /\ task["drain"].phase = "issued"
              /\ Ahead("save", "drain", line)

Asked(r) == r \in Runs => rows[r].cancel_requested

\* A row that does not exist carries no cancel.
AbsentIsClean == \A r \in Runs : rows[r].status = "absent" => ~rows[r].cancel_requested

\* Who is told to cancel reads it from the row of the run.
CancelIsRead ==
    /\ \A c \in Clients : (task[c].op = "flag" /\ task[c].phase = "done" /\ task[c].val = 1)
                              => Asked(task[c].run)
    /\ (task["poll"].op = "poll" /\ task["poll"].phase = "done" /\ task["poll"].val = 1)
           => Asked(task["poll"].run)
    /\ cancelRequested => Asked(activeRun)

\* What the drain writes about a run, and what it has written once answered.
EndIsWritten ==
    /\ task["drain"].op = "complete" =>
           /\ task["drain"].arg \in {"completed", "cancelled"}
           /\ task["drain"].arg = "cancelled" => cancelRequested
    /\ task["drain"].op \in {"reject", "fail"} => task["drain"].arg = "failed"
    /\ (task["drain"].op \in {"reject", "complete", "fail"} /\ task["drain"].phase = "done")
           => \A r \in Runs : task["drain"].run = r => rows[r].status = task["drain"].arg

\* Invariant.  With Inductive, everything EndsAreTrue and TerminalIsFinal rest on.
Ends ==
    /\ LineIsTasks /\ PollOrder /\ SaveOrder /\ AbsentIsClean
    /\ CancelIsRead /\ EndIsWritten /\ EndsAreTrue

-----------------------------------------------------------------------------
(* Runs nobody executes.                                                   *)

\* The statement that ends a run leaves it not running.
DoneIsNotRunning ==
    (task["drain"].op \in {"reject", "complete", "fail"} /\ task["drain"].phase = "done")
        => \A r \in Runs : task["drain"].run = r => ~Running(r)

\* The first statement of the boot and the answers it can get.
BootIsHeard == task["boot"].phase # "failed"

\* Invariant.  Everything OrphansWereTold rests on.
Orphans ==
    /\ OnlyBoot /\ BootIsHeard /\ BootProgress /\ DrainShape
    /\ DoneIsNotRunning /\ OrphansWereTold
=============================================================================
