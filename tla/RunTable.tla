------------------------------ MODULE RunTable ------------------------------
(***************************************************************************)
(* The `runs` table as db/queue.js sees it.  `status` is the queue: the    *)
(* rows that are "pending" wait, the rows that are "running" are claimed.  *)
(* Every SQL statement of db/queue.js is one operator from the table       *)
(* before it to the table after it; DuckDB executes a statement atomically.*)
(*                                                                         *)
(* Timestamps are abstracted to what the stale-lease condition can tell    *)
(* apart: heartbeat_at is NULL, "fresh", or "old" (older than the timeout  *)
(* of the sweep).  The result columns are abstracted to best_gene: NULL,   *)
(* the "partial" gene saved during a run, or the "final" one.              *)
(***************************************************************************)
EXTENDS Integers

CONSTANTS
    MaxRuns,    \* bound on the rows the table ever holds
    Priority    \* the priority column (0 unless written by hand in SQL)

ASSUME MaxRunsAssumption == MaxRuns \in Nat \ {0}
ASSUME PriorityAssumption == Priority \in [1..MaxRuns -> Int]

Runs == 1..MaxRuns

Final == {"completed", "failed", "cancelled"}

Row == [ status           : {"absent", "pending", "running"} \cup Final,
         cancel_requested : BOOLEAN,
         claimed_by       : Nat,     \* 0 is NULL, n is the n-th process
         heartbeat_at     : {"null", "fresh", "old"},
         best_gene        : {"null", "partial", "final"} ]

AbsentRow == [ status |-> "absent", cancel_requested |-> FALSE,
               claimed_by |-> 0, heartbeat_at |-> "null",
               best_gene |-> "null" ]

Present(rows) == {r \in Runs : rows[r].status # "absent"}

\* r is the id nextval('run_id_seq') hands out next.
IsNextId(rows, r) == /\ r \notin Present(rows)
                     /\ \A q \in 1..(r - 1) : q \in Present(rows)

Inserted(rows, r) == [rows EXCEPT ![r] = [AbsentRow EXCEPT !.status = "pending"]]

-----------------------------------------------------------------------------
(* claimNextRun: two statements, the sweep and the claim.                  *)

Swept(rows) ==
    [r \in Runs |->
        IF rows[r].status = "pending" /\ rows[r].cancel_requested
          THEN [rows[r] EXCEPT !.status = "cancelled"]
          ELSE rows[r]]

\* Mutant of Claimable: relies on the sweep alone to keep cancelled runs out.
ClaimableDespiteCancel(rows) == {r \in Runs : rows[r].status = "pending"}

Claimable(rows) ==
    {r \in Runs : rows[r].status = "pending" /\ ~rows[r].cancel_requested}

\* ORDER BY priority DESC, id ASC
Before(r, q) == \/ Priority[r] > Priority[q]
                \/ Priority[r] = Priority[q] /\ r < q

IsClaimed(rows, r) == /\ r \in Claimable(rows)
                      /\ \A q \in Claimable(rows) \ {r} : Before(r, q)

Claimed(rows, r, worker) ==
    [rows EXCEPT ![r] = [@ EXCEPT !.status       = "running",
                                  !.claimed_by   = worker,
                                  !.heartbeat_at = "fresh"]]

-----------------------------------------------------------------------------
Beaten(rows, r) ==
    IF rows[r].status = "running"
      THEN [rows EXCEPT ![r].heartbeat_at = "fresh"]
      ELSE rows

\* Mutant of Stale: forgets status = 'running'.
StaleWhateverStatus(row) == row.heartbeat_at = "old"

Stale(row) == row.status = "running" /\ row.heartbeat_at # "fresh"

(* recoverStaleRuns: two statements, the rescue and the retry.             *)

\* Mutant of Rescued: a fresh heartbeat does not protect the row.
RescuedThoughFresh(rows) ==
    [r \in Runs |->
        IF rows[r].status = "running" /\ rows[r].best_gene # "null"
          THEN [rows[r] EXCEPT !.status = "completed"]
          ELSE rows[r]]

Rescued(rows) ==
    [r \in Runs |->
        IF Stale(rows[r]) /\ rows[r].best_gene # "null"
          THEN [rows[r] EXCEPT !.status = "completed"]
          ELSE rows[r]]

\* Mutants of Retried: the owner stays; a status nothing else knows.
RetriedKeepsOwner(rows) ==
    [r \in Runs |->
        IF Stale(rows[r]) /\ rows[r].best_gene = "null"
          THEN [rows[r] EXCEPT !.status = "pending", !.heartbeat_at = "null"]
          ELSE rows[r]]

RetriedToQueued(rows) ==
    [r \in Runs |-> IF Stale(rows[r]) THEN [rows[r] EXCEPT !.status = "queued"]
                                      ELSE rows[r]]

Retried(rows) ==
    [r \in Runs |->
        IF Stale(rows[r]) /\ rows[r].best_gene = "null"
          THEN [rows[r] EXCEPT !.status       = "pending",
                               !.claimed_by   = 0,
                               !.heartbeat_at = "null"]
          ELSE rows[r]]

-----------------------------------------------------------------------------
\* completeRun has no guard on status or owner; an undefined gene leaves the
\* column alone.
Completed(rows, r, status, gene) ==
    [rows EXCEPT ![r].status    = status,
                 ![r].best_gene = IF gene = "null" THEN @ ELSE gene]

Cancellable(rows, r) == rows[r].status \in {"pending", "running"}

Flagged(rows, r) ==
    IF Cancellable(rows, r)
      THEN [rows EXCEPT ![r].cancel_requested = TRUE]
      ELSE rows

\* The periodic progress UPDATE of routes.js, WHERE id = r and nothing else.
Saved(rows, r) == [rows EXCEPT ![r].best_gene = "partial"]

\* Time passes: every heartbeat gets older than the timeout.
Aged(rows) ==
    [r \in Runs |->
        IF rows[r].heartbeat_at = "fresh"
          THEN [rows[r] EXCEPT !.heartbeat_at = "old"]
          ELSE rows[r]]
=============================================================================
