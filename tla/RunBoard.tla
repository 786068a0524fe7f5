------------------------------ MODULE RunBoard ------------------------------
(***************************************************************************)
(* What the run queue promises, without statements, timers or requests:    *)
(* a board of runs and at most one run that is held.  A held run is running*)
(* and stays so until its holder finishes it or is lost; only a running    *)
(* run that nobody holds is recovered; what is finished stays finished.    *)
(* This is the FSM of the header of db/queue.js with an owner added.       *)
(***************************************************************************)
CONSTANTS Run, Nobody     \* Nobody is not a Run

VARIABLES
    status,     \* of each run
    holder      \* the run being executed, or Nobody

vars == <<status, holder>>

Finished == {"completed", "failed", "cancelled"}

\* Some of the runs move from one status to another.
Move(R, from, to) ==
    /\ \A r \in R : status[r] = from
    /\ status' = [r \in Run |-> IF r \in R THEN to ELSE status[r]]

Init == /\ status = [r \in Run |-> "absent"]
        /\ holder = Nobody

Enqueue(r) == /\ Move({r}, "absent", "pending")
              /\ UNCHANGED holder

Take(r) == /\ holder = Nobody
           /\ Move({r}, "pending", "running")
           /\ holder' = r

Finish(r, s) == /\ holder = r
                /\ Move({r}, "running", s)
                /\ holder' = Nobody

Withdraw(R) == /\ Move(R, "pending", "cancelled")
               /\ UNCHANGED holder

Lose == /\ holder' = Nobody
        /\ UNCHANGED status

\* Runs left running by a lost holder wait again, or keep what was saved.
Recover(R, s) == /\ holder \notin R
                 /\ Move(R, "running", s)
                 /\ UNCHANGED holder

Next ==
    \/ \E r \in Run : \/ Enqueue(r)
                      \/ Take(r)
                      \/ \E s \in Finished : Finish(r, s)
    \/ \E R \in SUBSET Run : \/ Withdraw(R)
                             \/ \E s \in {"pending", "completed"} : Recover(R, s)
    \/ Lose

Spec == Init /\ [][Next]_vars
=============================================================================
