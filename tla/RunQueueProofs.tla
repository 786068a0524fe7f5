--------------------------- MODULE RunQueueProofs ---------------------------
(***************************************************************************)
(* Theorems about RunQueue, for every number of rows and of requests: its  *)
(* types and CancelledNeverClaimed always; RunningIffHeld, PendingIsClean  *)
(* and that the server implements RunBoard under Quiet, what the code      *)
(* takes for granted; and how runs end.                                    *)
(***************************************************************************)
EXTENDS RunQueueInv, SequenceTheorems, TLAPS

-----------------------------------------------------------------------------
(* The statements of RunTable keep the table well typed.                   *)

LEMMA InsertedType ==
    ASSUME NEW t \in [Runs -> Row], NEW r \in Runs
    PROVE  Inserted(t, r) \in [Runs -> Row]
  BY DEF Inserted, AbsentRow, Row

LEMMA SweptType ==
    ASSUME NEW t \in [Runs -> Row]
    PROVE  Swept(t) \in [Runs -> Row]
  BY DEF Swept, Row, Final

LEMMA ClaimedType ==
    ASSUME NEW t \in [Runs -> Row], NEW r \in Runs, NEW w \in Nat
    PROVE  Claimed(t, r, w) \in [Runs -> Row]
  BY DEF Claimed, Row

LEMMA BeatenType ==
    ASSUME NEW t \in [Runs -> Row], NEW r
    PROVE  Beaten(t, r) \in [Runs -> Row]
<1>1. CASE r \in Runs   BY <1>1 DEF Beaten, Row
<1>2. CASE r \notin Runs   BY <1>2 DEF Beaten, Row
<1> QED  BY <1>1, <1>2

LEMMA RescuedType ==
    ASSUME NEW t \in [Runs -> Row]
    PROVE  Rescued(t) \in [Runs -> Row]
  BY DEF Rescued, Row, Final

LEMMA RetriedType ==
    ASSUME NEW t \in [Runs -> Row]
    PROVE  Retried(t) \in [Runs -> Row]
  BY DEF Retried, Row

LEMMA CompletedType ==
    ASSUME NEW t \in [Runs -> Row], NEW r, NEW s \in Final,
           NEW g \in {"null", "partial", "final"}
    PROVE  Completed(t, r, s, g) \in [Runs -> Row]
<1>1. CASE r \in Runs
  <2>1. PICK gene \in {"null", "partial", "final"} :
            gene = IF g = "null" THEN t[r].best_gene ELSE g
    BY <1>1 DEF Row
  <2>2. Completed(t, r, s, g) = [t EXCEPT ![r] = [t[r] EXCEPT !.status = s, !.best_gene = gene]]
    BY <1>1, <2>1 DEF Completed, Row
  <2>3. [t[r] EXCEPT !.status = s, !.best_gene = gene] \in Row  BY <1>1, <2>1 DEF Row
  <2> QED  BY <1>1, <2>2, <2>3
<1>2. CASE r \notin Runs
  <2>1. Completed(t, r, s, g) = t  BY <1>2 DEF Completed
  <2> QED  BY <2>1
<1> QED  BY <1>1, <1>2

LEMMA FlaggedType ==
    ASSUME NEW t \in [Runs -> Row], NEW r
    PROVE  Flagged(t, r) \in [Runs -> Row]
  BY DEF Flagged, Row

LEMMA SavedType ==
    ASSUME NEW t \in [Runs -> Row], NEW r
    PROVE  Saved(t, r) \in [Runs -> Row]
  BY DEF Saved, Row

LEMMA AgedType ==
    ASSUME NEW t \in [Runs -> Row]
    PROVE  Aged(t) \in [Runs -> Row]
  BY DEF Aged, Row

-----------------------------------------------------------------------------
(* So do the steps an actor takes with its statement.                      *)

LEMMA ActorFacts ==
    /\ {"drain", "boot", "beat", "poll", "save"} \subseteq Actors
    /\ Clients \subseteq Actors
    /\ \A c \in Clients : c \notin {"drain", "boot", "beat", "poll", "save"}
  BY ClientsAssumption DEF Actors, Timers

LEMMA StatementType ==
    ASSUME NEW op \in {"insert", "maxId", "flag", "bump", "rescue", "retry", "sweep",
                       "claim", "getSpec", "reject", "evolve", "complete", "fail",
                       "beat", "poll", "save"},
           NEW r \in 0..MaxRuns
    PROVE  /\ Idle \in Task
           /\ Statement(op, r) \in Task
           /\ \A n \in 0..MaxBatch : [Statement(op, r) EXCEPT !.left = n] \in Task
           /\ \A s \in Final : Complete(op, r, s) \in Task
<1>1. Idle \in Task
  BY MaxRunsAssumption, BoundsAssumption DEF Idle, None, Task
<1>2. Statement(op, r) \in Task
  BY <1>1 DEF Statement, Task
<1>3. ASSUME NEW n \in 0..MaxBatch
      PROVE  [Statement(op, r) EXCEPT !.left = n] \in Task
  BY <1>2 DEF Task
<1>4. ASSUME NEW s \in Final
      PROVE  Complete(op, r, s) \in Task
  BY <1>2 DEF Complete, Task
<1> QED  BY <1>1, <1>2, <1>3, <1>4

LEMMA IssueType ==
    ASSUME TypeOK, NEW a \in Actors, NEW s \in Task, Issue(a, s)
    PROVE  task' \in [Actors -> Task] /\ line' \in Seq(Actors)
  BY AppendProperties DEF TypeOK, Issue, Push

LEMMA PopType ==
    ASSUME TypeOK, InOrder => line # <<>>
    PROVE  Pop \in Seq(Actors)
  BY HeadTailProperties DEF TypeOK, Pop

LEMMA ContinueType ==
    ASSUME TypeOK, NEW a \in Actors, NEW s \in Task, Continue(a, s),
           InOrder => line # <<>>
    PROVE  task' \in [Actors -> Task] /\ line' \in Seq(Actors)
  BY PopType, AppendProperties DEF TypeOK, Continue, Push

LEMMA FinishType ==
    ASSUME TypeOK, NEW a \in Actors, Finish(a), InOrder => line # <<>>
    PROVE  task' \in [Actors -> Task] /\ line' \in Seq(Actors)
<1>1. Idle \in Task  BY MaxRunsAssumption, BoundsAssumption DEF Idle, None, Task
<1> QED  BY <1>1, PopType DEF TypeOK, Finish

LEMMA KickType ==
    ASSUME TypeOK, NEW c \in Clients, KickAndRespond(c), InOrder => line # <<>>
    PROVE  /\ task' \in [Actors -> Task] /\ line' \in Seq(Actors)
           /\ processing' \in BOOLEAN
<1>1. CASE processing
  BY <1>1, FinishType, ActorFacts DEF KickAndRespond, TypeOK
<1>2. CASE ~processing
  <2>1. Idle \in Task /\ Statement("sweep", None) \in Task
    BY StatementType, MaxRunsAssumption DEF None
  <2>2. task' \in [Actors -> Task] /\ processing' \in BOOLEAN
    BY <1>2, <2>1, ActorFacts DEF KickAndRespond, TypeOK
  <2>3. line' \in Seq(Actors)
    BY <1>2, PopType, ActorFacts, AppendProperties DEF KickAndRespond, Push
  <2> QED  BY <2>2, <2>3
<1> QED  BY <1>1, <1>2

LEMMA ExecutesType ==
    ASSUME TypeOK, NEW a \in Actors, NEW op, NEW val \in 0..MaxRuns,
           Executes(a, op, val)
    PROVE  /\ task' \in [Actors -> Task]
           /\ UNCHANGED <<server, process, processing, activeRun, cancelRequested,
                          line, quota, dbErrors, told>>
<1>1. task[a] \in Task  BY DEF TypeOK
<1>2. [task[a] EXCEPT !.phase = "done", !.val = val] \in Task
  BY <1>1 DEF Task
<1>3. task' = [task EXCEPT ![a] = [task[a] EXCEPT !.phase = "done", !.val = val]]
  BY DEF TypeOK, Executes
<1>4. task' \in [Actors -> Task]
  BY <1>2, <1>3 DEF TypeOK
<1> QED  BY <1>4 DEF Executes, memory, bounds

-----------------------------------------------------------------------------
(* Type correctness.                                                       *)

LEMMA TypeInit == Init => TypeOK /\ EndsFinal
<1> SUFFICES ASSUME Init PROVE TypeOK /\ EndsFinal  OBVIOUS
<1>1. rows \in [Runs -> Row]
  BY DEF Init, AbsentRow, Row
<1>2. task \in [Actors -> Task] /\ EndsFinal
  <2>1. Idle \in Task /\ Statement("rescue", None) \in Task
    BY StatementType, MaxRunsAssumption DEF None
  <2> QED  BY <2>1, ActorFacts DEF Init, EndsFinal, Idle
<1>3. line \in Seq(Actors)
  <2>1. <<>> \in Seq(Actors) /\ <<"boot">> \in Seq(Actors)
    BY ActorFacts, EmptySeq
  <2> QED  BY <2>1 DEF Init
<1>4. /\ quota \in 0..MaxRuns /\ activeRun \in 0..MaxRuns
      /\ dbErrors \in 0..MaxDbErrors
  BY MaxRunsAssumption, BoundsAssumption DEF Init, None
<1> QED  BY <1>1, <1>2, <1>3, <1>4 DEF Init, TypeOK

\* A step that changes only tasks and the line.
LEMMA OnlyTasksType ==
    ASSUME TypeOK, OnlyTasks, task' \in [Actors -> Task], line' \in Seq(Actors)
    PROVE  TypeOK'
  BY DEF TypeOK, OnlyTasks, memory, bounds

\* A step of an actor other than the drain leaves the drain's statement alone.
LEMMA OthersEndFinal ==
    ASSUME EndsFinal, TypeOK, task'["drain"] = task["drain"]
    PROVE  EndsFinal'
  BY DEF EndsFinal

LEMMA RequestsType ==
    ASSUME TypeOK, EndsFinal, NEW c \in Clients,
           \/ \E n \in 1..MaxBatch : PostRuns(c, n)
           \/ PostNothing(c)
           \/ \E r \in Runs : CancelRun(c, r)
           \/ RecoverRuns(c)
    PROVE  TypeOK' /\ EndsFinal'
<1> USE MaxRunsAssumption, BoundsAssumption, ActorFacts
<1>1. CASE \E n \in 1..MaxBatch : PostRuns(c, n)
  <2> PICK n \in 1..MaxBatch : PostRuns(c, n)  BY <1>1
  <2>1. task' \in [Actors -> Task] /\ line' \in Seq(Actors)
    <3>1. [Statement("insert", None) EXCEPT !.left = n] \in Task
      BY StatementType DEF None
    <3> QED  BY <3>1, IssueType DEF PostRuns
  <2>2. quota' \in 0..MaxRuns
    BY DEF PostRuns, TypeOK
  <2>3. TypeOK'
    BY <2>1, <2>2 DEF PostRuns, TypeOK, memory
  <2>4. EndsFinal'
    BY OthersEndFinal DEF PostRuns, Issue, TypeOK
  <2> QED  BY <2>3, <2>4
<1>2. CASE PostNothing(c)
  <2>1. task' \in [Actors -> Task] /\ line' \in Seq(Actors)
    BY <1>2, StatementType, IssueType DEF PostNothing, None
  <2>2. TypeOK'
    BY <1>2, <2>1 DEF PostNothing, TypeOK, bounds
  <2>3. EndsFinal'
    BY <1>2, <2>1 DEF PostNothing, Issue, EndsFinal, Statement, Idle, TypeOK
  <2> QED  BY <2>2, <2>3
<1>3. CASE \E r \in Runs : CancelRun(c, r)
  <2> PICK r \in Runs : CancelRun(c, r)  BY <1>3
  <2>1. task' \in [Actors -> Task] /\ line' \in Seq(Actors)
    <3>1. Statement("flag", r) \in Task  BY StatementType DEF Runs
    <3> QED  BY <3>1, IssueType DEF CancelRun
  <2>2. TypeOK' /\ EndsFinal'
    BY <2>1, OnlyTasksType, OthersEndFinal DEF CancelRun, Issue, TypeOK
  <2> QED  BY <2>2
<1>4. CASE RecoverRuns(c)
  <2>1. task' \in [Actors -> Task] /\ line' \in Seq(Actors)
    <3>1. Statement("bump", activeRun) \in Task /\ Statement("rescue", None) \in Task
      BY StatementType DEF TypeOK, None
    <3> QED  BY <1>4, <3>1, IssueType DEF RecoverRuns
  <2>2. TypeOK' /\ EndsFinal'
    BY <1>4, <2>1, OnlyTasksType, OthersEndFinal DEF RecoverRuns, Issue, TypeOK
  <2> QED  BY <2>2
<1> QED  BY <1>1, <1>2, <1>3, <1>4

LEMMA ExecuteType ==
    ASSUME TypeOK, EndsFinal, NEW a \in Actors, Execute(a)
    PROVE  TypeOK' /\ EndsFinal'
<1> USE MaxRunsAssumption, BoundsAssumption, ActorFacts
<1> DEFINE Statements == \E op, val : val \in 0..MaxRuns /\ Executes(a, op, val)
<1>1. ASSUME Statements, rows' \in [Runs -> Row]
      PROVE  TypeOK' /\ EndsFinal'
  <2> PICK op, val : val \in 0..MaxRuns /\ Executes(a, op, val)
    BY <1>1
  <2>1. TypeOK'
    BY <1>1, ExecutesType DEF TypeOK
  <2>2. task'["drain"].op = task["drain"].op /\ task'["drain"].arg = task["drain"].arg
    BY DEF Executes, TypeOK, Task
  <2> QED  BY <2>1, <2>2 DEF EndsFinal
<1>2. rows \in [Runs -> Row] /\ process \in Nat  BY DEF TypeOK
<1>. Runs \subseteq 0..MaxRuns /\ None \in 0..MaxRuns  BY DEF Runs, None
<1>3. \A b : BOOL(b) \in 0..MaxRuns  BY DEF BOOL
<1>4. CASE ExecInsert(a)
  <2> PICK r \in Runs : Executes(a, "insert", r) /\ rows' = Inserted(rows, r)
    BY <1>4 DEF ExecInsert
  <2>1. rows' \in [Runs -> Row]  BY <1>2, InsertedType
  <2> QED  BY <1>1, <2>1
<1>5. CASE ExecMaxId(a)
  BY <1>1, <1>2, <1>5 DEF ExecMaxId, Present, Runs
<1>6. CASE ExecFlag(a)
  BY <1>1, <1>2, <1>3, <1>6, FlaggedType DEF ExecFlag
<1>7. CASE ExecHeartbeat(a)
  BY <1>1, <1>2, <1>7, BeatenType DEF ExecHeartbeat
<1>8. CASE ExecRescue(a)
  BY <1>1, <1>2, <1>8, RescuedType DEF ExecRescue
<1>9. CASE ExecRetry(a)
  BY <1>1, <1>2, <1>9, RetriedType DEF ExecRetry
<1>10. CASE a = "drain" /\ ExecSweep
  BY <1>1, <1>2, <1>10, SweptType DEF ExecSweep
<1>11. CASE a = "drain" /\ ExecClaim
  <2>1. \A r \in Runs : Claimed(rows, r, process) \in [Runs -> Row]
    BY <1>2, ClaimedType
  <2> QED  BY <1>1, <1>2, <1>11, <2>1 DEF ExecClaim
<1>12. CASE a = "drain" /\ ExecGetSpec
  BY <1>1, <1>2, <1>3, <1>12 DEF ExecGetSpec
<1>13. CASE a = "drain" /\ ExecComplete
  <2>1. Gene(task["drain"].op, task["drain"].run) \in {"null", "partial", "final"}
    BY DEF Gene
  <2>2. task["drain"].arg \in Final
    BY <1>13 DEF ExecComplete, Executes, EndsFinal
  <2> QED  BY <1>1, <1>2, <1>13, <2>1, <2>2, CompletedType DEF ExecComplete
<1>14. CASE a = "poll" /\ ExecPoll
  BY <1>1, <1>2, <1>3, <1>14 DEF ExecPoll
<1>15. CASE a = "save" /\ ExecSave
  BY <1>1, <1>2, <1>15, SavedType DEF ExecSave
<1> QED
  BY <1>4, <1>5, <1>6, <1>7, <1>8, <1>9, <1>10, <1>11, <1>12, <1>13, <1>14, <1>15
  DEF Execute

LEMMA RespondType ==
    ASSUME TypeOK, EndsFinal, NEW c \in Clients, Respond(c)
    PROVE  TypeOK' /\ EndsFinal'
<1> USE MaxRunsAssumption, BoundsAssumption, ActorFacts
<1>1. task[c] \in Task  BY DEF TypeOK
<1>2. ASSUME KickAndRespond(c)
      PROVE  EndsFinal'
  <2>1. CASE processing
    BY <1>2, <2>1, OthersEndFinal DEF KickAndRespond, Finish, TypeOK
  <2>2. CASE ~processing
    <3>1. task'["drain"] = Statement("sweep", None)
      BY <1>2, <2>2 DEF KickAndRespond, TypeOK
    <3> QED  BY <3>1 DEF EndsFinal, Statement, Idle
  <2> QED  BY <2>1, <2>2
<1>3. CASE AfterInsert(c)
  <2>1. [Statement("maxId", task[c].val) EXCEPT !.left = task[c].left] \in Task
    BY <1>1, StatementType DEF Task
  <2>2. task' \in [Actors -> Task] /\ line' \in Seq(Actors)
    BY <1>3, <2>1, ContinueType DEF AfterInsert, Answered
  <2> QED
    BY <1>3, <2>2, OnlyTasksType, OthersEndFinal DEF AfterInsert, Continue, TypeOK
<1>4. CASE AfterMaxId(c)
  <2>1. CASE task[c].left > 1
    <3>1. [Statement("insert", None) EXCEPT !.left = task[c].left - 1] \in Task
      BY <1>1, <2>1, StatementType DEF Task, None
    <3>2. task' \in [Actors -> Task] /\ line' \in Seq(Actors)
      BY <1>4, <2>1, <3>1, ContinueType DEF AfterMaxId, Answered
    <3>3. TypeOK'
      BY <1>4, <2>1, <3>2 DEF AfterMaxId, TypeOK, bounds
    <3> QED  BY <1>4, <2>1, <3>3, OthersEndFinal DEF AfterMaxId, Continue, TypeOK
  <2>2. CASE ~(task[c].left > 1)
    BY <1>2, <1>4, <2>2, KickType DEF AfterMaxId, Answered, TypeOK, bounds
  <2> QED  BY <2>1, <2>2
<1>5. CASE AfterFlag(c)
  <2>1. CASE KickAndRespond(c)
    BY <1>2, <1>5, <2>1, KickType DEF AfterFlag, Answered, TypeOK, bounds
  <2>2. CASE Finish(c) /\ UNCHANGED processing
    <3>1. task' \in [Actors -> Task] /\ line' \in Seq(Actors)
      BY <1>5, <2>2, FinishType DEF AfterFlag, Answered
    <3>2. TypeOK'
      BY <1>5, <2>2, <3>1 DEF AfterFlag, TypeOK, bounds
    <3> QED  BY <2>2, <3>2, OthersEndFinal DEF Finish, TypeOK
  <2> QED  BY <1>5, <2>1, <2>2 DEF AfterFlag
<1>6. CASE AfterBump(c)
  <2>1. task' \in [Actors -> Task] /\ line' \in Seq(Actors)
    BY <1>6, StatementType, ContinueType DEF AfterBump, Answered, Rejected, None
  <2> QED
    BY <1>6, <2>1, OnlyTasksType, OthersEndFinal DEF AfterBump, Continue, TypeOK
<1>7. CASE AfterRescue(c)
  <2>1. task' \in [Actors -> Task] /\ line' \in Seq(Actors)
    BY <1>7, StatementType, ContinueType DEF AfterRescue, Answered, None
  <2> QED
    BY <1>7, <2>1, OnlyTasksType, OthersEndFinal DEF AfterRescue, Continue, TypeOK
<1>8. CASE AfterRetry(c)
  <2>1. task' \in [Actors -> Task] /\ line' \in Seq(Actors)
    BY <1>8, FinishType DEF AfterRetry, Answered
  <2>2. TypeOK'
    BY <1>8, <2>1 DEF AfterRetry, TypeOK, memory, bounds
  <2> QED  BY <1>8, <2>2, OthersEndFinal DEF AfterRetry, Finish, TypeOK
<1>9. CASE RespondError(c)
  <2>1. task' \in [Actors -> Task] /\ line' \in Seq(Actors)
    BY <1>9, FinishType DEF RespondError, Rejected
  <2> QED
    BY <1>9, <2>1, OnlyTasksType, OthersEndFinal DEF RespondError, Finish, TypeOK
<1> QED  BY <1>3, <1>4, <1>5, <1>6, <1>7, <1>8, <1>9 DEF Respond

LEMMA TaskFields ==
    ASSUME NEW t \in Task
    PROVE  t.run \in 0..MaxRuns /\ t.val \in 0..MaxRuns
  BY DEF Task

LEMMA DrainType ==
    ASSUME TypeOK, EndsFinal, DrainHandles \/ RunnerEnds
    PROVE  TypeOK' /\ EndsFinal'
<1> USE MaxRunsAssumption, BoundsAssumption, ActorFacts
<1>1. /\ task["drain"] \in Task /\ task["drain"].run \in 0..MaxRuns
      /\ task["drain"].val \in 0..MaxRuns /\ None \in 0..MaxRuns
      /\ activeRun \in 0..MaxRuns /\ "failed" \in Final
      /\ "cancelled" \in Final /\ "completed" \in Final
  <2>1. task["drain"] \in Task /\ activeRun \in 0..MaxRuns  BY DEF TypeOK
  <2>2. None \in 0..MaxRuns  BY DEF None
  <2>3. "failed" \in Final /\ "cancelled" \in Final /\ "completed" \in Final  BY DEF Final
  <2> QED  BY <2>1, <2>2, <2>3, TaskFields
<1>2. Statement("sweep", None) \in Task  BY <1>1, StatementType
<1>3. ASSUME NEW s \in Task, Continue("drain", s), InOrder => line # <<>>,
             s.op \in {"reject", "complete", "fail"} => s.arg \in Final,
             OnlyTasks
      PROVE  TypeOK' /\ EndsFinal'
  <2>1. task' \in [Actors -> Task] /\ line' \in Seq(Actors)
    BY <1>3, ContinueType
  <2> QED  BY <1>3, <2>1, OnlyTasksType DEF Continue, EndsFinal, TypeOK
<1>4. ASSUME NEW e \in {"error", "completed", "cancelled"}, NextTurn(e),
             InOrder => line # <<>>
      PROVE  TypeOK' /\ EndsFinal'
  <2>1. task' \in [Actors -> Task] /\ line' \in Seq(Actors)
    BY <1>2, <1>4, ContinueType DEF NextTurn
  <2>2. TypeOK'
    BY <1>1, <1>4, <2>1 DEF NextTurn, TypeOK, bounds
  <2> QED
    BY <1>4, <2>2 DEF NextTurn, Continue, EndsFinal, TypeOK, Statement, Idle
<1>5. ASSUME NEW r \in 0..MaxRuns, Start(r), InOrder => line # <<>>
      PROVE  TypeOK' /\ EndsFinal'
  <2>1. Idle \in Task  BY StatementType
  <2>2. [Idle EXCEPT !.op = "evolve", !.run = r] \in Task
    BY <2>1 DEF Task
  <2>3. task' \in [Actors -> Task] /\ line' \in Seq(Actors)
    BY <1>5, <2>2, PopType DEF Start, TypeOK
  <2>4. TypeOK'
    BY <1>5, <2>3 DEF Start, TypeOK, bounds
  <2> QED  BY <1>5, <2>4 DEF Start, EndsFinal, TypeOK, Idle
<1>6. CASE AfterSweep
  <2>1. Statement("claim", None) \in Task  BY <1>1, StatementType
  <2> QED
    BY <1>3, <1>6, <2>1 DEF AfterSweep, Answered, Statement, Idle
<1>7. CASE ClaimIsEmpty
  <2>1. task' \in [Actors -> Task] /\ line' \in Seq(Actors)
    BY <1>7, FinishType DEF ClaimIsEmpty, Answered
  <2>2. TypeOK'
    BY <1>7, <2>1 DEF ClaimIsEmpty, TypeOK, bounds
  <2> QED
    BY <1>7, <2>2 DEF ClaimIsEmpty, Finish, EndsFinal, TypeOK, Idle
<1>8. CASE ClaimIsLegacy
  BY <1>1, <1>5, <1>8 DEF ClaimIsLegacy, Answered
<1>9. CASE ClaimHasSpec
  <2>1. Statement("getSpec", task["drain"].val) \in Task  BY <1>1, StatementType
  <2> QED
    BY <1>3, <1>9, <2>1 DEF ClaimHasSpec, Answered, Statement, Idle
<1>10. CASE SpecMissing
  <2>1. Complete("reject", task["drain"].run, "failed") \in Task
    BY <1>1, StatementType
  <2>2. Complete("reject", task["drain"].run, "failed").arg = "failed"
    BY DEF Complete, Statement, Idle
  <2> QED
    BY <1>1, <1>3, <1>10, <2>1, <2>2 DEF SpecMissing, Answered, Rejected
<1>11. CASE AfterReject
  <2>1. task' \in [Actors -> Task] /\ line' \in Seq(Actors)
    BY <1>2, <1>11, ContinueType DEF AfterReject, Answered
  <2>2. TypeOK'
    BY <1>11, <2>1 DEF AfterReject, TypeOK, memory, bounds
  <2> QED
    BY <1>11, <2>2 DEF AfterReject, Continue, EndsFinal, TypeOK, Statement, Idle
<1>12. CASE AfterComplete
  BY <1>4, <1>12 DEF AfterComplete, Answered
<1>13. CASE CatchAfterComplete
  <2>1. Complete("fail", task["drain"].run, "failed") \in Task
    BY <1>1, StatementType
  <2>2. Complete("fail", task["drain"].run, "failed").arg = "failed"
    BY DEF Complete, Statement, Idle
  <2> QED
    BY <1>1, <1>3, <1>13, <2>1, <2>2 DEF CatchAfterComplete, Answered, Rejected
<1>14. CASE AfterFail
  BY <1>4, <1>14 DEF AfterFail, Answered, Rejected
<1>15. CASE RunnerEnds
  <2> PICK op \in {"complete", "fail"}, s \in Final :
        Issue("drain", Complete(op, activeRun, s)) /\ OnlyTasks
    BY <1>1, <1>15 DEF RunnerEnds, RunnerReturns, RunnerThrows
  <2>1. Complete(op, activeRun, s) \in Task  BY <1>1, StatementType
  <2>2. task' \in [Actors -> Task] /\ line' \in Seq(Actors)
    BY <2>1, IssueType
  <2>3. Complete(op, activeRun, s).arg = s
    BY DEF Complete, Statement, Idle
  <2> QED
    BY <2>2, <2>3, OnlyTasksType DEF Issue, EndsFinal, TypeOK
<1>16. CASE SpecFound
  BY <1>1, <1>5, <1>16 DEF SpecFound, Answered
<1> QED
  BY <1>6, <1>7, <1>8, <1>9, <1>10, <1>11, <1>12, <1>13, <1>14, <1>15, <1>16
  DEF DrainHandles

LEMMA TimersType ==
    ASSUME TypeOK, EndsFinal,
           \/ BeatTick \/ PollTick \/ SaveTick
           \/ PollAnswered \/ \E t \in Timers : TimerSettles(t)
    PROVE  TypeOK' /\ EndsFinal'
<1> USE ActorFacts
<1>1. ASSUME NEW t \in Timers, Tick(t)
      PROVE  TypeOK' /\ EndsFinal'
  <2>1. activeRun \in 0..MaxRuns  BY DEF TypeOK
  <2>2. Statement(t, activeRun) \in Task  BY <2>1, StatementType DEF Timers
  <2>3. t \in Actors /\ t # "drain"  BY DEF Timers
  <2>4. task' \in [Actors -> Task] /\ line' \in Seq(Actors)
    BY <1>1, <2>2, <2>3, IssueType DEF Tick
  <2> QED
    BY <1>1, <2>3, <2>4, OnlyTasksType, OthersEndFinal DEF Tick, Issue, TypeOK
<1>2. ASSUME NEW t \in Timers, TimerSettles(t)
      PROVE  TypeOK' /\ EndsFinal'
  <2>1. t \in Actors /\ t # "drain"  BY DEF Timers
  <2>2. task' \in [Actors -> Task] /\ line' \in Seq(Actors)
    BY <1>2, <2>1, FinishType DEF TimerSettles, Answered, Rejected
  <2> QED
    BY <1>2, <2>1, <2>2, OnlyTasksType, OthersEndFinal
    DEF TimerSettles, Finish, TypeOK
<1>3. CASE PollAnswered
  <2>1. task' \in [Actors -> Task] /\ line' \in Seq(Actors)
    BY <1>3, FinishType DEF PollAnswered, Answered
  <2>2. TypeOK'
    BY <1>3, <2>1 DEF PollAnswered, TypeOK, bounds
  <2> QED  BY <1>3, <2>2, OthersEndFinal DEF PollAnswered, Finish, TypeOK
<1> QED
  BY <1>1, <1>2, <1>3 DEF BeatTick, PollTick, SaveTick, Timers

LEMMA EnvironmentType ==
    ASSUME TypeOK, EndsFinal,
           \/ \E a \in Actors : ExecFails(a)
           \/ AfterRescue("boot") \/ AfterRetry("boot")
           \/ TimePasses \/ Crash \/ Boot
           \/ UNCHANGED vars
    PROVE  TypeOK' /\ EndsFinal'
<1> USE MaxRunsAssumption, BoundsAssumption, ActorFacts
<1>1. CASE \E a \in Actors : ExecFails(a)
  <2> PICK a \in Actors : ExecFails(a)  BY <1>1
  <2>1. task[a] \in Task  BY DEF TypeOK
  <2>2. [task[a] EXCEPT !.phase = "failed"] \in Task  BY <2>1 DEF Task
  <2>3. task' = [task EXCEPT ![a] = [task[a] EXCEPT !.phase = "failed"]]
    BY DEF ExecFails, TypeOK
  <2>4. task' \in [Actors -> Task]  BY <2>2, <2>3 DEF TypeOK
  <2>5. dbErrors' \in 0..MaxDbErrors  BY DEF ExecFails, TypeOK
  <2>6. TypeOK'  BY <2>4, <2>5 DEF ExecFails, TypeOK, memory
  <2>7. /\ task'["drain"].op = task["drain"].op
        /\ task'["drain"].arg = task["drain"].arg
    BY DEF ExecFails, TypeOK, Task
  <2> QED  BY <2>6, <2>7 DEF EndsFinal
<1>2. CASE AfterRescue("boot")
  <2>1. task' \in [Actors -> Task] /\ line' \in Seq(Actors)
    BY <1>2, StatementType, ContinueType DEF AfterRescue, Answered, None
  <2> QED
    BY <1>2, <2>1, OnlyTasksType, OthersEndFinal DEF AfterRescue, Continue, TypeOK
<1>3. CASE AfterRetry("boot")
  <2>1. task' \in [Actors -> Task] /\ line' \in Seq(Actors)
    BY <1>3, FinishType DEF AfterRetry, Answered
  <2>2. TypeOK'
    BY <1>3, <2>1 DEF AfterRetry, TypeOK, memory, bounds
  <2> QED  BY <1>3, <2>2, OthersEndFinal DEF AfterRetry, Finish, TypeOK
<1>4. CASE TimePasses
  <2>1. rows' \in [Runs -> Row]  BY <1>4, AgedType DEF TimePasses, TypeOK
  <2> QED
    BY <1>4, <2>1, OthersEndFinal DEF TimePasses, TypeOK, memory, bounds
<1>5. CASE Crash
  <2>1. Idle \in Task  BY StatementType DEF None
  <2>2. task' \in [Actors -> Task] /\ task'["drain"] = Idle
    BY <1>5, <2>1 DEF Crash
  <2>3. line' \in Seq(Actors)  BY <1>5, EmptySeq DEF Crash
  <2>4. /\ activeRun' \in 0..MaxRuns /\ server' = "down"
        /\ processing' = FALSE /\ cancelRequested' = FALSE
        /\ UNCHANGED <<rows, process, quota, dbErrors, told>>
    BY <1>5 DEF Crash, None, bounds
  <2>5. TypeOK'  BY <2>2, <2>3, <2>4 DEF TypeOK
  <2> QED  BY <2>2, <2>5 DEF EndsFinal, Idle
<1>6. CASE Boot
  <2>1. Statement("rescue", None) \in Task  BY StatementType DEF None
  <2>2. task' \in [Actors -> Task] /\ line' \in Seq(Actors)
    BY <1>6, <2>1, IssueType DEF Boot
  <2>3. TypeOK'
    BY <1>6, <2>2 DEF Boot, TypeOK, memory, bounds
  <2> QED  BY <1>6, <2>3, OthersEndFinal DEF Boot, Issue, TypeOK
<1>7. CASE UNCHANGED vars
  BY <1>7 DEF vars, TypeOK, EndsFinal, memory, bounds
<1> QED  BY <1>1, <1>2, <1>3, <1>4, <1>5, <1>6, <1>7

LEMMA NextType ==
    ASSUME TypeOK, EndsFinal, [Next]_vars
    PROVE  TypeOK' /\ EndsFinal'
<1>1. ASSUME NEW c \in Clients,
             \/ \E n \in 1..MaxBatch : PostRuns(c, n)
             \/ PostNothing(c)
             \/ \E r \in Runs : CancelRun(c, r)
             \/ RecoverRuns(c)
             \/ Respond(c)
      PROVE  TypeOK' /\ EndsFinal'
  BY <1>1, RequestsType, RespondType
<1>2. ASSUME NEW a \in Actors, Execute(a) \/ ExecFails(a)
      PROVE  TypeOK' /\ EndsFinal'
  BY <1>2, ExecuteType, EnvironmentType
<1>3. CASE DrainHandles \/ RunnerEnds
  BY <1>3, DrainType
<1>4. CASE \/ BeatTick \/ PollTick \/ SaveTick
           \/ PollAnswered \/ \E t \in Timers : TimerSettles(t)
  BY <1>4, TimersType
<1>5. CASE \/ AfterRescue("boot") \/ AfterRetry("boot")
           \/ TimePasses \/ Crash \/ Boot
           \/ UNCHANGED vars
  BY <1>5, EnvironmentType
<1> QED  BY <1>1, <1>2, <1>3, <1>4, <1>5 DEF Next

\* Every reachable state is well typed, whatever the requests, timers, crashes
\* and rejected statements.  It needs that a statement which ends a run carries
\* a final status: completeRun writes the status the drain loop decided on
\* before it issued the UPDATE.
THEOREM TypeCorrect == Spec => []TypeOK
<1>1. Init => TypeOK /\ EndsFinal  BY TypeInit
<1>2. TypeOK /\ EndsFinal /\ [Next]_vars => TypeOK' /\ EndsFinal'
  BY NextType
<1> QED  BY <1>1, <1>2, PTL DEF Spec

-----------------------------------------------------------------------------
(* Cancelled runs are not executed.                                        *)

\* Only the claim makes a row running, and it takes no row with a cancel.
LEMMA OnlyClaimStarts ==
    ASSUME TypeOK, EndsFinal, [Next]_vars, NEW r \in Runs,
           rows[r].status = "pending", rows[r].cancel_requested
    PROVE  rows'[r].status # "running"
<1>1. rows \in [Runs -> Row] /\ rows[r] \in Row  BY DEF TypeOK
<1>2. CASE rows' = rows  BY <1>2
<1>3. CASE TimePasses
  BY <1>1, <1>3 DEF TimePasses, Aged, Row
<1>4. ASSUME NEW a \in Actors, Execute(a)
      PROVE  rows'[r].status # "running"
  <2>1. CASE ExecInsert(a)
    BY <1>1, <2>1 DEF ExecInsert, Inserted, AbsentRow, Row
  <2>2. CASE ExecMaxId(a) \/ ExecGetSpec \/ ExecPoll
    BY <2>2 DEF ExecMaxId, ExecGetSpec, ExecPoll
  <2>3. CASE ExecFlag(a)
    BY <1>1, <2>3 DEF ExecFlag, Flagged, Row
  <2>4. CASE ExecHeartbeat(a)
    BY <1>1, <2>4 DEF ExecHeartbeat, Beaten, Row
  <2>5. CASE ExecRescue(a)
    BY <1>1, <2>5 DEF ExecRescue, Rescued, Stale, Row
  <2>6. CASE ExecRetry(a)
    BY <1>1, <2>6 DEF ExecRetry, Retried, Stale, Row
  <2>7. CASE ExecSweep
    BY <1>1, <2>7 DEF ExecSweep, Swept, Row
  <2>8. CASE ExecClaim
    <3>1. r \notin Claimable(rows)  BY DEF Claimable
    <3>2. ASSUME NEW q \in Runs, IsClaimed(rows, q), rows' = Claimed(rows, q, process)
          PROVE  rows'[r] = rows[r]
      BY <1>1, <3>1, <3>2 DEF IsClaimed, Claimed
    <3> QED  BY <2>8, <3>2 DEF ExecClaim
  <2>9. CASE ExecSave
    BY <1>1, <2>9 DEF ExecSave, Saved, Row
  <2>10. CASE a = "drain" /\ ExecComplete
    BY <1>1, <2>10 DEF ExecComplete, Executes, EndsFinal, Completed, Row, Final
  <2> QED
    BY <1>4, <2>1, <2>2, <2>3, <2>4, <2>5, <2>6, <2>7, <2>8, <2>9, <2>10 DEF Execute
<1>5. ASSUME NEW c \in Clients,
             \/ \E n \in 1..MaxBatch : PostRuns(c, n)
             \/ PostNothing(c)
             \/ \E q \in Runs : CancelRun(c, q)
             \/ RecoverRuns(c)
             \/ Respond(c)
      PROVE  rows' = rows
  BY <1>5 DEF PostRuns, PostNothing, CancelRun, RecoverRuns, OnlyTasks, Respond,
              AfterInsert, AfterMaxId, AfterFlag, AfterBump, AfterRescue, AfterRetry,
              RespondError
<1>6. CASE DrainHandles \/ RunnerEnds
  BY <1>2, <1>6
  DEF DrainHandles, RunnerEnds, RunnerReturns, RunnerThrows, AfterSweep,
      ClaimIsEmpty, ClaimIsLegacy, ClaimHasSpec, SpecFound, SpecMissing, AfterReject,
      AfterComplete, CatchAfterComplete, AfterFail, NextTurn, Start, OnlyTasks
<1>7. CASE \/ BeatTick \/ PollTick \/ SaveTick
           \/ PollAnswered \/ \E t \in Timers : TimerSettles(t)
  BY <1>2, <1>7
  DEF BeatTick, PollTick, SaveTick, Tick, PollAnswered, TimerSettles, OnlyTasks
<1>8. ASSUME NEW a \in Actors, ExecFails(a)
      PROVE  rows' = rows
  BY <1>8 DEF ExecFails
<1>9. CASE \/ AfterRescue("boot") \/ AfterRetry("boot")
           \/ Crash \/ Boot \/ UNCHANGED vars
  BY <1>2, <1>9 DEF AfterRescue, AfterRetry, OnlyTasks, Crash, Boot, vars
<1> QED
  BY <1>2, <1>3, <1>4, <1>5, <1>6, <1>7, <1>8, <1>9 DEF Next

\* A pending run with a cancel requested is never executed, whatever comes
\* between the sweep and the claim of claimNextRun: the claim repeats the
\* condition cancel_requested = false in its own WHERE clause.
THEOREM CancelledNeverClaimedHolds == Spec => CancelledNeverClaimed
<1>1. Init => TypeOK /\ EndsFinal  BY TypeInit
<1>2. TypeOK /\ EndsFinal /\ [Next]_vars => TypeOK' /\ EndsFinal'
  BY NextType
<1>3. TypeOK /\ EndsFinal /\ [Next]_vars =>
        [\A r \in Runs :
            (rows[r].status = "pending" /\ rows[r].cancel_requested)
                => rows'[r].status # "running"]_rows
  BY OnlyClaimStarts
<1> QED  BY <1>1, <1>2, <1>3, PTL DEF Spec, CancelledNeverClaimed

-----------------------------------------------------------------------------
\* Leases do not expire under a recovery or while a run is set up, the process
\* stays down longer than the boot timeout, DuckDB rejects nothing and every
\* result has a best gene.
Quiet == Prompt /\ ColdRestart /\ MaxDbErrors = 0 /\ BarrenRuns = {}

LEMMA HoldsFrame ==
    ASSUME task'["drain"] = task["drain"]
    PROVE  \A r \in Runs : Holds(r)' <=> Holds(r)
  BY DEF Holds

\* What a task looks like.
LEMMA StatementFields ==
    /\ Idle.op = "none" /\ Idle.phase = "done" /\ Idle.run = None
    /\ \A op, r, s :
        /\ Statement(op, r).op = op /\ Statement(op, r).run = r
        /\ Statement(op, r).phase = "issued"
        /\ Complete(op, r, s).op = op /\ Complete(op, r, s).run = r
        /\ Complete(op, r, s).phase = "issued"
        /\ \A n : /\ [Statement(op, r) EXCEPT !.left = n].op = op
                  /\ [Statement(op, r) EXCEPT !.left = n].run = r
                  /\ [Statement(op, r) EXCEPT !.left = n].phase = "issued"
  BY DEF Complete, Statement, Idle

LEMMA TaskSet ==
    ASSUME TypeOK, NEW a \in Actors, NEW s, task' = [task EXCEPT ![a] = s]
    PROVE  /\ task'[a] = s
           /\ \A b \in Actors \ {a} : task'[b] = task[b]
  BY DEF TypeOK

\* A request or a timer that takes its next step without touching the table or
\* the drain loop.
LEMMA BystanderStep ==
    ASSUME TypeOK, Ownership, server = "up",
           UNCHANGED <<rows, server, process, activeRun, processing>>,
           NEW a \in Clients \cup Timers, NEW s,
           task'[a] = s, \A b \in Actors \ {a} : task'[b] = task[b],
           s.phase # "failed",
           a \in Clients /\ s.op \in {"rescue", "retry"}
               => \A r \in Runs : Holds(r) => Fresh(r),
           a \in Clients /\ s.op = "bump"
               => s.phase = "issued" /\ \A r \in Runs : Holds(r) => Fresh(r) \/ s.run = r,
           a = "save" /\ s.op = "save" /\ s.phase = "issued"
               => \A r \in Runs : s.run = r => Holds(r) \/ rows[r].status \in Final
    PROVE  Ownership'
<1> USE ActorFacts
<1>1. a \in Actors \ {"drain", "boot"}  BY DEF Actors, Timers
<1>2. task'["drain"] = task["drain"] /\ task'["boot"] = task["boot"]  BY <1>1
<1>3. \A r \in Runs : Holds(r)' <=> Holds(r)  BY <1>2, HoldsFrame
<1>4. Settled'  BY <1>1 DEF Ownership, Settled
<1>5. OnlyBoot' /\ BootProgress'
  BY <1>2 DEF Ownership, OnlyBoot, BootProgress, Fresh, Running
<1>6. DrainShape'  BY <1>2 DEF Ownership, DrainShape
<1>7. Lease'
  BY <1>1, <1>2, <1>3 DEF Ownership, Lease, Fresh
<1>8. SaveTarget'
  <2>1. CASE a = "save"  BY <1>3, <2>1 DEF SaveTarget
  <2>2. CASE a # "save"
    <3>1. task'["save"] = task["save"]  BY <2>2
    <3> QED  BY <1>3, <3>1 DEF Ownership, SaveTarget
  <2> QED  BY <2>1, <2>2
<1>9. RunningIffHeld'  BY <1>3 DEF Ownership, RunningIffHeld
<1>10. PendingIsClean'  BY DEF Ownership, PendingIsClean
<1> QED  BY <1>4, <1>5, <1>6, <1>7, <1>8, <1>9, <1>10 DEF Ownership

-----------------------------------------------------------------------------
(* The connection executes a statement.                                    *)

LEMMA ExecutesFields ==
    ASSUME TypeOK, NEW a \in Actors, NEW op, NEW val, Executes(a, op, val)
    PROVE  /\ task[a].op = op /\ task[a].phase = "issued"
           /\ task'[a].op = op /\ task'[a].phase = "done" /\ task'[a].val = val
           /\ task'[a].run = task[a].run /\ task'[a].arg = task[a].arg
           /\ \A b \in Actors \ {a} : task'[b] = task[b]
           /\ UNCHANGED <<server, process, processing, activeRun>>
<1>1. task[a] \in Task  BY DEF TypeOK
<1>2. task' = [task EXCEPT ![a] = [task[a] EXCEPT !.phase = "done", !.val = val]]
  BY DEF TypeOK, Executes
<1>3. task'[a] = [task[a] EXCEPT !.phase = "done", !.val = val]
  BY <1>2 DEF TypeOK
<1>4. \A b \in Actors \ {a} : task'[b] = task[b]
  BY <1>2 DEF TypeOK
<1>5. task'[a].op = task[a].op /\ task'[a].run = task[a].run
      /\ task'[a].arg = task[a].arg
  BY <1>1, <1>3 DEF Task
<1>6. task'[a].phase = "done" /\ task'[a].val = val
  BY <1>1, <1>3 DEF Task
<1> QED  BY <1>4, <1>5, <1>6 DEF Executes, memory

\* Nobody's statement is executed before the server listens, but the boot's.
LEMMA ServerIsUp ==
    ASSUME Ownership, NEW a \in Actors \ {"boot"}, task[a].op # "none"
    PROVE  server = "up" /\ task["boot"] = Idle
  BY StatementFields, ActorFacts DEF Ownership, OnlyBoot, TypeOK

\* A request or a timer has its statement executed, which leaves alone every
\* column the invariant looks at.
LEMMA HarmlessExecution ==
    ASSUME TypeOK, Ownership, NEW a \in Clients \cup Timers, NEW op, NEW val,
           Executes(a, op, val), op # "bump", op # "none",
           \A r \in Runs :
              /\ rows'[r].status = rows[r].status
              /\ rows'[r].claimed_by = rows[r].claimed_by
              /\ rows[r].status = "pending" => rows'[r].best_gene = rows[r].best_gene
              /\ rows[r].heartbeat_at = "fresh" => rows'[r].heartbeat_at = "fresh"
    PROVE  Ownership'
<1> USE ActorFacts
<1>1. a \in Actors \ {"drain", "boot"}  BY DEF Actors, Timers
<1>2. /\ task[a].op = op /\ task[a].phase = "issued"
      /\ task'[a].op = op /\ task'[a].phase = "done"
      /\ \A b \in Actors \ {a} : task'[b] = task[b]
      /\ UNCHANGED <<server, process, processing, activeRun>>
  BY <1>1, ExecutesFields
<1>3. server = "up" /\ task["boot"] = Idle  BY <1>1, <1>2, ServerIsUp
<1>4. task'["drain"] = task["drain"] /\ task'["boot"] = task["boot"]
  BY <1>1, <1>2
<1>5. \A r \in Runs : Holds(r)' <=> Holds(r)  BY <1>4, HoldsFrame
<1>6. Settled'  BY <1>2 DEF Ownership, Settled
<1>7. OnlyBoot' /\ BootProgress'
  BY <1>2, <1>3, <1>4 DEF OnlyBoot, BootProgress
<1>8. DrainShape'  BY <1>2, <1>4 DEF Ownership, DrainShape
<1>9. Lease'
  <2> SUFFICES ASSUME NEW r \in Runs, Holds(r)'
               PROVE  /\ task'["drain"].op \in {"claim", "getSpec", "reject"} => Fresh(r)'
                      /\ \A c \in Clients :
                           /\ task'[c].op \in {"rescue", "retry"} => Fresh(r)'
                           /\ task'[c].op = "bump" =>
                                 Fresh(r)' \/ (task'[c].phase = "issued" /\ task'[c].run = r)
    BY DEF Lease
  <2>1. Holds(r)  BY <1>5
  <2>2. Fresh(r) => Fresh(r)'  BY DEF Fresh
  <2>3. \A c \in Clients \ {a} : task'[c] = task[c]  BY <1>2
  <2> QED  BY <1>2, <1>4, <2>1, <2>2, <2>3 DEF Ownership, Lease
<1>10. SaveTarget'
  <2>1. CASE a = "save"  BY <1>2, <2>1 DEF SaveTarget
  <2>2. CASE a # "save"
    <3>1. task'["save"] = task["save"]  BY <1>2, <2>2
    <3> QED  BY <1>5, <3>1 DEF Ownership, SaveTarget
  <2> QED  BY <2>1, <2>2
<1>11. RunningIffHeld'  BY <1>2, <1>3, <1>5 DEF Ownership, RunningIffHeld
<1>12. PendingIsClean'  BY DEF Ownership, PendingIsClean
<1> QED  BY <1>6, <1>7, <1>8, <1>9, <1>10, <1>11, <1>12 DEF Ownership

LEMMA ClientExecutes ==
    ASSUME TypeOK, Ownership, NEW c \in Clients, Execute(c)
    PROVE  Ownership'
<1> USE ActorFacts
<1>1. c \in Clients \cup Timers /\ c \in Actors \ {"drain", "boot", "beat", "poll", "save"}
  OBVIOUS
<1>2. rows \in [Runs -> Row]  BY DEF TypeOK
<1>3. CASE ExecInsert(c)
  <2> PICK r \in Runs : /\ IsNextId(rows, r)
                        /\ Executes(c, "insert", r)
                        /\ rows' = Inserted(rows, r)
    BY <1>3 DEF ExecInsert
  <2>1. rows[r].status = "absent"  BY DEF IsNextId, Present
  <2>2. /\ rows'[r].status = "pending" /\ rows'[r].best_gene = "null"
        /\ rows'[r].claimed_by = 0
        /\ \A q \in Runs \ {r} : rows'[q] = rows[q]
    BY <1>2 DEF Inserted, AbsentRow
  <2>3. /\ task[c].op = "insert"
        /\ task'[c].op = "insert" /\ task'[c].phase = "done"
        /\ \A b \in Actors \ {c} : task'[b] = task[b]
        /\ UNCHANGED <<server, process, processing, activeRun>>
    BY <1>1, ExecutesFields
  <2>4. server = "up" /\ task["boot"] = Idle  BY <1>1, <2>3, ServerIsUp
  <2>5. task'["drain"] = task["drain"] /\ task'["boot"] = task["boot"]
        /\ task'["save"] = task["save"]
    BY <1>1, <2>3
  <2>6. \A q \in Runs : Holds(q)' <=> Holds(q)  BY <2>5, HoldsFrame
  <2>7. ~Holds(r)  BY <2>1, <2>4 DEF Ownership, RunningIffHeld
  <2>8. Settled'  BY <2>3 DEF Ownership, Settled
  <2>9. OnlyBoot' /\ BootProgress'
    BY <2>3, <2>4, <2>5 DEF OnlyBoot, BootProgress
  <2>10. DrainShape'  BY <2>3, <2>5 DEF Ownership, DrainShape
  <2>11. Lease'
    <3>1. \A q \in Runs : Holds(q)' => Holds(q) /\ q # r  BY <2>6, <2>7
    <3>2. \A d \in Clients \ {c} : task'[d] = task[d]  BY <2>3
    <3> QED  BY <2>2, <2>3, <2>5, <3>1, <3>2 DEF Ownership, Lease, Fresh
  <2>12. SaveTarget'
    BY <2>1, <2>2, <2>5, <2>6 DEF Ownership, SaveTarget, Final
  <2>13. RunningIffHeld'
    BY <2>2, <2>3, <2>4, <2>6, <2>7 DEF Ownership, RunningIffHeld
  <2>14. PendingIsClean'
    BY <2>2 DEF Ownership, PendingIsClean
  <2> QED  BY <2>8, <2>9, <2>10, <2>11, <2>12, <2>13, <2>14 DEF Ownership
<1>4. CASE ExecMaxId(c)
  BY <1>1, <1>4, HarmlessExecution DEF ExecMaxId
<1>5. CASE ExecFlag(c)
  <2>1. \A r \in Runs :
           /\ rows'[r].status = rows[r].status
           /\ rows'[r].claimed_by = rows[r].claimed_by
           /\ rows'[r].best_gene = rows[r].best_gene
           /\ rows'[r].heartbeat_at = rows[r].heartbeat_at
    BY <1>2, <1>5 DEF ExecFlag, Flagged, Row
  <2> QED  BY <1>1, <1>5, <2>1, HarmlessExecution DEF ExecFlag
<1>6. CASE ExecHeartbeat(c)
  <2>1. PICK op \in {"bump", "beat"} : Executes(c, op, 0)
    BY <1>6 DEF ExecHeartbeat
  <2>2. /\ task[c].op = op /\ task[c].phase = "issued"
        /\ task'[c].op = op /\ task'[c].phase = "done"
        /\ \A b \in Actors \ {c} : task'[b] = task[b]
        /\ UNCHANGED <<server, process, processing, activeRun>>
    BY <1>1, <2>1, ExecutesFields
  <2>3. /\ \A r \in Runs :
              /\ rows'[r].status = rows[r].status
              /\ rows'[r].claimed_by = rows[r].claimed_by
              /\ rows'[r].best_gene = rows[r].best_gene
              /\ rows[r].heartbeat_at = "fresh" => rows'[r].heartbeat_at = "fresh"
        /\ \A r \in Runs : r = task[c].run /\ rows[r].status = "running"
              => rows'[r].heartbeat_at = "fresh"
    BY <1>2, <1>6 DEF ExecHeartbeat, Beaten, Row
  <2>4. CASE op = "beat"
    BY <1>1, <2>1, <2>3, <2>4, HarmlessExecution
  <2>5. CASE op = "bump"
    <3>1. server = "up" /\ task["boot"] = Idle  BY <1>1, <2>2, ServerIsUp
    <3>2. task'["drain"] = task["drain"] /\ task'["boot"] = task["boot"]
          /\ task'["save"] = task["save"]
      BY <1>1, <2>2
    <3>3. \A q \in Runs : Holds(q)' <=> Holds(q)  BY <3>2, HoldsFrame
    <3>4. Settled'  BY <2>2 DEF Ownership, Settled
    <3>5. OnlyBoot' /\ BootProgress'
      BY <2>2, <3>1, <3>2 DEF OnlyBoot, BootProgress
    <3>6. DrainShape'  BY <2>2, <3>2 DEF Ownership, DrainShape
    <3>7. Lease'
      <4>1. \A q \in Runs : Holds(q)' => Holds(q) /\ rows[q].status = "running"
        BY <3>1, <3>3 DEF Ownership, RunningIffHeld
      <4>2. \A d \in Clients \ {c} : task'[d] = task[d]  BY <2>2
      <4> QED
        BY <2>2, <2>3, <2>5, <3>2, <4>1, <4>2 DEF Ownership, Lease, Fresh
    <3>8. SaveTarget'  BY <2>3, <3>2, <3>3 DEF Ownership, SaveTarget
    <3>9. RunningIffHeld'
      BY <2>2, <2>3, <3>1, <3>3 DEF Ownership, RunningIffHeld
    <3>10. PendingIsClean'  BY <2>3 DEF Ownership, PendingIsClean
    <3> QED
      BY <3>4, <3>5, <3>6, <3>7, <3>8, <3>9, <3>10 DEF Ownership
  <2> QED  BY <2>4, <2>5
<1>7. CASE ExecRescue(c) \/ ExecRetry(c)
  <2>1. PICK op \in {"rescue", "retry"} : Executes(c, op, 0)
    BY <1>7 DEF ExecRescue, ExecRetry
  <2>2. task[c].op = op  BY <1>1, <2>1, ExecutesFields
  <2>3. server = "up"  BY <1>1, <2>2, ServerIsUp
  <2>4. \A r \in Runs : ~Stale(rows[r])
    BY <2>2, <2>3 DEF Ownership, RunningIffHeld, Lease, Fresh, Stale
  <2>5. rows' = rows
    <3>1. Rescued(rows) = rows  BY <1>2, <2>4 DEF Rescued
    <3>2. Retried(rows) = rows  BY <1>2, <2>4 DEF Retried
    <3> QED  BY <1>7, <3>1, <3>2 DEF ExecRescue, ExecRetry
  <2> QED  BY <1>1, <2>1, <2>5, HarmlessExecution
<1> QED  BY <1>1, <1>3, <1>4, <1>5, <1>6, <1>7 DEF Execute

LEMMA TimerExecutes ==
    ASSUME TypeOK, Ownership, NEW t \in Timers, Execute(t)
    PROVE  Ownership'
<1> USE ActorFacts
<1>1. t \in Clients \cup Timers /\ t \in Actors \ {"drain", "boot"} /\ t \notin Clients
  BY DEF Actors, Timers
<1>2. rows \in [Runs -> Row]  BY DEF TypeOK
<1>3. CASE ExecHeartbeat(t) /\ t = "beat"
  <2>1. PICK op \in {"bump", "beat"} : Executes(t, op, 0)
    BY <1>3 DEF ExecHeartbeat
  <2>2. \A r \in Runs :
           /\ rows'[r].status = rows[r].status
           /\ rows'[r].claimed_by = rows[r].claimed_by
           /\ rows'[r].best_gene = rows[r].best_gene
           /\ rows[r].heartbeat_at = "fresh" => rows'[r].heartbeat_at = "fresh"
    BY <1>2, <1>3 DEF ExecHeartbeat, Beaten, Row
  <2>3. /\ task[t].op = op
        /\ task'[t].op = op /\ task'[t].phase = "done"
        /\ \A b \in Actors \ {t} : task'[b] = task[b]
        /\ UNCHANGED <<server, process, processing, activeRun>>
    BY <1>1, <2>1, ExecutesFields
  <2>4. server = "up" /\ task["boot"] = Idle  BY <1>1, <2>3, ServerIsUp
  <2>5. /\ task'["drain"] = task["drain"] /\ task'["boot"] = task["boot"]
        /\ task'["save"] = task["save"]
        /\ \A c \in Clients : task'[c] = task[c]
    BY <1>1, <1>3, <2>3
  <2>6. \A q \in Runs : Holds(q)' <=> Holds(q)  BY <2>5, HoldsFrame
  <2>7. Settled'  BY <2>3 DEF Ownership, Settled
  <2>8. OnlyBoot' /\ BootProgress'
    BY <2>3, <2>4, <2>5 DEF OnlyBoot, BootProgress
  <2>9. DrainShape'  BY <2>3, <2>5 DEF Ownership, DrainShape
  <2>10. Lease'  BY <2>2, <2>5, <2>6 DEF Ownership, Lease, Fresh
  <2>11. SaveTarget'  BY <2>2, <2>5, <2>6 DEF Ownership, SaveTarget
  <2>12. RunningIffHeld'
    BY <2>2, <2>3, <2>4, <2>6 DEF Ownership, RunningIffHeld
  <2>13. PendingIsClean'  BY <2>2 DEF Ownership, PendingIsClean
  <2> QED  BY <2>7, <2>8, <2>9, <2>10, <2>11, <2>12, <2>13 DEF Ownership
<1>4. CASE ExecPoll /\ t = "poll"
  BY <1>1, <1>4, HarmlessExecution DEF ExecPoll
<1>5. CASE ExecSave /\ t = "save"
  <2>1. task["save"].op = "save" /\ task["save"].phase = "issued"
    BY <1>5 DEF ExecSave, Executes
  <2>2. server = "up"  BY <1>1, <1>5, <2>1, ServerIsUp
  <2>3. \A r \in Runs : r = task["save"].run => rows[r].status # "pending"
    BY <2>1, <2>2 DEF Ownership, SaveTarget, RunningIffHeld, Final
  <2>4. \A r \in Runs :
           /\ rows'[r].status = rows[r].status
           /\ rows'[r].claimed_by = rows[r].claimed_by
           /\ r # task["save"].run => rows'[r].best_gene = rows[r].best_gene
           /\ rows'[r].heartbeat_at = rows[r].heartbeat_at
    BY <1>2, <1>5 DEF ExecSave, Saved, Row
  <2> QED
    BY <1>1, <1>5, <2>3, <2>4, HarmlessExecution DEF ExecSave
<1> QED  BY <1>1, <1>3, <1>4, <1>5 DEF Execute, Timers

LEMMA BootExecutes ==
    ASSUME TypeOK, Ownership, Execute("boot")
    PROVE  Ownership'
<1> USE ActorFacts
<1>1. PICK op \in {"rescue", "retry"} :
        /\ Executes("boot", op, 0)
        /\ op = "rescue" => rows' = Rescued(rows)
        /\ op = "retry" => rows' = Retried(rows)
  BY DEF Execute, ExecRescue, ExecRetry
<1>2. /\ task["boot"].op = op /\ task["boot"].phase = "issued"
      /\ task'["boot"].op = op /\ task'["boot"].phase = "done"
      /\ \A b \in Actors \ {"boot"} : task'[b] = task[b]
      /\ UNCHANGED <<server, process, processing, activeRun>>
  BY <1>1, ExecutesFields
<1>3. server = "booting"
  BY <1>2, StatementFields DEF Ownership, OnlyBoot
<1>4. task'["drain"] = Idle /\ task'["save"] = Idle
      /\ \A c \in Clients : task'[c] = Idle
  BY <1>2, <1>3 DEF Ownership, OnlyBoot
<1>5. \A r \in Runs : ~Holds(r)'  BY <1>4 DEF Holds, Idle
<1>6. Settled'  BY <1>2 DEF Ownership, Settled
<1>7. OnlyBoot'  BY <1>2, <1>3 DEF Ownership, OnlyBoot
<1>8. BootProgress'
  <2>1. \A r \in Runs : ~Fresh(r)  BY <1>3 DEF Ownership, BootProgress
  <2>2. CASE op = "rescue"
    <3>1. \A r \in Runs : ~Fresh(r)' /\ (Running(r)' => rows'[r].best_gene = "null")
      BY <1>1, <2>1, <2>2 DEF Rescued, Fresh, Running, Stale, TypeOK, Row
    <3> QED  BY <1>2, <2>2, <3>1 DEF BootProgress
  <2>3. CASE op = "retry"
    <3>1. \A r \in Runs : Running(r) => rows[r].best_gene = "null"
      BY <1>2, <1>3, <2>3 DEF Ownership, BootProgress
    <3>2. ASSUME NEW r \in Runs
          PROVE  rows'[r].heartbeat_at # "fresh" /\ rows'[r].status # "running"
      <4>1. rows[r] \in Row /\ rows[r].heartbeat_at # "fresh"
        BY <2>1 DEF Fresh, TypeOK
      <4>2. rows'[r] = IF Stale(rows[r]) /\ rows[r].best_gene = "null"
                         THEN [rows[r] EXCEPT !.status       = "pending",
                                              !.claimed_by   = 0,
                                              !.heartbeat_at = "null"]
                         ELSE rows[r]
        BY <1>1, <2>3 DEF Retried
      <4> QED  BY <3>1, <4>1, <4>2 DEF Running, Stale, Row
    <3> QED  BY <3>2 DEF BootProgress, Fresh, Running
  <2> QED  BY <2>2, <2>3
<1>9. DrainShape'  BY <1>2 DEF Ownership, DrainShape
<1>10. Lease' /\ SaveTarget' /\ RunningIffHeld'
  BY <1>2, <1>3, <1>4, <1>5, StatementFields DEF Lease, SaveTarget, RunningIffHeld
<1>11. PendingIsClean'
  <2> SUFFICES ASSUME NEW r \in Runs, rows'[r].status = "pending"
               PROVE  rows'[r].best_gene = "null" /\ rows'[r].claimed_by = 0
    BY DEF PendingIsClean
  <2>1. rows[r] \in Row /\ (rows[r].status = "pending" =>
            rows[r].best_gene = "null" /\ rows[r].claimed_by = 0)
    BY DEF Ownership, PendingIsClean, TypeOK
  <2>2. CASE op = "rescue"
    <3>1. rows'[r] = IF Stale(rows[r]) /\ rows[r].best_gene # "null"
                       THEN [rows[r] EXCEPT !.status = "completed"]
                       ELSE rows[r]
      BY <1>1, <2>2 DEF Rescued
    <3> QED  BY <2>1, <3>1 DEF Row
  <2>3. CASE op = "retry"
    <3>1. rows'[r] = IF Stale(rows[r]) /\ rows[r].best_gene = "null"
                       THEN [rows[r] EXCEPT !.status       = "pending",
                                            !.claimed_by   = 0,
                                            !.heartbeat_at = "null"]
                       ELSE rows[r]
      BY <1>1, <2>3 DEF Retried
    <3> QED  BY <2>1, <3>1 DEF Row
  <2> QED  BY <2>2, <2>3
<1> QED  BY <1>6, <1>7, <1>8, <1>9, <1>10, <1>11 DEF Ownership

LEMMA DrainExecutes ==
    ASSUME TypeOK, EndsFinal, Ownership, Quiet, Execute("drain")
    PROVE  Ownership'
<1> USE ActorFacts
<1> DEFINE d == task["drain"]
<1>1. PICK op, val : /\ op \in {"sweep", "claim", "getSpec", "reject", "complete", "fail"}
                     /\ Executes("drain", op, val)
  BY DEF Execute, ExecSweep, ExecClaim, ExecGetSpec, ExecComplete
<1>2. /\ d.op = op /\ d.phase = "issued"
      /\ d'.op = op /\ d'.phase = "done" /\ d'.val = val
      /\ d'.run = d.run /\ d'.arg = d.arg
      /\ \A b \in Actors \ {"drain"} : task'[b] = task[b]
      /\ UNCHANGED <<server, process, processing, activeRun>>
  BY <1>1, ExecutesFields
<1>3. server = "up" /\ task["boot"] = Idle /\ d # Idle
  BY <1>1, <1>2, ServerIsUp, StatementFields
<1>4. /\ task'["boot"] = task["boot"] /\ task'["save"] = task["save"]
      /\ \A c \in Clients : task'[c] = task[c]
  BY <1>2
<1>5. Settled'  BY <1>2 DEF Ownership, Settled
<1>6. OnlyBoot' /\ BootProgress'
  BY <1>2, <1>3, <1>4 DEF OnlyBoot, BootProgress
<1>7. DrainShape'  BY <1>2 DEF Ownership, DrainShape
<1>8. rows \in [Runs -> Row]  BY DEF TypeOK
<1>9. CASE op = "sweep"
  <2>1. \A r \in Runs : ~Holds(r) /\ ~Holds(r)'
    BY <1>2, <1>9 DEF Holds
  <2>2. rows' = Swept(rows)
    BY <1>2, <1>9 DEF Execute, ExecSweep, ExecClaim, ExecGetSpec, ExecComplete, Executes
  <2>3. ASSUME NEW r \in Runs
        PROVE  \/ rows'[r] = rows[r]
               \/ rows[r].status = "pending" /\ rows'[r].status = "cancelled"
    BY <1>8, <2>2 DEF Swept, Row
  <2>4. Lease'  BY <2>1 DEF Lease
  <2>5. SaveTarget'
    BY <1>4, <2>1, <2>3 DEF Ownership, SaveTarget, Final
  <2>6. RunningIffHeld'
    BY <1>2, <1>3, <2>1, <2>3 DEF Ownership, RunningIffHeld
  <2>7. PendingIsClean'  BY <2>3 DEF Ownership, PendingIsClean
  <2> QED  BY <1>5, <1>6, <1>7, <2>4, <2>5, <2>6, <2>7 DEF Ownership
<1>10. CASE op = "claim"
  <2>1. \A r \in Runs : ~Holds(r) /\ rows[r].status # "running"
    BY <1>2, <1>3, <1>10 DEF Ownership, RunningIffHeld, Holds
  <2>2. \A r \in Runs : Holds(r)' <=> r = val
    BY <1>2, <1>10 DEF Holds
  <2>3. ExecClaim
    BY <1>2, <1>10 DEF Execute, ExecSweep, ExecClaim, ExecGetSpec, ExecComplete, Executes
  <2>4. CASE val \in Runs
    <3>1. rows[val].status = "pending" /\ rows' = Claimed(rows, val, process)
      <4>1. \A w \in {None} \cup Runs : Executes("drain", "claim", w) => w = val
        BY <1>2, ExecutesFields
      <4> QED
        BY <2>3, <2>4, <4>1 DEF ExecClaim, IsClaimed, Claimable, None, Runs
    <3>2. /\ rows'[val].status = "running" /\ rows'[val].claimed_by = process
          /\ rows'[val].heartbeat_at = "fresh"
          /\ \A q \in Runs \ {val} : rows'[q] = rows[q]
      BY <1>8, <2>4, <3>1 DEF Claimed, Row
    <3>3. Lease'  BY <2>2, <3>2 DEF Lease, Fresh
    <3>4. SaveTarget'
      BY <1>4, <2>1, <2>2, <3>1, <3>2 DEF Ownership, SaveTarget, Final
    <3>5. RunningIffHeld'
      BY <1>2, <2>1, <2>2, <3>2 DEF RunningIffHeld
    <3>6. PendingIsClean'  BY <3>2 DEF Ownership, PendingIsClean
    <3> QED  BY <1>5, <1>6, <1>7, <3>3, <3>4, <3>5, <3>6 DEF Ownership
  <2>5. CASE val \notin Runs
    <3>1. rows' = rows
      <4>1. \A r \in Runs : ~Executes("drain", "claim", r)
        BY <1>2, <2>5, ExecutesFields
      <4> QED  BY <2>3, <4>1 DEF ExecClaim
    <3>2. Lease'  BY <2>2, <2>5 DEF Lease
    <3>3. SaveTarget'
      BY <1>4, <2>1, <2>2, <2>5, <3>1 DEF Ownership, SaveTarget
    <3>4. RunningIffHeld'
      BY <2>1, <2>2, <2>5, <3>1 DEF RunningIffHeld
    <3>5. PendingIsClean'  BY <3>1 DEF Ownership, PendingIsClean
    <3> QED  BY <1>5, <1>6, <1>7, <3>2, <3>3, <3>4, <3>5 DEF Ownership
  <2> QED  BY <2>4, <2>5
<1>11. CASE op = "getSpec"
  <2>1. \A r \in Runs : Holds(r)' <=> Holds(r)
    BY <1>2, <1>11 DEF Holds
  <2>2. rows' = rows
    BY <1>2, <1>11 DEF Execute, ExecSweep, ExecClaim, ExecGetSpec, ExecComplete, Executes
  <2>3. Lease'  BY <1>2, <1>4, <2>1, <2>2 DEF Ownership, Lease, Fresh
  <2>4. SaveTarget'  BY <1>4, <2>1, <2>2 DEF Ownership, SaveTarget
  <2>5. RunningIffHeld'  BY <1>2, <2>1, <2>2 DEF Ownership, RunningIffHeld
  <2>6. PendingIsClean'  BY <2>2 DEF Ownership, PendingIsClean
  <2> QED  BY <1>5, <1>6, <1>7, <2>3, <2>4, <2>5, <2>6 DEF Ownership
<1>12. CASE op \in {"reject", "complete", "fail"}
  <2>1. \A r \in Runs : ~Holds(r)' /\ (Holds(r) <=> r = d.run)
    BY <1>2, <1>12 DEF Holds
  <2>2. rows' = Completed(rows, d.run, d.arg, Gene(d.op, d.run)) /\ d.arg \in Final
    BY <1>2, <1>12
    DEF EndsFinal, Execute, ExecSweep, ExecClaim, ExecGetSpec, ExecComplete, Executes
  <2>3. /\ \A q \in Runs : q # d.run => rows'[q] = rows[q]
        /\ \A q \in Runs : q = d.run => rows'[q].status \in Final
    BY <1>8, <2>2 DEF Completed, Row
  <2>4. Lease'  BY <2>1 DEF Lease
  <2>5. SaveTarget'  BY <1>4, <2>1, <2>3 DEF Ownership, SaveTarget
  <2>6. RunningIffHeld'
    BY <1>3, <2>1, <2>3 DEF Ownership, RunningIffHeld, Final
  <2>7. PendingIsClean'  BY <2>3 DEF Ownership, PendingIsClean, Final
  <2> QED  BY <1>5, <1>6, <1>7, <2>4, <2>5, <2>6, <2>7 DEF Ownership
<1> QED  BY <1>1, <1>9, <1>10, <1>11, <1>12

-----------------------------------------------------------------------------
(* The drain loop handles an answer.                                       *)

\* It awaits statement s next and holds what it held, or held nothing and holds
\* nothing.
LEMMA DrainStep ==
    ASSUME TypeOK, Ownership, server = "up",
           UNCHANGED <<rows, server, process>>, NEW s,
           task'["drain"] = s, \A b \in Actors \ {"drain"} : task'[b] = task[b],
           s.phase # "failed", DrainShape',
           \A r \in Runs : Holds(r)' <=> Holds(r),
           s.op \in {"claim", "getSpec", "reject"}
               => task["drain"].op \in {"claim", "getSpec", "reject"} \/ s.op = "claim",
           s.op = "claim" => s.phase = "issued"
    PROVE  Ownership'
<1> USE ActorFacts
<1>1. /\ task'["boot"] = task["boot"] /\ task'["save"] = task["save"]
      /\ \A c \in Clients : task'[c] = task[c]
  OBVIOUS
<1>2. Settled'  BY DEF Ownership, Settled
<1>3. OnlyBoot' /\ BootProgress'
  BY <1>1 DEF Ownership, OnlyBoot, BootProgress
<1>4. Lease'
  <2>1. CASE s.op = "claim"
    <3>1. \A r \in Runs : ~Holds(r)'  BY <2>1 DEF Holds
    <3> QED  BY <3>1 DEF Lease
  <2>2. CASE s.op # "claim"
    BY <1>1, <2>2 DEF Ownership, Lease, Fresh
  <2> QED  BY <2>1, <2>2
<1>5. SaveTarget'  BY <1>1 DEF Ownership, SaveTarget
<1>6. RunningIffHeld'  BY DEF Ownership, RunningIffHeld
<1>7. PendingIsClean'  BY DEF Ownership, PendingIsClean
<1> QED  BY <1>2, <1>3, <1>4, <1>5, <1>6, <1>7 DEF Ownership

LEMMA DrainSteps ==
    ASSUME TypeOK, Ownership, Quiet, DrainHandles \/ RunnerEnds
    PROVE  Ownership'
<1> USE ActorFacts
<1> DEFINE d == task["drain"]
<1>1. d.phase # "failed"  BY DEF Ownership, Settled
<1>2. d.op # "none"
  BY DEF DrainHandles, RunnerEnds, RunnerReturns, RunnerThrows, AfterSweep,
         ClaimIsEmpty, ClaimIsLegacy, ClaimHasSpec, SpecFound, SpecMissing,
         AfterReject, AfterComplete, CatchAfterComplete, AfterFail,
         Answered, Rejected
<1>3. server = "up" /\ processing  BY <1>2, ServerIsUp DEF Ownership, DrainShape
<1>4. ASSUME NEW s, Continue("drain", s) \/ Issue("drain", s)
      PROVE  task'["drain"] = s /\ \A b \in Actors \ {"drain"} : task'[b] = task[b]
  BY <1>4 DEF Continue, Issue, TypeOK
<1>5. ASSUME NEW e, NextTurn(e), d.phase = "done", d.op \in {"complete", "fail"}
      PROVE  Ownership'
  <2>1. /\ task'["drain"] = Statement("sweep", None)
        /\ \A b \in Actors \ {"drain"} : task'[b] = task[b]
    BY <1>4, <1>5 DEF NextTurn
  <2>2. \A r \in Runs : Holds(r)' <=> Holds(r)
    BY <1>5, <2>1, StatementFields DEF Holds
  <2>3. DrainShape'
    BY <1>3, <1>5, <2>1, StatementFields DEF NextTurn, DrainShape
  <2> QED
    BY <1>3, <1>5, <2>1, <2>2, <2>3, StatementFields, DrainStep DEF NextTurn
<1>6. ASSUME NEW r \in Runs, Start(r), d.phase = "done",
             \/ d.op = "claim" /\ d.val = r
             \/ d.op = "getSpec" /\ d.run = r
      PROVE  Ownership'
  <2>1. /\ task'["drain"] = [Idle EXCEPT !.op = "evolve", !.run = r]
        /\ \A b \in Actors \ {"drain"} : task'[b] = task[b]
        /\ activeRun' = r /\ UNCHANGED <<rows, server, process, processing>>
    BY <1>6 DEF Start, TypeOK
  <2>2. /\ [Idle EXCEPT !.op = "evolve", !.run = r].op = "evolve"
        /\ [Idle EXCEPT !.op = "evolve", !.run = r].run = r
        /\ [Idle EXCEPT !.op = "evolve", !.run = r].phase = "done"
    BY DEF Idle
  <2>3. \A q \in Runs : Holds(q)' <=> Holds(q)
    BY <1>6, <2>1, <2>2 DEF Holds
  <2>4. DrainShape'
    BY <1>3, <2>1, <2>2 DEF DrainShape, None, Runs
  <2> QED  BY <1>3, <2>1, <2>2, <2>3, <2>4, DrainStep
<1>7. CASE AfterSweep
  <2>1. d.op = "sweep"  BY <1>7 DEF AfterSweep, Answered
  <2>2. /\ task'["drain"] = Statement("claim", None)
        /\ \A b \in Actors \ {"drain"} : task'[b] = task[b]
        /\ UNCHANGED <<rows, server, process, processing, activeRun>>
    BY <1>4, <1>7 DEF AfterSweep, OnlyTasks, memory
  <2>3. \A r \in Runs : Holds(r)' <=> Holds(r)
    BY <2>1, <2>2, StatementFields DEF Holds
  <2>4. DrainShape'
    BY <1>3, <2>1, <2>2, StatementFields DEF Ownership, DrainShape
  <2> QED  BY <1>3, <2>2, <2>3, <2>4, StatementFields, DrainStep
<1>8. CASE ClaimIsEmpty
  <2>1. d.op = "claim" /\ d.val = None  BY <1>8 DEF ClaimIsEmpty, Answered
  <2>2. /\ task'["drain"] = Idle
        /\ \A b \in Actors \ {"drain"} : task'[b] = task[b]
        /\ UNCHANGED <<rows, server, process, activeRun>>
    BY <1>8 DEF ClaimIsEmpty, Finish, TypeOK
  <2>3. \A r \in Runs : Holds(r)' <=> Holds(r)
    BY <2>1, <2>2, StatementFields DEF Holds, None, Runs
  <2>4. DrainShape'
    BY <2>1, <2>2, StatementFields DEF Ownership, DrainShape
  <2> QED  BY <1>3, <2>2, <2>3, <2>4, StatementFields, DrainStep
<1>9. CASE ClaimIsLegacy
  BY <1>6, <1>9 DEF ClaimIsLegacy, Answered
<1>10. CASE ClaimHasSpec
  <2>1. d.op = "claim" /\ d.phase = "done" /\ d.val \in Runs
    BY <1>10, RunSetsAssumption DEF ClaimHasSpec, Answered
  <2>2. /\ task'["drain"] = Statement("getSpec", d.val)
        /\ \A b \in Actors \ {"drain"} : task'[b] = task[b]
        /\ UNCHANGED <<rows, server, process, processing, activeRun>>
    BY <1>4, <1>10 DEF ClaimHasSpec, OnlyTasks, memory
  <2>3. \A r \in Runs : Holds(r)' <=> Holds(r)
    BY <2>1, <2>2, StatementFields DEF Holds
  <2>4. DrainShape'
    BY <1>3, <2>1, <2>2, StatementFields DEF Ownership, DrainShape, None, Runs
  <2> QED  BY <1>3, <2>1, <2>2, <2>3, <2>4, StatementFields, DrainStep
<1>11. CASE SpecFound
  <2>1. d.op = "getSpec" /\ d.phase = "done"  BY <1>11 DEF SpecFound, Answered
  <2>2. d.run \in Runs
    <3>1. d \in Task  BY DEF TypeOK
    <3>2. d.run \in 0..MaxRuns  BY <3>1, TaskFields
    <3>3. d.run # None  BY <2>1 DEF Ownership, DrainShape
    <3> QED  BY <3>2, <3>3, MaxRunsAssumption DEF None, Runs
  <2> QED  BY <1>6, <1>11, <2>1, <2>2 DEF SpecFound
<1>12. CASE SpecMissing
  <2>1. d.op = "getSpec"  BY <1>12 DEF SpecMissing, Answered, Rejected
  <2>2. /\ task'["drain"] = Complete("reject", d.run, "failed")
        /\ \A b \in Actors \ {"drain"} : task'[b] = task[b]
        /\ UNCHANGED <<rows, server, process, processing, activeRun>>
    BY <1>4, <1>12 DEF SpecMissing, OnlyTasks, memory
  <2>3. \A r \in Runs : Holds(r)' <=> Holds(r)
    BY <2>1, <2>2, StatementFields DEF Holds
  <2>4. DrainShape'
    BY <1>3, <2>1, <2>2, StatementFields DEF Ownership, DrainShape
  <2> QED  BY <1>3, <2>1, <2>2, <2>3, <2>4, StatementFields, DrainStep
<1>13. CASE AfterReject
  <2>1. d.op = "reject" /\ d.phase = "done"  BY <1>13 DEF AfterReject, Answered
  <2>2. /\ task'["drain"] = Statement("sweep", None)
        /\ \A b \in Actors \ {"drain"} : task'[b] = task[b]
        /\ UNCHANGED <<rows, server, process, processing, activeRun>>
    BY <1>4, <1>13 DEF AfterReject, memory
  <2>3. \A r \in Runs : Holds(r)' <=> Holds(r)
    BY <2>1, <2>2, StatementFields DEF Holds
  <2>4. DrainShape'
    BY <1>3, <2>1, <2>2, StatementFields DEF Ownership, DrainShape
  <2> QED  BY <1>3, <2>2, <2>3, <2>4, StatementFields, DrainStep
<1>14. CASE AfterComplete
  BY <1>5, <1>14 DEF AfterComplete, Answered
<1>15. CASE CatchAfterComplete
  BY <1>1, <1>15 DEF CatchAfterComplete, Rejected, Quiet
<1>16. CASE AfterFail
  BY <1>1, <1>5, <1>16 DEF AfterFail, Answered, Rejected
<1>17. CASE RunnerEnds
  <2> PICK op \in {"complete", "fail"}, s \in Final :
        d.op = "evolve" /\ Issue("drain", Complete(op, activeRun, s)) /\ OnlyTasks
    BY <1>17 DEF RunnerEnds, RunnerReturns, RunnerThrows, Final
  <2>1. /\ task'["drain"] = Complete(op, activeRun, s)
        /\ \A b \in Actors \ {"drain"} : task'[b] = task[b]
        /\ UNCHANGED <<rows, server, process, processing, activeRun>>
    BY <1>4 DEF OnlyTasks, memory
  <2>2. activeRun = d.run /\ activeRun # None  BY DEF Ownership, DrainShape
  <2>3. \A r \in Runs : Holds(r)' <=> Holds(r)
    BY <2>1, <2>2, StatementFields DEF Holds
  <2>4. DrainShape'
    BY <1>3, <2>1, <2>2, StatementFields DEF DrainShape
  <2> QED  BY <1>3, <2>1, <2>3, <2>4, StatementFields, DrainStep
<1> QED
  BY <1>7, <1>8, <1>9, <1>10, <1>11, <1>12, <1>13, <1>14, <1>15, <1>16, <1>17
  DEF DrainHandles

-----------------------------------------------------------------------------
(* Requests, their answers, and timers.                                    *)

\* processQueue() called while no drain is at work.
LEMMA KickStep ==
    ASSUME TypeOK, Ownership, server = "up", ~processing, processing' = TRUE,
           UNCHANGED <<rows, server, process, activeRun>>,
           task'["drain"] = Statement("sweep", None),
           \A b \in Actors \ {"drain"} :
               task'[b] = task[b] \/ (b \in Clients /\ task'[b] = Idle)
    PROVE  Ownership'
<1> USE ActorFacts
<1>1. task["drain"].op = "none" /\ activeRun = None
  BY DEF Ownership, DrainShape
<1>2. task'["boot"] = task["boot"] /\ task'["save"] = task["save"]
  OBVIOUS
<1>3. \A r \in Runs : ~Holds(r)' /\ ~Holds(r)
  BY <1>1, StatementFields DEF Holds
<1>4. Settled'
  <2> SUFFICES ASSUME NEW b \in Actors PROVE task'[b].phase # "failed"
    BY DEF Settled
  <2> QED  BY StatementFields DEF Ownership, Settled
<1>5. OnlyBoot' /\ BootProgress'
  BY <1>2 DEF Ownership, OnlyBoot, BootProgress
<1>6. DrainShape'  BY <1>1, StatementFields DEF DrainShape
<1>7. Lease'  BY <1>3 DEF Lease
<1>8. SaveTarget'  BY <1>2, <1>3 DEF Ownership, SaveTarget
<1>9. RunningIffHeld' /\ PendingIsClean'
  BY <1>3 DEF Ownership, RunningIffHeld, PendingIsClean
<1> QED  BY <1>4, <1>5, <1>6, <1>7, <1>8, <1>9 DEF Ownership

LEMMA RequestSteps ==
    ASSUME TypeOK, Ownership, NEW c \in Clients,
           \/ \E n \in 1..MaxBatch : PostRuns(c, n)
           \/ PostNothing(c)
           \/ \E r \in Runs : CancelRun(c, r)
           \/ RecoverRuns(c)
    PROVE  Ownership'
<1> USE ActorFacts
<1>1. c \in Clients \cup Timers /\ c \in Actors /\ c \notin {"drain", "boot", "save"}
  OBVIOUS
<1>2. ASSUME NEW s, Issue(c, s)
      PROVE  task'[c] = s /\ \A b \in Actors \ {c} : task'[b] = task[b]
  BY <1>1, <1>2, TaskSet DEF Issue
<1>3. CASE \E n \in 1..MaxBatch : PostRuns(c, n)
  <2> PICK n \in 1..MaxBatch : PostRuns(c, n)  BY <1>3
  <2> DEFINE s == [Statement("insert", None) EXCEPT !.left = n]
  <2>1. server = "up" /\ UNCHANGED <<rows, server, process, activeRun, processing>>
    BY DEF PostRuns, Request, memory
  <2>2. task'[c] = s /\ \A b \in Actors \ {c} : task'[b] = task[b]
    BY <1>2 DEF PostRuns
  <2>3. s.op = "insert" /\ s.phase = "issued"  BY StatementFields
  <2> HIDE DEF s
  <2> QED  BY <1>1, <2>1, <2>2, <2>3, BystanderStep
<1>4. CASE PostNothing(c)
  <2>1. /\ server = "up" /\ ~processing /\ processing' = TRUE
        /\ UNCHANGED <<rows, server, process, activeRun>>
        /\ task' = [task EXCEPT !["drain"] = Statement("sweep", None)]
    BY <1>4 DEF PostNothing, Request, Issue
  <2>2. /\ task'["drain"] = Statement("sweep", None)
        /\ \A b \in Actors \ {"drain"} : task'[b] = task[b]
    BY <2>1, TaskSet
  <2>3. \A b \in Actors \ {"drain"} :
            task'[b] = task[b] \/ (b \in Clients /\ task'[b] = Idle)
    BY <2>2
  <2> QED  BY <2>1, <2>2, <2>3, KickStep
<1>5. CASE \E r \in Runs : CancelRun(c, r)
  <2> PICK r \in Runs : CancelRun(c, r)  BY <1>5
  <2>1. server = "up" /\ UNCHANGED <<rows, server, process, activeRun, processing>>
    BY DEF CancelRun, Request, OnlyTasks, memory
  <2>2. task'[c] = Statement("flag", r) /\ \A b \in Actors \ {c} : task'[b] = task[b]
    BY <1>2 DEF CancelRun
  <2> QED  BY <1>1, <2>1, <2>2, StatementFields, BystanderStep
<1>6. CASE RecoverRuns(c)
  <2>1. server = "up" /\ UNCHANGED <<rows, server, process, activeRun, processing>>
    BY <1>6 DEF RecoverRuns, Request, OnlyTasks, memory
  <2>2. /\ task'[c] = IF activeRun # None THEN Statement("bump", activeRun)
                                          ELSE Statement("rescue", None)
        /\ \A b \in Actors \ {c} : task'[b] = task[b]
    BY <1>2, <1>6 DEF RecoverRuns
  <2>3. CASE activeRun # None
    <3>1. \A r \in Runs : Holds(r) => r = activeRun
      BY <2>3 DEF Ownership, DrainShape, Holds
    <3> QED
      BY <1>1, <2>1, <2>2, <2>3, <3>1, StatementFields, BystanderStep
  <2>4. CASE activeRun = None
    <3>1. \A r \in Runs : Holds(r) => Fresh(r)
      BY <2>4 DEF Ownership, DrainShape, Lease, Holds
    <3> QED
      BY <1>1, <2>1, <2>2, <2>4, <3>1, StatementFields, BystanderStep
  <2> QED  BY <2>3, <2>4
<1> QED  BY <1>3, <1>4, <1>5, <1>6

LEMMA RespondSteps ==
    ASSUME TypeOK, Ownership, NEW c \in Clients, Respond(c)
    PROVE  Ownership'
<1> USE ActorFacts
<1>1. c \in Clients \cup Timers /\ c \in Actors \ {"boot"}
      /\ c \notin {"drain", "boot", "save"}
  OBVIOUS
<1>2. task[c].op # "none" /\ task[c].phase # "failed"
  BY DEF Ownership, Settled, Respond, AfterInsert, AfterMaxId, AfterFlag, AfterBump,
         AfterRescue, AfterRetry, RespondError, Answered, Rejected
<1>3. server = "up"  BY <1>1, <1>2, ServerIsUp
<1>4. ASSUME NEW s, Continue(c, s) \/ (Finish(c) /\ s = Idle)
      PROVE  task'[c] = s /\ \A b \in Actors \ {c} : task'[b] = task[b]
  BY <1>1, <1>4, TaskSet DEF Continue, Finish
<1>5. ASSUME NEW s, Continue(c, s) \/ (Finish(c) /\ s = Idle),
             UNCHANGED <<rows, server, process, activeRun, processing>>,
             s.phase # "failed", s.op \notin {"rescue", "retry", "bump"}
      PROVE  Ownership'
  BY <1>1, <1>3, <1>4, <1>5, BystanderStep
<1>6. ASSUME KickAndRespond(c), UNCHANGED <<rows, server, process, activeRun>>
      PROVE  Ownership'
  <2>1. CASE processing
    BY <1>5, <1>6, <2>1, StatementFields DEF KickAndRespond
  <2>2. CASE ~processing
    <3>1. /\ processing' = TRUE
          /\ task' = [task EXCEPT ![c] = Idle, !["drain"] = Statement("sweep", None)]
      BY <1>6, <2>2 DEF KickAndRespond
    <3>2. /\ task'["drain"] = Statement("sweep", None)
          /\ \A b \in Actors \ {"drain"} :
                task'[b] = task[b] \/ (b \in Clients /\ task'[b] = Idle)
      <4>1. \A b \in Actors : task'[b] = IF b = "drain" THEN Statement("sweep", None)
                                         ELSE IF b = c THEN Idle ELSE task[b]
        BY <3>1 DEF TypeOK
      <4> QED  BY <1>1, <4>1
    <3> QED  BY <1>3, <1>6, <2>2, <3>1, <3>2, KickStep
  <2> QED  BY <2>1, <2>2
<1>7. CASE AfterInsert(c)
  <2> DEFINE s == [Statement("maxId", task[c].val) EXCEPT !.left = task[c].left]
  <2>1. s.op = "maxId" /\ s.phase = "issued"  BY StatementFields
  <2>2. Continue(c, s) /\ UNCHANGED <<rows, server, process, activeRun, processing>>
    BY <1>7 DEF AfterInsert, OnlyTasks, memory
  <2> HIDE DEF s
  <2> QED  BY <1>5, <2>1, <2>2
<1>8. CASE AfterMaxId(c)
  <2>1. UNCHANGED <<rows, server, process, activeRun>>  BY <1>8 DEF AfterMaxId
  <2>2. CASE task[c].left > 1
    <3> DEFINE s == [Statement("insert", None) EXCEPT !.left = task[c].left - 1]
    <3>1. s.op = "insert" /\ s.phase = "issued"  BY StatementFields
    <3>2. Continue(c, s) /\ processing' = processing
      BY <1>8, <2>2 DEF AfterMaxId
    <3> HIDE DEF s
    <3> QED  BY <1>5, <2>1, <3>1, <3>2
  <2>3. CASE ~(task[c].left > 1)
    BY <1>6, <1>8, <2>1, <2>3 DEF AfterMaxId
  <2> QED  BY <2>2, <2>3
<1>9. CASE AfterFlag(c)
  <2>1. UNCHANGED <<rows, server, process, activeRun>>  BY <1>9 DEF AfterFlag
  <2>2. KickAndRespond(c) \/ (Finish(c) /\ UNCHANGED processing)
    BY <1>9 DEF AfterFlag
  <2> QED  BY <1>5, <1>6, <2>1, <2>2, StatementFields
<1>10. CASE AfterBump(c)
  <2>1. task[c].op = "bump" /\ task[c].phase = "done"
    BY <1>2, <1>10 DEF AfterBump, Answered, Rejected
  <2>2. \A r \in Runs : Holds(r) => Fresh(r)  BY <2>1 DEF Ownership, Lease
  <2>3. Continue(c, Statement("rescue", None))
        /\ UNCHANGED <<rows, server, process, activeRun, processing>>
    BY <1>10 DEF AfterBump, OnlyTasks, memory
  <2> QED
    BY <1>1, <1>3, <1>4, <2>2, <2>3, StatementFields, BystanderStep
<1>11. CASE AfterRescue(c)
  <2>1. task[c].op = "rescue"  BY <1>11 DEF AfterRescue, Answered
  <2>2. \A r \in Runs : Holds(r) => Fresh(r)  BY <2>1 DEF Ownership, Lease
  <2>3. Continue(c, Statement("retry", None))
        /\ UNCHANGED <<rows, server, process, activeRun, processing>>
    BY <1>11 DEF AfterRescue, OnlyTasks, memory
  <2> QED
    BY <1>1, <1>3, <1>4, <2>2, <2>3, StatementFields, BystanderStep
<1>12. CASE AfterRetry(c)
  BY <1>3, <1>5, <1>12, StatementFields DEF AfterRetry, memory
<1>13. CASE RespondError(c)
  BY <1>2, <1>13 DEF RespondError, Rejected
<1> QED
  BY <1>7, <1>8, <1>9, <1>10, <1>11, <1>12, <1>13 DEF Respond

LEMMA TimerSteps ==
    ASSUME TypeOK, Ownership,
           \/ BeatTick \/ PollTick \/ SaveTick
           \/ PollAnswered \/ \E t \in Timers : TimerSettles(t)
    PROVE  Ownership'
<1> USE ActorFacts
<1>1. \A t \in Timers : /\ t \in Clients \cup Timers
                        /\ t \in Actors \ {"drain", "boot"} /\ t \notin Clients
  BY DEF Actors, Timers
<1>2. ASSUME NEW t \in Timers, Tick(t), t = "save" => SaveTick
      PROVE  Ownership'
  <2>1. server = "up"  BY <1>2 DEF Tick, Ownership, OnlyBoot
  <2>2. /\ task'[t] = Statement(t, activeRun)
        /\ \A b \in Actors \ {t} : task'[b] = task[b]
        /\ UNCHANGED <<rows, server, process, activeRun, processing>>
    BY <1>1, <1>2, TaskSet DEF Tick, Issue, OnlyTasks, memory
  <2>3. t = "save" => \A r \in Runs : activeRun = r => Holds(r)
    BY <1>2 DEF SaveTick, Ownership, DrainShape, Holds
  <2> QED  BY <1>1, <2>1, <2>2, <2>3, StatementFields, BystanderStep
<1>3. ASSUME NEW t \in Timers, NEW op, op # "none",
             Answered(t, op) \/ Rejected(t, op), Finish(t),
             UNCHANGED <<rows, server, process, activeRun, processing>>
      PROVE  Ownership'
  <2>1. server = "up"  BY <1>1, <1>3, ServerIsUp DEF Answered, Rejected
  <2>2. task'[t] = Idle /\ \A b \in Actors \ {t} : task'[b] = task[b]
    BY <1>1, <1>3, TaskSet DEF Finish
  <2> QED  BY <1>1, <1>3, <2>1, <2>2, StatementFields, BystanderStep
<1>4. CASE BeatTick \/ PollTick \/ SaveTick
  BY <1>2, <1>4 DEF BeatTick, PollTick, SaveTick, Timers
<1>5. CASE PollAnswered
  BY <1>3, <1>5 DEF PollAnswered, Timers
<1>6. CASE \E t \in Timers : TimerSettles(t)
  BY <1>3, <1>6 DEF TimerSettles, OnlyTasks, memory, Timers
<1> QED  BY <1>4, <1>5, <1>6

-----------------------------------------------------------------------------
(* Time, crashes and restarts.                                             *)

LEMMA EnvironmentSteps ==
    ASSUME TypeOK, Ownership, Quiet,
           \/ \E a \in Actors : ExecFails(a)
           \/ AfterRescue("boot") \/ AfterRetry("boot")
           \/ TimePasses \/ Crash \/ Boot
           \/ UNCHANGED vars
    PROVE  Ownership'
<1> USE ActorFacts
<1>1. CASE \E a \in Actors : ExecFails(a)
  BY <1>1 DEF ExecFails, Quiet, TypeOK
<1>2. CASE AfterRescue("boot")
  <2>1. task["boot"].op = "rescue" /\ task["boot"].phase = "done"
    BY <1>2 DEF AfterRescue, Answered
  <2>2. server = "booting"
    BY <2>1, StatementFields DEF Ownership, OnlyBoot
  <2>3. /\ task'["boot"] = Statement("retry", None)
        /\ \A b \in Actors \ {"boot"} : task'[b] = task[b]
        /\ UNCHANGED <<rows, server, process, activeRun, processing>>
    BY <1>2, TaskSet DEF AfterRescue, Continue, OnlyTasks, memory
  <2>4. task'["drain"] = task["drain"] /\ task'["save"] = task["save"]
        /\ \A c \in Clients : task'[c] = task[c]
    BY <2>3
  <2>5. \A r \in Runs : Holds(r)' <=> Holds(r)  BY <2>4, HoldsFrame
  <2>6. Settled'
    <3> SUFFICES ASSUME NEW b \in Actors PROVE task'[b].phase # "failed"
      BY DEF Settled
    <3> QED  BY <2>3, StatementFields DEF Ownership, Settled
  <2>7. OnlyBoot'
    BY <2>2, <2>3, StatementFields DEF Ownership, OnlyBoot
  <2>8. BootProgress'
    BY <2>1, <2>2, <2>3, StatementFields DEF Ownership, BootProgress, Fresh, Running
  <2>9. DrainShape'  BY <2>3, <2>4 DEF Ownership, DrainShape
  <2>10. Lease' /\ SaveTarget'
    BY <2>3, <2>4, <2>5 DEF Ownership, Lease, SaveTarget, Fresh
  <2>11. RunningIffHeld' /\ PendingIsClean'
    BY <2>2, <2>3 DEF Ownership, RunningIffHeld, PendingIsClean
  <2> QED  BY <2>6, <2>7, <2>8, <2>9, <2>10, <2>11 DEF Ownership
<1>3. CASE AfterRetry("boot")
  <2>1. task["boot"].op = "retry" /\ task["boot"].phase = "done"
    BY <1>3 DEF AfterRetry, Answered
  <2>2. server = "booting"
    BY <2>1, StatementFields DEF Ownership, OnlyBoot
  <2>3. /\ task'["boot"] = Idle /\ server' = "up"
        /\ \A b \in Actors \ {"boot"} : task'[b] = task[b]
        /\ UNCHANGED <<rows, process, activeRun, processing>>
    BY <1>3, TaskSet DEF AfterRetry, Finish, memory
  <2>4. task'["drain"] = Idle /\ task'["save"] = Idle /\ activeRun = None
        /\ \A c \in Clients : task'[c] = Idle
    BY <2>2, <2>3 DEF Ownership, OnlyBoot
  <2>5. \A r \in Runs : ~Holds(r)'  BY <2>4, StatementFields DEF Holds
  <2>6. \A r \in Runs : rows[r].status # "running"
    BY <2>1, <2>2 DEF Ownership, BootProgress, Running
  <2>7. Settled'
    <3> SUFFICES ASSUME NEW b \in Actors PROVE task'[b].phase # "failed"
      BY DEF Settled
    <3> QED  BY <2>3, StatementFields DEF Ownership, Settled
  <2>8. OnlyBoot' /\ BootProgress'
    BY <2>3 DEF OnlyBoot, BootProgress
  <2>9. DrainShape'  BY <2>3, <2>4, StatementFields DEF DrainShape
  <2>10. Lease' /\ SaveTarget'
    BY <2>4, <2>5, StatementFields DEF Lease, SaveTarget
  <2>11. RunningIffHeld' /\ PendingIsClean'
    BY <2>3, <2>5, <2>6 DEF Ownership, RunningIffHeld, PendingIsClean
  <2> QED  BY <2>7, <2>8, <2>9, <2>10, <2>11 DEF Ownership
<1>4. CASE TimePasses
  <2>1. /\ task' = task /\ UNCHANGED <<server, process, activeRun, processing>>
        /\ rows' = Aged(rows)
        /\ ~Recovering /\ ~SettingUp
    BY <1>4 DEF TimePasses, memory, Quiet
  <2>2. ASSUME NEW r \in Runs
        PROVE  /\ rows'[r].status = rows[r].status
               /\ rows'[r].claimed_by = rows[r].claimed_by
               /\ rows'[r].best_gene = rows[r].best_gene
               /\ rows'[r].heartbeat_at # "fresh"
    BY <2>1 DEF Aged, TypeOK, Row
  <2>3. \A r \in Runs : Holds(r)' <=> Holds(r)  BY <2>1, HoldsFrame
  <2>4. Settled' /\ OnlyBoot' /\ DrainShape'
    BY <2>1 DEF Ownership, Settled, OnlyBoot, DrainShape
  <2>5. BootProgress'
    BY <2>1, <2>2 DEF Ownership, BootProgress, Fresh, Running
  <2>6. Lease'
    BY <2>1 DEF Lease, Recovering, SettingUp
  <2>7. SaveTarget'  BY <2>1, <2>2, <2>3 DEF Ownership, SaveTarget
  <2>8. RunningIffHeld' /\ PendingIsClean'
    BY <2>1, <2>2, <2>3 DEF Ownership, RunningIffHeld, PendingIsClean
  <2> QED  BY <2>4, <2>5, <2>6, <2>7, <2>8 DEF Ownership
<1>5. CASE Crash
  <2>1. /\ server' = "down" /\ activeRun' = None /\ processing' = FALSE
        /\ \A b \in Actors : task'[b] = Idle
        /\ UNCHANGED <<rows, process>>
    BY <1>5 DEF Crash
  <2>2. \A r \in Runs : ~Holds(r)'  BY <2>1, StatementFields DEF Holds
  <2>3. Settled'  BY <2>1, StatementFields DEF Settled
  <2>4. OnlyBoot' /\ BootProgress'  BY <2>1 DEF OnlyBoot, BootProgress
  <2>5. DrainShape'  BY <2>1, StatementFields DEF DrainShape
  <2>6. Lease' /\ SaveTarget'
    BY <2>1, <2>2, StatementFields DEF Lease, SaveTarget
  <2>7. RunningIffHeld' /\ PendingIsClean'
    BY <2>1 DEF Ownership, RunningIffHeld, PendingIsClean
  <2> QED  BY <2>3, <2>4, <2>5, <2>6, <2>7 DEF Ownership
<1>6. CASE Boot
  <2>1. /\ server = "down" /\ server' = "booting"
        /\ \A r \in Runs : rows[r].heartbeat_at # "fresh"
        /\ task'["boot"] = Statement("rescue", None)
        /\ \A b \in Actors \ {"boot"} : task'[b] = task[b]
        /\ UNCHANGED <<rows, activeRun, processing>>
    BY <1>6, TaskSet DEF Boot, Issue, memory, Quiet
  <2>2. /\ task'["drain"] = Idle /\ task'["save"] = Idle
        /\ \A c \in Clients : task'[c] = Idle
        /\ activeRun = None /\ ~processing
        /\ \A b \in Actors \ {"boot"} : task'[b] = Idle
    BY <2>1 DEF Ownership, OnlyBoot
  <2>3. \A r \in Runs : ~Holds(r)'  BY <2>2, StatementFields DEF Holds
  <2>4. Settled'
    <3> SUFFICES ASSUME NEW b \in Actors PROVE task'[b].phase # "failed"
      BY DEF Settled
    <3> QED  BY <2>1, <2>2, StatementFields
  <2>5. OnlyBoot'  BY <2>1, <2>2, StatementFields DEF OnlyBoot
  <2>6. BootProgress'
    BY <2>1, StatementFields DEF BootProgress, Fresh, Running
  <2>7. DrainShape'  BY <2>1, <2>2, StatementFields DEF DrainShape
  <2>8. Lease' /\ SaveTarget'
    BY <2>2, <2>3, StatementFields DEF Lease, SaveTarget
  <2>9. RunningIffHeld' /\ PendingIsClean'
    BY <2>1 DEF Ownership, RunningIffHeld, PendingIsClean
  <2> QED  BY <2>4, <2>5, <2>6, <2>7, <2>8, <2>9 DEF Ownership
<1>7. CASE UNCHANGED vars
  <2>1. \A r \in Runs : Holds(r)' <=> Holds(r)
    BY <1>7, HoldsFrame DEF vars
  <2> QED
    BY <1>7, <2>1
    DEF vars, memory, Ownership, Settled, OnlyBoot, BootProgress, DrainShape,
        Lease, SaveTarget, RunningIffHeld, PendingIsClean, Fresh, Running
<1> QED  BY <1>1, <1>2, <1>3, <1>4, <1>5, <1>6, <1>7

-----------------------------------------------------------------------------
LEMMA OwnershipInit == Init => Ownership
<1> SUFFICES ASSUME Init PROVE Ownership  OBVIOUS
<1> USE ActorFacts
<1>1. /\ task["boot"] = Statement("rescue", None)
      /\ \A b \in Actors \ {"boot"} : task[b] = Idle
      /\ task["drain"] = Idle /\ task["save"] = Idle
      /\ \A c \in Clients : task[c] = Idle
  BY DEF Init
<1>2. /\ \A r \in Runs : /\ rows[r].status = "absent"
                         /\ rows[r].heartbeat_at = "null"
      /\ server = "booting" /\ activeRun = None /\ processing = FALSE
  BY DEF Init, AbsentRow
<1>3. \A r \in Runs : ~Holds(r)  BY <1>1, StatementFields DEF Holds
<1>4. Settled
  <2> SUFFICES ASSUME NEW b \in Actors PROVE task[b].phase # "failed"
    BY DEF Settled
  <2> QED  BY <1>1, StatementFields
<1>5. OnlyBoot  BY <1>1, <1>2, StatementFields DEF OnlyBoot
<1>6. BootProgress  BY <1>2 DEF BootProgress, Fresh, Running
<1>7. DrainShape  BY <1>1, <1>2, StatementFields DEF DrainShape
<1>8. Lease /\ SaveTarget  BY <1>1, <1>3, StatementFields DEF Lease, SaveTarget
<1>9. RunningIffHeld /\ PendingIsClean
  BY <1>2 DEF RunningIffHeld, PendingIsClean
<1> QED  BY <1>4, <1>5, <1>6, <1>7, <1>8, <1>9 DEF Ownership

LEMMA OwnershipNext ==
    ASSUME Quiet, TypeOK, EndsFinal, Ownership, [Next]_vars
    PROVE  Ownership'
<1>1. ASSUME NEW c \in Clients,
             \/ \E n \in 1..MaxBatch : PostRuns(c, n)
             \/ PostNothing(c)
             \/ \E r \in Runs : CancelRun(c, r)
             \/ RecoverRuns(c)
             \/ Respond(c)
      PROVE  Ownership'
  BY <1>1, RequestSteps, RespondSteps
<1>2. ASSUME NEW a \in Actors, Execute(a)
      PROVE  Ownership'
  BY <1>2, ClientExecutes, TimerExecutes, BootExecutes, DrainExecutes DEF Actors
<1>3. CASE DrainHandles \/ RunnerEnds
  BY <1>3, DrainSteps
<1>4. CASE \/ BeatTick \/ PollTick \/ SaveTick
           \/ PollAnswered \/ \E t \in Timers : TimerSettles(t)
  BY <1>4, TimerSteps
<1>5. CASE \/ \E a \in Actors : ExecFails(a)
           \/ AfterRescue("boot") \/ AfterRetry("boot")
           \/ TimePasses \/ Crash \/ Boot
           \/ UNCHANGED vars
  BY <1>5, EnvironmentSteps
<1> QED  BY <1>1, <1>2, <1>3, <1>4, <1>5 DEF Next

\* Everything the two invariants rest on holds in every reachable state.
LEMMA InductiveCorrect ==
    ASSUME Quiet
    PROVE  Spec => []Inductive
<1>1. Init => Inductive
  BY TypeInit, OwnershipInit DEF Inductive
<1>2. Inductive /\ [Next]_vars => Inductive'
  BY NextType, OwnershipNext DEF Inductive
<1> QED  BY <1>1, <1>2, PTL DEF Spec

\* Once the server listens, the rows that say "running" are exactly the one the
\* drain loop works on, under this process's name, for any number of runs,
\* requests and crashes: claimNextRun, completeRun, the heartbeat and the bump
\* before recoverStaleRuns keep the table and the memory of the process
\* together.
THEOREM RunningIffHeldHolds ==
    ASSUME Quiet
    PROVE  Spec => []RunningIffHeld
<1>1. Inductive => RunningIffHeld  BY DEF Inductive, Ownership
<1> QED  BY <1>1, InductiveCorrect, PTL

\* A pending row carries no result and no owner, so what recoverStaleRuns sends
\* back to the queue never drags along a gene saved by the lost execution, and
\* no late progress save reaches a row that waits.
THEOREM PendingIsCleanHolds ==
    ASSUME Quiet
    PROVE  Spec => []PendingIsClean
<1>1. Inductive => PendingIsClean  BY DEF Inductive, Ownership
<1> QED  BY <1>1, InductiveCorrect, PTL

-----------------------------------------------------------------------------
(* The server implements RunBoard.  A board step is the execution of one   *)
(* SQL statement, or the crash: the table and the holder change together   *)
(* there and nowhere else.  Handlers, timers and requests in between are   *)
(* stuttering steps of the board.                                          *)
Status == [r \in Runs |-> rows[r].status]

-----------------------------------------------------------------------------
(* The holder of the mapping.                                              *)

\* The drain holds one run at most, so Held is that run.
LEMMA HeldIs ==
    /\ \A r \in Runs : Holds(r) => Held = r
    /\ (\A r \in Runs : ~Holds(r)) => Held = None
<1>1. ASSUME NEW r \in Runs, Holds(r)
      PROVE  Held = r
  <2>1. \A q \in Runs : Holds(q) => q = r  BY <1>1 DEF Holds
  <2> QED  BY <1>1, <2>1 DEF Held
<1>2. ASSUME \A r \in Runs : ~Holds(r)
      PROVE  Held = None
  BY <1>2 DEF Held
<1> QED  BY <1>1, <1>2

LEMMA HeldIsNext ==
    /\ \A r \in Runs : Holds(r)' => Held' = r
    /\ (\A r \in Runs : ~Holds(r)') => Held' = None
<1>1. ASSUME NEW r \in Runs, Holds(r)'
      PROVE  Held' = r
  <2>1. \A q \in Runs : Holds(q)' => q = r  BY <1>1 DEF Holds
  <2> QED  BY <1>1, <2>1 DEF Held
<1>2. ASSUME \A r \in Runs : ~Holds(r)'
      PROVE  Held' = None
  BY <1>2 DEF Held
<1> QED  BY <1>1, <1>2

LEMMA HeldFrame ==
    ASSUME \A r \in Runs : Holds(r)' <=> Holds(r)
    PROVE  Held' = Held
<1>1. CASE \E r \in Runs : Holds(r)
  <2> PICK r \in Runs : Holds(r)  BY <1>1
  <2>1. Held = r /\ Held' = r  BY HeldIs, HeldIsNext
  <2> QED  BY <2>1
<1>2. CASE \A r \in Runs : ~Holds(r)
  <2>1. Held = None /\ Held' = None  BY <1>2, HeldIs, HeldIsNext
  <2> QED  BY <2>1
<1> QED  BY <1>1, <1>2

LEMMA StatusFrame ==
    ASSUME \A r \in Runs : rows'[r].status = rows[r].status
    PROVE  Status' = Status
  BY DEF Status

\* A step that moves no row and hands no run over is a stuttering step.
LEMMA Stutters ==
    ASSUME \A r \in Runs : rows'[r].status = rows[r].status,
           \A r \in Runs : Holds(r)' <=> Holds(r)
    PROVE  UNCHANGED Board!vars
  BY HeldFrame DEF Board!vars

-----------------------------------------------------------------------------
(* Handlers write no row and leave the run where it is.                    *)

LEMMA RequestsHandOverNothing ==
    ASSUME TypeOK, Ownership, NEW c \in Clients,
           \/ \E n \in 1..MaxBatch : PostRuns(c, n)
           \/ PostNothing(c)
           \/ \E r \in Runs : CancelRun(c, r)
           \/ RecoverRuns(c)
           \/ Respond(c)
    PROVE  rows' = rows /\ \A r \in Runs : Holds(r)' <=> Holds(r)
<1> USE ActorFacts
<1>1. rows' = rows
  BY DEF PostRuns, PostNothing, CancelRun, RecoverRuns, OnlyTasks, Respond,
         AfterInsert, AfterMaxId, AfterFlag, AfterBump, AfterRescue, AfterRetry,
         RespondError
<1>2. CASE task'["drain"] = task["drain"]
  BY <1>1, <1>2, HoldsFrame
<1>3. CASE ~processing /\ task'["drain"] = Statement("sweep", None)
  <2>1. task["drain"].op = "none"  BY <1>3 DEF Ownership, DrainShape
  <2>2. \A r \in Runs : ~Holds(r)' /\ ~Holds(r)
    BY <1>3, <2>1, StatementFields DEF Holds
  <2> QED  BY <1>1, <2>2
<1>4. \/ task'["drain"] = task["drain"]
      \/ ~processing /\ task'["drain"] = Statement("sweep", None)
  <2>1. ASSUME NEW s, task' = [task EXCEPT ![c] = s]
        PROVE  task'["drain"] = task["drain"]
    BY <2>1 DEF TypeOK
  <2>2. ASSUME KickAndRespond(c)
        PROVE  \/ task'["drain"] = task["drain"]
               \/ ~processing /\ task'["drain"] = Statement("sweep", None)
    BY <2>2 DEF KickAndRespond, Finish, TypeOK
  <2>3. CASE PostNothing(c)
    BY <2>3 DEF PostNothing, Issue, TypeOK
  <2>4. CASE AfterMaxId(c) \/ AfterFlag(c)
    BY <2>1, <2>2, <2>4 DEF AfterMaxId, AfterFlag, Continue, Finish
  <2>5. CASE \/ \E n \in 1..MaxBatch : PostRuns(c, n)
             \/ \E r \in Runs : CancelRun(c, r)
             \/ RecoverRuns(c)
             \/ AfterInsert(c) \/ AfterBump(c) \/ AfterRescue(c) \/ AfterRetry(c)
             \/ RespondError(c)
    BY <2>1, <2>5 DEF PostRuns, CancelRun, RecoverRuns, AfterInsert, AfterBump,
                      AfterRescue, AfterRetry, RespondError, Issue, Continue, Finish
  <2> QED  BY <2>3, <2>4, <2>5 DEF Respond
<1> QED  BY <1>2, <1>3, <1>4

LEMMA DrainHandsOverNothing ==
    ASSUME TypeOK, Ownership, Quiet, DrainHandles \/ RunnerEnds
    PROVE  rows' = rows /\ \A r \in Runs : Holds(r)' <=> Holds(r)
<1> USE ActorFacts
<1> DEFINE d == task["drain"]
<1>1. d.phase # "failed"  BY DEF Ownership, Settled
<1>2. rows' = rows
  BY DEF DrainHandles, RunnerEnds, RunnerReturns, RunnerThrows, AfterSweep,
         ClaimIsEmpty, ClaimIsLegacy, ClaimHasSpec, SpecFound, SpecMissing,
         AfterReject, AfterComplete, CatchAfterComplete, AfterFail, NextTurn, Start,
         OnlyTasks
<1>3. ASSUME NEW s, task' = [task EXCEPT !["drain"] = s]
      PROVE  d' = s
  BY <1>3 DEF TypeOK
<1>4. ASSUME d.phase = "done", d.op \in {"sweep", "reject", "complete", "fail"},
             d'.op \in {"sweep", "claim"}, d'.phase = "issued"
      PROVE  \A r \in Runs : Holds(r)' <=> Holds(r)
  BY <1>4 DEF Holds
<1>5. ASSUME NEW r \in Runs, d.phase = "done",
             \/ d.op = "claim" /\ d.val = r
             \/ d.op = "getSpec" /\ d.run = r,
             d'.op \in {"getSpec", "evolve"}, d'.run = r
      PROVE  \A q \in Runs : Holds(q)' <=> Holds(q)
  BY <1>5 DEF Holds
<1>6. ASSUME d.op \in {"getSpec", "evolve"}, d'.op \in {"reject", "complete", "fail"},
             d'.phase = "issued", d'.run = d.run
      PROVE  \A q \in Runs : Holds(q)' <=> Holds(q)
  BY <1>6 DEF Holds
<1>7. CASE AfterSweep \/ AfterReject \/ AfterComplete \/ AfterFail
  <2>1. d.phase = "done" /\ d.op \in {"sweep", "reject", "complete", "fail"}
    BY <1>1, <1>7
    DEF AfterSweep, AfterReject, AfterComplete, AfterFail, Answered, Rejected
  <2>2. d' = Statement("claim", None) \/ d' = Statement("sweep", None)
    BY <1>3, <1>7
    DEF AfterSweep, AfterReject, AfterComplete, AfterFail, NextTurn, Continue
  <2> QED  BY <1>2, <1>4, <2>1, <2>2, StatementFields
<1>8. CASE ClaimIsEmpty
  <2>1. d.op = "claim" /\ d.val = None  BY <1>8 DEF ClaimIsEmpty, Answered
  <2>2. d' = Idle  BY <1>3, <1>8 DEF ClaimIsEmpty, Finish
  <2> QED  BY <1>2, <2>1, <2>2, StatementFields DEF Holds, None, Runs
<1>9. CASE ClaimIsLegacy \/ ClaimHasSpec
  <2>1. d.op = "claim" /\ d.phase = "done" /\ d.val \in Runs
    BY <1>9, RunSetsAssumption DEF ClaimIsLegacy, ClaimHasSpec, Answered
  <2>2. CASE ClaimIsLegacy
    <3>1. d' = [Idle EXCEPT !.op = "evolve", !.run = d.val]
      BY <1>3, <2>2 DEF ClaimIsLegacy, Start
    <3>2. d'.op = "evolve" /\ d'.run = d.val  BY <3>1 DEF Idle
    <3> QED  BY <1>2, <1>5, <2>1, <3>2
  <2>3. CASE ClaimHasSpec
    <3>1. d' = Statement("getSpec", d.val)
      BY <1>3, <2>3 DEF ClaimHasSpec, Continue
    <3>2. d'.op = "getSpec" /\ d'.run = d.val  BY <3>1, StatementFields
    <3> QED  BY <1>2, <1>5, <2>1, <3>2
  <2> QED  BY <1>9, <2>2, <2>3
<1>10. CASE SpecFound
  <2>1. d.op = "getSpec" /\ d.phase = "done"  BY <1>10 DEF SpecFound, Answered
  <2>2. d.run \in Runs
    <3>1. d \in Task  BY DEF TypeOK
    <3>2. d.run \in 0..MaxRuns  BY <3>1, TaskFields
    <3>3. d.run # None  BY <2>1 DEF Ownership, DrainShape
    <3> QED  BY <3>2, <3>3, MaxRunsAssumption DEF None, Runs
  <2>3. d' = [Idle EXCEPT !.op = "evolve", !.run = d.run]
    BY <1>3, <1>10 DEF SpecFound, Start
  <2>4. d'.op = "evolve" /\ d'.run = d.run  BY <2>3 DEF Idle
  <2> QED  BY <1>2, <1>5, <2>1, <2>2, <2>4
<1>11. CASE SpecMissing \/ RunnerEnds
  <2>1. d.op \in {"getSpec", "evolve"} /\ (d.op = "evolve" => activeRun = d.run)
    BY <1>11 DEF SpecMissing, RunnerEnds, RunnerReturns, RunnerThrows, Answered,
                 Rejected, Ownership, DrainShape
  <2>2. \E op \in {"reject", "complete", "fail"} : \E s : d' = Complete(op, d.run, s)
    <3>1. CASE SpecMissing  BY <1>3, <3>1 DEF SpecMissing, Continue
    <3>2. CASE RunnerEnds
      BY <1>3, <2>1, <3>2 DEF RunnerEnds, RunnerReturns, RunnerThrows, Issue
    <3> QED  BY <1>11, <3>1, <3>2
  <2> QED  BY <1>2, <1>6, <2>1, <2>2, StatementFields
<1>12. CASE CatchAfterComplete
  BY <1>1, <1>12 DEF CatchAfterComplete, Rejected, Quiet
<1> QED
  BY <1>7, <1>8, <1>9, <1>10, <1>11, <1>12 DEF DrainHandles

-----------------------------------------------------------------------------
(* A statement is executed.                                                *)

\* The move of the board that takes the rows of R from one status to another.
LEMMA Moves ==
    ASSUME NEW R \in SUBSET Runs, NEW from, NEW to,
           \A r \in R : rows[r].status = from /\ rows'[r].status = to,
           \A r \in Runs \ R : rows'[r].status = rows[r].status
    PROVE  Board!Move(R, from, to)
  BY DEF Board!Move

LEMMA ClientBoard ==
    ASSUME TypeOK, Ownership, NEW c \in Clients, Execute(c)
    PROVE  Board!Next \/ UNCHANGED Board!vars
<1> USE ActorFacts
<1>1. c \in Actors \ {"drain", "boot", "beat", "poll", "save"}  OBVIOUS
<1>2. rows \in [Runs -> Row]  BY DEF TypeOK
<1>3. PICK op, val : Executes(c, op, val) /\ op # "none"
  BY <1>1 DEF Execute, ExecInsert, ExecMaxId, ExecFlag, ExecHeartbeat, ExecRescue,
              ExecRetry
<1>4. task[c].op = op /\ task'["drain"] = task["drain"]
  BY <1>1, <1>3, ExecutesFields
<1>5. server = "up"  BY <1>1, <1>3, <1>4, ServerIsUp
<1>6. \A r \in Runs : Holds(r)' <=> Holds(r)  BY <1>4, HoldsFrame
<1>7. CASE ExecInsert(c)
  <2> PICK r \in Runs : IsNextId(rows, r) /\ rows' = Inserted(rows, r)
    BY <1>7 DEF ExecInsert
  <2>1. rows[r].status = "absent"  BY DEF IsNextId, Present
  <2>2. rows'[r].status = "pending" /\ \A q \in Runs \ {r} : rows'[q] = rows[q]
    BY <1>2 DEF Inserted, AbsentRow
  <2>3. Board!Move({r}, "absent", "pending")  BY <2>1, <2>2, Moves
  <2>4. Board!Enqueue(r)  BY <1>6, <2>3, HeldFrame DEF Board!Enqueue
  <2> QED  BY <2>4 DEF Board!Next
<1>8. CASE ExecRescue(c) \/ ExecRetry(c)
  <2>1. task[c].op \in {"rescue", "retry"}
    BY <1>8 DEF ExecRescue, ExecRetry, Executes
  <2>2. \A r \in Runs : ~Stale(rows[r])
    BY <1>5, <2>1 DEF Ownership, RunningIffHeld, Lease, Fresh, Stale
  <2>3. \A r \in Runs : rows'[r] = rows[r]
    BY <1>8, <2>2 DEF ExecRescue, ExecRetry, Rescued, Retried
  <2> QED  BY <1>6, <2>3, Stutters
<1>9. CASE ExecMaxId(c) \/ ExecFlag(c) \/ ExecHeartbeat(c)
  <2>1. \A r \in Runs : rows'[r].status = rows[r].status
    BY <1>2, <1>9 DEF ExecMaxId, ExecFlag, ExecHeartbeat, Flagged, Beaten, Row
  <2> QED  BY <1>6, <2>1, Stutters
<1> QED  BY <1>1, <1>7, <1>8, <1>9 DEF Execute

LEMMA TimerBoard ==
    ASSUME TypeOK, NEW t \in Timers, Execute(t)
    PROVE  UNCHANGED Board!vars
<1> USE ActorFacts
<1>1. t \in Actors \ {"drain", "boot"} /\ t \notin Clients  BY DEF Actors, Timers
<1>2. rows \in [Runs -> Row]  BY DEF TypeOK
<1>3. PICK op, val : Executes(t, op, val)
  BY <1>1 DEF Execute, ExecHeartbeat, ExecPoll, ExecSave
<1>4. \A r \in Runs : Holds(r)' <=> Holds(r)
  BY <1>1, <1>3, ExecutesFields, HoldsFrame
<1>5. \A r \in Runs : rows'[r].status = rows[r].status
  BY <1>1, <1>2 DEF Execute, ExecHeartbeat, ExecPoll, ExecSave, Beaten, Saved, Row
<1> QED  BY <1>4, <1>5, Stutters

LEMMA BootBoard ==
    ASSUME TypeOK, Ownership, Execute("boot")
    PROVE  Board!Next
<1> USE ActorFacts
<1>1. PICK op \in {"rescue", "retry"} :
        /\ Executes("boot", op, 0)
        /\ op = "rescue" => rows' = Rescued(rows)
        /\ op = "retry" => rows' = Retried(rows)
  BY DEF Execute, ExecRescue, ExecRetry
<1>2. task["boot"].op = op /\ task'["drain"] = task["drain"]
  BY <1>1, ExecutesFields
<1>3. server = "booting" /\ task["drain"] = Idle
  BY <1>2, StatementFields DEF Ownership, OnlyBoot
<1>4. Held = None /\ Held' = Held
  <2>1. \A r \in Runs : ~Holds(r)  BY <1>3, StatementFields DEF Holds
  <2>2. \A r \in Runs : Holds(r)' <=> Holds(r)  BY <1>2, HoldsFrame
  <2> QED  BY <2>1, <2>2, HeldIs, HeldFrame
<1>5. rows \in [Runs -> Row] /\ None \notin Runs  BY DEF TypeOK, None, Runs
<1>6. ASSUME NEW R \in SUBSET Runs, NEW s \in {"pending", "completed"},
             Board!Move(R, "running", s)
      PROVE  Board!Next
  <2>1. Board!Recover(R, s)  BY <1>4, <1>5, <1>6 DEF Board!Recover
  <2> QED  BY <2>1 DEF Board!Next
<1>7. CASE op = "rescue"
  <2> DEFINE R == {r \in Runs : Stale(rows[r]) /\ rows[r].best_gene # "null"}
  <2>1. ASSUME NEW r \in Runs
        PROVE  rows'[r] = IF r \in R THEN [rows[r] EXCEPT !.status = "completed"]
                                     ELSE rows[r]
    BY <1>1, <1>7 DEF Rescued
  <2>2. \A r \in R : rows[r].status = "running" /\ rows'[r].status = "completed"
    BY <1>5, <2>1 DEF Stale, Row
  <2>3. \A r \in Runs \ R : rows'[r].status = rows[r].status
    BY <2>1
  <2>4. Board!Move(R, "running", "completed")  BY <2>2, <2>3, Moves
  <2> QED  BY <1>6, <2>4
<1>8. CASE op = "retry"
  <2> DEFINE R == {r \in Runs : Stale(rows[r]) /\ rows[r].best_gene = "null"}
  <2>1. ASSUME NEW r \in Runs
        PROVE  rows'[r] = IF r \in R
                            THEN [rows[r] EXCEPT !.status       = "pending",
                                                 !.claimed_by   = 0,
                                                 !.heartbeat_at = "null"]
                            ELSE rows[r]
    BY <1>1, <1>8 DEF Retried
  <2>2. \A r \in R : rows[r].status = "running" /\ rows'[r].status = "pending"
    BY <1>5, <2>1 DEF Stale, Row
  <2>3. \A r \in Runs \ R : rows'[r].status = rows[r].status
    BY <2>1
  <2>4. Board!Move(R, "running", "pending")  BY <2>2, <2>3, Moves
  <2> QED  BY <1>6, <2>4
<1> QED  BY <1>7, <1>8

LEMMA DrainBoard ==
    ASSUME TypeOK, EndsFinal, Ownership, Quiet, Execute("drain")
    PROVE  Board!Next \/ UNCHANGED Board!vars
<1> USE ActorFacts
<1> DEFINE d == task["drain"]
<1>1. PICK op, val : /\ op \in {"sweep", "claim", "getSpec", "reject", "complete", "fail"}
                     /\ Executes("drain", op, val)
  BY DEF Execute, ExecSweep, ExecClaim, ExecGetSpec, ExecComplete
<1>2. /\ d.op = op /\ d.phase = "issued"
      /\ d'.op = op /\ d'.phase = "done" /\ d'.val = val
      /\ d'.run = d.run /\ d'.arg = d.arg
  BY <1>1, ExecutesFields
<1>3. server = "up"  BY <1>1, <1>2, ServerIsUp
<1>4. rows \in [Runs -> Row] /\ None \notin Runs  BY DEF TypeOK, None, Runs
<1>5. CASE op = "sweep"
  <2> PICK R \in SUBSET Runs :
        R = {r \in Runs : rows[r].status = "pending" /\ rows[r].cancel_requested}
    OBVIOUS
  <2>1. \A r \in Runs : Holds(r)' <=> Holds(r)  BY <1>2, <1>5 DEF Holds
  <2>2. rows' = Swept(rows)
    BY <1>2, <1>5 DEF Execute, ExecSweep, ExecClaim, ExecGetSpec, ExecComplete, Executes
  <2>3. ASSUME NEW r \in Runs
        PROVE  rows'[r] = IF r \in R THEN [rows[r] EXCEPT !.status = "cancelled"]
                                     ELSE rows[r]
    BY <2>2 DEF Swept
  <2>4. ASSUME NEW r \in R
        PROVE  rows[r].status = "pending" /\ rows'[r].status = "cancelled"
    <3>1. r \in Runs /\ rows[r] \in Row /\ rows[r].status = "pending"  BY <1>4
    <3>2. rows'[r] = [rows[r] EXCEPT !.status = "cancelled"]  BY <2>3, <3>1
    <3> QED  BY <3>1, <3>2 DEF Row
  <2>5. Board!Move(R, "pending", "cancelled")  BY <2>3, <2>4, Moves
  <2>6. Board!Withdraw(R)  BY <2>1, <2>5, HeldFrame DEF Board!Withdraw
  <2> QED  BY <2>6 DEF Board!Next
<1>6. CASE op = "claim"
  <2>1. \A r \in Runs : ~Holds(r)  BY <1>2, <1>6 DEF Holds
  <2>2. \A r \in Runs : Holds(r)' <=> r = val  BY <1>2, <1>6 DEF Holds
  <2>3. ExecClaim
    BY <1>2, <1>6 DEF Execute, ExecSweep, ExecClaim, ExecGetSpec, ExecComplete, Executes
  <2>4. \A w \in {None} \cup Runs : Executes("drain", "claim", w) => w = val
    BY <1>2, ExecutesFields
  <2>5. CASE val \in Runs
    <3>1. rows[val].status = "pending" /\ rows' = Claimed(rows, val, process)
      BY <1>4, <2>3, <2>4, <2>5 DEF ExecClaim, IsClaimed, Claimable
    <3>2. rows'[val].status = "running" /\ \A q \in Runs \ {val} : rows'[q] = rows[q]
      BY <1>4, <2>5, <3>1 DEF Claimed, Row
    <3>3. Board!Move({val}, "pending", "running")  BY <2>5, <3>1, <3>2, Moves
    <3>4. Held = None /\ Held' = val  BY <2>1, <2>2, <2>5, HeldIs, HeldIsNext
    <3>5. Board!Take(val)  BY <3>3, <3>4 DEF Board!Take
    <3> QED  BY <2>5, <3>5 DEF Board!Next
  <2>6. CASE val \notin Runs
    <3>1. rows' = rows  BY <2>3, <2>4, <2>6 DEF ExecClaim
    <3>2. \A r \in Runs : Holds(r)' <=> Holds(r)  BY <2>1, <2>2, <2>6
    <3> QED  BY <3>1, <3>2, Stutters
  <2> QED  BY <2>5, <2>6
<1>7. CASE op = "getSpec"
  <2>1. \A r \in Runs : Holds(r)' <=> Holds(r)  BY <1>2, <1>7 DEF Holds
  <2>2. rows' = rows
    BY <1>2, <1>7 DEF Execute, ExecSweep, ExecClaim, ExecGetSpec, ExecComplete, Executes
  <2> QED  BY <2>1, <2>2, Stutters
<1>8. CASE op \in {"reject", "complete", "fail"}
  <2>1. \A r \in Runs : ~Holds(r)' /\ (Holds(r) <=> r = d.run)
    BY <1>2, <1>8 DEF Holds
  <2>2. rows' = Completed(rows, d.run, d.arg, Gene(d.op, d.run)) /\ d.arg \in Final
    BY <1>2, <1>8
    DEF EndsFinal, Execute, ExecSweep, ExecClaim, ExecGetSpec, ExecComplete, Executes
  <2>3. CASE d.run \in Runs
    <3>1. rows[d.run].status = "running"
      BY <1>3, <2>1, <2>3 DEF Ownership, RunningIffHeld
    <3> PICK r, e : r = d.run /\ e = d.arg  OBVIOUS
    <3>2. rows'[r].status = e /\ \A q \in Runs \ {r} : rows'[q] = rows[q]
      BY <1>4, <2>2, <2>3 DEF Completed, Row
    <3>3. Held = r /\ Held' = None  BY <2>1, <2>3, HeldIs, HeldIsNext
    <3>4. r \in Runs /\ e \in Board!Finished /\ rows[r].status = "running"
      BY <2>2, <2>3, <3>1 DEF Board!Finished, Final
    <3>5. Board!Move({r}, "running", e)  BY <3>2, <3>4, Moves
    <3>6. Board!Finish(r, e)  BY <3>3, <3>5 DEF Board!Finish
    <3> QED  BY <3>4, <3>6 DEF Board!Next
  <2>4. CASE d.run \notin Runs
    <3>1. \A r \in Runs : Holds(r)' <=> Holds(r)  BY <2>1, <2>4
    <3>2. \A r \in Runs : rows'[r].status = rows[r].status
      BY <1>4, <2>2, <2>4 DEF Completed
    <3> QED  BY <3>1, <3>2, Stutters
  <2> QED  BY <2>3, <2>4
<1> QED  BY <1>1, <1>5, <1>6, <1>7, <1>8

-----------------------------------------------------------------------------
(* The rest.                                                               *)

LEMMA EnvironmentBoard ==
    ASSUME TypeOK, Ownership, Quiet,
           \/ \E a \in Actors : ExecFails(a)
           \/ AfterRescue("boot") \/ AfterRetry("boot")
           \/ TimePasses \/ Crash \/ Boot
           \/ UNCHANGED vars
    PROVE  Board!Next \/ UNCHANGED Board!vars
<1> USE ActorFacts
<1>1. CASE \E a \in Actors : ExecFails(a)
  BY <1>1 DEF ExecFails, Quiet, TypeOK
<1>2. CASE Crash
  <2>1. rows' = rows /\ task'["drain"] = Idle  BY <1>2 DEF Crash
  <2>2. \A r \in Runs : ~Holds(r)'  BY <2>1, StatementFields DEF Holds
  <2>3. Board!Lose  BY <2>1, <2>2, HeldIsNext DEF Board!Lose
  <2> QED  BY <2>3 DEF Board!Next
<1>3. CASE AfterRescue("boot") \/ AfterRetry("boot") \/ Boot \/ TimePasses
           \/ UNCHANGED vars
  <2>1. task'["drain"] = task["drain"]
    BY <1>3 DEF AfterRescue, AfterRetry, Boot, TimePasses, vars, Continue, Finish, Issue,
                TypeOK
  <2>2. \A r \in Runs : rows'[r].status = rows[r].status
    BY <1>3 DEF AfterRescue, AfterRetry, Boot, TimePasses, vars, OnlyTasks, Aged, TypeOK,
                Row
  <2> QED  BY <2>1, <2>2, HoldsFrame, Stutters
<1> QED  BY <1>1, <1>2, <1>3

LEMMA TimersBoard ==
    ASSUME TypeOK,
           \/ BeatTick \/ PollTick \/ SaveTick
           \/ PollAnswered \/ \E t \in Timers : TimerSettles(t)
    PROVE  UNCHANGED Board!vars
<1> USE ActorFacts
<1>1. "drain" \notin Timers  BY DEF Timers
<1>2. task'["drain"] = task["drain"] /\ rows' = rows
  BY <1>1 DEF BeatTick, PollTick, SaveTick, Tick, PollAnswered, TimerSettles, OnlyTasks,
              Issue, Finish, TypeOK
<1> QED  BY <1>2, HoldsFrame, Stutters

LEMMA BoardInit == Init => Board!Init
<1> SUFFICES ASSUME Init PROVE Board!Init  OBVIOUS
<1>1. \A r \in Runs : rows[r].status = "absent"  BY DEF Init, AbsentRow
<1>2. task["drain"] = Idle  BY ActorFacts DEF Init
<1>3. Held = None
  <2>1. \A r \in Runs : ~Holds(r)  BY <1>2, StatementFields DEF Holds
  <2> QED  BY <2>1, HeldIs
<1> QED  BY <1>1, <1>3 DEF Board!Init

LEMMA BoardNext ==
    ASSUME Quiet, Inductive, [Next]_vars
    PROVE  [Board!Next]_(Board!vars)
<1> USE DEF Inductive
<1>1. ASSUME NEW c \in Clients,
             \/ \E n \in 1..MaxBatch : PostRuns(c, n)
             \/ PostNothing(c)
             \/ \E r \in Runs : CancelRun(c, r)
             \/ RecoverRuns(c)
             \/ Respond(c)
      PROVE  UNCHANGED Board!vars
  BY <1>1, RequestsHandOverNothing, Stutters
<1>2. ASSUME NEW a \in Actors, Execute(a)
      PROVE  Board!Next \/ UNCHANGED Board!vars
  BY <1>2, ClientBoard, TimerBoard, BootBoard, DrainBoard DEF Actors
<1>3. CASE DrainHandles \/ RunnerEnds
  BY <1>3, DrainHandsOverNothing, Stutters
<1>4. CASE \/ BeatTick \/ PollTick \/ SaveTick
           \/ PollAnswered \/ \E t \in Timers : TimerSettles(t)
  BY <1>4, TimersBoard
<1>5. CASE \/ \E a \in Actors : ExecFails(a)
           \/ AfterRescue("boot") \/ AfterRetry("boot")
           \/ TimePasses \/ Crash \/ Boot
           \/ UNCHANGED vars
  BY <1>5, EnvironmentBoard
<1> QED  BY <1>1, <1>2, <1>3, <1>4, <1>5 DEF Next

\* The server implements the board of RunBoard: whatever the handlers, timers,
\* requests and restarts do between two statements, what claimNextRun,
\* completeRun and recoverStaleRuns make of the table is a run taken by a free
\* holder, finished by its holder, withdrawn while it waits, or recovered once
\* its holder is lost; and what is finished is never touched again.
THEOREM ImplementsBoard ==
    ASSUME Quiet
    PROVE  Spec => BoardSpec
<1>1. Init => Board!Init  BY BoardInit
<1>2. Inductive /\ [Next]_vars => [Board!Next]_(Board!vars)  BY BoardNext
<1> QED  BY <1>1, <1>2, InductiveCorrect, PTL DEF Spec, BoardSpec, Board!Spec

-----------------------------------------------------------------------------
(* How a run ends, for every number of rows, requests, rejected statements *)
(* and crashes.                                                            *)
(*                                                                         *)
(* EndsAreTrue and TerminalIsFinal: under Quiet, when the one DuckDB       *)
(* connection answers in the order it was asked (InOrder).                 *)
(*                                                                         *)
(* OrphansWereTold: a run left claimed with nobody executing it was        *)
(* announced as failed, whatever statements DuckDB rejects, in whatever    *)
(* order it answers them and however often the process crashes, if the     *)
(* boot code finds every lease expired (ColdRestart).                      *)

(* The connection as a queue.                                              *)

LEMMA LinePushed ==
    ASSUME NEW l \in Seq(Actors), NEW x \in Actors, Once(l), ~Outstanding(x, l)
    PROVE  LET m == Append(l, x) IN
           /\ Once(m)
           /\ \A a : Outstanding(a, m) <=> (Outstanding(a, l) \/ a = x)
           /\ \A a : Outstanding(a, l) => Ahead(a, x, m)
           /\ \A a, b : b # x /\ Ahead(a, b, l) => Ahead(a, b, m)
<1> DEFINE m == Append(l, x)
<1>1. /\ Len(m) = Len(l) + 1 /\ Len(l) \in Nat
      /\ \A i \in 1..Len(l) : m[i] = l[i]
      /\ m[Len(l) + 1] = x
  BY AppendProperties
<1> HIDE DEF m
<1>2. Once(m)
  <2> SUFFICES ASSUME NEW i \in 1..Len(m), NEW j \in 1..Len(m), m[i] = m[j]
               PROVE  i = j
    BY DEF Once
  <2>1. CASE i \in 1..Len(l) /\ j \in 1..Len(l)  BY <1>1, <2>1 DEF Once
  <2>2. CASE i = Len(l) + 1 \/ j = Len(l) + 1  BY <1>1, <2>2 DEF Outstanding
  <2> QED  BY <1>1, <2>1, <2>2
<1>3. \A a : Outstanding(a, m) <=> (Outstanding(a, l) \/ a = x)
  <2> SUFFICES ASSUME NEW a
               PROVE  Outstanding(a, m) <=> (Outstanding(a, l) \/ a = x)
    OBVIOUS
  <2>1. Outstanding(a, m) => (Outstanding(a, l) \/ a = x)
    BY <1>1 DEF Outstanding
  <2>2. Outstanding(a, l) => Outstanding(a, m)
    BY <1>1 DEF Outstanding
  <2>3. a = x => Outstanding(a, m)
    <3>1. Len(l) + 1 \in 1..Len(m)  BY <1>1
    <3> QED  BY <1>1, <3>1 DEF Outstanding
  <2> QED  BY <2>1, <2>2, <2>3
<1>4. ASSUME NEW a, Outstanding(a, l)
      PROVE  Ahead(a, x, m)
  <2> SUFFICES ASSUME NEW i \in 1..Len(m), m[i] = x
               PROVE  \E j \in 1..(i - 1) : m[j] = a
    BY DEF Ahead
  <2>1. i = Len(l) + 1  BY <1>1 DEF Outstanding
  <2>2. PICK j \in 1..Len(l) : l[j] = a  BY <1>4 DEF Outstanding
  <2>3. j \in 1..(i - 1) /\ m[j] = a  BY <1>1, <2>1, <2>2
  <2> QED  BY <2>3
<1>5. ASSUME NEW a, NEW b, b # x, Ahead(a, b, l)
      PROVE  Ahead(a, b, m)
  <2> SUFFICES ASSUME NEW i \in 1..Len(m), m[i] = b
               PROVE  \E j \in 1..(i - 1) : m[j] = a
    BY DEF Ahead
  <2>1. i \in 1..Len(l) /\ l[i] = b  BY <1>1, <1>5
  <2>2. PICK j \in 1..(i - 1) : l[j] = a  BY <1>5, <2>1 DEF Ahead
  <2>3. m[j] = a  BY <1>1, <2>1, <2>2
  <2> QED  BY <2>3
<1> QED  BY <1>2, <1>3, <1>4, <1>5 DEF m

LEMMA LinePopped ==
    ASSUME NEW l \in Seq(Actors), l # <<>>, Once(l)
    PROVE  LET m == Tail(l) IN
           /\ m \in Seq(Actors)
           /\ Once(m)
           /\ \A a : Outstanding(a, m) <=> (Outstanding(a, l) /\ a # Head(l))
           /\ \A a, b : a # Head(l) /\ Ahead(a, b, l) => Ahead(a, b, m)
<1> DEFINE m == Tail(l)
<1>1. /\ m \in Seq(Actors) /\ Len(l) \in Nat /\ Len(l) > 0 /\ Len(m) = Len(l) - 1
      /\ \A i \in 1..Len(m) : m[i] = l[i + 1]
      /\ Head(l) = l[1]
  BY HeadTailProperties, EmptySeq
<1> HIDE DEF m
<1>2. Once(m)
  <2> SUFFICES ASSUME NEW i \in 1..Len(m), NEW j \in 1..Len(m), m[i] = m[j]
               PROVE  i = j
    BY DEF Once
  <2>1. /\ i + 1 \in 1..Len(l) /\ j + 1 \in 1..Len(l)
        /\ l[i + 1] = l[j + 1]
    BY <1>1
  <2>2. i + 1 = j + 1  BY <2>1 DEF Once
  <2> QED  BY <2>2
<1>3. ASSUME NEW a
      PROVE  Outstanding(a, m) <=> (Outstanding(a, l) /\ a # Head(l))
  <2>1. ASSUME Outstanding(a, m)
        PROVE  Outstanding(a, l) /\ a # Head(l)
    <3> PICK i \in 1..Len(m) : m[i] = a  BY <2>1 DEF Outstanding
    <3>1. i + 1 \in 1..Len(l) /\ 1 \in 1..Len(l) /\ l[i + 1] = a  BY <1>1
    <3>2. l[1] # a
      <4>1. l[i + 1] = l[1] => i + 1 = 1  BY <3>1 DEF Once
      <4> QED  BY <3>1, <4>1
    <3> QED  BY <1>1, <3>1, <3>2 DEF Outstanding
  <2>2. ASSUME Outstanding(a, l), a # Head(l)
        PROVE  Outstanding(a, m)
    <3> PICK i \in 1..Len(l) : l[i] = a  BY <2>2 DEF Outstanding
    <3>1. i - 1 \in 1..Len(m) /\ m[i - 1] = a  BY <1>1, <2>2
    <3> QED  BY <3>1 DEF Outstanding
  <2> QED  BY <2>1, <2>2
<1>4. ASSUME NEW a, NEW b, a # Head(l), Ahead(a, b, l)
      PROVE  Ahead(a, b, m)
  <2> SUFFICES ASSUME NEW i \in 1..Len(m), m[i] = b
               PROVE  \E j \in 1..(i - 1) : m[j] = a
    BY DEF Ahead
  <2>1. i + 1 \in 1..Len(l) /\ l[i + 1] = b  BY <1>1
  <2>2. PICK j \in 1..((i + 1) - 1) : l[j] = a  BY <1>4, <2>1 DEF Ahead
  <2>3. j # 1  BY <1>1, <1>4, <2>2
  <2>4. j - 1 \in 1..(i - 1) /\ j - 1 \in 1..Len(m) /\ m[j - 1] = l[j]
    BY <1>1, <2>2, <2>3
  <2> QED  BY <2>2, <2>4
<1> QED  BY <1>1, <1>2, <1>3, <1>4 DEF m

\* Whoever comes ahead of b keeps b from being executed and from being answered.
LEMMA NextHasNobodyAhead ==
    ASSUME NEW a, NEW b, Ahead(a, b, line), IsNext(b)
    PROVE  task[a].phase # "issued"
  BY DEF Ahead, IsNext

LEMMA HeadHasNobodyAhead ==
    ASSUME NEW a, NEW b, TypeOK, line # <<>>, Head(line) = b
    PROVE  ~Ahead(a, b, line)
<1>1. Len(line) \in Nat /\ Len(line) > 0 /\ Head(line) = line[1]
  BY HeadTailProperties, EmptySeq DEF TypeOK
<1>2. 1 \in 1..Len(line)  BY <1>1
<1> QED  BY <1>1, <1>2 DEF Ahead

-----------------------------------------------------------------------------
(* The connection and the tasks, step by step.                             *)

\* Actor x issues a statement.
LEMMA IssueLine ==
    ASSUME InOrder, TypeOK, LineIsTasks, NEW x \in Actors, NEW s, Issue(x, s),
           ~Waits(task[x]), Waits(s)
    PROVE  /\ LineIsTasks'
           /\ \A a : Outstanding(a, line) => Ahead(a, x, line')
           /\ \A a, b : b # x /\ Ahead(a, b, line) => Ahead(a, b, line')
<1>1. line \in Seq(Actors) /\ Once(line) /\ ~Outstanding(x, line)
  BY DEF TypeOK, LineIsTasks
<1>2. line' = Append(line, x) /\ task'[x] = s /\ \A b \in Actors \ {x} : task'[b] = task[b]
  BY TaskSet DEF Issue, Push
<1>3. LineIsTasks'
  BY <1>1, <1>2, LinePushed DEF LineIsTasks
<1> QED  BY <1>1, <1>2, <1>3, LinePushed

\* Actor x handles its answer and issues the next statement.
LEMMA ContinueLine ==
    ASSUME InOrder, TypeOK, LineIsTasks, NEW x \in Actors, NEW s, Continue(x, s),
           line # <<>>, Head(line) = x, Waits(s)
    PROVE  /\ LineIsTasks'
           /\ \A a : a # x /\ Outstanding(a, line) => Ahead(a, x, line')
           /\ \A a, b : a # x /\ b # x /\ Ahead(a, b, line) => Ahead(a, b, line')
<1> DEFINE m == Tail(line)
<1>1. line \in Seq(Actors) /\ Once(line)  BY DEF TypeOK, LineIsTasks
<1>2. line' = Append(m, x) /\ task'[x] = s /\ \A b \in Actors \ {x} : task'[b] = task[b]
  BY TaskSet DEF Continue, Push, Pop
<1>3. /\ m \in Seq(Actors) /\ Once(m)
      /\ \A a : Outstanding(a, m) <=> (Outstanding(a, line) /\ a # x)
      /\ \A a, b : a # x /\ Ahead(a, b, line) => Ahead(a, b, m)
  BY <1>1, LinePopped
<1> HIDE DEF m
<1>4. ~Outstanding(x, m)  BY <1>3
<1>5. /\ Once(line')
      /\ \A a : Outstanding(a, line') <=> (Outstanding(a, m) \/ a = x)
      /\ \A a : Outstanding(a, m) => Ahead(a, x, line')
      /\ \A a, b : b # x /\ Ahead(a, b, m) => Ahead(a, b, line')
  BY <1>2, <1>3, <1>4, LinePushed
<1>6. LineIsTasks'
  BY <1>2, <1>3, <1>5 DEF LineIsTasks
<1> QED  BY <1>3, <1>5, <1>6

\* Actor x handles its answer and awaits nothing.
LEMMA FinishLine ==
    ASSUME InOrder, TypeOK, LineIsTasks, NEW x \in Actors, NEW s,
           task' = [task EXCEPT ![x] = s], line' = Pop,
           line # <<>>, Head(line) = x, ~Waits(s)
    PROVE  /\ LineIsTasks'
           /\ \A a, b : a # x /\ Ahead(a, b, line) => Ahead(a, b, line')
<1>1. line \in Seq(Actors) /\ Once(line)  BY DEF TypeOK, LineIsTasks
<1>2. line' = Tail(line) /\ task'[x] = s /\ \A b \in Actors \ {x} : task'[b] = task[b]
  BY TaskSet DEF Pop
<1>3. LineIsTasks'
  BY <1>1, <1>2, LinePopped DEF LineIsTasks
<1> QED  BY <1>1, <1>2, <1>3, LinePopped

LEMMA IdleDoesNotWait == ~Waits(Idle)
  BY DEF Waits, Idle

-----------------------------------------------------------------------------
(* Frames.                                                                 *)

\* Neither the drain loop nor the poll and the save of the active run move.
LEMMA OrderFrame ==
    ASSUME PollOrder, SaveOrder, activeRun' = activeRun,
           task'["drain"] = task["drain"],
           \A a \in {"poll", "save"} :
               /\ task'[a] = task[a]
               /\ Ahead(a, "drain", line) => Ahead(a, "drain", line')
    PROVE  PollOrder' /\ SaveOrder'
  BY DEF PollOrder, SaveOrder

\* No row changes, and nothing new is said about a run.
LEMMA TableFrame ==
    ASSUME AbsentIsClean, EndsAreTrue, rows' = rows, told' = told
    PROVE  AbsentIsClean' /\ EndsAreTrue'
  BY DEF AbsentIsClean, EndsAreTrue, CancelledWasAsked, BroadcastFitsRow

\* A request moves: it awaits s now.
LEMMA ClientEnds ==
    ASSUME Ends, NEW c \in Clients, NEW s,
           UNCHANGED <<rows, activeRun, told>>,
           task'[c] = s, \A b \in Actors \ {c} : task'[b] = task[b],
           s.op = "flag" => s.phase = "issued",
           cancelRequested' = cancelRequested \/ (cancelRequested' = TRUE /\ Asked(activeRun)),
           LineIsTasks',
           \A a, b : a # c /\ b # c /\ Ahead(a, b, line) => Ahead(a, b, line')
    PROVE  Ends'
<1> USE ActorFacts DEF Ends
<1>1. /\ task'["drain"] = task["drain"] /\ task'["poll"] = task["poll"]
      /\ task'["save"] = task["save"] /\ c \notin {"drain", "poll", "save"}
      /\ \A d \in Clients \ {c} : task'[d] = task[d]
  OBVIOUS
<1>2. PollOrder' /\ SaveOrder'  BY <1>1, OrderFrame
<1>3. AbsentIsClean' /\ EndsAreTrue'  BY TableFrame
<1>4. CancelIsRead'
  BY <1>1 DEF CancelIsRead, Asked
<1>5. EndIsWritten'
  BY <1>1 DEF EndIsWritten
<1> QED  BY <1>2, <1>3, <1>4, <1>5

\* processQueue() is called while no drain is at work: no poll and no save of a
\* run is left.
LEMMA KickEnds ==
    ASSUME Ownership, Ends, ~processing,
           UNCHANGED <<rows, activeRun, told, cancelRequested>>,
           task'["drain"] = Statement("sweep", None),
           \A b \in Actors \ {"drain"} :
               task'[b] = task[b] \/ (b \in Clients /\ task'[b] = Idle),
           LineIsTasks'
    PROVE  Ends'
<1> USE ActorFacts DEF Ends
<1>1. task["drain"].op = "none" /\ activeRun = None
  BY DEF Ownership, DrainShape
<1>2. task'["poll"] = task["poll"] /\ task'["save"] = task["save"]
  OBVIOUS
<1>3. PollOrder' /\ SaveOrder'
  BY <1>1, <1>2 DEF PollOrder, SaveOrder
<1>4. AbsentIsClean' /\ EndsAreTrue'  BY TableFrame
<1>5. CancelIsRead'
  <2>1. \A c \in Clients : task'[c] = task[c] \/ task'[c].op = "none"
    BY StatementFields
  <2> QED  BY <1>2, <2>1 DEF CancelIsRead, Asked
<1>6. EndIsWritten'  BY StatementFields DEF EndIsWritten
<1> QED  BY <1>3, <1>4, <1>5, <1>6

-----------------------------------------------------------------------------
(* Requests and their answers.                                             *)

LEMMA RequestEnds ==
    ASSUME InOrder, TypeOK, Ownership, Ends, NEW c \in Clients,
           \/ \E n \in 1..MaxBatch : PostRuns(c, n)
           \/ PostNothing(c)
           \/ \E r \in Runs : CancelRun(c, r)
           \/ RecoverRuns(c)
    PROVE  Ends'
<1> USE ActorFacts
<1>1. ASSUME NEW s, Issue(c, s), task[c] = Idle, Waits(s), s.phase = "issued",
             UNCHANGED <<rows, activeRun, told, cancelRequested>>
      PROVE  Ends'
  <2>1. /\ LineIsTasks'
        /\ \A a, b : b # c /\ Ahead(a, b, line) => Ahead(a, b, line')
    BY <1>1, IssueLine, IdleDoesNotWait DEF Ends
  <2>2. task'[c] = s /\ \A b \in Actors \ {c} : task'[b] = task[b]
    BY <1>1, TaskSet DEF Issue
  <2> QED  BY <1>1, <2>1, <2>2, ClientEnds
<1>2. CASE \E n \in 1..MaxBatch : PostRuns(c, n)
  <2> PICK n \in 1..MaxBatch : PostRuns(c, n)  BY <1>2
  <2>1. PICK s : s = [Statement("insert", None) EXCEPT !.left = n]  OBVIOUS
  <2>2. s.op = "insert" /\ s.phase = "issued"  BY <2>1, StatementFields
  <2>3. Issue(c, s) /\ task[c] = Idle /\ UNCHANGED <<rows, activeRun, told, cancelRequested>>
    BY <2>1 DEF PostRuns, Request, memory
  <2> QED  BY <1>1, <2>2, <2>3 DEF Waits
<1>3. CASE PostNothing(c)
  <2>1. /\ ~processing /\ Issue("drain", Statement("sweep", None))
        /\ UNCHANGED <<rows, activeRun, told, cancelRequested>>
    BY <1>3 DEF PostNothing, bounds
  <2>2. ~Waits(task["drain"])  BY <2>1 DEF Ownership, DrainShape, Waits
  <2>3. LineIsTasks'
    BY <2>1, <2>2, IssueLine, StatementFields DEF Ends, Waits
  <2>4. /\ task'["drain"] = Statement("sweep", None)
        /\ \A b \in Actors \ {"drain"} : task'[b] = task[b]
    BY <2>1, TaskSet DEF Issue
  <2> QED  BY <2>1, <2>3, <2>4, KickEnds
<1>4. CASE \E r \in Runs : CancelRun(c, r)
  <2> PICK r \in Runs : CancelRun(c, r)  BY <1>4
  <2>1. /\ Issue(c, Statement("flag", r)) /\ task[c] = Idle
        /\ UNCHANGED <<rows, activeRun, told, cancelRequested>>
    BY DEF CancelRun, Request, OnlyTasks, memory
  <2> QED  BY <1>1, <2>1, StatementFields DEF Waits
<1>5. CASE RecoverRuns(c)
  <2>1. PICK s : /\ s = IF activeRun # None THEN Statement("bump", activeRun)
                                            ELSE Statement("rescue", None)
    OBVIOUS
  <2>2. s.op \in {"bump", "rescue"} /\ s.phase = "issued"  BY <2>1, StatementFields
  <2>3. Issue(c, s) /\ task[c] = Idle /\ UNCHANGED <<rows, activeRun, told, cancelRequested>>
    BY <1>5, <2>1 DEF RecoverRuns, Request, OnlyTasks, memory
  <2> QED  BY <1>1, <2>2, <2>3 DEF Waits
<1> QED  BY <1>2, <1>3, <1>4, <1>5

LEMMA RespondEnds ==
    ASSUME InOrder, TypeOK, Ownership, Ends, NEW c \in Clients, Respond(c)
    PROVE  Ends'
<1> USE ActorFacts
<1>1. line # <<>> /\ Head(line) = c
  BY DEF Respond, AfterInsert, AfterMaxId, AfterFlag, AfterBump, AfterRescue, AfterRetry,
         RespondError, Answered, Rejected
<1>2. ASSUME NEW s, Continue(c, s), Waits(s), s.op # "flag",
             UNCHANGED <<rows, activeRun, told, cancelRequested>>
      PROVE  Ends'
  <2>1. /\ LineIsTasks'
        /\ \A a, b : a # c /\ b # c /\ Ahead(a, b, line) => Ahead(a, b, line')
    BY <1>1, <1>2, ContinueLine DEF Ends
  <2>2. task'[c] = s /\ \A b \in Actors \ {c} : task'[b] = task[b]
    BY <1>2, TaskSet DEF Continue
  <2> QED  BY <1>2, <2>1, <2>2, ClientEnds
<1>3. ASSUME Finish(c), UNCHANGED <<rows, activeRun, told>>,
             cancelRequested' = cancelRequested \/ (cancelRequested' = TRUE /\ Asked(activeRun))
      PROVE  Ends'
  <2>1. /\ LineIsTasks'
        /\ \A a, b : a # c /\ Ahead(a, b, line) => Ahead(a, b, line')
    BY <1>1, <1>3, FinishLine, IdleDoesNotWait DEF Ends, Finish
  <2>2. task'[c] = Idle /\ \A b \in Actors \ {c} : task'[b] = task[b]
    BY <1>3, TaskSet DEF Finish
  <2> QED  BY <1>3, <2>1, <2>2, StatementFields, ClientEnds
<1>4. ASSUME KickAndRespond(c), UNCHANGED <<rows, activeRun, told, cancelRequested>>
      PROVE  Ends'
  <2>1. CASE processing
    BY <1>3, <1>4, <2>1 DEF KickAndRespond
  <2>2. CASE ~processing
    <3>1. /\ task' = [task EXCEPT ![c] = Idle, !["drain"] = Statement("sweep", None)]
          /\ line' = Append(Tail(line), "drain")
      BY <1>4, <2>2 DEF KickAndRespond, Push, Pop
    <3>2. /\ task'["drain"] = Statement("sweep", None) /\ task'[c] = Idle
          /\ \A b \in Actors \ {"drain", c} : task'[b] = task[b]
      BY <3>1 DEF TypeOK
    <3>3. ~Waits(task["drain"])  BY <2>2 DEF Ownership, DrainShape, Waits
    <3>4. PICK m : m = Tail(line)  OBVIOUS
    <3>5. /\ m \in Seq(Actors) /\ Once(m)
          /\ \A a : Outstanding(a, m) <=> (Outstanding(a, line) /\ a # c)
      BY <1>1, <3>4, LinePopped DEF Ends, LineIsTasks, TypeOK
    <3>6. ~Outstanding("drain", m)  BY <3>3, <3>5 DEF Ends, LineIsTasks
    <3>7. /\ Once(line')
          /\ \A a : Outstanding(a, line') <=> (Outstanding(a, m) \/ a = "drain")
      BY <3>1, <3>4, <3>5, <3>6, LinePushed
    <3>8. Waits(Statement("sweep", None)) /\ ~Waits(Idle)
      BY StatementFields DEF Waits
    <3>9. LineIsTasks'
      BY <3>2, <3>5, <3>7, <3>8 DEF Ends, LineIsTasks
    <3>10. \A b \in Actors \ {"drain"} :
              task'[b] = task[b] \/ (b \in Clients /\ task'[b] = Idle)
      BY <3>2
    <3> QED  BY <1>4, <2>2, <3>2, <3>9, <3>10, KickEnds
  <2> QED  BY <2>1, <2>2
<1>5. CASE AfterInsert(c)
  <2>1. PICK s : s = [Statement("maxId", task[c].val) EXCEPT !.left = task[c].left]
    OBVIOUS
  <2>2. s.op = "maxId"  BY <2>1, StatementFields
  <2>3. Continue(c, s) /\ UNCHANGED <<rows, activeRun, told, cancelRequested>>
    BY <1>5, <2>1 DEF AfterInsert, OnlyTasks, memory
  <2> QED  BY <1>2, <2>2, <2>3 DEF Waits
<1>6. CASE AfterMaxId(c)
  <2>1. UNCHANGED <<rows, activeRun, told, cancelRequested>>
    BY <1>6 DEF AfterMaxId, bounds
  <2>2. CASE task[c].left > 1
    <3>1. PICK s : s = [Statement("insert", None) EXCEPT !.left = task[c].left - 1]
      OBVIOUS
    <3>2. s.op = "insert"  BY <3>1, StatementFields
    <3>3. Continue(c, s)  BY <1>6, <2>2, <3>1 DEF AfterMaxId
    <3> QED  BY <1>2, <2>1, <3>2, <3>3 DEF Waits
  <2>3. CASE ~(task[c].left > 1)
    BY <1>4, <1>6, <2>1, <2>3 DEF AfterMaxId
  <2> QED  BY <2>2, <2>3
<1>7. CASE AfterFlag(c)
  <2>1. UNCHANGED <<rows, activeRun, told>>  BY <1>7 DEF AfterFlag, bounds
  <2>2. CASE task[c].val = 1 /\ activeRun = task[c].run /\ cancelRequested' = TRUE /\ Finish(c)
    <3>1. Asked(activeRun)
      BY <1>7, <2>2 DEF AfterFlag, Answered, Ends, CancelIsRead
    <3> QED  BY <1>3, <2>1, <2>2, <3>1
  <2>3. CASE UNCHANGED cancelRequested /\ (Finish(c) \/ KickAndRespond(c))
    BY <1>3, <1>4, <2>1, <2>3
  <2> QED  BY <1>7, <2>2, <2>3 DEF AfterFlag
<1>8. CASE AfterBump(c) \/ AfterRescue(c)
  <2>1. PICK op \in {"rescue", "retry"} : Continue(c, Statement(op, None))
    BY <1>8 DEF AfterBump, AfterRescue
  <2>2. UNCHANGED <<rows, activeRun, told, cancelRequested>>
    BY <1>8 DEF AfterBump, AfterRescue, OnlyTasks, memory
  <2> QED  BY <1>2, <2>1, <2>2, StatementFields DEF Waits
<1>9. CASE AfterRetry(c) \/ RespondError(c)
  <2>1. Finish(c) /\ UNCHANGED <<rows, activeRun, told, cancelRequested>>
    BY <1>9 DEF AfterRetry, RespondError, OnlyTasks, memory, bounds
  <2> QED  BY <1>3, <2>1
<1> QED  BY <1>5, <1>6, <1>7, <1>8, <1>9 DEF Respond

-----------------------------------------------------------------------------
(* The drain loop.                                                         *)

LEMMA DrainEnds ==
    ASSUME InOrder, TypeOK, EndsFinal, Ownership, Quiet, Ends, DrainHandles \/ RunnerEnds
    PROVE  Ends'
<1> USE ActorFacts
<1> DEFINE d == task["drain"]
<1>1. d.phase # "failed"  BY DEF Ownership, Settled
<1>2. rows' = rows /\ (AbsentIsClean /\ CancelledWasAsked)'
  <2>1. rows' = rows
    BY DEF DrainHandles, RunnerEnds, RunnerReturns, RunnerThrows, AfterSweep,
           ClaimIsEmpty, ClaimIsLegacy, ClaimHasSpec, SpecFound, SpecMissing,
           AfterReject, AfterComplete, CatchAfterComplete, AfterFail, NextTurn, Start,
           OnlyTasks
  <2> QED  BY <2>1 DEF Ends, AbsentIsClean, EndsAreTrue, CancelledWasAsked
<1>3. /\ DrainShape /\ "drain" \notin Clients
      /\ LineIsTasks /\ PollOrder /\ SaveOrder /\ CancelIsRead /\ EndIsWritten
      /\ BroadcastFitsRow
  BY DEF Ownership, Ends, EndsAreTrue
<1>4. ASSUME line # <<>>, Head(line) = "drain"
      PROVE  ~Ahead("poll", "drain", line) /\ ~Ahead("save", "drain", line)
  BY <1>4, HeadHasNobodyAhead
<1>5. ASSUME \A b \in Actors \ {"drain"} : task'[b] = task[b],
             LineIsTasks', PollOrder', SaveOrder', EndIsWritten', BroadcastFitsRow',
             cancelRequested' => cancelRequested /\ activeRun' = activeRun
      PROVE  Ends'
  <2>1. CancelIsRead'
    <3>1. \A a \in Clients \cup {"poll"} : task'[a] = task[a]  BY <1>5
    <3> QED  BY <1>2, <1>3, <1>5, <3>1 DEF CancelIsRead, Asked
  <2> QED  BY <1>2, <1>5, <2>1 DEF Ends, EndsAreTrue
<1>6. ASSUME NEW s, Continue("drain", s), Waits(s), line # <<>>, Head(line) = "drain"
      PROVE  /\ task'["drain"] = s /\ \A b \in Actors \ {"drain"} : task'[b] = task[b]
             /\ LineIsTasks'
  BY <1>3, <1>6, ContinueLine, TaskSet DEF Continue
<1>7. ASSUME d.op \in {"sweep", "claim", "getSpec", "reject"}, line # <<>>,
             Head(line) = "drain", \A b \in Actors \ {"drain"} : task'[b] = task[b]
      PROVE  PollOrder' /\ SaveOrder'
  <2>1. activeRun = None  BY <1>3, <1>7 DEF DrainShape
  <2>2. task["poll"].op # "poll"  BY <1>3, <1>4, <1>7, <2>1 DEF PollOrder
  <2>3. ~(task["save"].op = "save" /\ task["save"].phase = "issued")
    BY <1>3, <1>7 DEF SaveOrder
  <2>4. task'["poll"] = task["poll"] /\ task'["save"] = task["save"]  BY <1>7
  <2> QED  BY <2>2, <2>3, <2>4 DEF PollOrder, SaveOrder
<1>8. ASSUME NEW s, Continue("drain", s), line # <<>>, Head(line) = "drain",
             d.op \in {"sweep", "claim", "getSpec"}, Waits(s), s.phase = "issued",
             s.op \in {"sweep", "claim", "getSpec"} \/ (s.op = "reject" /\ s.arg = "failed"),
             UNCHANGED <<activeRun, told, cancelRequested>>
      PROVE  Ends'
  <2>1. /\ task'["drain"] = s /\ \A b \in Actors \ {"drain"} : task'[b] = task[b]
        /\ LineIsTasks'
    BY <1>6, <1>8
  <2>2. PollOrder' /\ SaveOrder'  BY <1>7, <1>8, <2>1
  <2>3. EndIsWritten'  BY <1>8, <2>1 DEF EndIsWritten
  <2>4. BroadcastFitsRow'  BY <1>2, <1>3, <1>8 DEF BroadcastFitsRow
  <2> QED  BY <1>5, <1>8, <2>1, <2>2, <2>3, <2>4
<1>9. ASSUME NEW r, Start(r), line # <<>>, Head(line) = "drain",
             d.op \in {"claim", "getSpec"}
      PROVE  Ends'
  <2>1. PICK s : s = [Idle EXCEPT !.op = "evolve", !.run = r]  OBVIOUS
  <2>2. s.op = "evolve"  BY <2>1 DEF Idle
  <2>3. /\ task' = [task EXCEPT !["drain"] = s] /\ line' = Pop
        /\ activeRun' = r /\ cancelRequested' = FALSE
        /\ told' = [told EXCEPT ![r] = "started"]
    BY <1>9, <2>1 DEF Start
  <2>4. /\ task'["drain"] = s /\ \A b \in Actors \ {"drain"} : task'[b] = task[b]
        /\ LineIsTasks'
    BY <1>3, <1>9, <2>2, <2>3, TaskSet, FinishLine DEF Waits
  <2>5. PollOrder' /\ SaveOrder'  BY <1>7, <1>9, <2>4
  <2>6. EndIsWritten'  BY <2>2, <2>4 DEF EndIsWritten
  <2>7. BroadcastFitsRow'
    BY <1>2, <1>3, <2>3 DEF BroadcastFitsRow, TypeOK
  <2> QED  BY <1>5, <2>3, <2>4, <2>5, <2>6, <2>7
<1>10. ASSUME NEW e \in {"error", "completed", "cancelled"},
              Continue("drain", Statement("sweep", None)),
              told' = [told EXCEPT ![d.run] = e],
              line # <<>>, Head(line) = "drain", d.phase = "done",
              d.op \in {"reject", "complete", "fail"},
              e = "error" => d.arg = "failed",
              e = "completed" => d.arg = "completed",
              e = "cancelled" => /\ d.arg \in {"completed", "cancelled"}
                                 /\ \A r \in Runs : d.run = r => rows[r].cancel_requested,
              activeRun' = None, cancelRequested' => activeRun = None /\ cancelRequested
       PROVE  Ends'
  <2>1. /\ task'["drain"] = Statement("sweep", None)
        /\ \A b \in Actors \ {"drain"} : task'[b] = task[b]
        /\ LineIsTasks'
    BY <1>6, <1>10, StatementFields DEF Waits
  <2>2. task'["poll"] = task["poll"] /\ task'["save"] = task["save"]
        /\ task'["drain"].op = "sweep"
    BY <2>1, StatementFields
  <2>3. PollOrder'
    <3>1. ASSUME task["poll"].op = "poll"
          PROVE  Ahead("poll", "drain", line')
      <4>1. Outstanding("poll", line)  BY <1>3, <3>1 DEF LineIsTasks, Waits
      <4> QED  BY <1>3, <1>10, <4>1, ContinueLine, StatementFields DEF Waits
    <3> QED  BY <2>2, <3>1 DEF PollOrder
  <2>4. SaveOrder'
    BY <1>3, <1>10, <2>2 DEF SaveOrder
  <2>5. EndIsWritten'  BY <2>2 DEF EndIsWritten
  <2>6. BroadcastFitsRow'
    <3>1. \A r \in Runs : d.run = r => rows[r].status = d.arg
      BY <1>3, <1>10 DEF EndIsWritten
    <3> QED  BY <1>2, <1>3, <1>10, <3>1 DEF BroadcastFitsRow, TypeOK
  <2> QED  BY <1>5, <1>10, <2>1, <2>3, <2>4, <2>5, <2>6
<1>11. CASE AfterSweep
  <2>1. /\ d.op = "sweep" /\ line # <<>> /\ Head(line) = "drain"
        /\ Continue("drain", Statement("claim", None))
        /\ UNCHANGED <<activeRun, told, cancelRequested>>
    BY <1>11 DEF AfterSweep, Answered, OnlyTasks, memory
  <2> QED  BY <1>8, <2>1, StatementFields DEF Waits
<1>12. CASE ClaimIsEmpty
  <2>1. /\ d.op = "claim" /\ line # <<>> /\ Head(line) = "drain" /\ Finish("drain")
        /\ UNCHANGED <<activeRun, told, cancelRequested>>
    BY <1>12 DEF ClaimIsEmpty, Answered, bounds
  <2>2. /\ task'["drain"] = Idle /\ \A b \in Actors \ {"drain"} : task'[b] = task[b]
        /\ LineIsTasks'
    BY <1>3, <2>1, TaskSet, FinishLine, IdleDoesNotWait DEF Finish
  <2>3. PollOrder' /\ SaveOrder'  BY <1>7, <2>1, <2>2
  <2>4. EndIsWritten'  BY <2>2, StatementFields DEF EndIsWritten
  <2>5. BroadcastFitsRow'  BY <1>2, <1>3, <2>1 DEF BroadcastFitsRow
  <2> QED  BY <1>5, <2>1, <2>2, <2>3, <2>4, <2>5
<1>13. CASE ClaimIsLegacy
  BY <1>9, <1>13 DEF ClaimIsLegacy, Answered
<1>14. CASE ClaimHasSpec
  <2>1. /\ d.op = "claim" /\ line # <<>> /\ Head(line) = "drain"
        /\ Continue("drain", Statement("getSpec", d.val))
        /\ UNCHANGED <<activeRun, told, cancelRequested>>
    BY <1>14 DEF ClaimHasSpec, Answered, OnlyTasks, memory
  <2> QED  BY <1>8, <2>1, StatementFields DEF Waits
<1>15. CASE SpecFound
  BY <1>9, <1>15 DEF SpecFound, Answered
<1>16. CASE SpecMissing
  <2>1. /\ d.op = "getSpec" /\ line # <<>> /\ Head(line) = "drain"
        /\ Continue("drain", Complete("reject", d.run, "failed"))
        /\ UNCHANGED <<activeRun, told, cancelRequested>>
    BY <1>16 DEF SpecMissing, Answered, Rejected, OnlyTasks, memory
  <2>2. Complete("reject", d.run, "failed").arg = "failed"
    BY DEF Complete, Statement, Idle
  <2> QED  BY <1>8, <2>1, <2>2, StatementFields DEF Waits
<1>17. CASE AfterReject
  <2>1. /\ d.op = "reject" /\ d.phase = "done" /\ line # <<>> /\ Head(line) = "drain"
        /\ Continue("drain", Statement("sweep", None))
        /\ told' = [told EXCEPT ![d.run] = "error"]
        /\ UNCHANGED <<activeRun, cancelRequested>>
    BY <1>17 DEF AfterReject, Answered, memory
  <2>2. activeRun = None /\ d.arg = "failed"
    BY <1>3, <2>1 DEF DrainShape, EndIsWritten
  <2> QED  BY <1>10, <2>1, <2>2
<1>18. CASE AfterComplete
  <2>1. /\ d.op = "complete" /\ d.phase = "done" /\ line # <<>> /\ Head(line) = "drain"
        /\ NextTurn(IF cancelRequested THEN "cancelled" ELSE "completed")
    BY <1>18 DEF AfterComplete, Answered
  <2>2. /\ ~cancelRequested => d.arg = "completed"
        /\ d.arg \in {"completed", "cancelled"}
    BY <1>3, <2>1 DEF EndIsWritten
  <2>3. cancelRequested => \A r \in Runs : d.run = r => rows[r].cancel_requested
    BY <1>3, <2>1 DEF DrainShape, CancelIsRead, Asked
  <2> QED  BY <1>10, <2>1, <2>2, <2>3 DEF NextTurn
<1>19. CASE CatchAfterComplete
  BY <1>1, <1>19 DEF CatchAfterComplete, Rejected, Quiet
<1>20. CASE AfterFail
  <2>1. /\ d.op = "fail" /\ d.phase = "done" /\ line # <<>> /\ Head(line) = "drain"
        /\ NextTurn("error")
    BY <1>1, <1>20 DEF AfterFail, Answered, Rejected
  <2>2. d.arg = "failed"  BY <1>3, <2>1 DEF EndIsWritten
  <2> QED  BY <1>10, <2>1, <2>2 DEF NextTurn
<1>21. CASE RunnerEnds
  <2> PICK op \in {"complete", "fail"}, e \in {"completed", "cancelled", "failed"} :
        /\ op = "complete" => e = IF cancelRequested THEN "cancelled" ELSE "completed"
        /\ op = "fail" => e = "failed"
        /\ d.op = "evolve" /\ Issue("drain", Complete(op, activeRun, e)) /\ OnlyTasks
    BY <1>21 DEF RunnerEnds, RunnerReturns, RunnerThrows
  <2>1. PICK s : s = Complete(op, activeRun, e)  OBVIOUS
  <2>2. s.op = op /\ s.run = activeRun /\ s.arg = e /\ s.phase = "issued"
    BY <2>1, StatementFields DEF Complete, Statement, Idle
  <2>3. /\ task'["drain"] = s /\ \A b \in Actors \ {"drain"} : task'[b] = task[b]
        /\ UNCHANGED <<activeRun, told, cancelRequested>>
        /\ LineIsTasks'
        /\ \A a : Outstanding(a, line) => Ahead(a, "drain", line')
    BY <1>3, <2>1, <2>2, TaskSet, IssueLine DEF Issue, OnlyTasks, memory, Waits
  <2>4. activeRun = d.run  BY <1>3 DEF DrainShape
  <2>5. task'["poll"] = task["poll"] /\ task'["save"] = task["save"]  BY <2>3
  <2>6. PollOrder'
    BY <1>3, <2>3, <2>5 DEF PollOrder
  <2>7. SaveOrder'
    <3>1. task["save"].op = "save" => Ahead("save", "drain", line')
      BY <1>3, <2>3 DEF LineIsTasks, Waits
    <3> QED  BY <1>3, <2>2, <2>3, <2>4, <2>5, <3>1 DEF SaveOrder
  <2>8. EndIsWritten'  BY <2>2, <2>3 DEF EndIsWritten
  <2>9. BroadcastFitsRow'  BY <1>2, <1>3, <2>3 DEF BroadcastFitsRow
  <2> QED  BY <1>5, <2>3, <2>6, <2>7, <2>8, <2>9
<1> QED
  BY <1>11, <1>12, <1>13, <1>14, <1>15, <1>16, <1>17, <1>18, <1>19, <1>20, <1>21
  DEF DrainHandles

-----------------------------------------------------------------------------
(* Timers, time, crashes and restarts.                                     *)

\* A timer other than the poll and the save, or the boot code, moves.
LEMMA BystanderEnds ==
    ASSUME Ends, NEW x \in {"beat", "boot"},
           UNCHANGED <<rows, activeRun, told, cancelRequested>>,
           \A b \in Actors \ {x} : task'[b] = task[b],
           LineIsTasks',
           \A a, b : a # x /\ b # x /\ Ahead(a, b, line) => Ahead(a, b, line')
    PROVE  Ends'
<1> USE ActorFacts DEF Ends
<1>1. /\ task'["drain"] = task["drain"] /\ task'["poll"] = task["poll"]
      /\ task'["save"] = task["save"] /\ x \notin {"drain", "poll", "save"}
      /\ \A d \in Clients : task'[d] = task[d]
  OBVIOUS
<1>2. PollOrder' /\ SaveOrder'  BY <1>1, OrderFrame
<1>3. AbsentIsClean' /\ EndsAreTrue'  BY TableFrame
<1>4. CancelIsRead'  BY <1>1 DEF CancelIsRead, Asked
<1>5. EndIsWritten'  BY <1>1 DEF EndIsWritten
<1> QED  BY <1>2, <1>3, <1>4, <1>5

LEMMA TimerEnds ==
    ASSUME InOrder, TypeOK, Ownership, Ends,
           \/ BeatTick \/ PollTick \/ SaveTick
           \/ PollAnswered \/ \E t \in Timers : TimerSettles(t)
    PROVE  Ends'
<1> USE ActorFacts
<1>1. /\ DrainShape
      /\ LineIsTasks /\ PollOrder /\ SaveOrder /\ CancelIsRead /\ EndIsWritten
  BY DEF Ownership, Ends
<1>2. ASSUME NEW t \in {"poll", "save"}, \A b \in Actors \ {t} : task'[b] = task[b],
             UNCHANGED <<rows, activeRun, told>>,
             LineIsTasks', PollOrder', SaveOrder',
             t = "poll" => task'[t].phase = "issued" \/ task'[t].op = "none",
             cancelRequested' = cancelRequested \/ (cancelRequested' = TRUE /\ Asked(activeRun))
      PROVE  Ends'
  <2>1. task'["drain"] = task["drain"] /\ \A d \in Clients : task'[d] = task[d]
    BY <1>2
  <2>2. AbsentIsClean' /\ EndsAreTrue'  BY <1>2, TableFrame DEF Ends
  <2>3. CancelIsRead'
    <3>1. task'["poll"] = task["poll"] \/ task'["poll"].phase = "issued"
             \/ task'["poll"].op = "none"
      BY <1>2
    <3> QED  BY <1>1, <1>2, <2>1, <3>1 DEF CancelIsRead, Asked
  <2>4. EndIsWritten'  BY <1>1, <1>2, <2>1 DEF EndIsWritten
  <2> QED  BY <1>2, <2>2, <2>3, <2>4 DEF Ends
<1>3. ASSUME NEW t \in Timers, Tick(t)
      PROVE  /\ task'[t] = Statement(t, activeRun)
             /\ \A b \in Actors \ {t} : task'[b] = task[b]
             /\ UNCHANGED <<rows, activeRun, told, cancelRequested>>
             /\ activeRun # None
             /\ LineIsTasks'
             /\ \A a, b : b # t /\ Ahead(a, b, line) => Ahead(a, b, line')
  <2>1. t \in Actors /\ t \notin {"none", "evolve"}  BY DEF Actors, Timers
  <2>2. Issue(t, Statement(t, activeRun)) /\ task[t] = Idle  BY <1>3 DEF Tick
  <2>3. Waits(Statement(t, activeRun)) /\ ~Waits(task[t])
    BY <2>1, <2>2, StatementFields, IdleDoesNotWait DEF Waits
  <2>4. /\ LineIsTasks'
        /\ \A a, b : b # t /\ Ahead(a, b, line) => Ahead(a, b, line')
    BY <1>1, <2>1, <2>2, <2>3, IssueLine
  <2>5. /\ task'[t] = Statement(t, activeRun)
        /\ \A b \in Actors \ {t} : task'[b] = task[b]
    BY <2>1, <2>2, TaskSet DEF Issue
  <2> QED  BY <1>3, <2>4, <2>5 DEF Tick, OnlyTasks, memory
<1>4. ASSUME NEW t \in Timers, NEW op, op # "none", Answered(t, op) \/ Rejected(t, op),
             Finish(t)
      PROVE  /\ task'[t] = Idle
             /\ \A b \in Actors \ {t} : task'[b] = task[b]
             /\ LineIsTasks'
             /\ \A a, b : a # t /\ Ahead(a, b, line) => Ahead(a, b, line')
  <2>1. t \in Actors /\ line # <<>> /\ Head(line) = t
    BY <1>4 DEF Actors, Timers, Answered, Rejected
  <2>2. /\ LineIsTasks'
        /\ \A a, b : a # t /\ Ahead(a, b, line) => Ahead(a, b, line')
    BY <1>1, <1>4, <2>1, FinishLine, IdleDoesNotWait DEF Finish
  <2> QED  BY <1>4, <2>1, <2>2, TaskSet DEF Finish
<1>5. ASSUME NEW t \in {"beat", "poll", "save"}, Finish(t), task'[t] = Idle,
             \A b \in Actors \ {t} : task'[b] = task[b], LineIsTasks',
             \A a, b : a # t /\ Ahead(a, b, line) => Ahead(a, b, line'),
             activeRun' = activeRun
      PROVE  PollOrder' /\ SaveOrder'
  <2>1. task'["drain"] = task["drain"]  BY <1>5
  <2>2. ASSUME NEW a \in {"poll", "save"}
        PROVE  task'[a].op = "none" \/ ( /\ task'[a] = task[a]
                                         /\ Ahead(a, "drain", line) => Ahead(a, "drain", line') )
    BY <1>5, StatementFields
  <2>3. PollOrder'  BY <1>1, <1>5, <2>1, <2>2 DEF PollOrder
  <2>4. SaveOrder'  BY <1>1, <1>5, <2>1, <2>2 DEF SaveOrder
  <2> QED  BY <2>3, <2>4
<1>6. CASE BeatTick
  BY <1>3, <1>6, BystanderEnds DEF BeatTick, Timers
<1>7. CASE PollTick
  <2>1. "poll" \in Timers /\ Tick("poll")  BY <1>7 DEF PollTick, Timers
  <2>2. /\ task'["poll"] = Statement("poll", activeRun)
        /\ \A b \in Actors \ {"poll"} : task'[b] = task[b]
        /\ UNCHANGED <<rows, activeRun, told, cancelRequested>>
        /\ activeRun # None
        /\ LineIsTasks'
        /\ \A a, b : b # "poll" /\ Ahead(a, b, line) => Ahead(a, b, line')
    BY <1>3, <2>1
  <2>3. PollOrder'  BY <2>2, StatementFields DEF PollOrder
  <2>4. SaveOrder'
    <3>1. task'["drain"] = task["drain"] /\ task'["save"] = task["save"]  BY <2>2
    <3> QED  BY <1>1, <2>2, <3>1 DEF SaveOrder
  <2> QED  BY <1>2, <2>2, <2>3, <2>4, StatementFields
<1>8. CASE SaveTick
  <2>1. "save" \in Timers /\ Tick("save") /\ task["drain"].op = "evolve"
    BY <1>8 DEF SaveTick, Timers
  <2>2. /\ task'["save"] = Statement("save", activeRun)
        /\ \A b \in Actors \ {"save"} : task'[b] = task[b]
        /\ UNCHANGED <<rows, activeRun, told, cancelRequested>>
        /\ LineIsTasks'
        /\ \A a, b : b # "save" /\ Ahead(a, b, line) => Ahead(a, b, line')
    BY <1>3, <2>1
  <2>3. task'["drain"] = task["drain"] /\ task'["poll"] = task["poll"]  BY <2>2
  <2>4. PollOrder'  BY <1>1, <2>2, <2>3 DEF PollOrder
  <2>5. SaveOrder'
    BY <1>1, <2>1, <2>2, <2>3, StatementFields DEF SaveOrder, DrainShape
  <2> QED  BY <1>2, <2>2, <2>4, <2>5
<1>9. CASE PollAnswered
  <2>1. /\ Answered("poll", "poll") /\ Finish("poll")
        /\ cancelRequested' = (cancelRequested \/ task["poll"].val = 1)
        /\ UNCHANGED <<rows, activeRun, told>>
    BY <1>9 DEF PollAnswered, bounds
  <2>2. /\ task'["poll"] = Idle
        /\ \A b \in Actors \ {"poll"} : task'[b] = task[b]
        /\ LineIsTasks'
        /\ \A a, b : a # "poll" /\ Ahead(a, b, line) => Ahead(a, b, line')
    BY <1>4, <2>1 DEF Timers
  <2>3. PollOrder' /\ SaveOrder'  BY <1>5, <2>1, <2>2
  <2>4. task["poll"].val = 1 => Asked(activeRun)
    <3>1. task["poll"].val = 1 => Asked(task["poll"].run)
      BY <1>1, <2>1 DEF CancelIsRead, Answered
    <3>2. task["drain"].op = "sweep" => activeRun = None  BY <1>1 DEF DrainShape
    <3>3. None \notin Runs  BY DEF None, Runs
    <3> QED  BY <1>1, <2>1, <3>1, <3>2, <3>3 DEF PollOrder, Answered, Asked
  <2>5. cancelRequested' = cancelRequested \/ (cancelRequested' = TRUE /\ Asked(activeRun))
    BY <2>1, <2>4 DEF TypeOK
  <2> QED  BY <1>2, <2>1, <2>2, <2>3, <2>5, StatementFields
<1>10. CASE \E t \in Timers : TimerSettles(t)
  <2> PICK t \in Timers : TimerSettles(t)  BY <1>10
  <2>1. /\ Finish(t) /\ UNCHANGED <<rows, activeRun, told, cancelRequested>>
        /\ t \in {"beat", "poll", "save"}
    BY DEF TimerSettles, OnlyTasks, memory, Timers
  <2>2. /\ task'[t] = Idle
        /\ \A b \in Actors \ {t} : task'[b] = task[b]
        /\ LineIsTasks'
        /\ \A a, b : a # t /\ Ahead(a, b, line) => Ahead(a, b, line')
    BY <1>4 DEF TimerSettles, Timers
  <2>3. PollOrder' /\ SaveOrder'  BY <1>5, <2>1, <2>2
  <2>4. CASE t = "beat"  BY <2>1, <2>2, <2>4, BystanderEnds
  <2>5. CASE t # "beat"  BY <1>2, <2>1, <2>2, <2>3, <2>5, StatementFields
  <2> QED  BY <2>4, <2>5
<1> QED  BY <1>6, <1>7, <1>8, <1>9, <1>10

LEMMA EnvironmentEnds ==
    ASSUME InOrder, TypeOK, Ownership, Quiet, Ends,
           \/ \E a \in Actors : ExecFails(a)
           \/ AfterRescue("boot") \/ AfterRetry("boot")
           \/ TimePasses \/ Crash \/ Boot
           \/ UNCHANGED vars
    PROVE  Ends'
<1> USE ActorFacts
<1>1. CASE \E a \in Actors : ExecFails(a)
  BY <1>1 DEF ExecFails, Quiet, TypeOK
<1>2. CASE AfterRescue("boot")
  <2>1. /\ line # <<>> /\ Head(line) = "boot"
        /\ Continue("boot", Statement("retry", None))
        /\ UNCHANGED <<rows, activeRun, told, cancelRequested>>
    BY <1>2 DEF AfterRescue, Answered, OnlyTasks, memory
  <2>2. /\ LineIsTasks'
        /\ \A a, b : a # "boot" /\ b # "boot" /\ Ahead(a, b, line) => Ahead(a, b, line')
    BY <2>1, ContinueLine, StatementFields DEF Ends, Waits
  <2> QED  BY <2>1, <2>2, TaskSet, BystanderEnds DEF Continue
<1>3. CASE AfterRetry("boot")
  <2>1. /\ line # <<>> /\ Head(line) = "boot" /\ Finish("boot")
        /\ UNCHANGED <<rows, activeRun, told, cancelRequested>>
    BY <1>3 DEF AfterRetry, Answered, memory, bounds
  <2>2. /\ LineIsTasks'
        /\ \A a, b : a # "boot" /\ Ahead(a, b, line) => Ahead(a, b, line')
    BY <2>1, FinishLine, IdleDoesNotWait DEF Ends, Finish
  <2> QED  BY <2>1, <2>2, TaskSet, BystanderEnds DEF Finish
<1>4. CASE Boot
  <2>1. /\ server = "down" /\ Issue("boot", Statement("rescue", None))
        /\ UNCHANGED <<rows, activeRun, told, cancelRequested>>
    BY <1>4 DEF Boot, memory, bounds
  <2>2. ~Waits(task["boot"])
    BY <2>1, IdleDoesNotWait DEF Ownership, OnlyBoot
  <2>3. /\ LineIsTasks'
        /\ \A a, b : b # "boot" /\ Ahead(a, b, line) => Ahead(a, b, line')
    BY <2>1, <2>2, IssueLine, StatementFields DEF Ends, Waits
  <2> QED  BY <2>1, <2>3, TaskSet, BystanderEnds DEF Issue
<1>5. CASE TimePasses
  <2>1. UNCHANGED <<activeRun, cancelRequested, task, line, told>> /\ rows' = Aged(rows)
    BY <1>5 DEF TimePasses, memory, bounds
  <2>2. \A r \in Runs : /\ rows'[r].status = rows[r].status
                        /\ rows'[r].cancel_requested = rows[r].cancel_requested
    BY <2>1 DEF Aged, TypeOK, Row
  <2> QED
    BY <2>1, <2>2 DEF Ends, LineIsTasks, PollOrder, SaveOrder, AbsentIsClean, CancelIsRead,
                      Asked, EndIsWritten, EndsAreTrue, CancelledWasAsked, BroadcastFitsRow
<1>6. CASE Crash
  <2>1. /\ activeRun' = None /\ cancelRequested' = FALSE /\ line' = <<>>
        /\ \A a \in Actors : task'[a] = Idle
        /\ UNCHANGED <<rows, told>>
    BY <1>6 DEF Crash, bounds
  <2>2. Len(line') = 0  BY <2>1
  <2>3. LineIsTasks'
    BY <2>1, <2>2, IdleDoesNotWait DEF LineIsTasks, Once, Outstanding
  <2>4. /\ task'["drain"].op = "none" /\ task'["poll"].op = "none"
        /\ task'["save"].op = "none" /\ \A c \in Clients : task'[c].op = "none"
    BY <2>1, StatementFields
  <2>5. PollOrder' /\ SaveOrder' /\ EndIsWritten' /\ CancelIsRead'
    BY <2>1, <2>4 DEF PollOrder, SaveOrder, EndIsWritten, CancelIsRead
  <2>6. AbsentIsClean' /\ EndsAreTrue'  BY <2>1, TableFrame DEF Ends
  <2> QED  BY <2>3, <2>5, <2>6 DEF Ends
<1>7. CASE UNCHANGED vars
  BY <1>7 DEF vars, memory, bounds, Ends, LineIsTasks, PollOrder, SaveOrder, AbsentIsClean,
              CancelIsRead, Asked, EndIsWritten, EndsAreTrue, CancelledWasAsked,
              BroadcastFitsRow
<1> QED  BY <1>1, <1>2, <1>3, <1>4, <1>5, <1>6, <1>7

-----------------------------------------------------------------------------
(* The connection executes a statement.                                    *)

\* What a statement may do to a row: a cancel stays requested, a run that is
\* over stays as it is.
RowKept(r) ==
    /\ (rows[r].cancel_requested /\ rows[r].status # "absent")
           => rows'[r].cancel_requested /\ rows'[r].status # "absent"
    /\ rows[r].status \in Final => /\ rows'[r].status = rows[r].status
                                   /\ rows'[r].best_gene = rows[r].best_gene
    /\ rows'[r].status = "absent" => rows[r].status = "absent"
    /\ rows'[r].status = "absent" => ~rows'[r].cancel_requested
    /\ rows'[r].status = "cancelled" => rows'[r].cancel_requested

LEMMA StatementKeepsRows ==
    ASSUME InOrder, TypeOK, EndsFinal, Ownership, Ends, NEW a \in Actors, Execute(a),
           NEW r \in Runs
    PROVE  RowKept(r)
<1> USE ActorFacts
<1>1. /\ rows \in [Runs -> Row] /\ rows[r] \in Row
      /\ rows[r].status = "absent" => ~rows[r].cancel_requested
      /\ rows[r].status = "cancelled" => rows[r].cancel_requested
  BY DEF TypeOK, Ends, AbsentIsClean, EndsAreTrue, CancelledWasAsked
<1>2. ASSUME rows'[r] = rows[r]
      PROVE  RowKept(r)
  BY <1>1, <1>2 DEF RowKept
<1>3. CASE ExecInsert(a)
  <2> PICK q \in Runs : IsNextId(rows, q) /\ rows' = Inserted(rows, q)
    BY <1>3 DEF ExecInsert
  <2>1. CASE r = q
    <3>1. rows[r].status = "absent"  BY <2>1 DEF IsNextId, Present
    <3>2. rows'[r].status = "pending" /\ rows'[r].cancel_requested = FALSE
      BY <1>1, <2>1 DEF Inserted, AbsentRow
    <3> QED  BY <1>1, <3>1, <3>2 DEF RowKept, Final
  <2>2. CASE r # q
    BY <1>1, <1>2, <2>2 DEF Inserted
  <2> QED  BY <2>1, <2>2
<1>4. CASE ExecMaxId(a) \/ ExecGetSpec \/ ExecPoll
  BY <1>2, <1>4 DEF ExecMaxId, ExecGetSpec, ExecPoll
<1>5. CASE ExecFlag(a)
  BY <1>1, <1>5 DEF ExecFlag, Flagged, Cancellable, Row, RowKept, Final
<1>6. CASE ExecHeartbeat(a)
  BY <1>1, <1>6 DEF ExecHeartbeat, Beaten, Row, RowKept, Final
<1>7. CASE ExecRescue(a)
  BY <1>1, <1>7 DEF ExecRescue, Rescued, Stale, Row, RowKept, Final
<1>8. CASE ExecRetry(a)
  BY <1>1, <1>8 DEF ExecRetry, Retried, Stale, Row, RowKept, Final
<1>9. CASE ExecSweep
  BY <1>1, <1>9 DEF ExecSweep, Swept, Row, RowKept, Final
<1>10. CASE ExecClaim
  <2>1. CASE rows' = rows  BY <1>2, <2>1
  <2>2. ASSUME NEW q \in Runs, IsClaimed(rows, q), rows' = Claimed(rows, q, process)
        PROVE  RowKept(r)
    <3>1. CASE r = q
      BY <1>1, <2>2, <3>1 DEF IsClaimed, Claimable, Claimed, Row, RowKept, Final
    <3>2. CASE r # q
      BY <1>1, <1>2, <2>2, <3>2 DEF Claimed
    <3> QED  BY <3>1, <3>2
  <2> QED  BY <1>10, <2>1, <2>2 DEF ExecClaim
<1>11. CASE a = "drain" /\ ExecComplete
  <2>1. PICK d : d = task["drain"]  OBVIOUS
  <2>2. /\ d.op \in {"reject", "complete", "fail"} /\ d.phase = "issued"
        /\ rows' = Completed(rows, d.run, d.arg, Gene(d.op, d.run))
    BY <1>11, <2>1 DEF ExecComplete, Executes
  <2>3. CASE r = d.run
    <3>1. server = "up" /\ Holds(r)
      BY <2>1, <2>2, <2>3, ServerIsUp DEF Holds
    <3>2. rows[r].status = "running"  BY <3>1 DEF Ownership, RunningIffHeld
    <3>3. /\ rows'[r].status = d.arg
          /\ rows'[r].cancel_requested = rows[r].cancel_requested
      BY <1>1, <2>2, <2>3 DEF Completed, Row
    <3>4. d.arg \in Final  BY <2>1, <2>2 DEF EndsFinal
    <3>5. d.arg = "cancelled" => rows[r].cancel_requested
      <4>1. d.arg = "cancelled" => d.op = "complete" /\ cancelRequested
        BY <2>1, <2>2 DEF Ends, EndIsWritten
      <4>2. d.op = "complete" => activeRun = r
        BY <2>1, <2>3 DEF Ownership, DrainShape
      <4> QED  BY <4>1, <4>2 DEF Ends, CancelIsRead, Asked
    <3> QED  BY <1>1, <3>2, <3>3, <3>4, <3>5 DEF RowKept, Final
  <2>4. CASE r # d.run
    BY <1>1, <1>2, <2>2, <2>4 DEF Completed
  <2> QED  BY <2>3, <2>4
<1>12. CASE a = "save" /\ ExecSave
  <2>1. PICK s : s = task["save"]  OBVIOUS
  <2>2. s.op = "save" /\ s.phase = "issued" /\ rows' = Saved(rows, s.run)
    BY <1>12, <2>1 DEF ExecSave, Executes
  <2>3. CASE r = s.run
    <3>1. server = "up"  BY <2>1, <2>2, ServerIsUp
    <3>2. Holds(r)  BY <2>1, <2>2, <2>3 DEF Ends, SaveOrder, Holds
    <3>3. rows[r].status = "running"  BY <3>1, <3>2 DEF Ownership, RunningIffHeld
    <3> QED  BY <1>1, <2>2, <2>3, <3>3 DEF Saved, Row, RowKept, Final
  <2>4. CASE r # s.run
    BY <1>1, <1>2, <2>2, <2>4 DEF Saved
  <2> QED  BY <2>3, <2>4
<1> QED
  BY <1>3, <1>4, <1>5, <1>6, <1>7, <1>8, <1>9, <1>10, <1>11, <1>12 DEF Execute

LEMMA ExecuteEnds ==
    ASSUME InOrder, Quiet, TypeOK, EndsFinal, Ownership, Ends, NEW a \in Actors, Execute(a)
    PROVE  Ends'
<1> USE ActorFacts
<1>1. \A r \in Runs : RowKept(r)  BY StatementKeepsRows
<1>2. PICK op, val : Executes(a, op, val)
  BY DEF Execute, ExecInsert, ExecMaxId, ExecFlag, ExecHeartbeat, ExecRescue, ExecRetry,
         ExecSweep, ExecClaim, ExecGetSpec, ExecComplete, ExecPoll, ExecSave
<1>3. /\ task[a].op = op /\ task[a].phase = "issued"
      /\ task'[a].op = op /\ task'[a].phase = "done" /\ task'[a].val = val
      /\ task'[a].run = task[a].run /\ task'[a].arg = task[a].arg
      /\ \A b \in Actors \ {a} : task'[b] = task[b]
      /\ UNCHANGED <<activeRun, line, cancelRequested, told>>
  <2>1. /\ task[a].op = op /\ task[a].phase = "issued"
        /\ task'[a].op = op /\ task'[a].phase = "done" /\ task'[a].val = val
        /\ task'[a].run = task[a].run /\ task'[a].arg = task[a].arg
        /\ \A b \in Actors \ {a} : task'[b] = task[b]
    BY <1>2, ExecutesFields
  <2>2. UNCHANGED <<activeRun, line, cancelRequested, told>>
    BY <1>2 DEF Executes, memory
  <2> QED  BY <2>1, <2>2
<1>4. \A b \in Actors : task'[b].op = task[b].op /\ task'[b].run = task[b].run
                           /\ task'[b].arg = task[b].arg
  BY <1>3
<1>5. LineIsTasks'
  BY <1>3, <1>4 DEF Ends, LineIsTasks, Waits
<1>6. PollOrder'
  BY <1>3, <1>4 DEF Ends, PollOrder
<1>7. SaveOrder'
  <2> SUFFICES ASSUME task'["save"].op = "save", task'["save"].phase = "issued"
               PROVE  /\ task'["drain"].run = task'["save"].run
                      /\ \/ task'["drain"].op = "evolve"
                         \/ /\ task'["drain"].op \in {"complete", "fail"}
                            /\ task'["drain"].phase = "issued"
                            /\ Ahead("save", "drain", line)
    BY <1>3 DEF SaveOrder
  <2>1. a # "save" /\ task'["save"] = task["save"]  BY <1>3
  <2>2. /\ task["drain"].run = task["save"].run
        /\ \/ task["drain"].op = "evolve"
           \/ /\ task["drain"].op \in {"complete", "fail"}
              /\ task["drain"].phase = "issued"
              /\ Ahead("save", "drain", line)
    BY <2>1 DEF Ends, SaveOrder
  <2>3. CASE a = "drain"
    <3>1. IsNext("drain")  BY <1>2, <2>3 DEF Executes
    <3>2. ~Ahead("save", "drain", line)  BY <2>1, <3>1, NextHasNobodyAhead
    <3>3. task["drain"].op # "evolve"
      BY <2>3 DEF Execute, ExecSweep, ExecClaim, ExecGetSpec, ExecComplete, Executes
    <3> QED  BY <2>2, <3>2, <3>3
  <2>4. CASE a # "drain"
    BY <1>3, <2>1, <2>2, <2>4
  <2> QED  BY <2>3, <2>4
<1>8. AbsentIsClean' /\ CancelledWasAsked'
  BY <1>1 DEF RowKept, AbsentIsClean, CancelledWasAsked
<1>9. \A r \in Runs : rows[r].cancel_requested => rows'[r].cancel_requested
  BY <1>1 DEF RowKept, Ends, AbsentIsClean
<1>10. CancelIsRead'
  <2>1. ASSUME NEW c \in Clients, task'[c].op = "flag", task'[c].phase = "done",
               task'[c].val = 1, NEW q, q = task'[c].run
        PROVE  q \in Runs => rows'[q].cancel_requested
    <3>1. q = task[c].run  BY <1>4, <2>1
    <3>2. CASE c = a
      <4>1. op = "flag"  BY <1>3, <2>1, <3>2
      <4>2. ExecFlag(a)
        BY <1>3, <2>1, <3>2, <4>1
        DEF Execute, ExecInsert, ExecMaxId, ExecHeartbeat, ExecRescue, ExecRetry, Executes
      <4>3. val = BOOL(Cancellable(rows, q)) /\ val = 1
        BY <1>3, <2>1, <3>1, <3>2, <4>2, ExecutesFields DEF ExecFlag
      <4>4. Cancellable(rows, q)  BY <4>3 DEF BOOL
      <4>5. rows' = Flagged(rows, q)  BY <3>1, <3>2, <4>2 DEF ExecFlag
      <4> QED  BY <4>4, <4>5 DEF Flagged, TypeOK, Row
    <3>3. CASE c # a
      <4>1. Asked(q)  BY <1>3, <2>1, <3>1, <3>3 DEF Ends, CancelIsRead
      <4> QED  BY <1>9, <4>1 DEF Asked
    <3> QED  BY <3>2, <3>3
  <2>2. ASSUME task'["poll"].op = "poll", task'["poll"].phase = "done",
               task'["poll"].val = 1, NEW q, q = task'["poll"].run
        PROVE  q \in Runs => rows'[q].cancel_requested
    <3>1. q = task["poll"].run  BY <1>4, <2>2
    <3>2. CASE a = "poll"
      <4>1. ExecPoll  BY <3>2 DEF Execute
      <4>2. val = BOOL(rows[q].cancel_requested) /\ val = 1
        BY <1>3, <2>2, <3>1, <3>2, <4>1, ExecutesFields DEF ExecPoll
      <4>3. rows[q].cancel_requested  BY <4>2 DEF BOOL
      <4> QED  BY <1>9, <4>3
    <3>3. CASE a # "poll"
      <4>1. Asked(q)  BY <1>3, <2>2, <3>1, <3>3 DEF Ends, CancelIsRead
      <4> QED  BY <1>9, <4>1 DEF Asked
    <3> QED  BY <3>2, <3>3
  <2>3. cancelRequested' => Asked(activeRun)'
    BY <1>3, <1>9 DEF Ends, CancelIsRead, Asked
  <2> QED  BY <2>1, <2>2, <2>3 DEF CancelIsRead, Asked
<1>11. BroadcastFitsRow'
  BY <1>1, <1>3 DEF Ends, EndsAreTrue, BroadcastFitsRow, RowKept, Final
<1>12. EndIsWritten'
  <2>1. PICK d : d = task["drain"]  OBVIOUS
  <2>2. task'["drain"].op = d.op /\ task'["drain"].run = d.run /\ task'["drain"].arg = d.arg
    BY <1>4, <2>1
  <2>3. ASSUME d.op \in {"reject", "complete", "fail"}, task'["drain"].phase = "done",
               NEW r \in Runs, d.run = r
        PROVE  rows'[r].status = d.arg
    <3>1. CASE a = "drain"
      <4>1. ExecComplete
        BY <1>3, <2>1, <2>3, <3>1
        DEF Execute, ExecSweep, ExecClaim, ExecGetSpec, ExecComplete, Executes
      <4>2. rows' = Completed(rows, r, d.arg, Gene(d.op, r))
        BY <2>1, <2>3, <4>1 DEF ExecComplete
      <4> QED  BY <4>2 DEF Completed, TypeOK, Row
    <3>2. CASE a # "drain"
      <4>1. task'["drain"] = d  BY <1>3, <2>1, <3>2
      <4>2. rows[r].status = d.arg
        BY <2>1, <2>3, <4>1 DEF Ends, EndIsWritten
      <4>3. d.arg \in Final  BY <2>1, <2>3 DEF EndsFinal
      <4> QED  BY <1>1, <4>2, <4>3 DEF RowKept
    <3> QED  BY <3>1, <3>2
  <2> QED  BY <1>3, <2>1, <2>2, <2>3 DEF Ends, EndIsWritten
<1> QED  BY <1>5, <1>6, <1>7, <1>8, <1>10, <1>11, <1>12 DEF Ends, EndsAreTrue

-----------------------------------------------------------------------------
LEMMA EndsInit ==
    ASSUME InOrder, Init
    PROVE  Ends
<1> USE ActorFacts
<1>1. /\ task["boot"] = Statement("rescue", None)
      /\ \A b \in Actors \ {"boot"} : task[b] = Idle
      /\ line = <<"boot">> /\ cancelRequested = FALSE
  BY DEF Init
<1>2. \A r \in Runs : /\ rows[r].status = "absent" /\ rows[r].cancel_requested = FALSE
                      /\ told[r] = "none"
  BY DEF Init, AbsentRow
<1>3. LineIsTasks
  <2>1. Len(line) = 1 /\ line[1] = "boot"  BY <1>1
  <2>2. Waits(task["boot"]) /\ \A b \in Actors \ {"boot"} : ~Waits(task[b])
    BY <1>1, IdleDoesNotWait, StatementFields DEF Waits
  <2> QED  BY <2>1, <2>2 DEF LineIsTasks, Once, Outstanding
<1>4. /\ task["drain"].op = "none" /\ task["poll"].op = "none" /\ task["save"].op = "none"
      /\ \A c \in Clients : task[c].op = "none"
  BY <1>1, StatementFields
<1>5. PollOrder /\ SaveOrder /\ CancelIsRead /\ EndIsWritten
  BY <1>1, <1>4 DEF PollOrder, SaveOrder, CancelIsRead, EndIsWritten
<1>6. AbsentIsClean /\ EndsAreTrue
  BY <1>2 DEF AbsentIsClean, EndsAreTrue, CancelledWasAsked, BroadcastFitsRow
<1> QED  BY <1>3, <1>5, <1>6 DEF Ends

LEMMA EndsNext ==
    ASSUME InOrder, Quiet, Inductive, Ends, [Next]_vars
    PROVE  Ends'
<1> USE DEF Inductive
<1>1. ASSUME NEW c \in Clients,
             \/ \E n \in 1..MaxBatch : PostRuns(c, n)
             \/ PostNothing(c)
             \/ \E r \in Runs : CancelRun(c, r)
             \/ RecoverRuns(c)
             \/ Respond(c)
      PROVE  Ends'
  BY <1>1, RequestEnds, RespondEnds
<1>2. ASSUME NEW a \in Actors, Execute(a)
      PROVE  Ends'
  BY <1>2, ExecuteEnds
<1>3. CASE DrainHandles \/ RunnerEnds
  BY <1>3, DrainEnds
<1>4. CASE \/ BeatTick \/ PollTick \/ SaveTick
           \/ PollAnswered \/ \E t \in Timers : TimerSettles(t)
  BY <1>4, TimerEnds
<1>5. CASE \/ \E a \in Actors : ExecFails(a)
           \/ AfterRescue("boot") \/ AfterRetry("boot")
           \/ TimePasses \/ Crash \/ Boot
           \/ UNCHANGED vars
  BY <1>5, EnvironmentEnds
<1> QED  BY <1>1, <1>2, <1>3, <1>4, <1>5 DEF Next

\* No step rewrites how a run ended.
LEMMA FinalRowsStay ==
    ASSUME InOrder, Quiet, Inductive, Ends, [Next]_vars, NEW r \in Runs,
           rows[r].status \in Final
    PROVE  /\ rows'[r].status = rows[r].status
           /\ rows'[r].best_gene = rows[r].best_gene
<1> USE DEF Inductive
<1>1. ASSUME NEW c \in Clients,
             \/ \E n \in 1..MaxBatch : PostRuns(c, n)
             \/ PostNothing(c)
             \/ \E q \in Runs : CancelRun(c, q)
             \/ RecoverRuns(c)
             \/ Respond(c)
      PROVE  rows' = rows
  BY <1>1 DEF PostRuns, PostNothing, CancelRun, RecoverRuns, OnlyTasks, Respond,
              AfterInsert, AfterMaxId, AfterFlag, AfterBump, AfterRescue, AfterRetry,
              RespondError
<1>2. ASSUME NEW a \in Actors, Execute(a)
      PROVE  RowKept(r)
  BY <1>2, StatementKeepsRows
<1>3. CASE DrainHandles \/ RunnerEnds
  BY <1>3
  DEF DrainHandles, RunnerEnds, RunnerReturns, RunnerThrows, AfterSweep,
      ClaimIsEmpty, ClaimIsLegacy, ClaimHasSpec, SpecFound, SpecMissing, AfterReject,
      AfterComplete, CatchAfterComplete, AfterFail, NextTurn, Start, OnlyTasks
<1>4. CASE \/ BeatTick \/ PollTick \/ SaveTick
           \/ PollAnswered \/ \E t \in Timers : TimerSettles(t)
  BY <1>4
  DEF BeatTick, PollTick, SaveTick, Tick, PollAnswered, TimerSettles, OnlyTasks
<1>5. CASE TimePasses
  BY <1>5 DEF TimePasses, Aged, TypeOK, Row
<1>6. CASE \/ \E a \in Actors : ExecFails(a)
           \/ AfterRescue("boot") \/ AfterRetry("boot")
           \/ Crash \/ Boot \/ UNCHANGED vars
  BY <1>6 DEF ExecFails, AfterRescue, AfterRetry, OnlyTasks, Crash, Boot, vars
<1> QED  BY <1>1, <1>2, <1>3, <1>4, <1>5, <1>6 DEF Next, RowKept

\* A run is stored, or announced, as cancelled only if its own cancel was asked
\* for, for any number of runs, requests and crashes: the in-memory flag
\* cancelRequested belongs to no run, but a poll of the previous run is answered
\* before the next run is claimed.  run_completed and run_error are what
\* completeRun stored; run_cancelled is, or its run is stored as completed and
\* was cancelled while that was being written.
THEOREM EndsAreTrueHolds ==
    ASSUME Quiet, InOrder
    PROVE  Spec => []EndsAreTrue
<1>1. Init => Inductive /\ Ends
  BY TypeInit, OwnershipInit, EndsInit DEF Inductive
<1>2. Inductive /\ Ends /\ [Next]_vars => Inductive' /\ Ends'
  BY NextType, OwnershipNext, EndsNext DEF Inductive
<1>3. Ends => EndsAreTrue  BY DEF Ends
<1> QED  BY <1>1, <1>2, <1>3, PTL DEF Spec

\* Nothing rewrites the status or the result of a run that is over: the periodic
\* progress UPDATE, which asks for no status, was issued before the statement
\* that completes the run and is executed before it.
THEOREM TerminalIsFinalHolds ==
    ASSUME Quiet, InOrder
    PROVE  Spec => TerminalIsFinal
<1>1. Init => Inductive /\ Ends
  BY TypeInit, OwnershipInit, EndsInit DEF Inductive
<1>2. Inductive /\ Ends /\ [Next]_vars => Inductive' /\ Ends'
  BY NextType, OwnershipNext, EndsNext DEF Inductive
<1>3. Inductive /\ Ends /\ [Next]_vars =>
        [\A r \in Runs : rows[r].status \in Final =>
            /\ rows'[r].status = rows[r].status
            /\ rows'[r].best_gene = rows[r].best_gene]_rows
  BY FinalRowsStay
<1> QED  BY <1>1, <1>2, <1>3, PTL DEF Spec, TerminalIsFinal

-----------------------------------------------------------------------------
(* OrphansWereTold: the steps that leave Orphans alone, and those of the   *)
(* drain loop.                                                             *)
\* A step that leaves the drain loop and the boot code alone while the server
\* listens, and starts no run.
LEMMA Aside ==
    ASSUME Orphans, server = "up", UNCHANGED <<server, processing, activeRun, told>>,
           task'["drain"] = task["drain"], task'["boot"] = task["boot"],
           \A r \in Runs : Running(r)' => Running(r)
    PROVE  Orphans'
<1>1. \A r \in Runs : Holds(r)' <=> Holds(r)  BY HoldsFrame
<1>2. OnlyBoot' /\ BootIsHeard' /\ BootProgress' /\ DrainShape'
  BY DEF Orphans, OnlyBoot, BootIsHeard, BootProgress, DrainShape
<1>3. DoneIsNotRunning'  BY DEF Orphans, DoneIsNotRunning
<1>4. OrphansWereTold'  BY <1>1 DEF Orphans, OrphansWereTold, Running
<1> QED  BY <1>2, <1>3, <1>4 DEF Orphans

\* The drain loop takes its next step, from d to s: it gives up no run that is
\* still marked running, or has said that it failed.
LEMMA LoopStep ==
    ASSUME Orphans, server = "up", UNCHANGED <<rows, server>>,
           task'["boot"] = task["boot"], DrainShape', DoneIsNotRunning',
           \A r \in Runs : Running(r) /\ ~Holds(r)' =>
               \/ told'[r] = "error"
               \/ ~Holds(r) /\ told'[r] = told[r]
    PROVE  Orphans'
<1>1. OnlyBoot' /\ BootIsHeard' /\ BootProgress'
  BY DEF Orphans, OnlyBoot, BootIsHeard, BootProgress
<1>2. OrphansWereTold'  BY DEF Orphans, OrphansWereTold, Running
<1> QED  BY <1>1, <1>2 DEF Orphans

\* Whoever awaits something while the boot code does not is served by a server
\* that listens.
LEMMA Listening ==
    ASSUME Orphans, NEW a \in Actors \ {"boot"}, task[a].op # "none"
    PROVE  server = "up" /\ task["boot"] = Idle
  BY StatementFields, ActorFacts DEF Orphans, OnlyBoot

\* A request that finds no drain at work starts one.
LEMMA KickTellsNobody ==
    ASSUME Orphans, server = "up", ~processing, processing' = TRUE,
           UNCHANGED <<rows, server, activeRun, told>>,
           task'["drain"] = Statement("sweep", None), task'["boot"] = task["boot"]
    PROVE  Orphans'
<1>1. task["drain"].op = "none" /\ activeRun = None
  BY DEF Orphans, DrainShape
<1>2. DrainShape' /\ DoneIsNotRunning'
  BY <1>1, StatementFields DEF DrainShape, DoneIsNotRunning
<1>3. \A r \in Runs : ~Holds(r)  BY <1>1 DEF Holds
<1> QED  BY <1>2, <1>3, LoopStep

-----------------------------------------------------------------------------
(* Requests and timers.                                                    *)

LEMMA RequestOrphans ==
    ASSUME TypeOK, Orphans, NEW c \in Clients,
           \/ \E n \in 1..MaxBatch : PostRuns(c, n)
           \/ PostNothing(c)
           \/ \E r \in Runs : CancelRun(c, r)
           \/ RecoverRuns(c)
    PROVE  Orphans'
<1> USE ActorFacts
<1>1. server = "up"
  BY DEF PostRuns, PostNothing, CancelRun, RecoverRuns, Request
<1>2. CASE PostNothing(c)
  <2>1. task'["drain"] = Statement("sweep", None) /\ task'["boot"] = task["boot"]
    BY <1>2, TaskSet DEF PostNothing, Issue
  <2> QED  BY <1>1, <1>2, <2>1, KickTellsNobody DEF PostNothing
<1>3. CASE \/ \E n \in 1..MaxBatch : PostRuns(c, n)
           \/ \E r \in Runs : CancelRun(c, r)
           \/ RecoverRuns(c)
  <2>1. /\ \E s : Issue(c, s)
        /\ UNCHANGED <<rows, server, processing, activeRun, told>>
    BY <1>3 DEF PostRuns, CancelRun, RecoverRuns, OnlyTasks, memory
  <2>2. task'["drain"] = task["drain"] /\ task'["boot"] = task["boot"]
    BY <2>1, TaskSet DEF Issue
  <2> QED  BY <1>1, <2>1, <2>2, Aside DEF Running
<1> QED  BY <1>2, <1>3

LEMMA RespondOrphans ==
    ASSUME TypeOK, Orphans, NEW c \in Clients, Respond(c)
    PROVE  Orphans'
<1> USE ActorFacts
<1>1. task[c].op # "none"
  BY DEF Respond, AfterInsert, AfterMaxId, AfterFlag, AfterBump, AfterRescue, AfterRetry,
         RespondError, Answered, Rejected
<1>2. server = "up" /\ task["boot"] = Idle  BY <1>1, Listening
<1>3. UNCHANGED <<rows, server, activeRun, told>>
  BY <1>2
  DEF Respond, AfterInsert, AfterMaxId, AfterFlag, AfterBump, AfterRescue, AfterRetry,
      RespondError, OnlyTasks, memory, bounds
<1>4. CASE KickAndRespond(c) /\ ~processing
  <2>1. task'["drain"] = Statement("sweep", None) /\ task'["boot"] = task["boot"]
    BY <1>4 DEF KickAndRespond, TypeOK
  <2> QED  BY <1>2, <1>3, <1>4, <2>1, KickTellsNobody DEF KickAndRespond
<1>5. CASE (\E s : Continue(c, s) \/ Finish(c)) /\ processing' = processing
  <2>1. task'["drain"] = task["drain"] /\ task'["boot"] = task["boot"]
    BY <1>5, TaskSet DEF Continue, Finish
  <2> QED  BY <1>2, <1>3, <1>5, <2>1, Aside DEF Running
<1>6. \/ KickAndRespond(c) /\ ~processing
      \/ (\E s : Continue(c, s) \/ Finish(c)) /\ processing' = processing
  BY DEF Respond, AfterInsert, AfterMaxId, AfterFlag, AfterBump, AfterRescue, AfterRetry,
         RespondError, OnlyTasks, memory, KickAndRespond
<1> QED  BY <1>4, <1>5, <1>6

LEMMA TimerOrphans ==
    ASSUME TypeOK, Orphans,
           \/ BeatTick \/ PollTick \/ SaveTick
           \/ PollAnswered \/ \E t \in Timers : TimerSettles(t)
    PROVE  Orphans'
<1> USE ActorFacts
<1>1. PICK t \in Timers : \/ Tick(t)
                          \/ t = "poll" /\ PollAnswered
                          \/ TimerSettles(t)
  BY DEF BeatTick, PollTick, SaveTick, Timers
<1>2. t \in Actors \ {"drain", "boot"}  BY DEF Timers, Actors
<1>3. /\ \E s : task' = [task EXCEPT ![t] = s]
      /\ UNCHANGED <<rows, server, processing, activeRun, told>>
  BY <1>1
  DEF Tick, PollAnswered, TimerSettles, Issue, Finish, OnlyTasks, memory, bounds
<1>4. task'["drain"] = task["drain"] /\ task'["boot"] = task["boot"]
  BY <1>2, <1>3, TaskSet
<1>5. server = "up"
  <2>1. CASE Tick(t)
    BY <2>1 DEF Tick, Orphans, OnlyBoot
  <2>2. CASE ~Tick(t)
    <3>1. task[t].op # "none"
      BY <1>1, <2>2 DEF PollAnswered, TimerSettles, Answered, Rejected, Timers
    <3> QED  BY <1>2, <3>1, Listening
  <2> QED  BY <2>1, <2>2
<1> QED  BY <1>3, <1>4, <1>5, Aside DEF Running

-----------------------------------------------------------------------------
(* Statements.                                                             *)

\* No statement but the claim marks a run running.
LEMMA OthersExecute ==
    ASSUME TypeOK, Orphans, NEW a \in Actors \ {"drain", "boot"}, Execute(a)
    PROVE  Orphans'
<1> USE ActorFacts
<1>1. PICK op, val : op # "none" /\ Executes(a, op, val)
  BY DEF Execute, ExecInsert, ExecMaxId, ExecFlag, ExecHeartbeat, ExecRescue, ExecRetry,
         ExecPoll, ExecSave
<1>2. /\ task[a].op # "none"
      /\ task'["drain"] = task["drain"] /\ task'["boot"] = task["boot"]
      /\ UNCHANGED <<server, processing, activeRun, told>>
  <2>1. task[a].op = op /\ \A b \in Actors \ {a} : task'[b] = task[b]
    BY <1>1, ExecutesFields
  <2>2. UNCHANGED <<server, processing, activeRun, told>>
    BY <1>1 DEF Executes, memory
  <2> QED  BY <1>1, <2>1, <2>2
<1>3. server = "up"  BY <1>2, Listening
<1>4. ASSUME NEW r \in Runs, Running(r)'
      PROVE  Running(r)
  <2>1. rows \in [Runs -> Row] /\ rows[r] \in Row  BY DEF TypeOK
  <2>2. CASE ExecInsert(a)
    <3>1. PICK q \in Runs : rows' = Inserted(rows, q)  BY <2>2 DEF ExecInsert
    <3> QED  BY <1>4, <2>1, <3>1 DEF Inserted, AbsentRow, Running
  <2>3. CASE ExecMaxId(a) \/ ExecPoll
    BY <1>4, <2>3 DEF ExecMaxId, ExecPoll, Running
  <2>4. CASE ExecFlag(a)
    BY <1>4, <2>1, <2>4 DEF ExecFlag, Flagged, Running, Row
  <2>5. CASE ExecHeartbeat(a)
    BY <1>4, <2>1, <2>5 DEF ExecHeartbeat, Beaten, Running, Row
  <2>6. CASE ExecRescue(a)
    BY <1>4, <2>1, <2>6 DEF ExecRescue, Rescued, Running, Row
  <2>7. CASE ExecRetry(a)
    BY <1>4, <2>1, <2>7 DEF ExecRetry, Retried, Running, Row
  <2>8. CASE ExecSave
    BY <1>4, <2>1, <2>8 DEF ExecSave, Saved, Running, Row
  <2> QED  BY <2>2, <2>3, <2>4, <2>5, <2>6, <2>7, <2>8 DEF Execute
<1> QED  BY <1>2, <1>3, <1>4, Aside

LEMMA BootOrphans ==
    ASSUME TypeOK, Orphans, Execute("boot")
    PROVE  Orphans'
<1> USE ActorFacts
<1>1. PICK op \in {"rescue", "retry"} :
        /\ Executes("boot", op, 0)
        /\ op = "rescue" => rows' = Rescued(rows)
        /\ op = "retry" => rows' = Retried(rows)
  BY DEF Execute, ExecRescue, ExecRetry
<1>2. /\ task["boot"].op = op /\ task["boot"].phase = "issued"
      /\ task'["boot"].op = op /\ task'["boot"].phase = "done"
      /\ \A b \in Actors \ {"boot"} : task'[b] = task[b]
      /\ UNCHANGED <<server, process, processing, activeRun>>
  BY <1>1, ExecutesFields
<1>3. server = "booting"
  BY <1>2, StatementFields DEF Orphans, OnlyBoot
<1>4. OnlyBoot' /\ BootIsHeard' /\ DrainShape'
  BY <1>2, <1>3 DEF Orphans, OnlyBoot, BootIsHeard, DrainShape
<1>5. BootProgress'
  <2> SUFFICES ASSUME NEW r \in Runs
               PROVE  /\ ~Fresh(r)'
                      /\ op = "rescue" => (Running(r)' => rows'[r].best_gene = "null")
                      /\ op = "retry" => ~Running(r)'
    BY <1>2 DEF BootProgress
  <2>1. rows[r] \in Row /\ rows[r].heartbeat_at # "fresh"
    BY <1>3 DEF Orphans, BootProgress, Fresh, TypeOK
  <2>2. CASE op = "rescue"
    <3>1. rows'[r] = IF Stale(rows[r]) /\ rows[r].best_gene # "null"
                       THEN [rows[r] EXCEPT !.status = "completed"]
                       ELSE rows[r]
      BY <1>1, <2>2 DEF Rescued
    <3> QED  BY <2>1, <2>2, <3>1 DEF Fresh, Running, Stale, Row
  <2>3. CASE op = "retry"
    <3>1. rows[r].status = "running" => rows[r].best_gene = "null"
      BY <1>2, <1>3, <2>3 DEF Orphans, BootProgress, Running
    <3>2. rows'[r] = IF Stale(rows[r]) /\ rows[r].best_gene = "null"
                       THEN [rows[r] EXCEPT !.status       = "pending",
                                            !.claimed_by   = 0,
                                            !.heartbeat_at = "null"]
                       ELSE rows[r]
      BY <1>1, <2>3 DEF Retried
    <3> QED  BY <2>1, <2>3, <3>1, <3>2 DEF Fresh, Running, Stale, Row
  <2> QED  BY <2>2, <2>3
<1>6. DoneIsNotRunning' /\ OrphansWereTold'
  <2>1. task'["drain"] = Idle  BY <1>2, <1>3 DEF Orphans, OnlyBoot
  <2> QED  BY <1>2, <1>3, <2>1, StatementFields DEF DoneIsNotRunning, OrphansWereTold
<1> QED  BY <1>4, <1>5, <1>6 DEF Orphans

LEMMA DrainExecuteOrphans ==
    ASSUME TypeOK, EndsFinal, Orphans, Execute("drain")
    PROVE  Orphans'
<1> USE ActorFacts
<1>1. PICK d : d = task["drain"]  OBVIOUS
<1>2. PICK op, val : /\ op \in {"sweep", "claim", "getSpec", "reject", "complete", "fail"}
                     /\ Executes("drain", op, val)
  BY DEF Execute, ExecSweep, ExecClaim, ExecGetSpec, ExecComplete
<1>3. /\ d.op = op /\ d.phase = "issued"
      /\ task'["drain"].op = op /\ task'["drain"].phase = "done"
      /\ task'["drain"].val = val /\ task'["drain"].run = d.run
      /\ task'["boot"] = task["boot"]
      /\ UNCHANGED <<server, processing, activeRun, told>>
  <2>1. UNCHANGED <<server, processing, activeRun, told>>
    BY <1>2 DEF Executes, memory
  <2> QED  BY <1>1, <1>2, <2>1, ExecutesFields
<1>4. server = "up"  BY <1>1, <1>2, <1>3, Listening
<1>5. OnlyBoot' /\ BootIsHeard' /\ BootProgress' /\ DrainShape'
  BY <1>1, <1>3, <1>4 DEF Orphans, OnlyBoot, BootIsHeard, BootProgress, DrainShape
<1>6. rows \in [Runs -> Row]  BY DEF TypeOK
<1> SUFFICES DoneIsNotRunning' /\ OrphansWereTold'
  BY <1>5 DEF Orphans
<1>7. CASE ExecSweep
  <2>1. op = "sweep" /\ rows' = Swept(rows)
    BY <1>1, <1>3, <1>7 DEF ExecSweep, Executes
  <2>2. \A r \in Runs : Running(r)' => Running(r)
    BY <1>6, <2>1 DEF Swept, Running, Row
  <2>3. \A r \in Runs : ~Holds(r)  BY <1>1, <1>3, <2>1 DEF Holds
  <2> QED
    BY <1>3, <1>4, <2>1, <2>2, <2>3 DEF Orphans, OrphansWereTold, DoneIsNotRunning, Running
<1>8. CASE ExecClaim
  <2>1. op = "claim"  BY <1>1, <1>3, <1>8 DEF ExecClaim, Executes
  <2>2. \A r \in Runs : Running(r)' => Running(r) \/ val = r
    <3>1. CASE \E r \in Runs : Executes("drain", "claim", r) /\ rows' = Claimed(rows, r, process)
      <4>1. PICK r \in Runs : Executes("drain", "claim", r) /\ rows' = Claimed(rows, r, process)
        BY <3>1
      <4>2. val = r  BY <1>3, <4>1, ExecutesFields
      <4> QED  BY <1>6, <4>1, <4>2 DEF Claimed, Running
    <3>2. CASE rows' = rows  BY <3>2 DEF Running
    <3> QED  BY <1>8, <3>1, <3>2 DEF ExecClaim
  <2>3. \A r \in Runs : ~Holds(r)  BY <1>1, <1>3, <2>1 DEF Holds
  <2>4. \A r \in Runs : val = r => Holds(r)'  BY <1>3, <2>1 DEF Holds
  <2> QED
    BY <1>3, <1>4, <2>1, <2>2, <2>3, <2>4 DEF Orphans, OrphansWereTold, DoneIsNotRunning, Running
<1>9. CASE ExecGetSpec
  <2>1. op = "getSpec" /\ rows' = rows
    BY <1>1, <1>3, <1>9 DEF ExecGetSpec, Executes
  <2>2. \A r \in Runs : Holds(r)' <=> Holds(r)  BY <1>1, <1>3, <2>1 DEF Holds
  <2> QED
    BY <1>3, <1>4, <2>1, <2>2 DEF Orphans, OrphansWereTold, DoneIsNotRunning, Running
<1>10. CASE ExecComplete
  <2>1. op \in {"reject", "complete", "fail"}
    BY <1>1, <1>3, <1>10 DEF ExecComplete, Executes
  <2>2. rows' = Completed(rows, d.run, d.arg, Gene(d.op, d.run))
    BY <1>1, <1>10 DEF ExecComplete
  <2>3. d.arg \in Final  BY <1>1, <1>3, <2>1 DEF EndsFinal
  <2>4. ASSUME NEW r \in Runs
        PROVE  IF d.run = r THEN ~Running(r)' ELSE Running(r)' => Running(r)
    BY <1>6, <2>2, <2>3 DEF Completed, Running, Row, Final
  <2>5. \A r \in Runs : d.run # r => ~Holds(r) /\ ~Holds(r)'
    BY <1>1, <1>3, <2>1 DEF Holds
  <2>6. DoneIsNotRunning'  BY <1>3, <2>4 DEF DoneIsNotRunning
  <2>7. OrphansWereTold'
    BY <1>3, <1>4, <2>4, <2>5 DEF Orphans, OrphansWereTold, Running
  <2> QED  BY <2>6, <2>7
<1> QED  BY <1>7, <1>8, <1>9, <1>10 DEF Execute

-----------------------------------------------------------------------------
(* The drain loop.                                                         *)

LEMMA DrainOrphans ==
    ASSUME TypeOK, Orphans, DrainHandles \/ RunnerEnds
    PROVE  Orphans'
<1> USE ActorFacts
<1>1. PICK d : d = task["drain"]  OBVIOUS
<1>2. d.op # "none"
  BY <1>1
  DEF DrainHandles, RunnerEnds, RunnerReturns, RunnerThrows, AfterSweep,
      ClaimIsEmpty, ClaimIsLegacy, ClaimHasSpec, SpecFound, SpecMissing,
      AfterReject, AfterComplete, CatchAfterComplete, AfterFail, Answered, Rejected
<1>3. server = "up"  BY <1>1, <1>2, Listening
<1>4. UNCHANGED <<rows, server>>
  BY DEF DrainHandles, RunnerEnds, RunnerReturns, RunnerThrows, AfterSweep,
         ClaimIsEmpty, ClaimIsLegacy, ClaimHasSpec, SpecFound, SpecMissing,
         AfterReject, AfterComplete, CatchAfterComplete, AfterFail, NextTurn, Start, OnlyTasks
<1>5. \E s : task' = [task EXCEPT !["drain"] = s]
  BY DEF DrainHandles, RunnerEnds, RunnerReturns, RunnerThrows, AfterSweep,
         ClaimIsEmpty, ClaimIsLegacy, ClaimHasSpec, SpecFound, SpecMissing,
         AfterReject, AfterComplete, CatchAfterComplete, AfterFail, NextTurn, Start,
         Issue, Continue, Finish
<1>6. PICK s : task' = [task EXCEPT !["drain"] = s]  BY <1>5
<1>7. task'["drain"] = s /\ task'["boot"] = task["boot"]  BY <1>6, TaskSet
<1>8. told \in [Runs -> {"none", "started", "error", "completed", "cancelled"}]
  BY DEF TypeOK
<1>9. ASSUME NEW t, task' = [task EXCEPT !["drain"] = t]
      PROVE  s = t
  BY <1>6, <1>9 DEF TypeOK
<1>10. processing  BY <1>1, <1>2 DEF Orphans, DrainShape
<1> SUFFICES /\ DrainShape' /\ DoneIsNotRunning'
             /\ \A r \in Runs : Running(r) /\ ~Holds(r)' =>
                    \/ told'[r] = "error"
                    \/ ~Holds(r) /\ told'[r] = told[r]
  BY <1>3, <1>4, <1>7, LoopStep
<1>11. CASE AfterSweep
  <2>1. d.op = "sweep" /\ s = Statement("claim", None)
        /\ UNCHANGED <<processing, activeRun, told>>
    BY <1>1, <1>9, <1>11 DEF AfterSweep, Answered, Continue, OnlyTasks, memory, bounds
  <2> QED
    BY <1>1, <1>7, <1>10, <2>1, StatementFields
    DEF Orphans, DrainShape, DoneIsNotRunning, Holds
<1>12. CASE ClaimIsEmpty
  <2>1. d.op = "claim" /\ d.val = None /\ s = Idle /\ UNCHANGED <<activeRun, told>>
    BY <1>1, <1>9, <1>12 DEF ClaimIsEmpty, Answered, Finish, bounds
  <2>2. \A r \in Runs : r # None  BY MaxRunsAssumption DEF Runs, None
  <2> QED
    BY <1>1, <1>7, <2>1, <2>2, StatementFields
    DEF Orphans, DrainShape, DoneIsNotRunning, Holds
<1>13. ASSUME NEW q \in Runs, Start(q), d.op = "claim" \/ d.op = "getSpec", Holds(q)
       PROVE  /\ DrainShape' /\ DoneIsNotRunning'
              /\ \A r \in Runs : Running(r) /\ ~Holds(r)' =>
                     ~Holds(r) /\ told'[r] = told[r]
  <2>1. s = [Idle EXCEPT !.op = "evolve", !.run = q]
        /\ activeRun' = q /\ processing' = processing
        /\ told' = [told EXCEPT ![q] = "started"]
    BY <1>9, <1>13 DEF Start
  <2>2. s.op = "evolve" /\ s.run = q /\ q # None
    BY <2>1, MaxRunsAssumption DEF Idle, Runs, None
  <2>3. DrainShape' /\ DoneIsNotRunning'
    BY <1>7, <1>10, <2>1, <2>2 DEF DrainShape, DoneIsNotRunning
  <2>4. \A r \in Runs : Holds(r)' <=> r = q  BY <1>7, <2>2 DEF Holds
  <2>5. \A r \in Runs : Holds(r) => r = q  BY <1>1, <1>13 DEF Holds
  <2> QED  BY <1>8, <2>1, <2>3, <2>4, <2>5
<1>14. CASE ClaimIsLegacy
  <2>1. d.op = "claim" /\ d.phase = "done" /\ d.val \in Runs /\ Start(d.val)
    BY <1>1, <1>14 DEF ClaimIsLegacy, Answered
  <2>2. Holds(d.val)  BY <1>1, <2>1 DEF Holds
  <2> QED  BY <1>13, <2>1, <2>2
<1>15. CASE SpecFound
  <2>1. d.op = "getSpec" /\ Start(d.run)
    BY <1>1, <1>15 DEF SpecFound, Answered
  <2>2. d.run \in Runs
    <3>1. d \in Task  BY <1>1 DEF TypeOK
    <3>2. d.run \in 0..MaxRuns  BY <3>1, TaskFields
    <3>3. d.run # None  BY <1>1, <2>1 DEF Orphans, DrainShape
    <3> QED  BY <3>2, <3>3, MaxRunsAssumption DEF None, Runs
  <2>3. Holds(d.run)  BY <1>1, <2>1 DEF Holds
  <2> QED  BY <1>13, <2>1, <2>2, <2>3
<1>16. CASE ClaimHasSpec
  <2>1. d.op = "claim" /\ d.val \in SpecRuns /\ s = Statement("getSpec", d.val)
        /\ UNCHANGED <<processing, activeRun, told>>
    BY <1>1, <1>9, <1>16 DEF ClaimHasSpec, Answered, Continue, OnlyTasks, memory, bounds
  <2>2. d.val # None
    BY <2>1, RunSetsAssumption, MaxRunsAssumption DEF Runs, None
  <2> QED
    BY <1>1, <1>7, <1>10, <2>1, <2>2, StatementFields
    DEF Orphans, DrainShape, DoneIsNotRunning, Holds
<1>17. CASE SpecMissing
  <2>1. d.op = "getSpec" /\ s = Complete("reject", d.run, "failed")
        /\ UNCHANGED <<processing, activeRun, told>>
    BY <1>1, <1>9, <1>17
    DEF SpecMissing, Answered, Rejected, Continue, OnlyTasks, memory, bounds
  <2> QED
    BY <1>1, <1>7, <1>10, <2>1, StatementFields
    DEF Orphans, DrainShape, DoneIsNotRunning, Holds
<1>18. CASE AfterReject
  <2>1. d.op = "reject" /\ d.phase = "done" /\ s = Statement("sweep", None)
        /\ UNCHANGED <<processing, activeRun>>
        /\ told' = [told EXCEPT ![d.run] = "error"]
    BY <1>1, <1>9, <1>18 DEF AfterReject, Answered, Continue, memory
  <2>2. \A r \in Runs : ~Holds(r) /\ (r # d.run => told'[r] = told[r])
    BY <1>1, <1>8, <2>1 DEF Holds
  <2>3. \A r \in Runs : r = d.run => ~Running(r)
    BY <1>1, <2>1 DEF Orphans, DoneIsNotRunning
  <2> QED
    BY <1>1, <1>7, <1>10, <2>1, <2>2, <2>3, StatementFields
    DEF Orphans, DrainShape, DoneIsNotRunning
<1>19. CASE RunnerEnds
  <2>1. d.op = "evolve" /\ s.op \in {"complete", "fail"} /\ s.run = activeRun
        /\ s.phase = "issued" /\ UNCHANGED <<processing, activeRun, told>>
    BY <1>1, <1>9, <1>19, StatementFields
    DEF RunnerEnds, RunnerReturns, RunnerThrows, Issue, OnlyTasks, memory, bounds
  <2> QED
    BY <1>1, <1>7, <1>10, <2>1 DEF Orphans, DrainShape, DoneIsNotRunning, Holds
<1>20. ASSUME NEW event, NextTurn(event), d.op \in {"complete", "fail"},
              d.phase = "done" \/ event = "error"
       PROVE  /\ DrainShape' /\ DoneIsNotRunning'
              /\ \A r \in Runs : Running(r) /\ ~Holds(r)' =>
                     \/ told'[r] = "error"
                     \/ ~Holds(r) /\ told'[r] = told[r]
  <2>1. s = Statement("sweep", None) /\ activeRun' = None /\ processing' = processing
        /\ told' = [told EXCEPT ![d.run] = event]
    BY <1>1, <1>9, <1>20 DEF NextTurn, Continue
  <2>2. DrainShape' /\ DoneIsNotRunning'
    BY <1>7, <1>10, <2>1, StatementFields DEF DrainShape, DoneIsNotRunning
  <2>3. \A r \in Runs : r # d.run => ~Holds(r) /\ told'[r] = told[r]
    BY <1>1, <1>8, <1>20, <2>1 DEF Holds
  <2>4. \A r \in Runs : r = d.run => ~Running(r) \/ told'[r] = "error"
    BY <1>1, <1>8, <1>20, <2>1 DEF Orphans, DoneIsNotRunning
  <2> QED  BY <2>2, <2>3, <2>4
<1>21. CASE AfterComplete
  BY <1>1, <1>20, <1>21 DEF AfterComplete, Answered
<1>22. CASE AfterFail
  BY <1>1, <1>20, <1>22 DEF AfterFail, Answered, Rejected
<1>23. CASE CatchAfterComplete
  <2>1. d.op = "complete" /\ s = Complete("fail", d.run, "failed")
        /\ UNCHANGED <<processing, activeRun, told>>
    BY <1>1, <1>9, <1>23
    DEF CatchAfterComplete, Answered, Rejected, Continue, OnlyTasks, memory, bounds
  <2> QED
    BY <1>1, <1>7, <1>10, <2>1, StatementFields
    DEF Orphans, DrainShape, DoneIsNotRunning, Holds
<1> QED
  BY <1>11, <1>12, <1>14, <1>15, <1>16, <1>17, <1>18, <1>19, <1>21, <1>22, <1>23
  DEF DrainHandles

-----------------------------------------------------------------------------
(* Errors, the boot, time and crashes.                                     *)

LEMMA EnvironmentOrphans ==
    ASSUME TypeOK, Orphans, ColdRestart,
           \/ \E a \in Actors : ExecFails(a)
           \/ AfterRescue("boot") \/ AfterRetry("boot")
           \/ TimePasses \/ Crash \/ Boot
           \/ UNCHANGED vars
    PROVE  Orphans'
<1> USE ActorFacts
<1>1. ASSUME NEW a \in Actors, ExecFails(a)
      PROVE  Orphans'
  <2>1. /\ a # "boot" /\ task[a].phase = "issued"
        /\ task[a].op \notin {"sweep", "claim", "reject"}
        /\ task' = [task EXCEPT ![a].phase = "failed"]
        /\ UNCHANGED <<rows, server, processing, activeRun, told>>
    BY <1>1 DEF ExecFails, memory
  <2>2. task[a] \in Task /\ task[a].op = task'[a].op /\ task'[a].run = task[a].run
        /\ task'[a].phase = "failed" /\ \A b \in Actors \ {a} : task'[b] = task[b]
    BY <2>1 DEF TypeOK, Task
  <2>3. server = "up"
    <3>1. task[a] # Idle  BY <2>1, StatementFields
    <3> QED  BY <2>1, <3>1 DEF Orphans, OnlyBoot
  <2>4. CASE a = "drain"
    <3>1. DrainShape' /\ DoneIsNotRunning'
      BY <2>1, <2>2, <2>4 DEF Orphans, DrainShape, DoneIsNotRunning
    <3>2. \A r \in Runs : Holds(r)' <=> Holds(r)
      BY <2>1, <2>2, <2>4 DEF Holds
    <3>3. task'["boot"] = task["boot"]  BY <2>1, <2>2
    <3> QED  BY <2>1, <2>3, <3>1, <3>2, <3>3, LoopStep
  <2>5. CASE a # "drain"
    BY <2>1, <2>2, <2>3, <2>5, Aside DEF Running
  <2> QED  BY <2>4, <2>5
<1>2. CASE AfterRescue("boot")
  <2>1. task["boot"].op = "rescue" /\ task["boot"].phase = "done"
    BY <1>2 DEF AfterRescue, Answered, Rejected
  <2>2. server = "booting"
    BY <2>1, StatementFields DEF Orphans, OnlyBoot
  <2>3. /\ task'["boot"] = Statement("retry", None)
        /\ \A b \in Actors \ {"boot"} : task'[b] = task[b]
        /\ UNCHANGED <<rows, server, activeRun, processing, told>>
    BY <1>2, TaskSet DEF AfterRescue, Continue, OnlyTasks, memory, bounds
  <2>4. OnlyBoot' /\ BootIsHeard'
    BY <2>2, <2>3, StatementFields DEF Orphans, OnlyBoot, BootIsHeard
  <2>5. BootProgress'
    BY <2>1, <2>2, <2>3, StatementFields DEF Orphans, BootProgress, Fresh, Running
  <2>6. DrainShape' /\ DoneIsNotRunning' /\ OrphansWereTold'
    BY <2>2, <2>3 DEF Orphans, DrainShape, DoneIsNotRunning, OrphansWereTold, Running
  <2> QED  BY <2>4, <2>5, <2>6 DEF Orphans
<1>3. CASE AfterRetry("boot")
  <2>1. task["boot"].op = "retry" /\ task["boot"].phase = "done"
    BY <1>3 DEF AfterRetry, Answered
  <2>2. server = "booting"
    BY <2>1, StatementFields DEF Orphans, OnlyBoot
  <2>3. /\ task'["boot"] = Idle /\ server' = "up"
        /\ \A b \in Actors \ {"boot"} : task'[b] = task[b]
        /\ UNCHANGED <<rows, activeRun, processing, told>>
    BY <1>3, TaskSet DEF AfterRetry, Finish, memory, bounds
  <2>4. \A r \in Runs : rows[r].status # "running"
    BY <2>1, <2>2 DEF Orphans, BootProgress, Running
  <2>5. OnlyBoot' /\ BootIsHeard' /\ BootProgress'
    BY <2>3, StatementFields DEF OnlyBoot, BootIsHeard, BootProgress
  <2>6. DrainShape' /\ DoneIsNotRunning' /\ OrphansWereTold'
    BY <2>3, <2>4 DEF Orphans, DrainShape, DoneIsNotRunning, OrphansWereTold, Running
  <2> QED  BY <2>5, <2>6 DEF Orphans
<1>4. CASE TimePasses
  <2>1. /\ task' = task /\ UNCHANGED <<server, activeRun, processing, told>>
        /\ rows' = Aged(rows)
    BY <1>4 DEF TimePasses, memory, bounds
  <2>2. ASSUME NEW r \in Runs
        PROVE  /\ rows'[r].status = rows[r].status
               /\ rows'[r].best_gene = rows[r].best_gene
               /\ rows'[r].heartbeat_at # "fresh"
    BY <2>1 DEF Aged, TypeOK, Row
  <2>3. \A r \in Runs : Holds(r)' <=> Holds(r)  BY <2>1, HoldsFrame
  <2>4. OnlyBoot' /\ BootIsHeard' /\ DrainShape'
    BY <2>1 DEF Orphans, OnlyBoot, BootIsHeard, DrainShape
  <2>5. BootProgress'
    BY <2>1, <2>2 DEF Orphans, BootProgress, Fresh, Running
  <2>6. DoneIsNotRunning' /\ OrphansWereTold'
    BY <2>1, <2>2, <2>3 DEF Orphans, DoneIsNotRunning, OrphansWereTold, Running
  <2> QED  BY <2>4, <2>5, <2>6 DEF Orphans
<1>5. CASE Crash
  <2>1. /\ server' = "down" /\ activeRun' = None /\ processing' = FALSE
        /\ \A b \in Actors : task'[b] = Idle
    BY <1>5 DEF Crash
  <2> QED
    BY <2>1, StatementFields
    DEF Orphans, OnlyBoot, BootIsHeard, BootProgress, DrainShape, DoneIsNotRunning,
        OrphansWereTold
<1>6. CASE Boot
  <2>1. /\ server = "down" /\ server' = "booting"
        /\ \A r \in Runs : rows[r].heartbeat_at # "fresh"
        /\ task'["boot"] = Statement("rescue", None)
        /\ \A b \in Actors \ {"boot"} : task'[b] = task[b]
        /\ UNCHANGED <<rows, activeRun, processing>>
    BY <1>6, TaskSet DEF Boot, Issue, memory
  <2>2. /\ \A b \in Actors \ {"boot"} : task'[b] = Idle
        /\ activeRun = None /\ ~processing
    BY <2>1 DEF Orphans, OnlyBoot
  <2>3. OnlyBoot' /\ BootIsHeard'
    BY <2>1, <2>2, StatementFields DEF OnlyBoot, BootIsHeard
  <2>4. BootProgress'
    BY <2>1, StatementFields DEF BootProgress, Fresh, Running
  <2>5. DrainShape' /\ DoneIsNotRunning' /\ OrphansWereTold'
    BY <2>1, <2>2, StatementFields DEF DrainShape, DoneIsNotRunning, OrphansWereTold
  <2> QED  BY <2>3, <2>4, <2>5 DEF Orphans
<1>7. CASE UNCHANGED vars
  <2>1. \A r \in Runs : Holds(r)' <=> Holds(r)
    BY <1>7, HoldsFrame DEF vars
  <2> QED
    BY <1>7, <2>1
    DEF vars, memory, bounds, Orphans, OnlyBoot, BootIsHeard, BootProgress, DrainShape,
        DoneIsNotRunning, OrphansWereTold, Fresh, Running
<1> QED  BY <1>1, <1>2, <1>3, <1>4, <1>5, <1>6, <1>7

-----------------------------------------------------------------------------
LEMMA OrphansInit == Init => Orphans
<1> SUFFICES ASSUME Init PROVE Orphans  OBVIOUS
<1> USE ActorFacts
<1>1. /\ task["boot"] = Statement("rescue", None)
      /\ \A b \in Actors \ {"boot"} : task[b] = Idle
      /\ server = "booting" /\ ~processing /\ activeRun = None
      /\ \A r \in Runs : rows[r].heartbeat_at = "null"
  BY DEF Init, AbsentRow
<1>2. OnlyBoot /\ BootIsHeard /\ DrainShape /\ DoneIsNotRunning /\ OrphansWereTold
  BY <1>1, StatementFields
  DEF OnlyBoot, BootIsHeard, DrainShape, DoneIsNotRunning, OrphansWereTold
<1>3. BootProgress
  BY <1>1, StatementFields DEF BootProgress, Fresh
<1> QED  BY <1>2, <1>3 DEF Orphans

LEMMA OrphansNext ==
    ASSUME ColdRestart, TypeOK, EndsFinal, Orphans, [Next]_vars
    PROVE  Orphans'
<1>1. ASSUME NEW c \in Clients,
             \/ \E n \in 1..MaxBatch : PostRuns(c, n)
             \/ PostNothing(c)
             \/ \E r \in Runs : CancelRun(c, r)
             \/ RecoverRuns(c)
             \/ Respond(c)
      PROVE  Orphans'
  BY <1>1, RequestOrphans, RespondOrphans
<1>2. ASSUME NEW a \in Actors, Execute(a)
      PROVE  Orphans'
  BY <1>2, OthersExecute, BootOrphans, DrainExecuteOrphans
<1>3. CASE DrainHandles \/ RunnerEnds
  BY <1>3, DrainOrphans
<1>4. CASE \/ BeatTick \/ PollTick \/ SaveTick
           \/ PollAnswered \/ \E t \in Timers : TimerSettles(t)
  BY <1>4, TimerOrphans
<1>5. CASE \/ \E a \in Actors : ExecFails(a)
           \/ AfterRescue("boot") \/ AfterRetry("boot")
           \/ TimePasses \/ Crash \/ Boot
           \/ UNCHANGED vars
  BY <1>5, EnvironmentOrphans
<1> QED  BY <1>1, <1>2, <1>3, <1>4, <1>5 DEF Next

\* While the server listens, a row that says "running" although the drain loop
\* does not work on it has had run_error broadcast about it: the row was left
\* behind by a completeRun that was rejected twice, and not by an order of
\* requests, timers and answers nor by a crash.
THEOREM OrphansWereToldHolds ==
    ASSUME ColdRestart
    PROVE  Spec => []OrphansWereTold
<1>1. Init => TypeOK /\ EndsFinal /\ Orphans
  BY TypeInit, OrphansInit
<1>2. TypeOK /\ EndsFinal /\ Orphans /\ [Next]_vars => (TypeOK /\ EndsFinal /\ Orphans)'
  BY NextType, OrphansNext
<1>3. TypeOK /\ EndsFinal /\ Orphans => OrphansWereTold  BY DEF Orphans
<1> QED  BY <1>1, <1>2, <1>3, PTL DEF Spec

=============================================================================
