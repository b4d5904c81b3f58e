--------------------------- MODULE RestoreRunProofs ---------------------------
(***************************************************************************)
(* Safety of module RestoreRun for every set of restores and every number  *)
(* of faults.  As long as the cache has not lagged a pass acts on the      *)
(* restore as it is, so what the pass is about to do tells how far the     *)
(* restore has come (Placed), and that carries the rest.                   *)
(***************************************************************************)
EXTENDS RestoreRun, TLAPS, FiniteSetTheorems

(* The cache follows every restore.                                        *)
Following == \A r \in Restores : lag[r] = NoStatus

(* Where a pass is against the phase of its restore.                       *)
Placed(r) ==
    /\ pc[r] \in {"cleanup", "start"} => status[r].phase = "Pending"
    /\ pc[r] = "create" =>
         status[r].phase = "Restoring" /\ status[r].run # NoRun /\ id[r] = status[r].run
    /\ pc[r] \in {"delete", "version"} => status[r].phase = "Ready"
    /\ pc[r] = "migrate" => status[r].phase = "Migrating" /\ migration[r] = "none"
    /\ pc[r] = "fail" => status[r].phase \in {"Restoring", "Ready", "Migrating"}
    /\ pc[r] \in {"count", "book", "report"} => status[r].phase = "Failed"

Early == {"absent", "none", "Pending", "Restoring"}

(* The kopia Job carries the recorded run id; a restore that is past its   *)
(* Job has one that ran; and postgres is not started before.               *)
Carries(r) ==
    /\ job[r].state # "none" => status[r].run = job[r].run /\ job[r].run \in ran[r]
    /\ status[r].phase \notin Early \/ pc[r] = "fail" => status[r].run \in ran[r]
    /\ status[r].phase \in Early => deploy[r] = "none"

(* A restore is reported once, by the last call of the pass that ended it, *)
(* and without faults it has been.                                         *)
Told ==
    /\ \A rep \in reports :
         /\ status[rep.restore].phase \in {"Active", "Failed"} /\ pc[rep.restore] = "idle"
         /\ rep.run \in ran[rep.restore]
    /\ \A p, q \in reports : p.restore = q.restore => p = q
    /\ \A r \in Restores :
         faults = 0 /\ status[r].phase \in {"Active", "Failed"} /\ pc[r] = "idle" =>
            \E rep \in reports : rep.restore = r

(* The failed restores whose pass has got past the booking.                *)
Booked == {r \in Restores : status[r].phase = "Failed" /\ pc[r] \notin {"count", "book"}}

(* Every failure counted, or about to be, is of one of them.               *)
Counted ==
    /\ count <= Cardinality(Booked)
    /\ \A r \in Restores : pc[r] = "book" => read[r] <= Cardinality(Booked)

(* The newest batch is the backup's until the Job has written one, and the *)
(* baseline is taken before it can.                                        *)
Batches(r) ==
    /\ newest[r] \in {Source, Source + 1} /\ status[r].baseline <= newest[r]
    /\ pc[r] = "migrate" \/ migration[r] # "none" => status[r].baseline >= Source
    /\ r \notin swept =>
         /\ migration[r] = "none" => newest[r] = Source
         /\ pc[r] = "migrate" \/ migration[r] # "none" => status[r].baseline = Source
    /\ status[r].result.is # "none" =>
         status[r].phase \notin Early \cup {"Migrating"} /\ migration[r] # "running"
    /\ status[r].result.is = "batch" => status[r].result.batch > Source
    /\ status[r].result.is = "unknown" /\ r \notin swept => newest[r] = Source

(* A report names no batch of the backup's own history.                    *)
RepBatches == \A rep \in reports : rep.migration.is = "batch" => rep.migration.batch > Source

(* All of it, as long as the cache follows.                                *)
RunInv ==
    ~stale =>
        /\ Following
        /\ \A r \in Restores : Placed(r) /\ Carries(r) /\ Batches(r)
        /\ overwritten = {}
        /\ Told /\ Counted
        /\ RepBatches

-----------------------------------------------------------------------------
(* Types                                                                   *)

(* A Job is only created with an id that was minted.                       *)
Minted == \A r \in Restores : pc[r] = "create" => id[r] # NoRun

(* A patch of the status of one restore keeps the statuses typed.          *)
LEMMA PatchType ==
    ASSUME TypeOK
    PROVE  /\ NoWrite => status' \in [Restores -> StatusType]
           /\ \A r \in Restores, new \in StatusType :
                Write(r, new) => status' \in [Restores -> StatusType]
           /\ \A r \in Restores, p \in Phases :
                SetPhase(r, p) => status' \in [Restores -> StatusType]
<1>1. NoWrite => status' \in [Restores -> StatusType]
  BY DEF TypeOK, NoWrite
<1>2. ASSUME NEW r \in Restores, NEW new \in StatusType, Write(r, new)
      PROVE  status' \in [Restores -> StatusType]
  BY <1>2 DEF TypeOK, Write, Set
<1>3. ASSUME NEW r \in Restores, NEW p \in Phases, SetPhase(r, p)
      PROVE  status' \in [Restores -> StatusType]
  <2>1. status[r] \in StatusType
    BY DEF TypeOK
  <2>2. [status[r] EXCEPT !.phase = p] \in StatusType
    BY <2>1 DEF StatusType
  <2>3. QED
    BY <1>2, <1>3, <2>2 DEF SetPhase
<1>4. QED
  BY <1>1, <1>2, <1>3

(* So does a merge patch of the other fields.                              *)
LEMMA FieldsType ==
    ASSUME TypeOK, NEW r \in Restores
    PROVE  /\ status[r] \in StatusType /\ Seen(r) \in StatusType
           /\ \A run \in 0..MaxRuns : [status[r] EXCEPT !.run = run] \in StatusType
           /\ [status[r] EXCEPT !.version = TRUE] \in StatusType
           /\ [status[r] EXCEPT !.phase = "Ready", !.version = TRUE] \in StatusType
           /\ \A b \in 0..MaxRuns : [status[r] EXCEPT !.baseline = b] \in StatusType
           /\ \A res \in ResultType :
                [status[r] EXCEPT !.phase = "Ready", !.result = res] \in StatusType
<1>1. status[r] \in StatusType /\ lag[r] \in StatusType
  BY DEF TypeOK
<1>2. QED
  BY <1>1 DEF StatusType, Phases, Seen

(* A Job that is gone or has changed its state, likewise.                  *)
LEMMA JobType ==
    ASSUME TypeOK, NEW r \in Restores
    PROVE  /\ Set(job, r, NoJob) \in [Restores -> [state : JobStates, run : 0..MaxRuns]]
           /\ \A s \in JobStates :
                [job EXCEPT ![r].state = s] \in [Restores -> [state : JobStates, run : 0..MaxRuns]]
           /\ \A s \in JobStates \cup {"silent"} :
                Set(detect, r, s) \in [Restores -> JobStates \cup {"silent"}]
<1>1. job \in [Restores -> [state : JobStates, run : 0..MaxRuns]]
      /\ detect \in [Restores -> JobStates \cup {"silent"}]
  BY DEF TypeOK
<1>2. NoJob \in [state : JobStates, run : 0..MaxRuns]
  BY RunAssumption DEF NoJob, JobStates, NoRun
<1>3. \A s \in JobStates : [job[r] EXCEPT !.state = s] \in [state : JobStates, run : 0..MaxRuns]
  BY <1>1
<1>4. QED
  BY <1>1, <1>2, <1>3 DEF Set

(* So the steps that end, delete or expire a Job keep the Jobs typed.      *)
LEMMA JobEndsType ==
    ASSUME TypeOK, NEW r \in Restores,
           DeleteJob(r) \/ KopiaEnds(r) \/ DetectEnds(r) \/ JobExpires(r)
    PROVE  /\ job' \in [Restores -> [state : JobStates, run : 0..MaxRuns]]
           /\ detect' \in [Restores -> JobStates \cup {"silent"}]
<1>1. /\ job \in [Restores -> [state : JobStates, run : 0..MaxRuns]]
      /\ detect \in [Restores -> JobStates \cup {"silent"}]
  BY DEF TypeOK
<1>2. {"none", "succeeded", "failed", "deadline"} \subseteq JobStates
  BY DEF JobStates
<1>3. \/ job' = job \/ job' = Set(job, r, NoJob)
      \/ \E s \in JobStates : job' = [job EXCEPT ![r].state = s]
  BY <1>2 DEF DeleteJob, KopiaEnds, DetectEnds, JobExpires
<1>4. detect' = detect \/ \E s \in JobStates \cup {"silent"} : detect' = Set(detect, r, s)
  BY <1>2 DEF DeleteJob, KopiaEnds, DetectEnds, JobExpires, ghosts
<1>5. job' \in [Restores -> [state : JobStates, run : 0..MaxRuns]]
  <2>1. CASE job' = job
    BY <1>1, <2>1
  <2>2. CASE job' = Set(job, r, NoJob)
    BY <2>2, JobType
  <2>3. ASSUME NEW s \in JobStates, job' = [job EXCEPT ![r].state = s]
        PROVE  job' \in [Restores -> [state : JobStates, run : 0..MaxRuns]]
    <3>1. [job EXCEPT ![r].state = s] \in [Restores -> [state : JobStates, run : 0..MaxRuns]]
      BY JobType
    <3>2. QED
      BY <2>3, <3>1
  <2>4. QED
    BY <1>3, <2>1, <2>2, <2>3
<1>6. detect' \in [Restores -> JobStates \cup {"silent"}]
  BY <1>1, <1>4 DEF Set
<1>7. QED
  BY <1>5, <1>6

(* What goes into a report.                                                *)
LEMMA ReportType ==
    ASSUME TypeOK, NEW r \in Restores, NEW outcome \in {"success", "failure"}, Report(r, outcome)
    PROVE  reports' \subseteq [restore : Restores, run : 0..MaxRuns,
                              outcome : {"success", "failure"}, migration : ResultType]
<1>1. status[r].run \in 0..MaxRuns /\ status[r].result \in ResultType
  BY FieldsType DEF StatusType
<1>2. NoResult \in ResultType
  BY RunAssumption DEF NoResult, ResultType, NoBatch
<1>3. migration_for(r) \in ResultType
  BY <1>1, <1>2 DEF migration_for
<1>4. verdict(r, outcome) \in {"success", "failure"}
  BY DEF verdict
<1>5. QED
  BY <1>1, <1>3, <1>4 DEF Report, ReportLost, run_id_from_status, TypeOK

(* Every call of a pass and every step of the world keeps the types.       *)
LEMMA TypeStep ==
    ASSUME TypeOK, Minted, Next
    PROVE  TypeOK'
<1>. USE RunAssumption, PatchType DEF TypeOK, JobStates, Steps, PassFrame, WorldFrame, jobVars,
         dataVars, ghosts, Goto, Set
<1>f. Fault \/ UNCHANGED faults => faults' \in 0..MaxFaults
  BY DEF Fault
<1>. USE <1>f
<1>1. ASSUME NEW r \in Restores, StampCreated(r) PROVE TypeOK'
  BY <1>1 DEF StampCreated, Phases
<1>2. ASSUME NEW r \in Restores, CleanupPreviousJobs(r) PROVE TypeOK'
  <2>1. job' \in [Restores -> [state : JobStates, run : 0..MaxRuns]]
    BY <1>2 DEF CleanupPreviousJobs, NoJob, NoRun
  <2>2. /\ detect' \in [Restores -> JobStates \cup {"silent"}]
        /\ migration' \in [Restores -> JobStates]
        /\ swept' \subseteq Restores
    BY <1>2 DEF CleanupPreviousJobs
  <2>3. faults' \in 0..MaxFaults
    BY <1>2 DEF CleanupPreviousJobs
  <2>4. QED
    BY <1>2, <2>1, <2>2, <2>3 DEF CleanupPreviousJobs
<1>3. ASSUME NEW r \in Restores, StartRestoring(r) PROVE TypeOK'
  BY <1>3 DEF StartRestoring, Phases
<1>4. ASSUME NEW r \in Restores, MintRunId(r) PROVE TypeOK'
  <2>1. Seen(r).run \in 0..MaxRuns /\ minted[r] \in 0..MaxRuns
    BY FieldsType DEF StatusType
  <2>2. minted' \in [Restores -> 0..MaxRuns] /\ (Seen(r).run = NoRun => minted'[r] \in 0..MaxRuns)
    BY <1>4, <2>1 DEF MintRunId
  <2>3. id' \in [Restores -> 0..MaxRuns]
    BY <1>4, <2>1, <2>2 DEF MintRunId
  <2>4. status' \in [Restores -> StatusType]
    BY <1>4, <2>2, FieldsType DEF MintRunId
  <2>5. QED
    BY <1>4, <2>2, <2>3, <2>4 DEF MintRunId
<1>5. ASSUME NEW r \in Restores, CreateJob(r) PROVE TypeOK'
  <2>1. id[r] \in 1..MaxRuns
    BY <1>5 DEF CreateJob, Minted, NoRun
  <2>2. job' \in [Restores -> [state : JobStates, run : 0..MaxRuns]]
    BY <1>5, <2>1 DEF CreateJob
  <2>3. QED
    BY <1>5, <2>1, <2>2 DEF CreateJob, NoRun
<1>6. ASSUME NEW r \in Restores, JobSucceeded(r) PROVE TypeOK'
  <2>1. status' \in [Restores -> StatusType]
    BY <1>6, FieldsType DEF JobSucceeded, Phases
  <2>2. QED
    BY <1>6, <2>1 DEF JobSucceeded
<1>7. ASSUME NEW r \in Restores, DeleteJob(r) PROVE TypeOK'
  BY <1>7, JobEndsType DEF DeleteJob
<1>8. ASSUME NEW r \in Restores, JobFailed(r) PROVE TypeOK'
  BY <1>8 DEF JobFailed
<1>9. ASSUME NEW r \in Restores, MarkFailed(r) PROVE TypeOK'
  BY <1>9 DEF MarkFailed, Phases
<1>10. ASSUME NEW r \in Restores, ReadCount(r) PROVE TypeOK'
  <2>1. read' \in [Restores -> 0..MaxRuns] /\ pc' \in [Restores -> Steps]
    BY <1>10 DEF ReadCount
  <2>2. QED
    BY <1>10, <2>1 DEF ReadCount
<1>11. ASSUME NEW r \in Restores, BookFailure(r) PROVE TypeOK'
  BY <1>11 DEF BookFailure
<1>12. ASSUME NEW r \in Restores, ReportFailure(r) PROVE TypeOK'
  <2>1. reports' \subseteq [restore : Restores, run : 0..MaxRuns,
                            outcome : {"success", "failure"}, migration : ResultType]
    BY <1>12, ReportType DEF ReportFailure
  <2>2. QED
    BY <1>12, <2>1 DEF ReportFailure, ReportLost, Report, Phases
<1>13. ASSUME NEW r \in Restores, DetectVersion(r) PROVE TypeOK'
  BY <1>13 DEF DetectVersion
<1>14. ASSUME NEW r \in Restores, RecordVersion(r) PROVE TypeOK'
  <2>1. status' \in [Restores -> StatusType]
    BY <1>14, FieldsType DEF RecordVersion
  <2>2. QED
    BY <1>14, <2>1 DEF RecordVersion
<1>15. ASSUME NEW r \in Restores, ApplyDeployment(r) PROVE TypeOK'
  BY <1>15 DEF ApplyDeployment, Phases
<1>16. ASSUME NEW r \in Restores, TargetGone(r) PROVE TypeOK'
  BY <1>16 DEF TargetGone, Phases
<1>17. ASSUME NEW r \in Restores, NoDatabase(r) PROVE TypeOK'
  BY <1>17 DEF NoDatabase
<1>18. ASSUME NEW r \in Restores, RecordBaseline(r) PROVE TypeOK'
  <2>1. status' \in [Restores -> StatusType]
    BY <1>18, FieldsType DEF RecordBaseline, latest_batch_at
  <2>2. QED
    BY <1>18, <2>1 DEF RecordBaseline
<1>19. ASSUME NEW r \in Restores, CreateMigration(r) PROVE TypeOK'
  BY <1>19 DEF CreateMigration
<1>20. ASSUME NEW r \in Restores, ReadResult(r) PROVE TypeOK'
  <2>1. (IF newest[r] > Seen(r).baseline THEN [is |-> "batch", batch |-> newest[r]]
         ELSE [is |-> "unknown", batch |-> NoBatch]) \in ResultType
    BY DEF ResultType, NoBatch
  <2>2. status' \in [Restores -> StatusType]
    BY <1>20, <2>1, FieldsType DEF ReadResult
  <2>3. QED
    BY <1>20, <2>2 DEF ReadResult
<1>21. ASSUME NEW r \in Restores, RestoreCreated(r) PROVE TypeOK'
  BY <1>21 DEF RestoreCreated, Phases
<1>22. ASSUME NEW r \in Restores, TargetWithdrawn(r) PROVE TypeOK'
  BY <1>22 DEF TargetWithdrawn
<1>23. ASSUME NEW r \in Restores, Switchover(r) PROVE TypeOK'
  <2>1. reports' \subseteq [restore : Restores, run : 0..MaxRuns,
                            outcome : {"success", "failure"}, migration : ResultType]
    BY <1>23, ReportType DEF Switchover
  <2>2. QED
    BY <1>23, <2>1 DEF Switchover, ReportLost, Report, Phases
<1>24. ASSUME NEW r \in Restores, KopiaEnds(r) PROVE TypeOK'
  BY <1>24, JobEndsType DEF KopiaEnds
<1>25. ASSUME NEW r \in Restores, DetectEnds(r) PROVE TypeOK'
  BY <1>25, JobEndsType DEF DetectEnds
<1>26. ASSUME NEW r \in Restores, JobExpires(r) PROVE TypeOK'
  <2>1. faults' \in 0..MaxFaults
    BY <1>26 DEF JobExpires
  <2>2. QED
    BY <1>26, <2>1, JobEndsType DEF JobExpires
<1>27. ASSUME NEW r \in Restores, MigrationEnds(r) PROVE TypeOK'
  <2>1. newest' \in [Restores -> 0..MaxRuns]
    BY <1>27 DEF MigrationEnds
  <2>2. migration' \in [Restores -> JobStates]
    BY <1>27 DEF MigrationEnds
  <2>3. QED
    BY <1>27, <2>1, <2>2 DEF MigrationEnds
<1>28. ASSUME NEW r \in Restores, DeploymentSettles(r) PROVE TypeOK'
  BY <1>28 DEF DeploymentSettles
<1>29. ASSUME NEW r \in Restores, BudgetPasses(r) PROVE TypeOK'
  BY <1>29 DEF BudgetPasses
<1>30. ASSUME NEW r \in Restores, PodLost(r) PROVE TypeOK'
  BY <1>30 DEF PodLost
<1>31. ASSUME NEW r \in Restores, CacheLags(r) PROVE TypeOK'
  BY <1>31 DEF CacheLags
<1>32. ASSUME NEW r \in Restores, CacheCatchesUp(r) PROVE TypeOK'
  <2>1. NoStatus \in StatusType
    BY DEF NoStatus, NoResult, StatusType, ResultType, Phases, NoRun, NoBatch
  <2>2. QED
    BY <1>32, <2>1 DEF CacheCatchesUp
<1>33. CASE OperatorDies
  <2>1. NoStatus \in StatusType
    BY DEF NoStatus, NoResult, StatusType, ResultType, Phases, NoRun, NoBatch
  <2>2. QED
    BY <1>33, <2>1 DEF OperatorDies, Each, NoRun
<1>34. QED
  BY <1>1, <1>2, <1>3, <1>4, <1>5, <1>6, <1>7, <1>8, <1>9, <1>10, <1>11, <1>12, <1>13,
     <1>14, <1>15, <1>16, <1>17, <1>18, <1>19, <1>20, <1>21, <1>22, <1>23, <1>24, <1>25,
     <1>26, <1>27, <1>28, <1>29, <1>30, <1>31, <1>32, <1>33 DEF Next, Pass, World, Settles

(* ... and the id a pass holds.                                            *)
LEMMA MintedStep ==
    ASSUME TypeOK, Minted, Next
    PROVE  Minted'
<1>. USE RunAssumption DEF Minted, TypeOK, NoRun, Goto, Set, PassFrame, WorldFrame
<1>1. ASSUME NEW r \in Restores, StampCreated(r) PROVE Minted'
  BY <1>1 DEF StampCreated
<1>2. ASSUME NEW r \in Restores, CleanupPreviousJobs(r) PROVE Minted'
  BY <1>2 DEF CleanupPreviousJobs
<1>3. ASSUME NEW r \in Restores, StartRestoring(r) PROVE Minted'
  BY <1>3 DEF StartRestoring
<1>4. ASSUME NEW r \in Restores, MintRunId(r) PROVE Minted'
  BY <1>4 DEF MintRunId, Seen
<1>5. ASSUME NEW r \in Restores, CreateJob(r) PROVE Minted'
  BY <1>5 DEF CreateJob
<1>6. ASSUME NEW r \in Restores, JobSucceeded(r) PROVE Minted'
  BY <1>6 DEF JobSucceeded
<1>7. ASSUME NEW r \in Restores, DeleteJob(r) PROVE Minted'
  BY <1>7 DEF DeleteJob
<1>8. ASSUME NEW r \in Restores, JobFailed(r) PROVE Minted'
  BY <1>8 DEF JobFailed
<1>9. ASSUME NEW r \in Restores, MarkFailed(r) PROVE Minted'
  BY <1>9 DEF MarkFailed
<1>10. ASSUME NEW r \in Restores, ReadCount(r) PROVE Minted'
  BY <1>10 DEF ReadCount
<1>11. ASSUME NEW r \in Restores, BookFailure(r) PROVE Minted'
  BY <1>11 DEF BookFailure
<1>12. ASSUME NEW r \in Restores, ReportFailure(r) PROVE Minted'
  BY <1>12 DEF ReportFailure
<1>13. ASSUME NEW r \in Restores, DetectVersion(r) PROVE Minted'
  BY <1>13 DEF DetectVersion
<1>14. ASSUME NEW r \in Restores, RecordVersion(r) PROVE Minted'
  BY <1>14 DEF RecordVersion
<1>15. ASSUME NEW r \in Restores, ApplyDeployment(r) PROVE Minted'
  BY <1>15 DEF ApplyDeployment
<1>16. ASSUME NEW r \in Restores, TargetGone(r) PROVE Minted'
  BY <1>16 DEF TargetGone
<1>17. ASSUME NEW r \in Restores, NoDatabase(r) PROVE Minted'
  BY <1>17 DEF NoDatabase
<1>18. ASSUME NEW r \in Restores, RecordBaseline(r) PROVE Minted'
  BY <1>18 DEF RecordBaseline
<1>19. ASSUME NEW r \in Restores, CreateMigration(r) PROVE Minted'
  BY <1>19 DEF CreateMigration
<1>20. ASSUME NEW r \in Restores, ReadResult(r) PROVE Minted'
  BY <1>20 DEF ReadResult
<1>21. ASSUME NEW r \in Restores, RestoreCreated(r) PROVE Minted'
  BY <1>21 DEF RestoreCreated
<1>22. ASSUME NEW r \in Restores, TargetWithdrawn(r) PROVE Minted'
  BY <1>22 DEF TargetWithdrawn
<1>23. ASSUME NEW r \in Restores, Switchover(r) PROVE Minted'
  BY <1>23 DEF Switchover
<1>24. ASSUME NEW r \in Restores, KopiaEnds(r) PROVE Minted'
  BY <1>24 DEF KopiaEnds
<1>25. ASSUME NEW r \in Restores, DetectEnds(r) PROVE Minted'
  BY <1>25 DEF DetectEnds
<1>26. ASSUME NEW r \in Restores, JobExpires(r) PROVE Minted'
  BY <1>26 DEF JobExpires
<1>27. ASSUME NEW r \in Restores, MigrationEnds(r) PROVE Minted'
  BY <1>27 DEF MigrationEnds
<1>28. ASSUME NEW r \in Restores, DeploymentSettles(r) PROVE Minted'
  BY <1>28 DEF DeploymentSettles
<1>29. ASSUME NEW r \in Restores, BudgetPasses(r) PROVE Minted'
  BY <1>29 DEF BudgetPasses
<1>30. ASSUME NEW r \in Restores, PodLost(r) PROVE Minted'
  BY <1>30 DEF PodLost
<1>31. ASSUME NEW r \in Restores, CacheLags(r) PROVE Minted'
  BY <1>31 DEF CacheLags
<1>32. ASSUME NEW r \in Restores, CacheCatchesUp(r) PROVE Minted'
  BY <1>32 DEF CacheCatchesUp
<1>33. CASE OperatorDies
  BY <1>33 DEF OperatorDies, Each
<1>34. QED
  BY <1>1, <1>2, <1>3, <1>4, <1>5, <1>6, <1>7, <1>8, <1>9, <1>10, <1>11, <1>12, <1>13,
     <1>14, <1>15, <1>16, <1>17, <1>18, <1>19, <1>20, <1>21, <1>22, <1>23, <1>24, <1>25,
     <1>26, <1>27, <1>28, <1>29, <1>30, <1>31, <1>32, <1>33 DEF Next, Pass, World, Settles

-----------------------------------------------------------------------------
(* As long as the cache follows                                            *)

(* Then a pass is handed the restore as it is.                             *)
LEMMA SeenAsIs ==
    ASSUME Following, NEW r \in Restores
    PROVE  Seen(r) = status[r]
  BY DEF Following, Seen

(* A cache that does not start to lag goes on following.                   *)
LEMMA FollowsStep ==
    ASSUME TypeOK, ~stale => Following, Next, ~stale'
    PROVE  ~stale /\ Following'
<1>. USE DEF Following, PassFrame, WorldFrame, TypeOK, Set
<1>1. ASSUME NEW r \in Restores, StampCreated(r) PROVE ~stale /\ Following'
  BY <1>1 DEF StampCreated
<1>2. ASSUME NEW r \in Restores, CleanupPreviousJobs(r) PROVE ~stale /\ Following'
  BY <1>2 DEF CleanupPreviousJobs
<1>3. ASSUME NEW r \in Restores, StartRestoring(r) PROVE ~stale /\ Following'
  BY <1>3 DEF StartRestoring
<1>4. ASSUME NEW r \in Restores, MintRunId(r) PROVE ~stale /\ Following'
  BY <1>4 DEF MintRunId
<1>5. ASSUME NEW r \in Restores, CreateJob(r) PROVE ~stale /\ Following'
  BY <1>5 DEF CreateJob
<1>6. ASSUME NEW r \in Restores, JobSucceeded(r) PROVE ~stale /\ Following'
  BY <1>6 DEF JobSucceeded
<1>7. ASSUME NEW r \in Restores, DeleteJob(r) PROVE ~stale /\ Following'
  BY <1>7 DEF DeleteJob
<1>8. ASSUME NEW r \in Restores, JobFailed(r) PROVE ~stale /\ Following'
  BY <1>8 DEF JobFailed
<1>9. ASSUME NEW r \in Restores, MarkFailed(r) PROVE ~stale /\ Following'
  BY <1>9 DEF MarkFailed
<1>10. ASSUME NEW r \in Restores, ReadCount(r) PROVE ~stale /\ Following'
  BY <1>10 DEF ReadCount
<1>11. ASSUME NEW r \in Restores, BookFailure(r) PROVE ~stale /\ Following'
  BY <1>11 DEF BookFailure
<1>12. ASSUME NEW r \in Restores, ReportFailure(r) PROVE ~stale /\ Following'
  BY <1>12 DEF ReportFailure
<1>13. ASSUME NEW r \in Restores, DetectVersion(r) PROVE ~stale /\ Following'
  BY <1>13 DEF DetectVersion
<1>14. ASSUME NEW r \in Restores, RecordVersion(r) PROVE ~stale /\ Following'
  BY <1>14 DEF RecordVersion
<1>15. ASSUME NEW r \in Restores, ApplyDeployment(r) PROVE ~stale /\ Following'
  BY <1>15 DEF ApplyDeployment
<1>16. ASSUME NEW r \in Restores, TargetGone(r) PROVE ~stale /\ Following'
  BY <1>16 DEF TargetGone
<1>17. ASSUME NEW r \in Restores, NoDatabase(r) PROVE ~stale /\ Following'
  BY <1>17 DEF NoDatabase
<1>18. ASSUME NEW r \in Restores, RecordBaseline(r) PROVE ~stale /\ Following'
  BY <1>18 DEF RecordBaseline
<1>19. ASSUME NEW r \in Restores, CreateMigration(r) PROVE ~stale /\ Following'
  BY <1>19 DEF CreateMigration
<1>20. ASSUME NEW r \in Restores, ReadResult(r) PROVE ~stale /\ Following'
  BY <1>20 DEF ReadResult
<1>21. ASSUME NEW r \in Restores, RestoreCreated(r) PROVE ~stale /\ Following'
  BY <1>21 DEF RestoreCreated
<1>22. ASSUME NEW r \in Restores, TargetWithdrawn(r) PROVE ~stale /\ Following'
  BY <1>22 DEF TargetWithdrawn
<1>23. ASSUME NEW r \in Restores, Switchover(r) PROVE ~stale /\ Following'
  BY <1>23 DEF Switchover
<1>24. ASSUME NEW r \in Restores, KopiaEnds(r) PROVE ~stale /\ Following'
  BY <1>24 DEF KopiaEnds
<1>25. ASSUME NEW r \in Restores, DetectEnds(r) PROVE ~stale /\ Following'
  BY <1>25 DEF DetectEnds
<1>26. ASSUME NEW r \in Restores, JobExpires(r) PROVE ~stale /\ Following'
  BY <1>26 DEF JobExpires
<1>27. ASSUME NEW r \in Restores, MigrationEnds(r) PROVE ~stale /\ Following'
  BY <1>27 DEF MigrationEnds
<1>28. ASSUME NEW r \in Restores, DeploymentSettles(r) PROVE ~stale /\ Following'
  BY <1>28 DEF DeploymentSettles
<1>29. ASSUME NEW r \in Restores, BudgetPasses(r) PROVE ~stale /\ Following'
  BY <1>29 DEF BudgetPasses
<1>30. ASSUME NEW r \in Restores, PodLost(r) PROVE ~stale /\ Following'
  BY <1>30 DEF PodLost
<1>31. ASSUME NEW r \in Restores, CacheLags(r) PROVE ~stale /\ Following'
  BY <1>31 DEF CacheLags
<1>32. ASSUME NEW r \in Restores, CacheCatchesUp(r) PROVE ~stale /\ Following'
  BY <1>32 DEF CacheCatchesUp
<1>33. CASE OperatorDies
  BY <1>33 DEF OperatorDies, Each
<1>34. QED
  BY <1>1, <1>2, <1>3, <1>4, <1>5, <1>6, <1>7, <1>8, <1>9, <1>10, <1>11, <1>12, <1>13,
     <1>14, <1>15, <1>16, <1>17, <1>18, <1>19, <1>20, <1>21, <1>22, <1>23, <1>24, <1>25,
     <1>26, <1>27, <1>28, <1>29, <1>30, <1>31, <1>32, <1>33 DEF Next, Pass, World, Settles

(* The fields a pass decides on later that a patch leaves alone.           *)
Kept(r) ==
    /\ \A q \in Restores \ {r} : status'[q] = status[q]
    /\ status'[r].run = status[r].run
    /\ status'[r].baseline = status[r].baseline
    /\ status'[r].result = status[r].result

(* A patch of the phase and the version keeps the others.                  *)
LEMMA PhasePatch ==
    ASSUME TypeOK, NEW r \in Restores
    PROVE  /\ \A p \in Phases : SetPhase(r, p) => status'[r].phase = p /\ Kept(r)
           /\ JobSucceeded(r) => status'[r].phase = "Ready" /\ Kept(r)
           /\ NoWrite => status'[r].phase = status[r].phase /\ Kept(r)
<1>1. status[r] \in StatusType /\ status \in [Restores -> StatusType]
  BY DEF TypeOK
<1>2. ASSUME NEW p \in Phases, SetPhase(r, p) PROVE status'[r].phase = p /\ Kept(r)
  BY <1>1, <1>2 DEF SetPhase, Write, Set, Kept, StatusType
<1>3. ASSUME Write(r, [status[r] EXCEPT !.phase = "Ready", !.version = TRUE])
      PROVE  status'[r].phase = "Ready" /\ Kept(r)
  BY <1>1, <1>3 DEF Write, Set, Kept, StatusType
<1>4. QED
  BY <1>2, <1>3 DEF JobSucceeded, Phases, NoWrite, Kept

(* The patch that records a migration result.                              *)
LEMMA ResultPatch ==
    ASSUME TypeOK, NEW r \in Restores, NEW res,
           Write(r, [status[r] EXCEPT !.phase = "Ready", !.result = res])
    PROVE  /\ status'[r].phase = "Ready" /\ status'[r].result = res
           /\ status'[r].run = status[r].run /\ status'[r].baseline = status[r].baseline
           /\ \A q \in Restores \ {r} : status'[q] = status[q]
<1>1. status[r] \in StatusType /\ status \in [Restores -> StatusType]
  BY DEF TypeOK
<1>2. QED
  BY <1>1 DEF Write, Set, StatusType

(* A pass knows how far its restore has come.                              *)
LEMMA PlacedStep ==
    ASSUME TypeOK, Minted, Following, Next, ~stale',
           \A q \in Restores : Placed(q)
    PROVE  \A q \in Restores : Placed(q)'
<1>. USE SeenAsIs DEF In, PassFrame, WorldFrame, TypeOK, Goto, Set, Write, SetPhase, NoWrite,
         jobVars, dataVars, ghosts, NoRun, StatusType
<1>. USE DEF Placed
<1>1. ASSUME NEW r \in Restores, StampCreated(r) PROVE \A q \in Restores : Placed(q)'
  BY <1>1 DEF StampCreated
<1>2. ASSUME NEW r \in Restores, CleanupPreviousJobs(r) PROVE \A q \in Restores : Placed(q)'
  BY <1>2 DEF CleanupPreviousJobs
<1>3. ASSUME NEW r \in Restores, StartRestoring(r) PROVE \A q \in Restores : Placed(q)'
  BY <1>3 DEF StartRestoring
<1>4. ASSUME NEW r \in Restores, MintRunId(r) PROVE \A q \in Restores : Placed(q)'
  BY <1>4 DEF MintRunId
<1>5. ASSUME NEW r \in Restores, CreateJob(r) PROVE \A q \in Restores : Placed(q)'
  BY <1>5 DEF CreateJob
<1>6. ASSUME NEW r \in Restores, JobSucceeded(r) PROVE \A q \in Restores : Placed(q)'
  <2>1. status'[r].phase = "Ready" /\ Kept(r)
    BY <1>6, PhasePatch
  <2>2. QED
    BY <1>6, <2>1 DEF JobSucceeded, Kept
<1>7. ASSUME NEW r \in Restores, DeleteJob(r) PROVE \A q \in Restores : Placed(q)'
  BY <1>7 DEF DeleteJob
<1>8. ASSUME NEW r \in Restores, JobFailed(r) PROVE \A q \in Restores : Placed(q)'
  BY <1>8 DEF JobFailed
<1>9. ASSUME NEW r \in Restores, MarkFailed(r) PROVE \A q \in Restores : Placed(q)'
  BY <1>9 DEF MarkFailed
<1>10. ASSUME NEW r \in Restores, ReadCount(r) PROVE \A q \in Restores : Placed(q)'
  BY <1>10 DEF ReadCount
<1>11. ASSUME NEW r \in Restores, BookFailure(r) PROVE \A q \in Restores : Placed(q)'
  BY <1>11 DEF BookFailure
<1>12. ASSUME NEW r \in Restores, ReportFailure(r) PROVE \A q \in Restores : Placed(q)'
  BY <1>12 DEF ReportFailure
<1>13. ASSUME NEW r \in Restores, DetectVersion(r) PROVE \A q \in Restores : Placed(q)'
  BY <1>13 DEF DetectVersion
<1>14. ASSUME NEW r \in Restores, RecordVersion(r) PROVE \A q \in Restores : Placed(q)'
  BY <1>14 DEF RecordVersion
<1>15. ASSUME NEW r \in Restores, ApplyDeployment(r) PROVE \A q \in Restores : Placed(q)'
  BY <1>15 DEF ApplyDeployment
<1>16. ASSUME NEW r \in Restores, TargetGone(r) PROVE \A q \in Restores : Placed(q)'
  BY <1>16 DEF TargetGone
<1>17. ASSUME NEW r \in Restores, NoDatabase(r) PROVE \A q \in Restores : Placed(q)'
  BY <1>17 DEF NoDatabase
<1>18. ASSUME NEW r \in Restores, RecordBaseline(r) PROVE \A q \in Restores : Placed(q)'
  BY <1>18 DEF RecordBaseline, Migrating
<1>19. ASSUME NEW r \in Restores, CreateMigration(r) PROVE \A q \in Restores : Placed(q)'
  BY <1>19 DEF CreateMigration
<1>20. ASSUME NEW r \in Restores, ReadResult(r) PROVE \A q \in Restores : Placed(q)'
  BY <1>20 DEF ReadResult
<1>21. ASSUME NEW r \in Restores, RestoreCreated(r) PROVE \A q \in Restores : Placed(q)'
  BY <1>21 DEF RestoreCreated
<1>22. ASSUME NEW r \in Restores, TargetWithdrawn(r) PROVE \A q \in Restores : Placed(q)'
  BY <1>22 DEF TargetWithdrawn
<1>23. ASSUME NEW r \in Restores, Switchover(r) PROVE \A q \in Restores : Placed(q)'
  BY <1>23 DEF Switchover
<1>24. ASSUME NEW r \in Restores, KopiaEnds(r) PROVE \A q \in Restores : Placed(q)'
  BY <1>24 DEF KopiaEnds
<1>25. ASSUME NEW r \in Restores, DetectEnds(r) PROVE \A q \in Restores : Placed(q)'
  BY <1>25 DEF DetectEnds
<1>26. ASSUME NEW r \in Restores, JobExpires(r) PROVE \A q \in Restores : Placed(q)'
  BY <1>26 DEF JobExpires
<1>27. ASSUME NEW r \in Restores, MigrationEnds(r) PROVE \A q \in Restores : Placed(q)'
  BY <1>27 DEF MigrationEnds
<1>28. ASSUME NEW r \in Restores, DeploymentSettles(r) PROVE \A q \in Restores : Placed(q)'
  BY <1>28 DEF DeploymentSettles
<1>29. ASSUME NEW r \in Restores, BudgetPasses(r) PROVE \A q \in Restores : Placed(q)'
  BY <1>29 DEF BudgetPasses
<1>30. ASSUME NEW r \in Restores, PodLost(r) PROVE \A q \in Restores : Placed(q)'
  BY <1>30 DEF PodLost
<1>31. ASSUME NEW r \in Restores, CacheLags(r) PROVE \A q \in Restores : Placed(q)'
  BY <1>31 DEF CacheLags
<1>32. ASSUME NEW r \in Restores, CacheCatchesUp(r) PROVE \A q \in Restores : Placed(q)'
  BY <1>32 DEF CacheCatchesUp
<1>33. CASE OperatorDies
  BY <1>33 DEF OperatorDies, Each
<1>34. QED
  BY <1>1, <1>2, <1>3, <1>4, <1>5, <1>6, <1>7, <1>8, <1>9, <1>10, <1>11, <1>12, <1>13,
     <1>14, <1>15, <1>16, <1>17, <1>18, <1>19, <1>20, <1>21, <1>22, <1>23, <1>24, <1>25,
     <1>26, <1>27, <1>28, <1>29, <1>30, <1>31, <1>32, <1>33 DEF Next, Pass, World, Settles

(* The run id, the Job and the postgres of a restore stay in step.         *)
LEMMA CarriesStep ==
    ASSUME TypeOK, Minted, Following, Next, ~stale',
           \A q \in Restores : Placed(q),
           \A q \in Restores : Carries(q)
    PROVE  \A q \in Restores : Carries(q)'
<1>. USE SeenAsIs DEF In, PassFrame, WorldFrame, TypeOK, Goto, Set, Write, SetPhase, NoWrite,
         jobVars, dataVars, ghosts, NoRun, StatusType
<1>. USE DEF Placed, Carries, Early
<1>1. ASSUME NEW r \in Restores, StampCreated(r) PROVE \A q \in Restores : Carries(q)'
  BY <1>1 DEF StampCreated
<1>2. ASSUME NEW r \in Restores, CleanupPreviousJobs(r) PROVE \A q \in Restores : Carries(q)'
  BY <1>2 DEF CleanupPreviousJobs, NoJob
<1>3. ASSUME NEW r \in Restores, StartRestoring(r) PROVE \A q \in Restores : Carries(q)'
  BY <1>3 DEF StartRestoring
<1>4. ASSUME NEW r \in Restores, MintRunId(r) PROVE \A q \in Restores : Carries(q)'
  BY <1>4 DEF MintRunId
<1>5. ASSUME NEW r \in Restores, CreateJob(r) PROVE \A q \in Restores : Carries(q)'
  BY <1>5 DEF CreateJob
<1>6. ASSUME NEW r \in Restores, JobSucceeded(r) PROVE \A q \in Restores : Carries(q)'
  <2>1. status'[r].phase = "Ready" /\ Kept(r)
    BY <1>6, PhasePatch
  <2>2. QED
    BY <1>6, <2>1 DEF JobSucceeded, Kept
<1>7. ASSUME NEW r \in Restores, DeleteJob(r) PROVE \A q \in Restores : Carries(q)'
  BY <1>7 DEF DeleteJob, NoJob
<1>8. ASSUME NEW r \in Restores, JobFailed(r) PROVE \A q \in Restores : Carries(q)'
  BY <1>8 DEF JobFailed
<1>9. ASSUME NEW r \in Restores, MarkFailed(r) PROVE \A q \in Restores : Carries(q)'
  BY <1>9 DEF MarkFailed
<1>10. ASSUME NEW r \in Restores, ReadCount(r) PROVE \A q \in Restores : Carries(q)'
  BY <1>10 DEF ReadCount
<1>11. ASSUME NEW r \in Restores, BookFailure(r) PROVE \A q \in Restores : Carries(q)'
  BY <1>11 DEF BookFailure
<1>12. ASSUME NEW r \in Restores, ReportFailure(r) PROVE \A q \in Restores : Carries(q)'
  BY <1>12 DEF ReportFailure
<1>13. ASSUME NEW r \in Restores, DetectVersion(r) PROVE \A q \in Restores : Carries(q)'
  BY <1>13 DEF DetectVersion
<1>14. ASSUME NEW r \in Restores, RecordVersion(r) PROVE \A q \in Restores : Carries(q)'
  BY <1>14 DEF RecordVersion
<1>15. ASSUME NEW r \in Restores, ApplyDeployment(r) PROVE \A q \in Restores : Carries(q)'
  BY <1>15 DEF ApplyDeployment
<1>16. ASSUME NEW r \in Restores, TargetGone(r) PROVE \A q \in Restores : Carries(q)'
  BY <1>16 DEF TargetGone
<1>17. ASSUME NEW r \in Restores, NoDatabase(r) PROVE \A q \in Restores : Carries(q)'
  BY <1>17 DEF NoDatabase
<1>18. ASSUME NEW r \in Restores, RecordBaseline(r) PROVE \A q \in Restores : Carries(q)'
  BY <1>18 DEF RecordBaseline, Migrating
<1>19. ASSUME NEW r \in Restores, CreateMigration(r) PROVE \A q \in Restores : Carries(q)'
  BY <1>19 DEF CreateMigration
<1>20. ASSUME NEW r \in Restores, ReadResult(r) PROVE \A q \in Restores : Carries(q)'
  <2>1. /\ status'[r].phase \in {status[r].phase, "Ready"}
        /\ status'[r].run = status[r].run
        /\ \A q \in Restores \ {r} : status'[q] = status[q]
    <3>1. CASE migration[r] = "running"
      BY <1>20, <3>1 DEF ReadResult
    <3>2. CASE migration[r] # "running"
      <4>1. PICK res : Write(r, [status[r] EXCEPT !.phase = "Ready", !.result = res])
        BY <1>20, <3>2, Zenon DEF ReadResult
      <4>2. QED
        BY <4>1, ResultPatch, Zenon
    <3>3. QED
      BY <3>1, <3>2
  <2>2. status[r].phase = "Migrating"
    BY <1>20 DEF ReadResult, Migrating
  <2>3. QED
    BY <1>20, <2>1, <2>2 DEF ReadResult
<1>21. ASSUME NEW r \in Restores, RestoreCreated(r) PROVE \A q \in Restores : Carries(q)'
  BY <1>21 DEF RestoreCreated
<1>22. ASSUME NEW r \in Restores, TargetWithdrawn(r) PROVE \A q \in Restores : Carries(q)'
  BY <1>22 DEF TargetWithdrawn
<1>23. ASSUME NEW r \in Restores, Switchover(r) PROVE \A q \in Restores : Carries(q)'
  BY <1>23 DEF Switchover
<1>24. ASSUME NEW r \in Restores, KopiaEnds(r) PROVE \A q \in Restores : Carries(q)'
  <2>1. /\ job'[r].run = job[r].run /\ job[r].state = "running"
        /\ \A q \in Restores \ {r} : job'[q] = job[q]
    BY <1>24 DEF KopiaEnds
  <2>2. QED
    BY <1>24, <2>1 DEF KopiaEnds
<1>25. ASSUME NEW r \in Restores, DetectEnds(r) PROVE \A q \in Restores : Carries(q)'
  BY <1>25 DEF DetectEnds
<1>26. ASSUME NEW r \in Restores, JobExpires(r) PROVE \A q \in Restores : Carries(q)'
  <2>1. /\ job'[r] \in {job[r], NoJob}
        /\ \A q \in Restores \ {r} : job'[q] = job[q]
    BY <1>26 DEF JobExpires
  <2>2. QED
    BY <1>26, <2>1 DEF JobExpires, NoJob
<1>27. ASSUME NEW r \in Restores, MigrationEnds(r) PROVE \A q \in Restores : Carries(q)'
  BY <1>27 DEF MigrationEnds
<1>28. ASSUME NEW r \in Restores, DeploymentSettles(r) PROVE \A q \in Restores : Carries(q)'
  BY <1>28 DEF DeploymentSettles
<1>29. ASSUME NEW r \in Restores, BudgetPasses(r) PROVE \A q \in Restores : Carries(q)'
  BY <1>29 DEF BudgetPasses
<1>30. ASSUME NEW r \in Restores, PodLost(r) PROVE \A q \in Restores : Carries(q)'
  BY <1>30 DEF PodLost
<1>31. ASSUME NEW r \in Restores, CacheLags(r) PROVE \A q \in Restores : Carries(q)'
  BY <1>31 DEF CacheLags
<1>32. ASSUME NEW r \in Restores, CacheCatchesUp(r) PROVE \A q \in Restores : Carries(q)'
  BY <1>32 DEF CacheCatchesUp
<1>33. CASE OperatorDies
  BY <1>33 DEF OperatorDies, Each
<1>34. QED
  BY <1>1, <1>2, <1>3, <1>4, <1>5, <1>6, <1>7, <1>8, <1>9, <1>10, <1>11, <1>12, <1>13,
     <1>14, <1>15, <1>16, <1>17, <1>18, <1>19, <1>20, <1>21, <1>22, <1>23, <1>24, <1>25,
     <1>26, <1>27, <1>28, <1>29, <1>30, <1>31, <1>32, <1>33 DEF Next, Pass, World, Settles

(* Batches are attributed to the Job that wrote them.                      *)
LEMMA BatchesStep ==
    ASSUME TypeOK, Minted, Following, Next, ~stale',
           \A q \in Restores : Placed(q),
           \A q \in Restores : Batches(q)
    PROVE  \A q \in Restores : Batches(q)'
<1>. USE SeenAsIs DEF In, PassFrame, WorldFrame, TypeOK, Goto, Set, Write, SetPhase, NoWrite,
         jobVars, dataVars, ghosts, NoRun, StatusType
<1>. USE RunAssumption DEF Placed, Batches, Early
<1>1. ASSUME NEW r \in Restores, StampCreated(r) PROVE \A q \in Restores : Batches(q)'
  <2>1. status'[r].phase \in {status[r].phase, "Pending"} /\ Kept(r)
    BY <1>1, PhasePatch DEF StampCreated, Phases
  <2>2. status[r].phase \in Early
    BY <1>1 DEF StampCreated
  <2>3. QED
    BY <1>1, <2>1, <2>2 DEF StampCreated, Kept
<1>2. ASSUME NEW r \in Restores, CleanupPreviousJobs(r) PROVE \A q \in Restores : Batches(q)'
  BY <1>2 DEF CleanupPreviousJobs
<1>3. ASSUME NEW r \in Restores, StartRestoring(r) PROVE \A q \in Restores : Batches(q)'
  BY <1>3 DEF StartRestoring
<1>4. ASSUME NEW r \in Restores, MintRunId(r) PROVE \A q \in Restores : Batches(q)'
  <2>1. /\ status'[r].phase = status[r].phase /\ status'[r].result = status[r].result
        /\ status'[r].baseline = status[r].baseline
        /\ \A q \in Restores \ {r} : status'[q] = status[q]
    BY <1>4 DEF MintRunId
  <2>2. QED
    BY <1>4, <2>1 DEF MintRunId
<1>5. ASSUME NEW r \in Restores, CreateJob(r) PROVE \A q \in Restores : Batches(q)'
  BY <1>5 DEF CreateJob
<1>6. ASSUME NEW r \in Restores, JobSucceeded(r) PROVE \A q \in Restores : Batches(q)'
  <2>1. status'[r].phase = "Ready" /\ Kept(r)
    BY <1>6, PhasePatch
  <2>2. status[r].phase = "Restoring"
    BY <1>6 DEF JobSucceeded
  <2>3. QED
    BY <1>6, <2>1, <2>2 DEF JobSucceeded, Kept
<1>7. ASSUME NEW r \in Restores, DeleteJob(r) PROVE \A q \in Restores : Batches(q)'
  BY <1>7 DEF DeleteJob
<1>8. ASSUME NEW r \in Restores, JobFailed(r) PROVE \A q \in Restores : Batches(q)'
  BY <1>8 DEF JobFailed
<1>9. ASSUME NEW r \in Restores, MarkFailed(r) PROVE \A q \in Restores : Batches(q)'
  BY <1>9 DEF MarkFailed
<1>10. ASSUME NEW r \in Restores, ReadCount(r) PROVE \A q \in Restores : Batches(q)'
  BY <1>10 DEF ReadCount
<1>11. ASSUME NEW r \in Restores, BookFailure(r) PROVE \A q \in Restores : Batches(q)'
  BY <1>11 DEF BookFailure
<1>12. ASSUME NEW r \in Restores, ReportFailure(r) PROVE \A q \in Restores : Batches(q)'
  BY <1>12 DEF ReportFailure
<1>13. ASSUME NEW r \in Restores, DetectVersion(r) PROVE \A q \in Restores : Batches(q)'
  BY <1>13 DEF DetectVersion
<1>14. ASSUME NEW r \in Restores, RecordVersion(r) PROVE \A q \in Restores : Batches(q)'
  BY <1>14 DEF RecordVersion
<1>15. ASSUME NEW r \in Restores, ApplyDeployment(r) PROVE \A q \in Restores : Batches(q)'
  <2>1. \/ status'[r].phase = status[r].phase
        \/ status'[r].phase \in {"Migrating", "Switching"}
           /\ (status'[r].phase = "Migrating" => status[r].result = NoResult)
    BY <1>15, PhasePatch DEF ApplyDeployment, Phases
  <2>2. Kept(r)
    BY <1>15, PhasePatch DEF ApplyDeployment, Phases
  <2>3. NoResult.is = "none"
    BY DEF NoResult
  <2>4. QED
    BY <1>15, <2>1, <2>2, <2>3 DEF ApplyDeployment, Kept
<1>16. ASSUME NEW r \in Restores, TargetGone(r) PROVE \A q \in Restores : Batches(q)'
  BY <1>16 DEF TargetGone
<1>17. ASSUME NEW r \in Restores, NoDatabase(r) PROVE \A q \in Restores : Batches(q)'
  BY <1>17 DEF NoDatabase
<1>18. ASSUME NEW r \in Restores, RecordBaseline(r) PROVE \A q \in Restores : Batches(q)'
  <2>1. status[r].phase = "Migrating" /\ migration[r] = "none"
    BY <1>18 DEF RecordBaseline, Migrating
  <2>2. /\ status'[r].phase = status[r].phase /\ status'[r].result = status[r].result
        /\ status'[r].baseline = (IF newest[r] = NoBatch THEN status[r].baseline ELSE newest[r])
        /\ \A q \in Restores \ {r} : status'[q] = status[q]
    BY <1>18 DEF RecordBaseline, latest_batch_at
  <2>3. status'[r].baseline >= Source /\ (r \notin swept => status'[r].baseline = Source)
    BY <2>1, <2>2 DEF NoBatch
  <2>4. QED
    BY <1>18, <2>1, <2>2, <2>3 DEF RecordBaseline
<1>19. ASSUME NEW r \in Restores, CreateMigration(r) PROVE \A q \in Restores : Batches(q)'
  BY <1>19 DEF CreateMigration
<1>20. ASSUME NEW r \in Restores, ReadResult(r) PROVE \A q \in Restores : Batches(q)'
  <2>1. CASE migration[r] = "running"
    BY <1>20, <2>1 DEF ReadResult
  <2>2. CASE migration[r] # "running"
    <3>. HIDE DEF Write
    <3>1. status[r].phase = "Migrating" /\ migration[r] # "none"
      BY <1>20 DEF ReadResult, Migrating
    <3>2. PICK res : /\ res = IF newest[r] > Seen(r).baseline
                               THEN [is |-> "batch", batch |-> newest[r]]
                               ELSE [is |-> "unknown", batch |-> NoBatch]
                     /\ Write(r, [status[r] EXCEPT !.phase = "Ready", !.result = res])
      BY <1>20, <2>2, Zenon DEF ReadResult
    <3>3. /\ res.is \in {"batch", "unknown"}
          /\ res.is = "batch" => res.batch > Source
          /\ res.is = "unknown" /\ r \notin swept => newest[r] = Source
      BY <3>1, <3>2
    <3>4. /\ status'[r].phase = "Ready" /\ status'[r].result = res
          /\ status'[r].baseline = status[r].baseline
          /\ \A q \in Restores \ {r} : status'[q] = status[q]
      <4>. HIDE DEF TypeOK, StatusType, Placed, Batches
      <4>1. QED
        BY <3>2, ResultPatch, Zenon
    <3>5. UNCHANGED <<newest, migration, swept>> /\ pc' = [pc EXCEPT ![r] = "idle"]
      BY <1>20 DEF ReadResult
    <3>6. QED
      BY <2>2, <3>1, <3>3, <3>4, <3>5
  <2>3. QED
    BY <2>1, <2>2
<1>21. ASSUME NEW r \in Restores, RestoreCreated(r) PROVE \A q \in Restores : Batches(q)'
  BY <1>21 DEF RestoreCreated
<1>22. ASSUME NEW r \in Restores, TargetWithdrawn(r) PROVE \A q \in Restores : Batches(q)'
  BY <1>22 DEF TargetWithdrawn
<1>23. ASSUME NEW r \in Restores, Switchover(r) PROVE \A q \in Restores : Batches(q)'
  BY <1>23 DEF Switchover
<1>24. ASSUME NEW r \in Restores, KopiaEnds(r) PROVE \A q \in Restores : Batches(q)'
  BY <1>24 DEF KopiaEnds
<1>25. ASSUME NEW r \in Restores, DetectEnds(r) PROVE \A q \in Restores : Batches(q)'
  BY <1>25 DEF DetectEnds
<1>26. ASSUME NEW r \in Restores, JobExpires(r) PROVE \A q \in Restores : Batches(q)'
  BY <1>26 DEF JobExpires
<1>27. ASSUME NEW r \in Restores, MigrationEnds(r) PROVE \A q \in Restores : Batches(q)'
  BY <1>27 DEF MigrationEnds
<1>28. ASSUME NEW r \in Restores, DeploymentSettles(r) PROVE \A q \in Restores : Batches(q)'
  BY <1>28 DEF DeploymentSettles
<1>29. ASSUME NEW r \in Restores, BudgetPasses(r) PROVE \A q \in Restores : Batches(q)'
  BY <1>29 DEF BudgetPasses
<1>30. ASSUME NEW r \in Restores, PodLost(r) PROVE \A q \in Restores : Batches(q)'
  BY <1>30 DEF PodLost
<1>31. ASSUME NEW r \in Restores, CacheLags(r) PROVE \A q \in Restores : Batches(q)'
  BY <1>31 DEF CacheLags
<1>32. ASSUME NEW r \in Restores, CacheCatchesUp(r) PROVE \A q \in Restores : Batches(q)'
  BY <1>32 DEF CacheCatchesUp
<1>33. CASE OperatorDies
  BY <1>33 DEF OperatorDies, Each
<1>34. QED
  BY <1>1, <1>2, <1>3, <1>4, <1>5, <1>6, <1>7, <1>8, <1>9, <1>10, <1>11, <1>12, <1>13,
     <1>14, <1>15, <1>16, <1>17, <1>18, <1>19, <1>20, <1>21, <1>22, <1>23, <1>24, <1>25,
     <1>26, <1>27, <1>28, <1>29, <1>30, <1>31, <1>32, <1>33 DEF Next, Pass, World, Settles

EndPhases == {"Active", "Failed"}

(* A step that has no part in the accounts: no restore comes to its end,   *)
(* and the pass of one that has stays where it is.                         *)
Quiet ==
    /\ UNCHANGED <<reports, overwritten, count, read, ran>>
    /\ faults' \in {faults, faults + 1}
    /\ \A q \in Restores :
         status[q].phase \in EndPhases \/ status'[q].phase \in EndPhases =>
            status'[q].phase = status[q].phase /\ pc'[q] = pc[q]

(* Every other step is one of seven.                                       *)
LEMMA QuietStep ==
    ASSUME TypeOK, Following, Next, ~stale', \A q \in Restores : Placed(q)
    PROVE  \/ Quiet \/ OperatorDies
           \/ \E r \in Restores : \/ CreateJob(r) \/ MarkFailed(r) \/ ReadCount(r)
                                  \/ BookFailure(r) \/ ReportFailure(r) \/ Switchover(r)
<1>. USE SeenAsIs DEF In, PassFrame, WorldFrame, TypeOK, Goto, Set, Write, SetPhase, NoWrite,
         jobVars, dataVars, ghosts, StatusType, Fault, Quiet, EndPhases, Placed
<1>1. ASSUME NEW r \in Restores, StampCreated(r) PROVE Quiet
  BY <1>1 DEF StampCreated
<1>2. ASSUME NEW r \in Restores, CleanupPreviousJobs(r) PROVE Quiet
  BY <1>2 DEF CleanupPreviousJobs
<1>3. ASSUME NEW r \in Restores, StartRestoring(r) PROVE Quiet
  BY <1>3 DEF StartRestoring
<1>4. ASSUME NEW r \in Restores, MintRunId(r) PROVE Quiet
  BY <1>4 DEF MintRunId
<1>5. ASSUME NEW r \in Restores, JobSucceeded(r) PROVE Quiet
  <2>1. status'[r].phase = "Ready" /\ Kept(r) /\ status[r].phase = "Restoring"
    BY <1>5, PhasePatch DEF JobSucceeded
  <2>2. QED
    BY <1>5, <2>1 DEF JobSucceeded, Kept
<1>6. ASSUME NEW r \in Restores, DeleteJob(r) PROVE Quiet
  BY <1>6 DEF DeleteJob
<1>7. ASSUME NEW r \in Restores, JobFailed(r) PROVE Quiet
  BY <1>7 DEF JobFailed
<1>8. ASSUME NEW r \in Restores, DetectVersion(r) PROVE Quiet
  BY <1>8 DEF DetectVersion
<1>9. ASSUME NEW r \in Restores, RecordVersion(r) PROVE Quiet
  BY <1>9 DEF RecordVersion
<1>10. ASSUME NEW r \in Restores, ApplyDeployment(r) PROVE Quiet
  BY <1>10 DEF ApplyDeployment
<1>11. ASSUME NEW r \in Restores, TargetGone(r) PROVE Quiet
  BY <1>11 DEF TargetGone
<1>12. ASSUME NEW r \in Restores, NoDatabase(r) PROVE Quiet
  BY <1>12 DEF NoDatabase
<1>13. ASSUME NEW r \in Restores, RecordBaseline(r) PROVE Quiet
  BY <1>13 DEF RecordBaseline, Migrating
<1>14. ASSUME NEW r \in Restores, CreateMigration(r) PROVE Quiet
  BY <1>14 DEF CreateMigration
<1>15. ASSUME NEW r \in Restores, ReadResult(r) PROVE Quiet
  <2>1. /\ status'[r].phase \in {status[r].phase, "Ready"}
        /\ status'[r].run = status[r].run
        /\ \A q \in Restores \ {r} : status'[q] = status[q]
    <3>1. CASE migration[r] = "running"
      BY <1>15, <3>1 DEF ReadResult
    <3>2. CASE migration[r] # "running"
      <4>1. PICK res : Write(r, [status[r] EXCEPT !.phase = "Ready", !.result = res])
        BY <1>15, <3>2, Zenon DEF ReadResult
      <4>2. QED
        BY <4>1, ResultPatch, Zenon
    <3>3. QED
      BY <3>1, <3>2
  <2>2. status[r].phase = "Migrating"
    BY <1>15 DEF ReadResult, Migrating
  <2>3. QED
    BY <1>15, <2>1, <2>2 DEF ReadResult
<1>16. ASSUME NEW r \in Restores, RestoreCreated(r) PROVE Quiet
  BY <1>16 DEF RestoreCreated
<1>17. ASSUME NEW r \in Restores, TargetWithdrawn(r) PROVE Quiet
  BY <1>17 DEF TargetWithdrawn
<1>18. ASSUME NEW r \in Restores, KopiaEnds(r) PROVE Quiet
  BY <1>18 DEF KopiaEnds
<1>19. ASSUME NEW r \in Restores, DetectEnds(r) PROVE Quiet
  BY <1>19 DEF DetectEnds
<1>20. ASSUME NEW r \in Restores, JobExpires(r) PROVE Quiet
  BY <1>20 DEF JobExpires
<1>21. ASSUME NEW r \in Restores, MigrationEnds(r) PROVE Quiet
  BY <1>21 DEF MigrationEnds
<1>22. ASSUME NEW r \in Restores, DeploymentSettles(r) PROVE Quiet
  BY <1>22 DEF DeploymentSettles
<1>23. ASSUME NEW r \in Restores, BudgetPasses(r) PROVE Quiet
  BY <1>23 DEF BudgetPasses
<1>24. ASSUME NEW r \in Restores, PodLost(r) PROVE Quiet
  BY <1>24 DEF PodLost
<1>25. ASSUME NEW r \in Restores, CacheLags(r) PROVE Quiet
  BY <1>25 DEF CacheLags
<1>26. ASSUME NEW r \in Restores, CacheCatchesUp(r) PROVE Quiet
  BY <1>26 DEF CacheCatchesUp
<1>27. QED
  BY <1>1, <1>2, <1>3, <1>4, <1>5, <1>6, <1>7, <1>8, <1>9, <1>10, <1>11, <1>12, <1>13,
     <1>14, <1>15, <1>16, <1>17, <1>18, <1>19, <1>20, <1>21, <1>22, <1>23, <1>24, <1>25,
     <1>26 DEF Next, Pass, World, Settles

(* A report of the restore, of a run it had and of no batch of the backup. *)
Faithful(rep, r) ==
    /\ rep.restore = r /\ rep.run \in ran[r]
    /\ rep.migration.is = "batch" => rep.migration.batch > Source

(* A restore that is reported had not been, and is reported at its end.    *)
LEMMA NewReport ==
    ASSUME TypeOK, \A q \in Restores : Placed(q) /\ Carries(q) /\ Batches(q), NEW r \in Restores,
           ReportFailure(r) \/ Switchover(r)
    PROVE  /\ \/ faults' = faults /\ \E rep : reports' = reports \cup {rep} /\ Faithful(rep, r)
              \/ faults' = faults + 1 /\ reports' = reports
           /\ status[r].phase = "Switching" \/ (status[r].phase = "Failed" /\ pc[r] = "report")
           /\ status'[r].phase \in EndPhases
           /\ status[r].phase = "Failed" => status'[r].phase = "Failed"
           /\ \A q \in Restores \ {r} : status'[q] = status[q] /\ pc'[q] = pc[q]
           /\ pc'[r] = "idle"
           /\ UNCHANGED <<ran, overwritten, read>>
           /\ count' \in {count, 0}
<1>1. status[r].phase = "Switching" \/ (status[r].phase = "Failed" /\ pc[r] = "report")
  BY DEF ReportFailure, Switchover, Placed
<1>2. status[r].run \in ran[r]
  BY <1>1 DEF Carries, Early
<1>3. migration_for(r).is = "batch" => migration_for(r).batch > Source
  BY DEF Batches, migration_for, NoResult
<1>4. ASSUME NEW outcome, Report(r, outcome)
      PROVE  \/ faults' = faults /\ \E rep : reports' = reports \cup {rep} /\ Faithful(rep, r)
             \/ faults' = faults + 1 /\ reports' = reports
  <2>1. CASE ReportLost
    BY <2>1 DEF ReportLost, Fault
  <2>2. CASE /\ reports' = reports \cup
                   {[restore |-> r, run |-> run_id_from_status(r),
                     outcome |-> verdict(r, outcome), migration |-> migration_for(r)]}
             /\ UNCHANGED faults
    <3>. DEFINE rep == [restore |-> r, run |-> run_id_from_status(r),
                        outcome |-> verdict(r, outcome), migration |-> migration_for(r)]
    <3>1. Faithful(rep, r)
      BY <1>2, <1>3 DEF run_id_from_status, Faithful
    <3>2. reports' = reports \cup {rep} /\ faults' = faults
      BY <2>2
    <3>. HIDE DEF rep
    <3>3. QED
      BY <3>1, <3>2
  <2>3. QED
    BY <1>4, <2>1, <2>2 DEF Report
<1>5. CASE ReportFailure(r)
  <2>1. pc[r] = "report"
    BY <1>5 DEF ReportFailure
  <2>2. status[r].phase = "Failed"
    BY <2>1 DEF Placed
  <2>3. Report(r, "failure")
    BY <1>5 DEF ReportFailure
  <2>4. /\ UNCHANGED <<status, ran, overwritten, read, count>> /\ pc' = [pc EXCEPT ![r] = "idle"]
    BY <1>5 DEF ReportFailure, NoWrite, Goto
  <2>5. QED
    BY <1>1, <1>4, <2>2, <2>3, <2>4 DEF TypeOK, EndPhases
<1>6. CASE Switchover(r)
  <2>1. status[r].phase = "Switching" /\ Report(r, "success")
    BY <1>6 DEF Switchover
  <2>2. pc[r] = "idle"
    BY <2>1 DEF Placed, TypeOK, Steps
  <2>3. /\ UNCHANGED <<ran, overwritten, read, pc>> /\ count' = 0
        /\ status'[r].phase = "Active" /\ \A q \in Restores \ {r} : status'[q] = status[q]
    BY <1>6, PhasePatch DEF Switchover, WorldFrame, Kept, Phases
  <2>4. QED
    BY <1>1, <1>4, <2>1, <2>2, <2>3 DEF EndPhases
<1>7. QED
  BY <1>5, <1>6

(* No restore is reported twice, and none that ended without a fault is    *)
(* left out.                                                               *)
LEMMA ToldStep ==
    ASSUME TypeOK, Following, Next, ~stale', Told, RepBatches, overwritten = {},
           \A q \in Restores : Placed(q) /\ Carries(q) /\ Batches(q)
    PROVE  Told' /\ RepBatches' /\ overwritten' = {}
<1>. USE DEF EndPhases
<1>0. \A rep \in reports : rep.restore \in Restores
  BY DEF TypeOK
<1>1. CASE Quiet
  BY <1>0, <1>1 DEF Quiet, Told, RepBatches, TypeOK
<1>2. CASE OperatorDies
  BY <1>0, <1>2 DEF OperatorDies, ghosts, NoWrite, Each, Fault, Told, RepBatches, TypeOK
<1>3. ASSUME NEW r \in Restores, CreateJob(r) PROVE Told' /\ RepBatches' /\ overwritten' = {}
  BY <1>0, <1>3 DEF CreateJob, Placed, Carries, Early, NoWrite, Goto, Told, RepBatches, TypeOK
<1>4. ASSUME NEW r \in Restores, MarkFailed(r) PROVE Told' /\ RepBatches' /\ overwritten' = {}
  <2>1. status'[r].phase = "Failed" /\ Kept(r) /\ status[r].phase \notin EndPhases
    BY <1>4, PhasePatch DEF MarkFailed, Phases, Placed
  <2>2. QED
    BY <1>0, <1>4, <2>1 DEF MarkFailed, Kept, Goto, ghosts, Told, RepBatches, TypeOK
<1>5. ASSUME NEW r \in Restores, ReadCount(r) \/ BookFailure(r)
      PROVE  Told' /\ RepBatches' /\ overwritten' = {}
  <2>1. /\ UNCHANGED <<status, reports, ran, overwritten>> /\ faults' \in {faults, faults + 1}
        /\ pc[r] # "idle" /\ pc'[r] # "idle" /\ \A q \in Restores \ {r} : pc'[q] = pc[q]
    BY <1>5 DEF ReadCount, BookFailure, ghosts, NoWrite, Goto, Fault, TypeOK
  <2>2. QED
    BY <1>0, <2>1 DEF Told, RepBatches, TypeOK
<1>6. ASSUME NEW r \in Restores, ReportFailure(r) \/ Switchover(r)
      PROVE  Told' /\ RepBatches' /\ overwritten' = {}
  <2>1. \A rep \in reports : rep.restore # r
    BY <1>6, NewReport DEF Told
  <2>2. CASE faults' = faults + 1 /\ reports' = reports
    BY <1>0, <1>6, <2>1, <2>2, NewReport DEF Told, RepBatches, TypeOK
  <2>3. CASE faults' = faults /\ \E rep : reports' = reports \cup {rep} /\ Faithful(rep, r)
    <3>1. PICK rep : reports' = reports \cup {rep} /\ Faithful(rep, r)
      BY <2>3
    <3>2. QED
      BY <1>0, <1>6, <2>1, <2>3, <3>1, NewReport DEF Told, RepBatches, Faithful
  <2>4. QED
    BY <1>6, <2>2, <2>3, NewReport
<1>7. QED
  BY <1>1, <1>2, <1>3, <1>4, <1>5, <1>6, QuietStep

(* No failure is counted twice.                                            *)
LEMMA CountedStep ==
    ASSUME TypeOK, Following, Next, ~stale', Counted,
           \A q \in Restores : Placed(q) /\ Carries(q) /\ Batches(q),
           \A q \in Restores : Placed(q)'
    PROVE  Counted'
<1>1. /\ IsFiniteSet(Booked) /\ IsFiniteSet(Booked')
      /\ Cardinality(Booked) \in Nat /\ Cardinality(Booked') \in Nat
  BY RunAssumption, FS_Subset, FS_CardinalityType DEF Booked
<1>2. ASSUME Booked \subseteq Booked' PROVE Cardinality(Booked) <= Cardinality(Booked')
  BY <1>1, <1>2, FS_Subset
<1>3. count \in Nat /\ \A q \in Restores : read[q] \in Nat
  BY DEF TypeOK
<1>4. CASE /\ Booked \subseteq Booked' /\ count' \in {count, 0}
           /\ \A q \in Restores : pc'[q] = "book" => pc[q] = "book" /\ read'[q] = read[q]
  BY <1>1, <1>2, <1>3, <1>4 DEF Counted
<1>5. CASE Quiet
  BY <1>4, <1>5 DEF Quiet, EndPhases, Booked, Placed, TypeOK
<1>6. CASE OperatorDies
  BY <1>4, <1>6 DEF OperatorDies, NoWrite, Each, Booked
<1>7. ASSUME NEW r \in Restores, CreateJob(r) PROVE Counted'
  BY <1>4, <1>7 DEF CreateJob, NoWrite, Goto, Booked, TypeOK
<1>8. ASSUME NEW r \in Restores, MarkFailed(r) PROVE Counted'
  <2>1. status'[r].phase = "Failed" /\ Kept(r) /\ status[r].phase # "Failed"
    BY <1>8, PhasePatch DEF MarkFailed, Phases, Placed
  <2>2. QED
    BY <1>4, <1>8, <2>1 DEF MarkFailed, Kept, Goto, Booked, TypeOK
<1>9. ASSUME NEW r \in Restores, ReadCount(r) PROVE Counted'
  <2>1. /\ UNCHANGED <<status, count>> /\ pc[r] = "count"
        /\ \A q \in Restores \ {r} : pc'[q] = pc[q] /\ read'[q] = read[q]
        /\ pc'[r] = "book" => read'[r] = count
    BY <1>9 DEF ReadCount, NoWrite, Goto, Set, TypeOK
  <2>2. Booked \subseteq Booked'
    BY <2>1 DEF Booked
  <2>3. Cardinality(Booked) <= Cardinality(Booked')
    BY <1>2, <2>2
  <2>4. ASSUME NEW q \in Restores, pc'[q] = "book" PROVE read'[q] <= Cardinality(Booked)
    BY <2>1, <2>4 DEF Counted
  <2>5. QED
    BY <1>1, <1>3, <2>1, <2>3, <2>4 DEF Counted, TypeOK
<1>10. ASSUME NEW r \in Restores, BookFailure(r) PROVE Counted'
  <2>1. /\ status' = status /\ pc[r] = "book" /\ pc' = [pc EXCEPT ![r] = "report"]
        /\ count' \in {count, read[r] + 1} /\ \A q \in Restores \ {r} : read'[q] = read[q]
    BY <1>10 DEF BookFailure, NoWrite, Goto, Set, TypeOK
  <2>2. status[r].phase = "Failed" /\ r \notin Booked
    BY <2>1 DEF Placed, Booked
  <2>3. Booked' = Booked \cup {r}
    BY <2>1, <2>2 DEF Booked, TypeOK
  <2>4. Cardinality(Booked') = Cardinality(Booked) + 1
    BY <1>1, <2>2, <2>3, FS_AddElement
  <2>5. read[r] <= Cardinality(Booked)
    BY <2>1 DEF Counted
  <2>6. QED
    BY <1>1, <1>3, <2>1, <2>4, <2>5 DEF Counted, TypeOK
<1>11. ASSUME NEW r \in Restores, ReportFailure(r) \/ Switchover(r) PROVE Counted'
  <2>1. Booked \subseteq Booked'
    BY <1>11, NewReport DEF Booked
  <2>2. QED
    BY <1>4, <1>11, <2>1, NewReport
<1>12. QED
  BY <1>5, <1>6, <1>7, <1>8, <1>9, <1>10, <1>11, QuietStep

-----------------------------------------------------------------------------
(* The theorems                                                            *)

TypeInv == TypeOK /\ Minted

(* Nothing has happened at the start.                                      *)
LEMMA InitInv == Init => TypeInv /\ RunInv
<1>. SUFFICES ASSUME Init PROVE TypeInv /\ RunInv
  OBVIOUS
<1>1. NoStatus \in StatusType /\ NoJob \in [state : JobStates, run : 0..MaxRuns]
  BY RunAssumption DEF NoStatus, NoResult, StatusType, ResultType, Phases, NoRun, NoBatch, NoJob,
     JobStates
<1>2. TypeOK /\ Minted
  <2>1. /\ status \in [Restores -> StatusType] /\ lag \in [Restores -> StatusType]
        /\ job \in [Restores -> [state : JobStates, run : 0..MaxRuns]]
    BY <1>1 DEF Init, Each
  <2>2. /\ detect \in [Restores -> JobStates \cup {"silent"}]
        /\ migration \in [Restores -> JobStates]
        /\ deploy \in [Restores -> {"none", "starting", "ready", "stuck", "restarting"}]
        /\ pc \in [Restores -> Steps]
    BY DEF Init, Each, JobStates, Steps
  <2>3. /\ minted \in [Restores -> 0..MaxRuns] /\ newest \in [Restores -> 0..MaxRuns]
        /\ id \in [Restores -> 0..MaxRuns] /\ read \in [Restores -> 0..MaxRuns]
        /\ ran \in [Restores -> SUBSET (1..MaxRuns)]
    BY RunAssumption DEF Init, Each, NoRun
  <2>4. Minted
    BY DEF Init, Each, Minted
  <2>5. /\ target \subseteq Restores /\ count \in 0..MaxRuns /\ expired \subseteq Restores
        /\ faults \in 0..MaxFaults /\ stale = FALSE /\ reports = {}
        /\ overwritten \subseteq Restores /\ swept \subseteq Restores
    BY RunAssumption DEF Init
  <2>6. QED
    BY <2>1, <2>2, <2>3, <2>4, <2>5 DEF TypeOK
<1>3. \A r \in Restores : Placed(r) /\ Carries(r) /\ Batches(r)
  BY RunAssumption DEF Init, Each, Placed, Carries, Batches, Early, NoStatus, NoResult, NoJob,
     NoRun, NoBatch
<1>4. Told /\ RepBatches
  BY DEF Init, Each, Told, RepBatches, NoStatus
<1>5. Counted
  <2>1. Booked = {}
    BY DEF Init, Each, Booked, NoStatus
  <2>2. QED
    BY <2>1, FS_EmptySet DEF Init, Each, Counted
<1>6. QED
  BY <1>2, <1>3, <1>4, <1>5 DEF Init, Each, TypeInv, RunInv, Following, RepBatches

(* The invariant is inductive.                                             *)
LEMMA NextInv == TypeInv /\ RunInv /\ [Next]_vars => TypeInv' /\ RunInv'
<1>. SUFFICES ASSUME TypeInv, RunInv, [Next]_vars PROVE TypeInv' /\ RunInv'
  OBVIOUS
<1>1. CASE Next
  <2>1. TypeOK' /\ Minted'
    BY <1>1, TypeStep, MintedStep DEF TypeInv
  <2>2. ASSUME ~stale' PROVE RunInv'
    <3>1. ~stale /\ Following'
      BY <1>1, <2>2, FollowsStep DEF TypeInv, RunInv
    <3>2. /\ TypeOK /\ Minted /\ Following /\ Told /\ Counted /\ RepBatches /\ overwritten = {}
          /\ \A r \in Restores : Placed(r) /\ Carries(r) /\ Batches(r)
      BY <3>1 DEF TypeInv, RunInv, RepBatches
    <3>3. \A q \in Restores : Placed(q)'
      BY <1>1, <2>2, <3>2, PlacedStep
    <3>4. \A q \in Restores : Carries(q)'
      BY <1>1, <2>2, <3>2, CarriesStep
    <3>5. \A q \in Restores : Batches(q)'
      BY <1>1, <2>2, <3>2, BatchesStep
    <3>6. Told' /\ RepBatches' /\ overwritten' = {}
      BY <1>1, <2>2, <3>2, ToldStep
    <3>7. Counted'
      BY <1>1, <2>2, <3>2, <3>3, CountedStep
    <3>8. QED
      BY <3>1, <3>3, <3>4, <3>5, <3>6, <3>7 DEF RunInv, RepBatches
  <2>3. QED
    BY <2>1, <2>2 DEF TypeInv, RunInv
<1>2. CASE UNCHANGED vars
  <2>1. /\ UNCHANGED <<status, lag, target, count, minted, job, detect, migration, deploy, expired>>
        /\ UNCHANGED <<newest, pc, id, read, faults, stale, ran, reports, overwritten, swept>>
    BY <1>2 DEF vars, jobVars, dataVars, ghosts
  <2>2. TypeInv'
    BY <2>1 DEF TypeInv, TypeOK, Minted
  <2>3. /\ Booked' = Booked
        /\ \A r \in Restores :
             Placed(r)' = Placed(r) /\ Carries(r)' = Carries(r) /\ Batches(r)' = Batches(r)
    BY <2>1 DEF Booked, Placed, Carries, Batches
  <2>4. Told' = Told /\ Counted' = Counted /\ Following' = Following
    BY <2>1, <2>3 DEF Told, Counted, Following
  <2>5. QED
    BY <2>1, <2>2, <2>3, <2>4 DEF RunInv, RepBatches
<1>3. QED
  BY <1>1, <1>2

(* The invariant holds throughout every behaviour.                         *)
THEOREM RunInvariance == Spec => [](TypeInv /\ RunInv)
  BY InitInv, NextInv, PTL DEF Spec

(* Every field of every object holds a value of its kind, stale cache or   *)
(* not: the phases one handler writes are the ones the others read.        *)
THEOREM TypeCorrect == Spec => []TypeOK
<1>1. TypeInv => TypeOK
  BY DEF TypeInv
<1>2. QED
  BY <1>1, RunInvariance, PTL

(* Every report names a run id that a kopia Job of the restore carried.    *)
THEOREM ReportsNameRuns == Spec => []ReportNamesRun
<1>1. RunInv => ReportNamesRun
  BY DEF RunInv, Told, ReportNamesRun
<1>2. QED
  BY <1>1, RunInvariance, PTL

(* A restore has one outcome, a failure is counted at most once, and       *)
(* without faults every outcome is reported.                               *)
THEOREM OutcomesAccounted == Spec => []AccountedOnce
<1>1. TypeInv /\ RunInv => AccountedOnce
  <2>1. SUFFICES ASSUME TypeInv, RunInv, ~stale
                 PROVE  /\ \A r \in Restores : Cardinality(ReportsOf(r)) <= 1
                        /\ count <= Cardinality({r \in Restores : status[r].phase = "Failed"})
                        /\ \A r \in Restores :
                             faults = 0 /\ status[r].phase \in EndPhases /\ pc[r] = "idle"
                               => ReportsOf(r) # {}
    BY DEF AccountedOnce, EndPhases
  <2>2. Told /\ Counted
    BY <2>1 DEF RunInv
  <2>3. ASSUME NEW r \in Restores PROVE Cardinality(ReportsOf(r)) <= 1
    <3>1. CASE ReportsOf(r) = {}
      BY <3>1, FS_EmptySet
    <3>2. CASE ReportsOf(r) # {}
      <4>1. PICK rep : ReportsOf(r) = {rep}
        BY <2>2, <3>2 DEF Told, ReportsOf
      <4>2. QED
        BY <4>1, FS_Singleton
    <3>3. QED
      BY <3>1, <3>2
  <2>4. count <= Cardinality({r \in Restores : status[r].phase = "Failed"})
    <3>. DEFINE failed == {r \in Restores : status[r].phase = "Failed"}
    <3>1. IsFiniteSet(failed) /\ Booked \subseteq failed
      BY RunAssumption, FS_Subset DEF Booked
    <3>2. Cardinality(Booked) <= Cardinality(failed)
      BY <3>1, FS_Subset
    <3>3. Cardinality(Booked) \in Nat /\ Cardinality(failed) \in Nat /\ count \in Nat
      BY <2>1, <3>1, FS_Subset, FS_CardinalityType DEF TypeInv, TypeOK
    <3>. HIDE DEF failed
    <3>4. count <= Cardinality(failed)
      BY <2>2, <3>2, <3>3 DEF Counted
    <3>5. QED
      BY <3>4 DEF failed
  <2>5. QED
    BY <2>2, <2>3, <2>4 DEF Told, ReportsOf, EndPhases
<1>2. QED
  BY <1>1, RunInvariance, PTL

(* Kopia never writes to a volume that postgres has opened.                *)
THEOREM VolumesSafe == Spec => []NotOverwritten
<1>1. RunInv => NotOverwritten
  BY DEF RunInv, NotOverwritten
<1>2. QED
  BY <1>1, RunInvariance, PTL

(* A migration result never names a batch of the backup's own history, and *)
(* names the one its Job wrote unless the Job was swept away.              *)
THEOREM BatchesAttributed == Spec => []MigrationAttributed
<1>1. RunInv => MigrationAttributed
  BY DEF RunInv, RepBatches, Batches, MigrationAttributed, ReportsOf
<1>2. QED
  BY <1>1, RunInvariance, PTL

=============================================================================
