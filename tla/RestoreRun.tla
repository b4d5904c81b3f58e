------------------------------ MODULE RestoreRun ------------------------------
(***************************************************************************)
(* One run of each restore of a replica, call by call: controllers/        *)
(* restore.rs and restore/migration.rs, the Jobs they create, and the      *)
(* report of the outcome to canopy.  A pass is handed the restore that the *)
(* watch cache holds, which may lag behind, and may be cut short after any *)
(* call.                                                                   *)
(***************************************************************************)
EXTENDS Naturals, FiniteSets

CONSTANTS
    Restores,   \* the restores the replica may create
    Slow,       \* of them, those kopia cannot restore within the Job's deadline
    Hollow,     \* of them, those with postgres' own databases only
    Targets,    \* of them, those created with spec.migrateTo
    Source,     \* the newest batch in logs.migrations of the backup
    MaxRuns,    \* bound: run ids minted for a restore, batches, failures counted
    MaxFaults   \* bound: crashes, failed calls, lost pods, lags of the cache

ASSUME RunAssumption ==
    /\ IsFiniteSet(Restores) /\ Slow \subseteq Restores /\ Hollow \subseteq Restores
    /\ Targets \subseteq Restores
    /\ Source \in Nat /\ MaxRuns \in Nat /\ MaxFaults \in Nat
    /\ Source < MaxRuns

VARIABLES
    status,     \* the status of each restore
    lag,        \* the status the cache is stuck at, or NoStatus when it follows
    target,     \* the restores with spec.migrateTo
    count,      \* status.consecutiveRestoreFailures of the replica
    minted,     \* how many run ids each restore was given; they are numbered
    job,        \* the kopia Jobs
    detect,     \* the version-detect Jobs
    migration,  \* the migration Jobs
    deploy,     \* the Deployments
    expired,    \* restores past their readiness budget
    newest,     \* the newest batch in logs.migrations of each restore
    pc,         \* each restore's pass: its next call
    id,         \* the run id a pass is about to create a Job with
    read,       \* the failure count a failing pass has read
    faults,
    stale,      \* ghost: the cache has lagged
    ran,        \* ghost: the run ids of the kopia Jobs created
    reports,    \* ghost: what canopy was told
    overwritten,\* ghost: restores with a kopia Job on a volume postgres had open
    swept       \* ghost: restores whose migration Job another restore's pass deleted

jobVars == <<job, detect, migration>>
dataVars == <<deploy, expired, newest>>
ghosts == <<ran, reports, overwritten, swept>>
vars == <<status, lag, target, count, minted, jobVars, dataVars, pc, id, read, faults, stale, ghosts>>

NoRun == 0
NoBatch == 0
Phases == {"absent", "none", "Pending", "Restoring", "Ready", "Migrating",
           "Switching", "Active", "Failed"}

ResultType == [is : {"none", "unknown", "batch"}, batch : 0..MaxRuns]
StatusType ==
    [phase : Phases, run : 0..MaxRuns, version : BOOLEAN,
     baseline : 0..MaxRuns, result : ResultType]
NoResult == [is |-> "none", batch |-> NoBatch]
NoStatus == [phase |-> "absent", run |-> NoRun, version |-> FALSE,
             baseline |-> NoBatch, result |-> NoResult]

NoJob == [state |-> "none", run |-> NoRun]
JobStates == {"none", "running", "succeeded", "failed", "deadline"}
Steps == {"idle", "cleanup", "start", "create", "delete",
          "version", "migrate",
          "fail", "count", "book", "report"}

(* Every field of every object holds a value of its kind.                  *)
TypeOK ==
    /\ status \in [Restores -> StatusType] /\ lag \in [Restores -> StatusType]
    /\ target \subseteq Restores
    /\ count \in 0..MaxRuns /\ minted \in [Restores -> 0..MaxRuns]
    /\ job \in [Restores -> [state : JobStates, run : 0..MaxRuns]]
    /\ detect \in [Restores -> JobStates \cup {"silent"}]
    /\ migration \in [Restores -> JobStates]
    /\ deploy \in [Restores -> {"none", "starting", "ready", "stuck", "restarting"}]
    /\ expired \subseteq Restores
    /\ newest \in [Restores -> 0..MaxRuns]
    /\ pc \in [Restores -> Steps] /\ id \in [Restores -> 0..MaxRuns]
    /\ read \in [Restores -> 0..MaxRuns]
    /\ faults \in 0..MaxFaults /\ stale \in BOOLEAN
    /\ ran \in [Restores -> SUBSET (1..MaxRuns)]
    /\ reports \subseteq [restore : Restores, run : 0..MaxRuns, outcome : {"success", "failure"},
                         migration : ResultType]
    /\ overwritten \subseteq Restores /\ swept \subseteq Restores

Each(x) == [r \in Restores |-> x]

Init ==
    /\ status = Each(NoStatus) /\ lag = Each(NoStatus)
    /\ target = Targets
    /\ count = 0 /\ minted = Each(0)
    /\ job = Each(NoJob) /\ detect = Each("none") /\ migration = Each("none")
    /\ deploy = Each("none") /\ expired = {}
    /\ newest = Each(Source)
    /\ pc = Each("idle") /\ id = Each(NoRun) /\ read = Each(0)
    /\ faults = 0 /\ stale = FALSE
    /\ ran = Each({}) /\ reports = {} /\ overwritten = {} /\ swept = {}

Fault == faults < MaxFaults /\ faults' = faults + 1
Goto(r, step) == pc' = [pc EXCEPT ![r] = step]
Set(f, r, x) == [f EXCEPT ![r] = x]

(* update_restore_status: a merge patch, so only the named fields change.  *)
Write(r, new) == status' = Set(status, r, new)
SetPhase(r, p) == Write(r, [status[r] EXCEPT !.phase = p])
NoWrite == UNCHANGED status

(* What a pass leaves alone at every call.                                 *)
PassFrame == UNCHANGED <<lag, target, id, stale>>

-----------------------------------------------------------------------------
(* reconcile                                                               *)

(* The restore a pass is handed.                                           *)
Seen(r) == IF lag[r] = NoStatus THEN status[r] ELSE lag[r]

(* Dispatch on the phase.  A restore that is Switching or Active only has  *)
(* its Deployment applied again, and a Failed one is left alone.           *)
In(r, phases) == pc[r] = "idle" /\ Seen(r).phase \in phases

-----------------------------------------------------------------------------
(* reconcile_pending                                                       *)

StampCreated(r) ==
    /\ In(r, {"none", "Pending"})
    /\ IF Seen(r).phase = "none" THEN SetPhase(r, "Pending") ELSE NoWrite
    /\ Goto(r, "cleanup")
    /\ PassFrame /\ UNCHANGED <<count, minted, jobVars, dataVars, read, faults, ghosts>>

(* cleanup_previous_jobs: every Job of another restore of the replica goes,*)
(* finished or not; a delete that fails is only logged.                    *)
CleanupPreviousJobs(r) ==
    /\ pc[r] = "cleanup"
    /\ \E keep \in SUBSET (Restores \ {r}) :
        LET gone == Restores \ ({r} \cup keep)
        IN  /\ IF keep = {} THEN UNCHANGED faults ELSE Fault
            /\ job' = [q \in Restores |-> IF q \in gone THEN NoJob ELSE job[q]]
            /\ detect' = [q \in Restores |-> IF q \in gone THEN "none" ELSE detect[q]]
            /\ migration' = [q \in Restores |-> IF q \in gone THEN "none" ELSE migration[q]]
            /\ swept' = swept \cup {q \in gone : migration[q] # "none"}
    /\ Goto(r, "start")
    /\ NoWrite /\ PassFrame
    /\ UNCHANGED <<count, minted, dataVars, read, ran, reports, overwritten>>

(* Mutant: the phase string of the status patch is misspelt.              *)
StartRestoring_Misspelt(r) ==
    /\ pc[r] = "start"
    /\ SetPhase(r, "restoring")
    /\ Goto(r, "idle")
    /\ PassFrame /\ UNCHANGED <<count, minted, jobVars, dataVars, read, faults, ghosts>>

(* The volumes are created unless they are there, and the restore goes on  *)
(* without waiting for them to be bound.                                   *)
StartRestoring(r) ==
    /\ pc[r] = "start"
    /\ SetPhase(r, "Restoring")
    /\ Goto(r, "idle")
    /\ PassFrame /\ UNCHANGED <<count, minted, jobVars, dataVars, read, faults, ghosts>>

-----------------------------------------------------------------------------
(* reconcile_restoring                                                     *)

(* Mutant: the id goes into the Job only.                                 *)
MintRunId_NotPersisted(r) ==
    /\ In(r, {"Restoring"}) /\ job[r].state = "none"
    /\ IF Seen(r).run # NoRun
       THEN NoWrite /\ UNCHANGED minted
       ELSE /\ minted[r] < MaxRuns /\ minted' = Set(minted, r, minted[r] + 1)
            /\ NoWrite
    /\ id' = Set(id, r, IF Seen(r).run # NoRun THEN Seen(r).run ELSE minted'[r])
    /\ Goto(r, "create")
    /\ UNCHANGED <<lag, target, count, jobVars, dataVars, read, faults, stale, ghosts>>

(* Without a Job the run id is minted, unless the restore has one, and is  *)
(* in the status before the Job that carries it exists.                    *)
MintRunId(r) ==
    /\ In(r, {"Restoring"}) /\ job[r].state = "none"
    /\ IF Seen(r).run # NoRun
       THEN NoWrite /\ UNCHANGED minted
       ELSE /\ minted[r] < MaxRuns /\ minted' = Set(minted, r, minted[r] + 1)
            /\ Write(r, [status[r] EXCEPT !.run = minted'[r]])
    /\ id' = Set(id, r, IF Seen(r).run # NoRun THEN Seen(r).run ELSE minted'[r])
    /\ Goto(r, "create")
    /\ UNCHANGED <<lag, target, count, jobVars, dataVars, read, faults, stale, ghosts>>

(* Kopia writes over whatever the volume holds.                            *)
CreateJob(r) ==
    /\ pc[r] = "create"
    /\ job' = Set(job, r, [state |-> "running", run |-> id[r]])
    /\ ran' = [ran EXCEPT ![r] = @ \cup {id[r]}]
    /\ overwritten' = IF deploy[r] = "none" THEN overwritten ELSE overwritten \cup {r}
    /\ id' = Set(id, r, NoRun)
    /\ Goto(r, "idle")
    /\ NoWrite
    /\ UNCHANGED <<lag, target, stale, count, minted, detect, migration, dataVars, read, faults, reports, swept>>

(* The version comes from the pod's termination message, if it is there.   *)
JobSucceeded(r) ==
    /\ In(r, {"Restoring"}) /\ job[r].state = "succeeded"
    /\ \/ /\ Write(r, [status[r] EXCEPT !.phase = "Ready", !.version = TRUE])
          /\ UNCHANGED faults
       \/ SetPhase(r, "Ready") /\ Fault
    /\ Goto(r, "delete")
    /\ PassFrame /\ UNCHANGED <<count, minted, jobVars, dataVars, read, ghosts>>

DeleteJob(r) ==
    /\ pc[r] = "delete"
    /\ \/ job' = Set(job, r, NoJob) /\ UNCHANGED faults
       \/ Fault /\ UNCHANGED job
    /\ Goto(r, "idle")
    /\ NoWrite /\ PassFrame
    /\ UNCHANGED <<count, minted, detect, migration, dataVars, read, ghosts>>

(* More pods failed than the backoff limit: the Job is given up.  One that *)
(* ran into its deadline with fewer failed pods reads as still running.    *)
JobFailed(r) ==
    /\ In(r, {"Restoring"}) /\ job[r].state # "none"
    /\ job[r].state # "succeeded"
    /\ Goto(r, IF job[r].state = "failed" THEN "fail" ELSE "idle")
    /\ NoWrite /\ PassFrame
    /\ UNCHANGED <<count, minted, jobVars, dataVars, read, faults, ghosts>>

-----------------------------------------------------------------------------
(* fail_restore                                                            *)

(* Mutant: a status patch that fails does not end the pass.               *)
MarkFailed_ErrorIgnored(r) ==
    /\ pc[r] = "fail"
    /\ (SetPhase(r, "Failed") /\ UNCHANGED faults) \/ (Fault /\ NoWrite)
    /\ Goto(r, "count")
    /\ PassFrame /\ UNCHANGED <<count, minted, jobVars, dataVars, read, ghosts>>

MarkFailed(r) ==
    /\ pc[r] = "fail"
    /\ SetPhase(r, "Failed")
    /\ Goto(r, "count")
    /\ PassFrame /\ UNCHANGED <<count, minted, jobVars, dataVars, read, faults, ghosts>>

ReadCount(r) ==
    /\ pc[r] = "count"
    /\ \/ read' = Set(read, r, count) /\ Goto(r, "book") /\ UNCHANGED faults
       \/ Fault /\ Goto(r, "report") /\ UNCHANGED read
    /\ NoWrite /\ PassFrame
    /\ UNCHANGED <<count, minted, jobVars, dataVars, ghosts>>

BookFailure(r) ==
    /\ pc[r] = "book"
    /\ \/ read[r] < MaxRuns /\ count' = read[r] + 1 /\ UNCHANGED faults
       \/ Fault /\ UNCHANGED count
    /\ read' = Set(read, r, 0)
    /\ Goto(r, "report")
    /\ NoWrite /\ PassFrame
    /\ UNCHANGED <<minted, jobVars, dataVars, ghosts>>

(* A restore that came up with postgres' own databases only is a failure,  *)
(* when the database answers.                                              *)
verdict(r, outcome) ==
    IF outcome = "success" /\ r \in Hollow /\ deploy[r] = "ready" THEN "failure" ELSE outcome

run_id_from_status(r) == status[r].run

(* The migration goes into the report of an upgrade as long as its target  *)
(* is in the spec.                                                         *)
migration_for(r) == IF r \in target THEN status[r].result ELSE NoResult

(* The identity labels are gone from the replica and its namespace, or the *)
(* call fails: either is only logged.                                      *)
ReportLost == Fault /\ UNCHANGED reports

(* verification::report, of the restore as it is now.                      *)
Report(r, outcome) ==
    \/ /\ reports' = reports \cup {[restore |-> r, run |-> run_id_from_status(r),
                                    outcome |-> verdict(r, outcome), migration |-> migration_for(r)]}
       /\ UNCHANGED faults
    \/ ReportLost

ReportFailure(r) ==
    /\ pc[r] = "report"
    /\ Report(r, "failure")
    /\ Goto(r, "idle")
    /\ NoWrite /\ PassFrame
    /\ UNCHANGED <<count, minted, jobVars, dataVars, read, ran, overwritten, swept>>

-----------------------------------------------------------------------------
(* reconcile_ready                                                         *)

DetectVersion(r) ==
    /\ In(r, {"Ready"}) /\ ~Seen(r).version
    /\ detect' = Set(detect, r, CASE detect[r] = "none" -> "running"
                                  [] detect[r] \in {"succeeded", "silent", "failed"} -> "none"
                                  [] OTHER -> detect[r])
    /\ Goto(r, CASE detect[r] = "succeeded" -> "version"
                 [] detect[r] \in {"silent", "failed"} -> "fail"
                 [] OTHER -> "idle")
    /\ NoWrite /\ PassFrame
    /\ UNCHANGED <<count, minted, job, migration, dataVars, read, faults, ghosts>>

RecordVersion(r) ==
    /\ pc[r] = "version"
    /\ Write(r, [status[r] EXCEPT !.version = TRUE])
    /\ Goto(r, "idle")
    /\ PassFrame /\ UNCHANGED <<count, minted, jobVars, dataVars, read, faults, ghosts>>

(* The Service and the Deployment are applied, then the Deployment's own   *)
(* status decides: ready, past the budget, or neither.                     *)
ApplyDeployment(r) ==
    /\ In(r, {"Ready"}) /\ Seen(r).version
    /\ deploy' = Set(deploy, r, IF deploy[r] = "none" THEN "starting" ELSE deploy[r])
    /\ \/ /\ deploy[r] = "ready"
          /\ SetPhase(r, IF r \in target /\ Seen(r).result = NoResult THEN "Migrating" ELSE "Switching")
          /\ Goto(r, "idle")
       \/ deploy[r] # "ready" /\ NoWrite /\ Goto(r, IF r \in expired THEN "fail" ELSE "idle")
    /\ PassFrame
    /\ UNCHANGED <<count, minted, jobVars, expired, newest, read, faults, ghosts>>

-----------------------------------------------------------------------------
(* reconcile_migrating                                                     *)

Migrating(r) == In(r, {"Migrating"}) /\ r \in target /\ deploy[r] = "ready"

(* Mutant: the withdrawn target sends the restore back too far.           *)
TargetGone_Restoring(r) ==
    /\ In(r, {"Migrating"}) /\ r \notin target
    /\ SetPhase(r, "Restoring")
    /\ Goto(r, "idle")
    /\ PassFrame /\ UNCHANGED <<count, minted, jobVars, dataVars, read, faults, ghosts>>

TargetGone(r) ==
    /\ In(r, {"Migrating"}) /\ r \notin target
    /\ SetPhase(r, "Ready")
    /\ Goto(r, "idle")
    /\ PassFrame /\ UNCHANGED <<count, minted, jobVars, dataVars, read, faults, ghosts>>

(* Without a connection the pass is an error, to be retried; a cluster     *)
(* without an application database fails the restore.                      *)
NoDatabase(r) ==
    /\ In(r, {"Migrating"}) /\ r \in target
    /\ deploy[r] = "ready" => r \in Hollow
    /\ Goto(r, IF deploy[r] = "ready" THEN "fail" ELSE "idle")
    /\ NoWrite /\ PassFrame
    /\ UNCHANGED <<count, minted, jobVars, dataVars, read, faults, ghosts>>

(* What logs.migrations of the restore's database ends with; nothing when  *)
(* there is no such table.                                                 *)
latest_batch_at(r) == newest[r]

(* Mutant: the baseline is never in the status.                           *)
RecordBaseline_Lost(r) ==
    /\ Migrating(r) /\ r \notin Hollow /\ migration[r] = "none"
    /\ NoWrite
    /\ Goto(r, "migrate")
    /\ PassFrame /\ UNCHANGED <<count, minted, jobVars, dataVars, read, faults, ghosts>>

(* The newest batch is in the status before the Job exists that could      *)
(* write another.                                                          *)
RecordBaseline(r) ==
    /\ Migrating(r) /\ r \notin Hollow /\ migration[r] = "none"
    /\ IF latest_batch_at(r) = NoBatch THEN NoWrite
       ELSE Write(r, [status[r] EXCEPT !.baseline = latest_batch_at(r)])
    /\ Goto(r, "migrate")
    /\ PassFrame /\ UNCHANGED <<count, minted, jobVars, dataVars, read, faults, ghosts>>

(* drop_pre_migrate_schemas and run_pre_migrate_sql, each on a connection  *)
(* of its own, then the Job; all of it runs again until the Job is there.  *)
CreateMigration(r) ==
    /\ pc[r] = "migrate"
    /\ migration' = Set(migration, r, IF deploy[r] = "ready" THEN "running" ELSE "none")
    /\ Goto(r, "idle")
    /\ NoWrite /\ PassFrame
    /\ UNCHANGED <<count, minted, job, detect, dataVars, read, faults, ghosts>>

(* read_result: the newest batch above the baseline the pass was handed.   *)
ReadResult(r) ==
    /\ Migrating(r) /\ r \notin Hollow /\ migration[r] # "none"
    /\ IF migration[r] = "running" THEN NoWrite
       ELSE Write(r, [status[r] EXCEPT !.phase = "Ready",
                        !.result = IF newest[r] > Seen(r).baseline
                                   THEN [is |-> "batch", batch |-> newest[r]]
                                   ELSE [is |-> "unknown", batch |-> NoBatch]])
    /\ Goto(r, "idle")
    /\ PassFrame /\ UNCHANGED <<count, minted, jobVars, dataVars, read, faults, ghosts>>

-----------------------------------------------------------------------------
(* The rest of the world                                                   *)

WorldFrame == UNCHANGED <<lag, minted, id, read, stale>>

(* The replica controller starts a restore when it sees none in progress;  *)
(* one whose phase is not written yet does not hold the next one back.     *)
RestoreCreated(r) ==
    /\ status[r].phase = "absent"
    /\ \A q \in Restores : status[q].phase \notin {"Pending", "Restoring", "Migrating", "Ready", "Switching"}
    /\ SetPhase(r, "none")
    /\ WorldFrame /\ UNCHANGED <<target, count, jobVars, dataVars, pc, faults, ghosts>>

TargetWithdrawn(r) ==
    /\ r \in target /\ status[r].phase = "Migrating"
    /\ target' = target \ {r}
    /\ NoWrite /\ WorldFrame /\ UNCHANGED <<count, jobVars, dataVars, pc, faults, ghosts>>

(* The switchover: the restore is live, the count is reset, and the        *)
(* outcome reported.                                                       *)
Switchover(r) ==
    /\ status[r].phase = "Switching"
    /\ SetPhase(r, "Active")
    /\ count' = 0
    /\ Report(r, "success")
    /\ WorldFrame /\ UNCHANGED <<target, jobVars, dataVars, pc, ran, overwritten, swept>>

(* A kopia Job runs to its end.                                            *)
KopiaEnds(r) ==
    /\ job[r].state = "running"
    /\ \/ /\ r \notin Slow /\ job' = [job EXCEPT ![r].state = "succeeded"]
          /\ UNCHANGED faults
       \/ r \notin Slow /\ job' = [job EXCEPT ![r].state = "failed"] /\ UNCHANGED faults
       \/ /\ job' = [job EXCEPT ![r].state = "deadline"]
          /\ IF r \in Slow THEN UNCHANGED faults ELSE Fault
    /\ NoWrite /\ WorldFrame
    /\ UNCHANGED <<target, count, detect, migration, deploy, expired, newest, pc, ghosts>>

DetectEnds(r) ==
    /\ detect[r] = "running"
    /\ \/ \E end \in {"succeeded", "silent", "failed"} : detect' = Set(detect, r, end) /\ UNCHANGED faults
       \/ detect' = Set(detect, r, "deadline") /\ Fault
    /\ NoWrite /\ WorldFrame
    /\ UNCHANGED <<target, count, job, migration, dataVars, pc, ghosts>>

(* ttlSecondsAfterFinished: a Job past its deadline goes without anybody   *)
(* having taken note of it; another only while the operator is away.       *)
JobExpires(r) ==
    /\ \/ /\ job[r].state \in {"succeeded", "failed", "deadline"}
          /\ IF job[r].state = "deadline" THEN UNCHANGED faults ELSE Fault
          /\ job' = Set(job, r, NoJob) /\ UNCHANGED detect
       \/ /\ detect[r] = "deadline" /\ UNCHANGED <<job, faults>>
          /\ detect' = Set(detect, r, "none")
    /\ NoWrite /\ WorldFrame /\ UNCHANGED <<target, count, migration, dataVars, pc, ghosts>>

(* The target version's migrations are logged as one batch, if they got    *)
(* that far; a Job that finds nothing to do logs none.                     *)
MigrationEnds(r) ==
    /\ migration[r] = "running"
    /\ \/ newest[r] = Source /\ newest' = Set(newest, r, Source + 1) /\ migration' = Set(migration, r, "succeeded")
       \/ newest[r] # Source /\ UNCHANGED newest /\ migration' = Set(migration, r, "succeeded")
       \/ newest' \in {newest, Set(newest, r, Source + 1)} /\ migration' = Set(migration, r, "failed")
    /\ NoWrite /\ WorldFrame
    /\ UNCHANGED <<target, count, job, detect, deploy, expired, pc, faults, ghosts>>

(* Postgres comes up, or never does; a pod that was up may be lost.        *)
DeploymentSettles(r) ==
    /\ \/ deploy[r] \in {"starting", "restarting"} /\ deploy' = Set(deploy, r, "ready")
       \/ deploy[r] = "starting" /\ deploy' = Set(deploy, r, "stuck")
    /\ NoWrite /\ WorldFrame
    /\ UNCHANGED <<target, count, jobVars, expired, newest, pc, faults, ghosts>>

PodLost(r) ==
    /\ deploy[r] = "ready" /\ Fault
    /\ deploy' = Set(deploy, r, "restarting")
    /\ NoWrite /\ WorldFrame
    /\ UNCHANGED <<target, count, jobVars, expired, newest, pc, ghosts>>

(* The readiness budget runs from the end of the restore, see module       *)
(* ReadinessWait; it matters only while the Deployment is not ready.       *)
BudgetPasses(r) ==
    /\ status[r].phase \in {"Ready", "Migrating"} /\ deploy[r] # "ready" /\ r \notin expired
    /\ expired' = expired \cup {r}
    /\ NoWrite /\ WorldFrame
    /\ UNCHANGED <<target, count, jobVars, deploy, newest, pc, faults, ghosts>>

(* The cache stops following a restore for a while.                        *)
CacheLags(r) ==
    /\ status[r].phase # "absent" /\ lag[r] = NoStatus /\ Fault
    /\ lag' = Set(lag, r, status[r]) /\ stale' = TRUE
    /\ NoWrite /\ UNCHANGED <<target, count, minted, jobVars, dataVars, pc, id, read, ghosts>>

CacheCatchesUp(r) ==
    /\ lag[r] # NoStatus
    /\ lag' = Set(lag, r, NoStatus)
    /\ NoWrite
    /\ UNCHANGED <<target, count, minted, jobVars, dataVars, pc, id, read, faults, stale, ghosts>>

(* After a restart everything is read anew.                                *)
OperatorDies ==
    /\ Fault
    /\ pc' = Each("idle") /\ id' = Each(NoRun) /\ read' = Each(0) /\ lag' = Each(NoStatus)
    /\ NoWrite /\ UNCHANGED <<target, count, minted, jobVars, dataVars, stale, ghosts>>

-----------------------------------------------------------------------------

Pass(r) ==
    \/ StampCreated(r) \/ CleanupPreviousJobs(r) \/ StartRestoring(r)
    \/ MintRunId(r) \/ CreateJob(r) \/ JobSucceeded(r) \/ DeleteJob(r) \/ JobFailed(r)
    \/ MarkFailed(r) \/ ReadCount(r) \/ BookFailure(r) \/ ReportFailure(r)
    \/ DetectVersion(r) \/ RecordVersion(r) \/ ApplyDeployment(r)
    \/ TargetGone(r) \/ NoDatabase(r) \/ RecordBaseline(r)
    \/ CreateMigration(r) \/ ReadResult(r)

(* What comes of itself in time.                                           *)
Settles(r) ==
    \/ KopiaEnds(r) \/ DetectEnds(r) \/ JobExpires(r) \/ MigrationEnds(r)
    \/ DeploymentSettles(r) \/ BudgetPasses(r)

World(r) ==
    \/ RestoreCreated(r) \/ TargetWithdrawn(r) \/ Switchover(r)
    \/ Settles(r) \/ PodLost(r) \/ CacheLags(r) \/ CacheCatchesUp(r)

Next == (\E r \in Restores : Pass(r) \/ World(r)) \/ OperatorDies

Spec == Init /\ [][Next]_vars

(* A restore is reconciled again and again; Jobs and pods come to an end   *)
(* of their own, the budget runs out, and the cache catches up.            *)
Fairness ==
    \A r \in Restores : WF_vars(Pass(r)) /\ WF_vars(Settles(r)) /\ WF_vars(CacheCatchesUp(r))

FairSpec == Spec /\ Fairness

-----------------------------------------------------------------------------
(* What holds                                                              *)

(* Every report names the run id that a kopia Job of the restore carried,  *)
(* through crashes between minting, Job creation, failure and report, as   *)
(* long as the cache does not lag (reconcile_restoring,                    *)
(* run_id_from_status).                                                    *)
ReportNamesRun == ~stale => \A rep \in reports : rep.run \in ran[rep.restore]

ReportsOf(r) == {rep \in reports : rep.restore = r}

(* However often the operator dies, a restore has one outcome: it is never *)
(* reported both ways, a failure is never counted twice, and without a     *)
(* fault the outcome of a restore that ended has been reported             *)
(* (fail_restore: the phase is written first; verification::report).       *)
AccountedOnce ==
    ~stale =>
        /\ \A r \in Restores : Cardinality(ReportsOf(r)) <= 1
        /\ count <= Cardinality({r \in Restores : status[r].phase = "Failed"})
        /\ \A r \in Restores :
            faults = 0 /\ status[r].phase \in {"Active", "Failed"} /\ pc[r] = "idle" => ReportsOf(r) # {}

(* Kopia never writes to a volume that postgres has opened, as long as no  *)
(* pass is handed a restore that is behind: the Job that succeeded is      *)
(* deleted only once the restore has left Restoring (reconcile_restoring). *)
NotOverwritten == ~stale => overwritten = {}

(* A migration result, in the status or in a report, never names a batch   *)
(* of the backup's own history, and names the batch its Job wrote, unless  *)
(* another restore's cleanup removed the Job on the way (migrationBaseline,*)
(* read_result, migration_for).                                            *)
MigrationAttributed ==
    ~stale => \A r \in Restores :
        /\ \A rep \in ReportsOf(r) : rep.migration.is = "batch" => rep.migration.batch > Source
        /\ status[r].result.is = "batch" => status[r].result.batch > Source
        /\ status[r].result.is = "unknown" /\ r \notin swept => newest[r] = Source

-----------------------------------------------------------------------------
(* What the repository says and the code does not do.                      *)

Ended(r) == status[r].phase \in {"Switching", "Active", "Failed"}

(* Canopy dispatches an entry, pgro reports the outcome, and canopy closes *)
(* the loop (canopy/verification.rs:3-6): a restore that was started comes *)
(* to a terminal transition.                                               *)
RunEnds == \A r \in Restores : status[r].phase = "Pending" ~> Ended(r)

=============================================================================
