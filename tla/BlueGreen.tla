------------------------------ MODULE BlueGreen ------------------------------
(***************************************************************************)
(* One replica under both controllers, with the Jobs they start, the clock,*)
(* the kopia repository, and whoever deletes restores by hand.             *)
(***************************************************************************)
EXTENDS RestoreController, ReplicaController

-----------------------------------------------------------------------------
(* The environment                                                         *)

EnvFrame ==
    UNCHANGED <<snap, migrated, created, selector, booking, pc, loc, faults, redacted, reported>>

(* The Job lists the repository, posts what it found, and completes.       *)
SnapshotJobSucceeds ==
    /\ snapJob = "Active" /\ newest # NoSnapshot
    /\ snapJob' = "Succeeded"
    /\ results' = newest
    /\ EnvFrame
    /\ UNCHANGED <<phase, status, migJob, newest, removed, carried>>

SnapshotJobFails ==
    /\ snapJob = "Active"
    /\ snapJob' = "Failed"
    /\ EnvFrame
    /\ UNCHANGED <<phase, status, migJob, results, newest, removed, carried>>

(* ttlSecondsAfterFinished of a failed snapshot-list Job.                  *)
SnapshotJobExpires ==
    /\ snapJob = "Failed"
    /\ snapJob' = "none"
    /\ EnvFrame
    /\ UNCHANGED <<phase, status, migJob, results, newest, removed, carried>>

(* pg_dump | psql from one restore into the other.                         *)
MigrationJobSucceeds ==
    /\ migJob.state = "Active"
    /\ migJob' = [migJob EXCEPT !.state = "Succeeded"]
    /\ carried' = carried \cup {<<migJob.from, migJob.to>>}
    /\ EnvFrame
    /\ UNCHANGED <<phase, status, snapJob, results, newest, removed>>

MigrationJobFails ==
    /\ migJob.state = "Active"
    /\ migJob' = [migJob EXCEPT !.state = "Failed"]
    /\ EnvFrame
    /\ UNCHANGED <<phase, status, snapJob, results, newest, removed, carried>>

GraceElapses ==
    /\ status.completed = "inGrace"
    /\ status' = [status EXCEPT !.completed = "pastGrace"]
    /\ EnvFrame
    /\ UNCHANGED <<phase, jobVars, newest, removed, carried>>

ScheduleFires ==
    /\ ~status.due
    /\ status' = [status EXCEPT !.due = TRUE]
    /\ EnvFrame
    /\ UNCHANGED <<phase, jobVars, newest, removed, carried>>

SnapshotTaken ==
    /\ newest < MaxSnapshots
    /\ newest' = newest + 1
    /\ EnvFrame
    /\ UNCHANGED <<phase, status, jobVars, removed, carried>>

(* The canopy syncer offers the newest snapshot.                           *)
SnapshotOffered ==
    /\ Canopy /\ status.desired # newest
    /\ status' = [status EXCEPT !.desired = newest]
    /\ EnvFrame
    /\ UNCHANGED <<phase, jobVars, newest, removed, carried>>

DeletedByHand(i) ==
    /\ phase[i] # "absent"
    /\ Cardinality(removed) < MaxDeletes
    /\ phase' = [phase EXCEPT ![i] = "absent"]
    /\ removed' = removed \cup {i}
    /\ EnvFrame
    /\ UNCHANGED <<status, jobVars, newest, carried>>

Environment ==
    \/ SnapshotJobSucceeds \/ SnapshotJobFails \/ SnapshotJobExpires
    \/ MigrationJobSucceeds \/ MigrationJobFails
    \/ GraceElapses \/ ScheduleFires \/ SnapshotTaken \/ SnapshotOffered
    \/ \E i \in Ids : DeletedByHand(i)

Next == ReplicaNext \/ RestoreNext \/ CallFails \/ OperatorRestarts \/ Environment

Spec == Init /\ [][Next]_vars

(* What liveness rests on.  The controllers requeue every object they      *)
(* reconcile, so a pass that can go on does, restores go on as long as any *)
(* can, and the grace period elapses (weak fairness).  The gates of a      *)
(* switchover may hold it and are tried again: what is tried for ever      *)
(* succeeds at last (strong fairness), which is what the code counts on    *)
(* when it retries what it takes for transient failures.                   *)
Fairness ==
    /\ WF_vars(ReplicaNext)
    /\ WF_vars(RestoreNext)
    /\ WF_vars(GraceElapses)
    /\ SF_vars(MigrationStarts \/ NothingToCarry)
    /\ SF_vars(MigrationJobSucceeds)
    /\ SF_vars(RedactionFinishes \/ GatesPass)

FairSpec == Spec /\ Fairness

-----------------------------------------------------------------------------
(* Safety                                                                  *)

(* The restore status.currentRestore names is Active, unless somebody      *)
(* deleted it by hand, however many calls failed or restarts came in       *)
(* between: the sweep, the teardown and the switchover never leave the     *)
(* pointer dangling (replica.rs, switchover and sweep blocks).             *)
CurrentIsActive ==
    status.current # NoRestore =>
        phase[status.current] = "Active" \/ status.current \in removed

(* The restore the Service selects is up.                                  *)
ServedIsUp ==
    selector # NoRestore =>
        phase[selector] \in {"Switching", "Active"} \/ selector \in removed

(* As long as no call has failed and the operator has not been restarted,  *)
(* a kept replica's Service selects a restore that is up: the sweep of     *)
(* another pass never takes it away (replica.rs, update_service_selector   *)
(* against the sweep).                                                     *)
ServedIsUpUnlessFault == faults = 0 /\ ~Ephemeral => ServedIsUp

(* A replica never has more live restores than MAX_RESTORES_PER_REPLICA,   *)
(* whatever fails: the guardrail of create_restore_for_snapshot counts     *)
(* what is there when it creates, not what the pass listed.                *)
LiveRestoresBounded == Cardinality(Live(phase)) <= LiveLimit

(* No two live restores work on the same snapshot, although the pass that  *)
(* creates one decides on a list as old as its start                       *)
(* (snapshot_already_covered).                                             *)
OneRestorePerSnapshot ==
    \A i, j \in Live(phase) : snap[i] = snap[j] => i = j

(* While the schema migration Job runs, the restore it dumps from stays,   *)
(* unless a call failed or it was deleted by hand: the switchover does not *)
(* go past a running Job and the sweep does not delete its source.         *)
MigrationSourceKept ==
    faults = 0 /\ migJob.state = "Active" =>
        phase[migJob.from] = "Active" \/ migJob.from \in removed

(* A failed redaction, or one cut short by a crash, holds the switchover:  *)
(* the Service never moves on any recorded phase but done                  *)
(* (reconcile_redaction_step).                                             *)
FailedRedactionHolds ==
    [][Redaction /\ selector' # selector => status.redaction = "done"]_vars

(* A failed schema migration, or one still running, holds the switchover   *)
(* (reconcile_schema_migration).                                           *)
FailedMigrationHolds ==
    [][PersistentSchemas /\ selector' # selector
         => status.migration \notin {"active", "failed"}]_vars

(* No restore is created for the snapshot the verified marker names, even  *)
(* when a crash falls between the marker and the delete of the restore     *)
(* (ephemeral teardown, snapshot_already_covered).                         *)
VerifiedNotRepeated ==
    [][created' # created => snap'[created'] # status.verified]_vars

TornDown(i) == Ephemeral /\ phase[i] = "Active" /\ phase'[i] = "absent" /\ i \notin removed'

(* As long as nothing failed, an ephemeral restore is torn down only after *)
(* its verification was reported to canopy.                                *)
ReportedUnlessFault ==
    [][faults' = 0 => \A i \in Ids : TornDown(i) => i \in reported]_vars

-----------------------------------------------------------------------------
(* What the repository says and the code does not do.                      *)

(* An unredacted restore is never made live (README.md:176).               *)
RedactedWhenServed == Redaction /\ selector # NoRestore => selector \in redacted

(* The schemas are migrated from the previous restore to the new one on    *)
(* each switchover (README.md:113).                                        *)
SchemasCarried ==
    [][PersistentSchemas /\ selector' # selector /\ selector # NoRestore
         => <<selector, selector'>> \in carried]_vars

-----------------------------------------------------------------------------
(* Liveness                                                                *)

Settled ==
    /\ \A i \in Ids : phase[i] \in {"absent", "Active", "Failed"}
    /\ status.current # NoRestore => InPhase(phase, "Active") \subseteq {status.current}

(* Once the snapshots and the faults stop coming, every restore is live,   *)
(* failed or gone and the current one is the only Active one: no crash     *)
(* leaves a restore half way or blocks the sweep for good                  *)
(* (docs/plans/restore-prune-fix.md, goal 2; the sweep of replica.rs).     *)
Converges == []<>Settled

-----------------------------------------------------------------------------
(* What a kept replica promises its clients, see module ServedDatabase.    *)
(* From the moment the selector moves until the switchover is recorded,    *)
(* status.completed still tells of the switchover before.                  *)
Promise == INSTANCE ServedDatabase WITH
    Restores <- Ids,
    up       <- {i \in Ids : phase[i] \in {"Switching", "Active"}},
    served   <- selector,
    settled  <- status.completed = "pastGrace" /\ pc \notin {"activate", "record"}

(* Without faults and deletions by hand, a kept replica never leaves its   *)
(* clients without a database, and keeps what it replaced for the grace    *)
(* period.                                                                 *)
KeepsPromise == Promise!Spec

=============================================================================
