-------------------------- MODULE ReplicaController --------------------------
(***************************************************************************)
(* controllers::replica::reconcile, one pass of which runs at a time for a *)
(* replica.  A pass is handed the replica's status, lists the restores and *)
(* then goes on with those two snapshots while the restore controller, the *)
(* Jobs and the clock move under it: every API write is an action of its   *)
(* own, and between two of them the operator can crash or the call fail.   *)
(***************************************************************************)
EXTENDS Cluster

st == loc.st                                    \* the status this pass was handed
switching == First(InPhase(loc.ph, "Switching"))
active == First(InPhase(loc.ph, "Active"))

Goto(p) == pc' = p /\ UNCHANGED loc
Requeue == pc' = "idle" /\ loc' = NoLoc

At(p) == pc = p /\ UNCHANGED <<migrated, booking, newest, removed>>

(* A delete whose error the code only logs: it works, or fails as a fault. *)
Works == UNCHANGED faults
ApiError == faults < MaxFaults /\ faults' = faults + 1

-----------------------------------------------------------------------------
(* The start of a pass, and where its early returns send it.               *)

FirstGate == IF Redaction THEN "redact" ELSE IF PersistentSchemas THEN "migrate" ELSE "gates"
AfterRedaction == IF PersistentSchemas THEN "migrate" ELSE "gates"

Reconcile ==
    /\ At("idle")
    /\ loc' = [NoLoc EXCEPT !.st = status, !.ph = phase]
    /\ pc' = IF InPhase(phase, "Switching") # {} THEN FirstGate
             ELSE IF Ephemeral /\ InPhase(phase, "Active") # {} THEN "teardown"
             ELSE "sweep"
    /\ UNCHANGED <<phase, snap, created, status, selector, jobVars, faults, ghosts>>

-----------------------------------------------------------------------------
(* reconcile_redaction_step                                                *)

RedactionFrame ==
    UNCHANGED <<phase, snap, created, selector, jobVars, faults, carried, reported>>

(* is_done: the phase recorded on the replica stands for the restore.      *)
RedactionIsDone(s) == s.redaction = "done"

RedactionAlreadyDone ==
    /\ At("redact")
    /\ RedactionIsDone(st)
    /\ Goto(AfterRedaction)
    /\ RedactionFrame
    /\ UNCHANGED <<status, redacted>>

RedactionBegins ==
    /\ At("redact")
    /\ ~RedactionIsDone(st)
    /\ status' = [status EXCEPT !.redaction = "active"]
    /\ Goto("redacting")
    /\ RedactionFrame
    /\ UNCHANGED redacted

RedactionFinishes ==
    /\ At("redacting")
    /\ redacted' = redacted \cup {switching}
    /\ status' = [status EXCEPT !.redaction = "done"]
    /\ Goto(AfterRedaction)
    /\ RedactionFrame

(* Mutant: a failed redaction lets the switchover go on.                   *)
RedactionFails_Open ==
    /\ At("redacting")
    /\ status' = [status EXCEPT !.redaction = "failed"]
    /\ Goto(AfterRedaction)
    /\ RedactionFrame
    /\ UNCHANGED redacted

RedactionFails ==
    /\ At("redacting")
    /\ status' = [status EXCEPT !.redaction = "failed"]
    /\ Requeue
    /\ RedactionFrame
    /\ UNCHANGED redacted

RedactionStep ==
    \/ RedactionAlreadyDone \/ RedactionBegins \/ RedactionFinishes \/ RedactionFails

-----------------------------------------------------------------------------
(* reconcile_schema_migration                                              *)

MigrationFrame ==
    UNCHANGED <<phase, snap, created, selector, snapJob, results, redacted, reported>>

MigrationComplete(s) == s.migration = "complete"

(* No restore to carry from, or a migration recorded as complete.          *)
MigrationNotNeeded ==
    /\ At("migrate")
    /\ active = NoRestore \/ MigrationComplete(st)
    /\ Goto("gates")
    /\ MigrationFrame
    /\ UNCHANGED <<status, migJob, faults, carried>>

(* The migration has to be looked at: the Job is in the given state.       *)
MigrationWith(state) ==
    /\ At("migrate")
    /\ active # NoRestore /\ ~MigrationComplete(st)
    /\ migJob.state = state
    /\ MigrationFrame

MigrationRuns ==
    /\ MigrationWith("Active")
    /\ Requeue
    /\ UNCHANGED <<status, migJob, faults, carried>>

(* Mutant: the Job that ran out of time is left running.                   *)
MigrationOverBudget_KeepsJob ==
    /\ MigrationWith("Active")
    /\ Goto("migSkip")
    /\ UNCHANGED <<status, migJob, faults, carried>>

(* timeout_schema_migration: give the migration up, delete the Job, drop   *)
(* what it wrote and let the switchover go on.                             *)
MigrationOverBudget ==
    /\ MigrationWith("Active")
    /\ \/ Works /\ migJob' = NoMigJob
       \/ ApiError /\ UNCHANGED migJob
    /\ Goto("migSkip")
    /\ UNCHANGED <<status, carried>>

MigrationSkipped ==
    /\ At("migSkip")
    /\ status' = [status EXCEPT !.migration = "skipped"]
    /\ carried' = carried \cup {<<active, switching>>}
    /\ Goto("gates")
    /\ MigrationFrame
    /\ UNCHANGED <<migJob, faults>>

MigrationSucceeded ==
    /\ MigrationWith("Succeeded")
    /\ \E outcome \in {"complete", "partial"} :
          status' = [status EXCEPT !.migration = outcome]
    /\ Goto("migClean")
    /\ UNCHANGED <<migJob, faults, carried>>

MigrationCleanup ==
    /\ At("migClean")
    /\ \/ Works /\ migJob' = NoMigJob
       \/ ApiError /\ UNCHANGED migJob
    /\ Goto("gates")
    /\ MigrationFrame
    /\ UNCHANGED <<status, carried>>

MigrationFailed ==
    /\ MigrationWith("Failed")
    /\ \/ Works /\ migJob' = NoMigJob
       \/ ApiError /\ UNCHANGED migJob
    /\ Goto("migFail")
    /\ UNCHANGED <<status, carried>>

(* Mutant: a failed migration lets the switchover go on.                   *)
MigrationFailureRecorded_Open ==
    /\ At("migFail")
    /\ status' = [status EXCEPT !.migration = "failed"]
    /\ Goto("gates")
    /\ MigrationFrame
    /\ UNCHANGED <<migJob, faults, carried>>

MigrationFailureRecorded ==
    /\ At("migFail")
    /\ status' = [status EXCEPT !.migration = "failed"]
    /\ Requeue
    /\ MigrationFrame
    /\ UNCHANGED <<migJob, faults, carried>>

(* No Job and none of the schemas exists on the source.                    *)
NothingToCarry ==
    /\ MigrationWith("none")
    /\ status' = [status EXCEPT !.migration = "complete"]
    /\ carried' = carried \cup {<<active, switching>>}
    /\ Goto("gates")
    /\ UNCHANGED <<migJob, faults>>

(* No Job: one of the two databases refuses the operator's credentials, a  *)
(* credential reset is under way and the pass returns.                     *)
CredentialReset ==
    /\ MigrationWith("none")
    /\ Requeue
    /\ UNCHANGED <<status, migJob, faults, carried>>

MigrationStarts ==
    /\ MigrationWith("none")
    /\ migJob' = [state |-> "Active", from |-> active, to |-> switching]
    /\ Goto("migMark")
    /\ UNCHANGED <<status, faults, carried>>

MigrationMarked ==
    /\ At("migMark")
    /\ status' = [status EXCEPT !.migration = "active"]
    /\ Requeue
    /\ MigrationFrame
    /\ UNCHANGED <<migJob, faults, carried>>

MigrationStep ==
    \/ MigrationNotNeeded \/ MigrationRuns \/ MigrationOverBudget \/ MigrationSkipped
    \/ MigrationSucceeded \/ MigrationCleanup \/ MigrationFailed \/ MigrationFailureRecorded
    \/ NothingToCarry \/ CredentialReset \/ MigrationStarts \/ MigrationMarked

-----------------------------------------------------------------------------
(* The last gates (the reporting schema build and the extra users' grants, *)
(* of which only "hold" and "pass" is kept) and the switchover itself.     *)

SwitchFrame == UNCHANGED <<snap, created, jobVars, faults, redacted, carried>>

GatesHold ==
    /\ At("gates")
    /\ Requeue
    /\ SwitchFrame
    /\ UNCHANGED <<phase, status, selector, reported>>

GatesPass ==
    /\ At("gates")
    /\ Goto("selector")
    /\ SwitchFrame
    /\ UNCHANGED <<phase, status, selector, reported>>

SelectorMoves ==
    /\ At("selector")
    /\ selector' = switching
    /\ Goto("activate")
    /\ SwitchFrame
    /\ UNCHANGED <<phase, status, reported>>

(* The phase patch fails on a restore that is gone.                        *)
RestoreActivated ==
    /\ At("activate")
    /\ IF phase[switching] = "absent"
       THEN Requeue /\ UNCHANGED phase
       ELSE Goto("record") /\ phase' = [phase EXCEPT ![switching] = "Active"]
    /\ SwitchFrame
    /\ UNCHANGED <<status, selector, reported>>

(* Mutant: the pass returns before it reports.                             *)
StatusRecorded_ReturnsEarly ==
    /\ At("record")
    /\ status' = [status EXCEPT !.current = switching,
                                !.completed = "inGrace", !.failing = FALSE]
    /\ Requeue
    /\ SwitchFrame
    /\ UNCHANGED <<phase, selector, reported>>

StatusRecorded ==
    /\ At("record")
    /\ status' = [status EXCEPT !.current = switching,
                                !.completed = "inGrace", !.failing = FALSE]
    /\ Goto("report")
    /\ SwitchFrame
    /\ UNCHANGED <<phase, selector, reported>>

(* Mark the outgoing database, notify, report the verification to canopy.  *)
SwitchoverReported ==
    /\ At("report")
    /\ reported' = reported \cup {switching}
    /\ Requeue
    /\ SwitchFrame
    /\ UNCHANGED <<phase, status, selector>>

SwitchoverStep ==
    \/ GatesHold \/ GatesPass \/ SelectorMoves \/ RestoreActivated
    \/ StatusRecorded \/ SwitchoverReported

-----------------------------------------------------------------------------
(* Ephemeral teardown: the marker first, then the delete.                  *)

CleanFrame == UNCHANGED <<snap, created, selector, jobVars, ghosts>>

TeardownRecorded ==
    /\ At("teardown")
    /\ status' = [status EXCEPT !.verified = snap[active], !.current = NoRestore]
    /\ Goto("teardownDelete")
    /\ CleanFrame
    /\ UNCHANGED <<phase, faults>>

TeardownDeletes ==
    /\ At("teardownDelete")
    /\ \/ Works /\ phase' = [phase EXCEPT ![active] = "absent"]
       \/ ApiError /\ UNCHANGED phase
    /\ Requeue
    /\ CleanFrame
    /\ UNCHANGED status

(* Mutants: the grace period is not waited for; the migration phases that  *)
(* allow a sweep are listed, and the list misses one.                      *)
SweepDue_IgnoresGrace ==
    /\ st.current # NoRestore
    /\ PersistentSchemas => st.migration # "active"
    /\ st.redaction # "active"
    /\ loc.ph[st.current] = "Active"

SweepDue_AllowList ==
    /\ st.current # NoRestore
    /\ PersistentSchemas => st.migration \in {"complete", "partial"}
    /\ st.redaction # "active"
    /\ loc.ph[st.current] = "Active"
    /\ st.completed = "pastGrace"

(* The sweep of stale Active restores.                                     *)
SweepDue ==
    /\ st.current # NoRestore
    /\ PersistentSchemas => st.migration # "active"
    /\ st.redaction # "active"
    /\ loc.ph[st.current] = "Active"
    /\ st.completed = "pastGrace"

(* Mutants: the current restore is not left out; the oldest is kept.       *)
Stale_WithCurrent == InPhase(loc.ph, "Active")
Stale_KeepsOldest == InPhase(loc.ph, "Active") \ {active}

Stale == InPhase(loc.ph, "Active") \ {st.current}

SweepBegins ==
    /\ At("sweep")
    /\ IF SweepDue /\ Stale # {}
       THEN pc' = "sweeping" /\ loc' = [loc EXCEPT !.todo = Stale]
       ELSE Goto("failed")
    /\ CleanFrame
    /\ UNCHANGED <<phase, status, faults>>

(* One turn of the delete loop; a restore that is already gone is an error.*)
SweepDeletes ==
    /\ At("sweeping")
    /\ loc.todo # {}
    /\ LET i == First(loc.todo) IN
         \/ /\ Works
            /\ phase' = [phase EXCEPT ![i] = "absent"]
            /\ loc' = [loc EXCEPT !.todo = @ \ {i}, !.clean = @ /\ phase[i] # "absent"]
         \/ /\ ApiError
            /\ loc' = [loc EXCEPT !.todo = @ \ {i}, !.clean = FALSE]
            /\ UNCHANGED phase
    /\ UNCHANGED pc
    /\ CleanFrame
    /\ UNCHANGED status

SweepEnds ==
    /\ At("sweeping")
    /\ loc.todo = {}
    /\ status' = IF loc.clean
                 THEN [status EXCEPT !.migration = "unset", !.redaction = "unset"]
                 ELSE status
    /\ Goto("failed")
    /\ CleanFrame
    /\ UNCHANGED <<phase, faults>>

(* Failed restores older than five minutes, and those whose delete works.  *)
FailedCleanup ==
    /\ At("failed")
    /\ \E S \in SUBSET InPhase(loc.ph, "Failed") :
          phase' = [i \in Ids |-> IF i \in S THEN "absent" ELSE phase[i]]
    /\ Goto("snapshots")
    /\ CleanFrame
    /\ UNCHANGED <<status, faults>>

CleanupStep ==
    \/ TeardownRecorded \/ TeardownDeletes \/ SweepBegins \/ SweepDeletes
    \/ SweepEnds \/ FailedCleanup

-----------------------------------------------------------------------------
(* The snapshot-list Job, and the restore its result calls for.            *)

ListFrame == UNCHANGED <<status, selector, migJob, ghosts>>

SnapshotJobPending ==
    /\ At("snapshots")
    /\ \/ snapJob = "none" /\ Goto("decide")
       \/ snapJob = "Active" /\ Requeue
       \/ snapJob = "Failed" /\ pc' = "decide" /\ loc' = [loc EXCEPT !.hadJob = TRUE]
    /\ ListFrame
    /\ UNCHANGED <<phase, snap, created, snapJob, results, faults>>

(* The Job succeeded but its result is not in memory: wait, and after a    *)
(* minute delete the Job.                                                  *)
SnapshotResultMissing ==
    /\ At("snapshots")
    /\ snapJob = "Succeeded" /\ results = NoSnapshot
    /\ snapJob' \in {"Succeeded", "none"}
    /\ Requeue
    /\ ListFrame
    /\ UNCHANGED <<phase, snap, created, results, faults>>

(* Canopy names the snapshot, which must be in the list; otherwise it is   *)
(* the latest of the list.  Nothing may match, or the list not parse.      *)
Picked(list) ==
    LET p == IF Canopy THEN st.desired ELSE list
    IN  {NoSnapshot} \cup (IF p <= list THEN {p} ELSE {})

(* Mutants: only the active restore, or only the restores there are, count.*)
Covered_ByActive(s) ==
    \/ st.verified = s
    \/ \E i \in InPhase(loc.ph, "Active") : snap[i] = s

Covered_ByRestores(s) == \E i \in Live(loc.ph) : snap[i] = s

snapshot_already_covered(s) ==
    \/ st.verified = s
    \/ \E i \in Live(loc.ph) : snap[i] = s

SnapshotResultTaken ==
    /\ At("snapshots")
    /\ snapJob = "Succeeded" /\ results # NoSnapshot
    /\ results' = NoSnapshot
    /\ \/ Works /\ snapJob' = "none"
       \/ ApiError /\ UNCHANGED snapJob
    /\ \E s \in Picked(results) :
         /\ loc' = [loc EXCEPT !.hadJob = TRUE, !.pick = s]
         /\ pc' = IF s # NoSnapshot /\ ~snapshot_already_covered(s) THEN "create" ELSE "decide"
    /\ ListFrame
    /\ UNCHANGED <<phase, snap, created>>

(* Mutant: one restore too many is let through.                            *)
TooManyRestores_OffByOne == Cardinality(Live(phase)) > LiveLimit

(* create_restore_for_snapshot, with its guardrail on the live restores.   *)
TooManyRestores == Cardinality(Live(phase)) >= LiveLimit

RestoreCreated ==
    /\ At("create")
    /\ ~TooManyRestores
    /\ created < MaxRestores
    /\ created' = created + 1
    /\ phase' = [phase EXCEPT ![created + 1] = "none"]
    /\ snap' = [snap EXCEPT ![created + 1] = loc.pick]
    /\ Goto("decide")
    /\ ListFrame
    /\ UNCHANGED <<snapJob, results, faults>>

CreationRefused ==
    /\ At("create")
    /\ TooManyRestores \/ created = MaxRestores
    /\ Goto("decide")
    /\ ListFrame
    /\ UNCHANGED <<phase, snap, created, snapJob, results, faults>>

-----------------------------------------------------------------------------
(* Whether to look for a snapshot to restore.                              *)

restore_in_progress(p) == p \in {"Pending", "Restoring", "Migrating", "Ready"}

InProgress == \E i \in Ids : restore_in_progress(loc.ph[i])

backoff_pending == st.failing /\ ~st.due

never_restored ==
    active = NoRestore /\ st.completed = "never" /\ st.verified = NoSnapshot /\ ~backoff_pending

active_restore_deleted == active = NoRestore /\ st.current # NoRestore

canopy_desired_changed ==
    /\ Canopy /\ st.desired # NoSnapshot
    /\ st.desired # IF active # NoRestore THEN snap[active] ELSE st.verified

should_restore ==
    never_restored \/ active_restore_deleted \/ canopy_desired_changed \/ st.due

DecideFrame == UNCHANGED <<phase, snap, created, selector, migJob, results, faults, ghosts>>

WaitForRestore ==
    /\ At("decide")
    /\ InProgress
    /\ Requeue
    /\ DecideFrame
    /\ UNCHANGED <<status, snapJob>>

(* The restore queue (module RestoreQueue) may have no slot left.          *)
Queued ==
    /\ At("decide")
    /\ ~InProgress /\ should_restore /\ ~loc.hadJob
    /\ Requeue
    /\ DecideFrame
    /\ UNCHANGED <<status, snapJob>>

SnapshotJobCreated ==
    /\ At("decide")
    /\ ~InProgress /\ should_restore /\ ~loc.hadJob
    /\ snapJob' = "Active"
    /\ Requeue
    /\ DecideFrame
    /\ UNCHANGED status

(* Nothing (more) to do: a schedule that fired is advanced.                *)
PassEnds ==
    /\ At("decide")
    /\ ~InProgress /\ ~(should_restore /\ ~loc.hadJob)
    /\ status' = [status EXCEPT !.due = IF st.due THEN FALSE ELSE @]
    /\ Requeue
    /\ DecideFrame
    /\ UNCHANGED snapJob

RestoreStep ==
    \/ SnapshotJobPending \/ SnapshotResultMissing \/ SnapshotResultTaken
    \/ RestoreCreated \/ CreationRefused
    \/ WaitForRestore \/ Queued \/ SnapshotJobCreated \/ PassEnds

-----------------------------------------------------------------------------
(* An API call of the pass fails and `?` ends the pass.                    *)
CallFails ==
    /\ At(pc) /\ pc # "idle"
    /\ ApiError
    /\ Requeue
    /\ UNCHANGED <<phase, snap, created, status, selector, jobVars, ghosts>>

(* The operator is restarted, with or without a pass running: what it held *)
(* in memory is gone.                                                      *)
OperatorRestarts ==
    /\ ApiError
    /\ Requeue
    /\ results' = NoSnapshot
    /\ booking' = {}
    /\ UNCHANGED <<objects, status, selector, migJob, snapJob, newest, removed, ghosts>>

ReplicaNext ==
    \/ Reconcile \/ RedactionStep \/ MigrationStep \/ SwitchoverStep
    \/ CleanupStep \/ RestoreStep

=============================================================================
