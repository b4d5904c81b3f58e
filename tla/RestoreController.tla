-------------------------- MODULE RestoreController --------------------------
(***************************************************************************)
(* controllers::restore: what each reconcile of a restore does to its      *)
(* status.  The controller runs at most one reconcile per restore, and the *)
(* phase it dispatches on only changes by its own hand until the restore   *)
(* is Switching, so a pass is one action per status write.                 *)
(***************************************************************************)
EXTENDS Cluster

SetPhase(i, p) == phase' = [phase EXCEPT ![i] = p]

RestoreFrame == UNCHANGED <<snap, created, selector, jobVars, pc, loc, newest, removed, ghosts>>

(* reconcile_pending: stamp createdAt, then, with the PVCs ensured, hand   *)
(* over to the restore Job without waiting for them to bind.               *)
ReconcileCreated(i) ==
    /\ phase[i] = "none"
    /\ SetPhase(i, "Pending")
    /\ RestoreFrame
    /\ UNCHANGED <<migrated, status, booking, faults>>

(* cleanup_previous_jobs takes every other Job of the replica along, also  *)
(* a running one of the snapshot list or of the schema migration; a delete *)
(* that fails is only logged.                                              *)
ReconcilePending(i) ==
    /\ phase[i] = "Pending"
    /\ SetPhase(i, "Restoring")
    /\ \/ migJob' = NoMigJob /\ snapJob' = "none" /\ UNCHANGED faults
       \/ /\ migJob # NoMigJob \/ snapJob # "none"
          /\ faults < MaxFaults /\ faults' = faults + 1 /\ UNCHANGED <<migJob, snapJob>>
    /\ UNCHANGED <<snap, created, migrated, status, booking>>
    /\ UNCHANGED <<selector, results, pc, loc, newest, removed, ghosts>>

(* reconcile_restoring: the kopia Job succeeded.                           *)
ReconcileRestoring(i) ==
    /\ phase[i] = "Restoring"
    /\ SetPhase(i, "Ready")
    /\ RestoreFrame
    /\ UNCHANGED <<migrated, status, booking, faults>>

(* reconcile_ready with the Deployment ready: a migration target that has  *)
(* not been tried sends the restore to Migrating, otherwise it is handed   *)
(* to the replica controller as Switching.                                 *)
ReadyToMigrate(i) ==
    /\ phase[i] = "Ready"
    /\ MigrateTo /\ i \notin migrated
    /\ SetPhase(i, "Migrating")
    /\ RestoreFrame
    /\ UNCHANGED <<migrated, status, booking, faults>>

ReadyToSwitch(i) ==
    /\ phase[i] = "Ready"
    /\ MigrateTo => i \in migrated
    /\ SetPhase(i, "Switching")
    /\ RestoreFrame
    /\ UNCHANGED <<migrated, status, booking, faults>>

(* reconcile_migrating: the Job finished, well or badly; its result is     *)
(* recorded and the restore goes back to Ready.                            *)
ReconcileMigrating(i) ==
    /\ phase[i] = "Migrating"
    /\ SetPhase(i, "Ready")
    /\ migrated' = migrated \cup {i}
    /\ RestoreFrame
    /\ UNCHANGED <<status, booking, faults>>

(* fail_restore, from any of its callers: the Job's backoff is exhausted,  *)
(* the version cannot be detected, the Deployment is not ready in time, or *)
(* there is no database to migrate.  The failure count and the backoff are *)
(* booked on the replica by a second write, whose failure is only logged.  *)
MayFail == {"Restoring", "Ready", "Migrating"}

(* Mutant: the phase string of the status patch is misspelt.               *)
fail_restore_Misspelt(i) ==
    /\ phase[i] \in MayFail
    /\ SetPhase(i, "failed")
    /\ booking' = booking \cup {i}
    /\ RestoreFrame
    /\ UNCHANGED <<migrated, status, faults>>

fail_restore(i) ==
    /\ phase[i] \in MayFail
    /\ SetPhase(i, "Failed")
    /\ booking' = booking \cup {i}
    /\ RestoreFrame
    /\ UNCHANGED <<migrated, status, faults>>

FailureBooked(i) ==
    /\ i \in booking
    /\ booking' = booking \ {i}
    /\ \/ /\ status' = [status EXCEPT !.failing = TRUE, !.due = FALSE]
          /\ UNCHANGED faults
       \/ /\ faults < MaxFaults
          /\ faults' = faults + 1
          /\ UNCHANGED status
    /\ RestoreFrame
    /\ UNCHANGED <<phase, migrated>>

RestoreProgress(i) ==
    \/ ReconcileCreated(i) \/ ReconcilePending(i) \/ ReconcileRestoring(i)
    \/ ReadyToMigrate(i) \/ ReadyToSwitch(i) \/ ReconcileMigrating(i)
    \/ fail_restore(i) \/ FailureBooked(i)

RestoreNext == \E i \in Ids : RestoreProgress(i)

=============================================================================
