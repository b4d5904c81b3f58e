------------------------------ MODULE Cluster ------------------------------
(***************************************************************************)
(* What the operator keeps in the Kubernetes API for ONE                   *)
(* PostgresPhysicalReplica, and what it keeps in memory about it.          *)
(*                                                                         *)
(* A restore object is a number: the i-th restore created.  The operator   *)
(* names restores after their creation time, so the API server lists them  *)
(* in creation order and "the first restore that ..." of the code is the   *)
(* smallest number.                                                        *)
(***************************************************************************)
EXTENDS Integers, FiniteSets

CONSTANTS
    MaxRestores,        \* bound: restores created in a behaviour
    MaxSnapshots,       \* bound: snapshots the kopia repository ever holds
    MaxFaults,          \* bound: operator crashes and failed API calls
    MaxDeletes,         \* bound: restores deleted by hand
    LiveLimit,          \* MAX_RESTORES_PER_REPLICA, 3 in the code
    Redaction,          \* spec.redaction is set
    PersistentSchemas,  \* spec.persistentSchemas is set and not empty
    Ephemeral,          \* spec.ephemeral
    Canopy,             \* spec.canopySource is set
    MigrateTo           \* spec.migrateTo is set

ASSUME BoundsAssumption ==
    /\ MaxRestores \in Nat
    /\ MaxSnapshots \in Nat
    /\ MaxFaults \in Nat
    /\ MaxDeletes \in Nat
    /\ LiveLimit \in Nat

ASSUME FlagsAssumption ==
    {Redaction, PersistentSchemas, Ephemeral, Canopy, MigrateTo} \subseteq BOOLEAN

Ids == 1..MaxRestores
NoRestore == 0              \* a null restore name
NoSnapshot == 0             \* a null snapshot id; snapshots are numbered by age

VARIABLES
    phase,      \* Ids -> the phase in each restore's status
    snap,       \* Ids -> the snapshot in each restore's spec
    migrated,   \* the restores with a migrationResult in their status
    created,    \* how many restores have been created
    status,     \* the replica's status
    selector,   \* the restore the replica's Service selects
    migJob,     \* the schema migration Job of the replica
    snapJob,    \* the snapshot-list Job of the replica
    results,    \* ctx.snapshot_results: the newest snapshot of the list posted
    booking,    \* the failed restores whose failure is still to be booked
    pc,         \* where the running replica reconcile is
    loc,        \* what it has read and decided so far
    newest,     \* the newest snapshot in the kopia repository
    faults,     \* faults so far
    removed,    \* the restores deleted by hand
    redacted,   \* ghost: the restores whose data redaction has rewritten
    carried,    \* ghost: <<old, new>> pairs whose schemas were dealt with
    reported    \* ghost: the restores reported verified to canopy

objects == <<phase, snap, migrated, created>>
jobVars == <<migJob, snapJob, results>>
ghosts == <<redacted, carried, reported>>
env == <<newest, faults, removed>>
vars == <<objects, status, selector, jobVars, booking, pc, loc, env, ghosts>>

(* RestorePhase; "absent" is a restore not created yet or deleted, "none"  *)
(* one whose status has no phase yet.                                      *)
Phases == {"absent", "none", "Pending", "Restoring", "Ready", "Migrating",
           "Switching", "Active", "Failed"}

(* The fields of PostgresPhysicalReplicaStatus the reconciler decides on.  *)
(* A timestamp is kept as its relation to the clock: completed is          *)
(* lastRestoreCompletedAt against the grace period, due is                 *)
(* nextScheduledRestore reached, failing is consecutiveRestoreFailures > 0.*)
StatusType ==
    [current   : Ids \cup {NoRestore},
     verified  : 0..MaxSnapshots,
     desired   : 0..MaxSnapshots,
     completed : {"never", "inGrace", "pastGrace"},
     redaction : {"unset", "active", "done", "failed"},
     migration : {"unset", "active", "complete", "partial", "skipped", "failed"},
     due       : BOOLEAN,
     failing   : BOOLEAN]

InitStatus ==
    [current |-> NoRestore, verified |-> NoSnapshot, desired |-> NoSnapshot,
     completed |-> "never", redaction |-> "unset", migration |-> "unset",
     due |-> FALSE, failing |-> FALSE]

(* classify_job, with "none" for a Job that does not exist.                *)
JobStates == {"none", "Active", "Succeeded", "Failed"}
MigJobType == [state : JobStates, from : Ids \cup {NoRestore}, to : Ids \cup {NoRestore}]
NoMigJob == [state |-> "none", from |-> NoRestore, to |-> NoRestore]

(* The locals of one reconcile pass: the status it was handed, the phases  *)
(* of the restores it listed, the stale restores left to sweep and whether *)
(* every delete has worked, whether it met a snapshot-list Job, and the    *)
(* snapshot it picked.                                                     *)
LocType ==
    [st : StatusType, ph : [Ids -> Phases], todo : SUBSET Ids,
     clean : BOOLEAN, hadJob : BOOLEAN, pick : 0..MaxSnapshots]

NoLoc == [st |-> InitStatus, ph |-> [i \in Ids |-> "absent"], todo |-> {},
          clean |-> TRUE, hadJob |-> FALSE, pick |-> NoSnapshot]

Steps == {"idle", "redact", "redacting", "migrate", "migMark", "migClean",
          "migFail", "migSkip", "gates", "selector", "activate", "record",
          "report", "teardown", "teardownDelete", "sweep", "sweeping",
          "failed", "snapshots", "create", "decide"}

TypeOK ==
    /\ phase \in [Ids -> Phases]
    /\ snap \in [Ids -> 0..MaxSnapshots]
    /\ migrated \subseteq Ids
    /\ created \in 0..MaxRestores
    /\ status \in StatusType
    /\ selector \in Ids \cup {NoRestore}
    /\ migJob \in MigJobType
    /\ snapJob \in JobStates
    /\ results \in 0..MaxSnapshots
    /\ booking \subseteq Ids
    /\ pc \in Steps
    /\ loc \in LocType
    /\ newest \in 0..MaxSnapshots
    /\ faults \in 0..MaxFaults
    /\ removed \subseteq Ids
    /\ redacted \subseteq Ids
    /\ carried \subseteq Ids \X Ids
    /\ reported \subseteq Ids

Init ==
    /\ phase = [i \in Ids |-> "absent"]
    /\ snap = [i \in Ids |-> NoSnapshot]
    /\ migrated = {}
    /\ created = 0
    /\ status = InitStatus
    /\ selector = NoRestore
    /\ migJob = NoMigJob
    /\ snapJob = "none"
    /\ results = NoSnapshot
    /\ booking = {}
    /\ pc = "idle"
    /\ loc = NoLoc
    /\ newest = NoSnapshot
    /\ faults = 0
    /\ removed = {}
    /\ redacted = {}
    /\ carried = {}
    /\ reported = {}

InPhase(ph, p) == {i \in Ids : ph[i] = p}

(* restore_list.items.iter().find(..): the first match in list order.      *)
First(S) == IF S = {} THEN NoRestore ELSE CHOOSE i \in S : \A j \in S : i <= j

(* A restore that exists and has not failed, as the creation guardrail     *)
(* counts them.                                                            *)
Live(ph) == {i \in Ids : ph[i] \notin {"absent", "Failed"}}

=============================================================================
