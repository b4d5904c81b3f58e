----------------------------- MODULE SchemaBuild -----------------------------
(***************************************************************************)
(* The reporting schema build, the last gate of a switchover: a Job builds *)
(* a schema against the switching restore and posts it to the operator,    *)
(* which holds it in memory, registers it with canopy and records the      *)
(* result on the restore.                                                  *)
(*                                                                         *)
(* The Job has one name per replica, the schema is held per replica, the   *)
(* receipt of a delivery is on the Job and the result on the restore; a    *)
(* pass, the callback and the Job move independently, and a restart loses  *)
(* what is in memory.                                                      *)
(***************************************************************************)
EXTENDS Integers, FiniteSets

CONSTANTS
    MaxRestores,    \* bound: restores that come to their switchover
    BuildAttempts,  \* BUILD_ATTEMPTS, 5 in the code
    MaxFaults,      \* bound: restarts, failed calls, Jobs expired unread or cleaned up
    MaxDeletes      \* bound: restores deleted by hand

ASSUME BuildAssumption ==
    /\ MaxRestores \in Nat
    /\ BuildAttempts \in Nat \ {0}
    /\ MaxFaults \in Nat
    /\ MaxDeletes \in Nat

Restores == 1..MaxRestores
None == 0                   \* no restore, no schema; a schema is the restore it was built from

VARIABLES
    kind,       \* restore -> what build_to_do makes of it before it is settled
    result,     \* restore -> its schemaBuildResult
    attempts,   \* restore -> its schemaBuildAttempts
    target,     \* the switching restore
    created,    \* how many restores have come
    removed,    \* the restores deleted by hand
    job,        \* the build Job of the replica
    post,       \* the delivery the callback is handling
    store,      \* ctx.schema_build_results
    pc,         \* where the pass is
    loc,        \* what the pass has read, taken and decided
    faults,
    registered, \* ghost: <<built from, registered for>>
    accepted,   \* ghost: a delivery of this Job was answered 204
    reported    \* ghost: restore -> the result its verification report carried

api == <<kind, result, attempts, target, created, removed>>
memory == <<store, pc, loc>>
ghosts == <<registered, accepted, reported>>
vars == <<api, job, post, memory, faults, ghosts>>

Kinds == {"NoImage", "Unbuildable", "Build"}
Results == {"none", "built", "refused", "empty", "failed", "notRun"}
JobStates == {"none", "Active", "Succeeded", "Failed", "Deleting"}
Steps == {"idle", "setup", "attempt", "rebuild", "register", "record", "delete", "switch"}

JobType == [state : JobStates, of : Restores \cup {None}, receipt : BOOLEAN]
PostType == [of : Restores \cup {None}, stored : BOOLEAN]
LocType == [result : Results, attempts : 0..(BuildAttempts - 1),
            sql : Restores \cup {None}, outcome : Results]

NoJob == [state |-> "none", of |-> None, receipt |-> FALSE]
NoPost == [of |-> None, stored |-> FALSE]
NoLoc == [result |-> "none", attempts |-> 0, sql |-> None, outcome |-> "none"]

TypeOK ==
    /\ kind \in [Restores -> Kinds]
    /\ result \in [Restores -> Results]
    /\ attempts \in [Restores -> 0..(BuildAttempts - 1)]
    /\ target \in Restores \cup {None}
    /\ created \in 0..MaxRestores
    /\ removed \subseteq Restores
    /\ job \in JobType
    /\ post \in PostType
    /\ store \in Restores \cup {None}
    /\ pc \in Steps
    /\ loc \in LocType
    /\ faults \in 0..MaxFaults
    /\ registered \subseteq Restores \X Restores
    /\ accepted \in BOOLEAN
    /\ reported \in [Restores -> Results \cup {"unreported"}]

Init ==
    /\ kind \in [Restores -> Kinds]
    /\ result = [r \in Restores |-> "none"]
    /\ attempts = [r \in Restores |-> 0]
    /\ target = None /\ created = 0 /\ removed = {}
    /\ job = NoJob /\ post = NoPost
    /\ store = None /\ pc = "idle" /\ loc = NoLoc
    /\ faults = 0
    /\ registered = {} /\ accepted = FALSE
    /\ reported = [r \in Restores |-> "unreported"]

-----------------------------------------------------------------------------
(* The start of a pass: build_to_do and build_outcome                      *)

Gone == target \in removed

Requeue == pc' = "idle" /\ loc' = NoLoc

Fault == faults < MaxFaults /\ faults' = faults + 1

Reads(p, outcome) ==
    /\ pc' = p
    /\ loc' = [NoLoc EXCEPT !.result = result[target], !.attempts = attempts[target],
                            !.outcome = outcome]

Begins ==
    /\ pc = "idle" /\ target # None /\ ~Gone
    /\ UNCHANGED <<api, job, post, faults, ghosts>>

(* Mutant: a schema posted after its build was recorded is left behind.    *)
AlreadySettled_LeavesSchema ==
    /\ Begins
    /\ result[target] # "none"
    /\ Reads("switch", "none")
    /\ UNCHANGED store

AlreadySettled ==
    /\ Begins
    /\ result[target] # "none"
    /\ store' = None
    /\ Reads("switch", "none")

NothingToBuild ==
    /\ Begins
    /\ result[target] = "none" /\ kind[target] = "NoImage"
    /\ Reads("switch", "none")
    /\ UNCHANGED store

(* settle_failed for a restore that did not migrate to its target version, *)
(* or a replica without a group or an environment.                         *)
CannotBuild ==
    /\ Begins
    /\ result[target] = "none" /\ kind[target] = "Unbuildable"
    /\ Reads("record", "notRun")
    /\ UNCHANGED store

ToBuild(state) ==
    /\ Begins
    /\ result[target] = "none" /\ kind[target] = "Build"
    /\ job.state = state

BuildNotStarted ==
    /\ ToBuild("none")
    /\ store' = None
    /\ Reads("setup", "none")

BuildFailed ==
    /\ ToBuild("Failed")
    /\ Reads("record", "failed")
    /\ UNCHANGED store

(* Mutant: the receipt is not looked at.                                   *)
empty_build_IgnoresReceipt(receipted, n) == FALSE

(* Whether a build that ended well with no schema held is built again.     *)
empty_build(receipted, n) == receipted /\ n < BuildAttempts

BuildEmpty ==
    /\ ToBuild("Succeeded")
    /\ store = None
    /\ IF empty_build(job.receipt, attempts[target] + 1)
       THEN Reads("rebuild", "none")
       ELSE Reads("record", "empty")
    /\ UNCHANGED store

BuildDelivered ==
    /\ ToBuild("Succeeded")
    /\ store # None
    /\ store' = None
    /\ pc' = "register"
    /\ loc' = [NoLoc EXCEPT !.attempts = attempts[target], !.sql = store]

-----------------------------------------------------------------------------
(* The rest of a pass                                                      *)

(* Mutant: one attempt too many.                                           *)
MayRetry_OffByOne == loc.attempts < BuildAttempts

MayRetry == loc.attempts + 1 < BuildAttempts

(* discover_build_database or ensure_pull_secret fails: retry_or_settle.   *)
SetupFails ==
    /\ pc = "setup"
    /\ IF MayRetry
       THEN pc' = "attempt" /\ UNCHANGED loc
       ELSE pc' = "record" /\ loc' = [loc EXCEPT !.outcome = "notRun"]
    /\ UNCHANGED <<api, job, post, store, faults, ghosts>>

BuildStarts ==
    /\ pc = "setup"
    /\ job' = [state |-> "Active", of |-> target, receipt |-> FALSE]
    /\ accepted' = FALSE
    /\ Requeue
    /\ UNCHANGED <<api, post, store, faults, registered, reported>>

SchemaRegistered ==
    /\ pc = "register"
    /\ registered' = registered \cup {<<loc.sql, target>>}
    /\ pc' = "record" /\ loc' = [loc EXCEPT !.outcome = "built"]
    /\ UNCHANGED <<api, job, post, store, faults, accepted, reported>>

(* Canopy does not take the schema: it is put back, or given up.           *)
RegistrationFails ==
    /\ pc = "register"
    /\ IF MayRetry
       THEN store' = loc.sql /\ pc' = "attempt" /\ loc' = [loc EXCEPT !.sql = None]
       ELSE pc' = "record" /\ loc' = [loc EXCEPT !.outcome = "refused"] /\ UNCHANGED store
    /\ UNCHANGED <<api, job, post, faults, ghosts>>

(* Mutant: the attempt is not counted.                                     *)
AttemptRecorded_NotCounted ==
    /\ pc \in {"attempt", "rebuild"} /\ ~Gone
    /\ IF pc = "rebuild" THEN pc' = "delete" /\ UNCHANGED loc ELSE Requeue
    /\ UNCHANGED <<api, job, post, store, faults, ghosts>>

(* record_build_attempt, alone or in rebuild.                              *)
AttemptRecorded ==
    /\ pc \in {"attempt", "rebuild"} /\ ~Gone
    /\ attempts' = [attempts EXCEPT ![target] = loc.attempts + 1]
    /\ IF pc = "rebuild" THEN pc' = "delete" /\ UNCHANGED loc ELSE Requeue
    /\ UNCHANGED <<kind, result, target, created, removed, job, post, store, faults, ghosts>>

AttemptNotRecorded ==
    /\ pc \in {"attempt", "rebuild"}
    /\ \/ Gone /\ UNCHANGED <<attempts, faults>>
       \/ /\ ~Gone /\ Fault
          /\ attempts' \in {attempts, [attempts EXCEPT ![target] = loc.attempts + 1]}
    /\ Requeue
    /\ UNCHANGED <<kind, result, target, created, removed, job, post, store, ghosts>>

(* Mutant: the pass that records the result goes on to the switchover.     *)
ResultRecorded_GoesOn ==
    /\ pc = "record" /\ ~Gone
    /\ result' = [result EXCEPT ![target] = loc.outcome]
    /\ store' = IF loc.outcome = "failed" THEN None ELSE store
    /\ pc' = "switch" /\ UNCHANGED loc
    /\ UNCHANGED <<kind, attempts, target, created, removed, job, post, faults, ghosts>>

(* record_schema_build; a build that posted a schema and then failed has   *)
(* left it in the store.                                                   *)
ResultRecorded ==
    /\ pc = "record" /\ ~Gone
    /\ result' = [result EXCEPT ![target] = loc.outcome]
    /\ store' = IF loc.outcome = "failed" THEN None ELSE store
    /\ IF loc.outcome = "notRun" THEN Requeue ELSE pc' = "delete" /\ UNCHANGED loc
    /\ UNCHANGED <<kind, attempts, target, created, removed, job, post, faults, ghosts>>

(* The patch fails, or only its answer does: a schema in hand is kept.     *)
ResultNotRecorded ==
    /\ pc = "record"
    /\ \/ Gone /\ UNCHANGED <<result, faults>>
       \/ /\ ~Gone /\ Fault
          /\ result' \in {result, [result EXCEPT ![target] = loc.outcome]}
    /\ store' = IF loc.sql # None THEN loc.sql ELSE store
    /\ Requeue
    /\ UNCHANGED <<kind, attempts, target, created, removed, job, post, ghosts>>

(* delete_build_job, whose failure is only logged.                         *)
JobDeleted ==
    /\ pc = "delete"
    /\ \/ /\ job' = IF job.state = "none" THEN job ELSE [job EXCEPT !.state = "Deleting"]
          /\ UNCHANGED faults
       \/ Fault /\ UNCHANGED job
    /\ Requeue
    /\ UNCHANGED <<api, post, store, ghosts>>

(* The gate is open: the switchover (module ReplicaController), and the    *)
(* report, made from the restore as the pass has read it.                  *)
Switchover ==
    /\ pc = "switch"
    /\ IF Gone THEN UNCHANGED <<target, reported>>
       ELSE target' = None /\ reported' = [reported EXCEPT ![target] = loc.result]
    /\ Requeue
    /\ UNCHANGED <<kind, result, attempts, created, removed, job, post, store, faults,
                   registered, accepted>>

Pass ==
    \/ AlreadySettled \/ NothingToBuild \/ CannotBuild \/ BuildNotStarted \/ BuildFailed
    \/ BuildEmpty \/ BuildDelivered \/ SetupFails \/ BuildStarts \/ SchemaRegistered
    \/ RegistrationFails \/ AttemptRecorded \/ AttemptNotRecorded \/ ResultRecorded
    \/ ResultNotRecorded \/ JobDeleted \/ Switchover

-----------------------------------------------------------------------------
(* The callback: verify_build_token, then the body, then the receipt.      *)

CallbackFrame == UNCHANGED <<api, pc, loc, registered, reported>>

DeliveryVerified ==
    /\ job.state = "Active" /\ post = NoPost
    /\ post' = [of |-> job.of, stored |-> FALSE]
    /\ CallbackFrame
    /\ UNCHANGED <<job, store, faults, accepted>>

DeliveryStored ==
    /\ post # NoPost /\ ~post.stored
    /\ store' = post.of
    /\ post' = [post EXCEPT !.stored = TRUE]
    /\ CallbackFrame
    /\ UNCHANGED <<job, faults, accepted>>

DeliveryReceipted ==
    /\ post.stored /\ job.state # "none"
    /\ job' = [job EXCEPT !.receipt = TRUE]
    /\ accepted' = TRUE
    /\ post' = NoPost
    /\ CallbackFrame
    /\ UNCHANGED <<store, faults>>

(* 503: the build may try again.                                           *)
DeliveryRefused ==
    /\ post.stored
    /\ \/ job.state = "none" /\ UNCHANGED faults
       \/ job.state # "none" /\ Fault
    /\ post' = NoPost
    /\ CallbackFrame
    /\ UNCHANGED <<job, store, accepted>>

(* CallbackStore::sweep after DELIVERED_SCHEMA_MAX_AGE.                    *)
StoreSwept ==
    /\ store # None
    /\ store' = None
    /\ CallbackFrame
    /\ UNCHANGED <<job, post, faults, accepted>>

Callback == DeliveryVerified \/ DeliveryStored \/ DeliveryReceipted \/ DeliveryRefused

-----------------------------------------------------------------------------
(* The Job, the restores, and the operator's restarts                      *)

JobFrame == UNCHANGED <<api, post, memory, ghosts>>

(* Whether it has delivered anything is the image's business.              *)
JobSucceeds ==
    /\ job.state = "Active" /\ post = NoPost
    /\ job' = [job EXCEPT !.state = "Succeeded"]
    /\ JobFrame
    /\ UNCHANGED faults

(* It fails, or is killed at its deadline with a delivery under way.       *)
JobFails ==
    /\ job.state = "Active"
    /\ job' = [job EXCEPT !.state = "Failed"]
    /\ JobFrame
    /\ UNCHANGED faults

JobGone ==
    /\ job.state = "Deleting"
    /\ job' = NoJob
    /\ JobFrame
    /\ UNCHANGED faults

(* ttlSecondsAfterFinished; a fault if nobody has read the Job by then.    *)
JobExpires ==
    /\ job.state \in {"Succeeded", "Failed"}
    /\ IF result[job.of] # "none" \/ job.of \in removed THEN UNCHANGED faults ELSE Fault
    /\ job' = NoJob
    /\ JobFrame

(* Another restore of the replica starts, and takes the Job along whatever *)
(* it is doing (cleanup_previous_jobs).                                    *)
JobCleanedUp ==
    /\ job.state \notin {"none", "Deleting"} /\ Fault
    /\ job' = [job EXCEPT !.state = "Deleting"]
    /\ JobFrame

(* The next restore; the pod of the last Job is gone long before.          *)
RestoreSwitching ==
    /\ target = None \/ Gone
    /\ pc = "idle" /\ post = NoPost
    /\ created < MaxRestores
    /\ created' = created + 1
    /\ target' = created + 1
    /\ UNCHANGED <<kind, result, attempts, removed, job, post, memory, faults, ghosts>>

RestoreDeleted ==
    /\ target # None /\ ~Gone
    /\ Cardinality(removed) < MaxDeletes
    /\ removed' = removed \cup {target}
    /\ UNCHANGED <<kind, result, attempts, target, created, job, post, memory, faults, ghosts>>

CallFails ==
    /\ pc \in {"setup", "switch"}
    /\ Fault
    /\ Requeue
    /\ UNCHANGED <<api, job, post, store, ghosts>>

OperatorRestarts ==
    /\ Fault
    /\ Requeue
    /\ store' = None
    /\ post' = NoPost
    /\ UNCHANGED <<api, job, ghosts>>

Next ==
    \/ Pass \/ Callback \/ StoreSwept
    \/ JobSucceeds \/ JobFails \/ JobGone \/ JobExpires \/ JobCleanedUp
    \/ RestoreSwitching \/ RestoreDeleted \/ CallFails \/ OperatorRestarts

Spec == Init /\ [][Next]_vars

(* The replica is requeued every 30 s while the gate holds; the callback   *)
(* answers; a Job ends by its deadline; a deleted Job goes.                *)
Fairness ==
    /\ WF_vars(Pass)
    /\ WF_vars(DeliveryStored \/ DeliveryReceipted \/ DeliveryRefused)
    /\ WF_vars(JobSucceeds \/ JobFails)
    /\ WF_vars(JobGone)

FairSpec == Spec /\ Fairness

-----------------------------------------------------------------------------

(* As long as no restore is deleted under its build, a schema is only      *)
(* registered for the restore it was built from, although Job and schema   *)
(* are kept per replica and a finished Job may be left over for the next   *)
(* restore (reconcile_schema_build, the places that empty the store).      *)
RegisteredIsOwn ==
    removed = {} => \A p \in registered : p[1] = p[2]

(* The verification report carries the result of the build: a restore that *)
(* builds a schema is never reported before its result is in the restore   *)
(* the pass has read (reconcile_schema_build answers false on recording).  *)
ReportCarriesBuild ==
    \A r \in Restores :
        reported[r] # "unreported" /\ kind[r] # "NoImage"
            => reported[r] # "none" /\ reported[r] = result[r]

(* A schema the callback took and a restart or the sweep then lost is      *)
(* built again: the build is not settled as having produced none while     *)
(* attempts are left (empty_build and the receipt).                        *)
LostSchemaRebuilt ==
    [][\A r \in Restores : result[r] = "none" /\ result'[r] = "empty"
         => ~accepted \/ attempts[r] + 1 >= BuildAttempts]_vars

(* The build never holds a switchover for good, however it fails           *)
(* (BUILD_ATTEMPTS, BUILD_DEADLINE_SECONDS).                               *)
BuildSettles == \A r \in Restores : target = r ~> target # r \/ r \in removed

=============================================================================
