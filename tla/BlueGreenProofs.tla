--------------------------- MODULE BlueGreenProofs ---------------------------
(***************************************************************************)
(* Safety of module BlueGreen for every number of restores, snapshots,     *)
(* faults and deletions, and every setting of the replica.                 *)
(*                                                                         *)
(* The invariants of BlueGreen are not inductive: what a pass of the       *)
(* replica controller does next rests on what it listed when it began.     *)
(* Pass says what a pass knows at each of its steps, and View how far the  *)
(* list it goes by may have aged.                                          *)
(***************************************************************************)
EXTENDS BlueGreen, TLAPS, FiniteSetTheorems, WellFoundedInduction

SwitchSteps == {"redact", "redacting", "migrate", "migMark", "migClean", "migFail",
                "migSkip", "gates", "selector", "activate", "record", "report"}

(* What the steps of a pass have to work on.                               *)
Pass ==
    /\ migJob.state # "none" => migJob.from \in Ids /\ migJob.to \in Ids
    /\ pc \in SwitchSteps => InPhase(loc.ph, "Switching") # {}
    /\ pc = "migSkip" => InPhase(loc.ph, "Active") # {}
    /\ pc \in {"teardown", "teardownDelete"} =>
         Ephemeral /\ InPhase(loc.ph, "Active") # {}
    /\ loc.todo \subseteq InPhase(loc.ph, "Active") \ {loc.st.current}

(* The list of a pass ages in one direction only: a restore it lists as    *)
(* Failed has not come back, one it lists as Switching is still up or was  *)
(* deleted by hand, and until it creates one itself no restore is live     *)
(* that is not live in the list.                                           *)
View ==
    \A i \in Ids :
        /\ i > created => phase[i] = "absent" /\ loc.ph[i] = "absent" /\ i \notin removed
        /\ i \in removed => phase[i] = "absent"
        /\ loc.ph[i] = "Failed" => phase[i] \in {"Failed", "absent"}
        /\ loc.ph[i] = "Switching" => phase[i] \in {"Switching", "Active"} \/ i \in removed
        /\ pc \notin {"idle", "decide"} /\ i \in Live(phase) => i \in Live(loc.ph)

(* The status a pass was handed is the recorded one where it matters.      *)
Handed ==
    /\ pc \in {"sweep", "sweeping"} => loc.st.current = status.current
    /\ pc = "teardownDelete" => status.current = NoRestore
    /\ pc = "record" => phase[switching] = "Active" \/ switching \in removed

Fresh == pc = "create" => \A i \in Live(loc.ph) : snap[i] # loc.pick

(* Without faults the Service selects the current restore, but for the two *)
(* steps of a switchover in between.                                       *)
Pointed ==
    faults = 0 /\ ~Ephemeral =>
        IF pc \in {"activate", "record"} THEN selector = switching
        ELSE selector = status.current \/ selector \in removed

(* The gates a pass has passed.                                            *)
Gated ==
    /\ pc = "redact" => loc.st.redaction = status.redaction
    /\ Redaction /\ pc \in SwitchSteps \ {"redact", "redacting", "activate", "record", "report"}
         => status.redaction = "done"
    /\ pc \in {"sweep", "sweeping", "failed", "snapshots", "create"}
         => loc.st.verified = status.verified
    /\ pc = "create" => loc.pick # loc.st.verified

-----------------------------------------------------------------------------
(* The first of a set of restores is one of them (the find() of the code). *)
LEMMA FirstIsMember ==
    ASSUME NEW S \in SUBSET Ids, S # {}
    PROVE  First(S) \in S
<1>1. Ids \subseteq Nat
  BY BoundsAssumption DEF Ids
<1>. DEFINE Less == {p \in Nat \X Nat : p[1] < p[2]}
<1>2. IsWellFoundedOn(Less, Nat)
  BY NatLessThanWellFounded, Zenon DEF OpToRel
<1>3. \A a, b \in Nat : <<a, b>> \in Less <=> a < b
  OBVIOUS
<1>. HIDE DEF Less
<1>4. PICK x \in S : \A y \in S : ~(<<y, x>> \in Less)
  BY <1>1, <1>2, WFMin
<1>5. ASSUME NEW y \in S PROVE x <= y
  <2>1. x \in Nat /\ y \in Nat
    BY <1>1
  <2>2. ~(y < x)
    BY <2>1, <1>3, <1>4, Zenon
  <2>3. QED
    BY <2>1, <2>2
<1>6. QED
  BY <1>5 DEF First

(* Whether there is one or not, what find() yields is a restore or none.   *)
LEMMA FirstType ==
    ASSUME NEW S \in SUBSET Ids
    PROVE  First(S) \in Ids \cup {NoRestore}
  BY FirstIsMember DEF First

(* The restores a pass has found are the ones it goes on to use.           *)
LEMMA Found ==
    ASSUME TypeOK, Pass
    PROVE  /\ switching \in Ids \cup {NoRestore}
           /\ active \in Ids \cup {NoRestore}
           /\ pc \in SwitchSteps => switching \in Ids /\ loc.ph[switching] = "Switching"
           /\ pc \in {"migSkip", "teardown", "teardownDelete"} \/ active # NoRestore
                => active \in Ids /\ loc.ph[active] = "Active"
           /\ loc.todo # {} => First(loc.todo) \in loc.todo
<1>1. \A p : InPhase(loc.ph, p) \in SUBSET Ids
  BY DEF InPhase
<1>2. ASSUME NEW p, InPhase(loc.ph, p) # {}
      PROVE  First(InPhase(loc.ph, p)) \in Ids /\ loc.ph[First(InPhase(loc.ph, p))] = p
  <2>1. First(InPhase(loc.ph, p)) \in InPhase(loc.ph, p)
    BY <1>1, <1>2, FirstIsMember
  <2>2. QED
    BY <2>1 DEF InPhase
<1>3. switching \in Ids \cup {NoRestore} /\ active \in Ids \cup {NoRestore}
  BY <1>1, FirstType DEF switching, active
<1>4. pc \in SwitchSteps => switching \in Ids /\ loc.ph[switching] = "Switching"
  BY <1>2 DEF switching, Pass
<1>5. InPhase(loc.ph, "Active") # {} => active \in Ids /\ loc.ph[active] = "Active"
  BY <1>2 DEF active
<1>6. active # NoRestore => InPhase(loc.ph, "Active") # {}
  BY DEF active, First
<1>7. loc.todo # {} => First(loc.todo) \in loc.todo
  <2>1. loc.todo \in SUBSET Ids
    BY DEF TypeOK, LocType
  <2>2. QED
    BY <2>1, FirstIsMember
<1>8. QED
  BY <1>3, <1>4, <1>5, <1>6, <1>7 DEF Pass

(* The initial state is typed and no pass runs.                            *)
LEMMA InitType == Init => TypeOK /\ Pass
  BY BoundsAssumption DEF Init, TypeOK, Pass, Ids, Phases, StatusType, InitStatus, JobStates,
     MigJobType, NoMigJob, LocType, NoLoc, Steps, SwitchSteps, NoRestore, NoSnapshot, InPhase

(* Every step of the controllers and of their environment keeps the types. *)
LEMMA TypeStep ==
    ASSUME TypeOK, Pass, Next
    PROVE  TypeOK'
<1>. USE BoundsAssumption DEF TypeOK, Phases, StatusType, JobStates, MigJobType, LocType, Steps,
         SwitchSteps, NoRestore, NoSnapshot, env, ghosts, jobVars, objects
<1>1. NoLoc \in LocType
  BY DEF NoLoc, InitStatus
<1>2. CASE Reconcile
  <2>1. loc' \in LocType
    BY <1>1, <1>2 DEF Reconcile, NoLoc
  <2>2. pc' \in Steps
    BY <1>2 DEF Reconcile, FirstGate
  <2>3. QED
    BY <1>2, <2>1, <2>2 DEF Reconcile, At
<1>3. CASE RedactionStep
  BY <1>1, <1>3, Found DEF RedactionStep, RedactionAlreadyDone, RedactionBegins,
     RedactionFinishes, RedactionFails, RedactionFrame, At, Goto, Requeue, AfterRedaction
<1>4. CASE MigrationStep
  BY <1>1, <1>4, Found DEF MigrationStep, MigrationNotNeeded, MigrationRuns,
     MigrationOverBudget, MigrationSkipped, MigrationSucceeded, MigrationCleanup, MigrationFailed,
     MigrationFailureRecorded, NothingToCarry, CredentialReset, MigrationStarts, MigrationMarked,
     MigrationWith, MigrationFrame, NoMigJob, At, Goto, Requeue, Works, ApiError
<1>5. CASE SwitchoverStep
  <2>. USE <1>1, Found DEF SwitchFrame, At, Goto, Requeue
  <2>1. CASE GatesHold \/ GatesPass \/ SelectorMoves
    BY <2>1 DEF GatesHold, GatesPass, SelectorMoves
  <2>2. CASE RestoreActivated
    BY <2>2 DEF RestoreActivated
  <2>3. CASE StatusRecorded
    <3>1. status' \in StatusType
      BY <2>3 DEF StatusRecorded
    <3>2. QED
      BY <2>3, <3>1 DEF StatusRecorded
  <2>4. CASE SwitchoverReported
    BY <2>4 DEF SwitchoverReported
  <2>5. QED
    BY <1>5, <2>1, <2>2, <2>3, <2>4 DEF SwitchoverStep
<1>6. CASE CleanupStep
  <2>. USE <1>1, Found DEF CleanFrame, At, Goto, Requeue, Works, ApiError
  <2>1. CASE TeardownRecorded
    <3>1. status' \in StatusType
      BY <2>1 DEF TeardownRecorded
    <3>2. QED
      BY <2>1, <3>1 DEF TeardownRecorded
  <2>2. CASE TeardownDeletes
    BY <2>2 DEF TeardownDeletes
  <2>3. CASE SweepBegins
    BY <2>3 DEF SweepBegins, Stale, InPhase
  <2>4. CASE SweepDeletes
    <3>1. \E b \in BOOLEAN :
             loc' = [loc EXCEPT !.todo = loc.todo \ {First(loc.todo)}, !.clean = b]
      <4>1. (loc.clean /\ phase[First(loc.todo)] # "absent") \in BOOLEAN
        OBVIOUS
      <4>2. QED
        BY <2>4, <4>1, Zenon DEF SweepDeletes
    <3>2. loc' \in LocType
      <4>1. PICK b \in BOOLEAN :
               loc' = [loc EXCEPT !.todo = loc.todo \ {First(loc.todo)}, !.clean = b]
        BY <3>1
      <4>2. loc.todo \ {First(loc.todo)} \in SUBSET Ids
        OBVIOUS
      <4>3. QED
        BY <4>1, <4>2
    <3>3. phase' \in [Ids -> Phases]
      BY <2>4 DEF SweepDeletes
    <3>4. QED
      BY <2>4, <3>2, <3>3 DEF SweepDeletes
  <2>5. CASE SweepEnds
    <3>1. status' \in StatusType
      BY <2>5 DEF SweepEnds
    <3>2. QED
      BY <2>5, <3>1 DEF SweepEnds
  <2>6. CASE FailedCleanup
    BY <2>6 DEF FailedCleanup
  <2>7. QED
    BY <1>6, <2>1, <2>2, <2>3, <2>4, <2>5, <2>6 DEF CleanupStep
<1>7. CASE RestoreStep
  <2>. USE <1>1 DEF ListFrame, DecideFrame, At, Goto, Requeue, Works, ApiError
  <2>1. CASE SnapshotJobPending
    <3>1. loc' \in {loc, NoLoc, [loc EXCEPT !.hadJob = TRUE]}
      BY <2>1, Zenon DEF SnapshotJobPending
    <3>2. [loc EXCEPT !.hadJob = TRUE] \in LocType
      OBVIOUS
    <3>3. loc' \in LocType
      BY <1>1, <3>1, <3>2, Zenon
    <3>4. QED
      BY <2>1, <3>3 DEF SnapshotJobPending
  <2>2. CASE SnapshotResultMissing
    BY <2>2 DEF SnapshotResultMissing
  <2>3. CASE SnapshotResultTaken
    <3>1. Picked(results) \subseteq 0..MaxSnapshots
      BY DEF Picked, st
    <3>2. PICK s \in 0..MaxSnapshots : loc' = [loc EXCEPT !.hadJob = TRUE, !.pick = s]
      BY <2>3, <3>1 DEF SnapshotResultTaken
    <3>3. loc' \in LocType
      BY <3>2
    <3>4. QED
      BY <2>3, <3>3 DEF SnapshotResultTaken
  <2>4. CASE RestoreCreated
    <3>1. created + 1 \in Ids
      BY <2>4 DEF RestoreCreated, Ids
    <3>2. phase' \in [Ids -> Phases] /\ snap' \in [Ids -> 0..MaxSnapshots]
      BY <2>4 DEF RestoreCreated
    <3>3. QED
      BY <2>4, <3>1, <3>2 DEF RestoreCreated
  <2>5. CASE CreationRefused
    BY <2>5 DEF CreationRefused
  <2>6. CASE WaitForRestore \/ Queued \/ SnapshotJobCreated
    BY <2>6 DEF WaitForRestore, Queued, SnapshotJobCreated
  <2>7. CASE PassEnds
    <3>1. status' \in StatusType
      BY <2>7 DEF PassEnds, st
    <3>2. QED
      BY <2>7, <3>1 DEF PassEnds
  <2>8. QED
    BY <1>7, <2>1, <2>2, <2>3, <2>4, <2>5, <2>6, <2>7 DEF RestoreStep
<1>8. CASE RestoreNext
  <2>1. PICK i \in Ids : RestoreProgress(i)
    BY <1>8 DEF RestoreNext
  <2>. USE DEF RestoreFrame, SetPhase
  <2>2. CASE \/ ReconcileCreated(i) \/ ReconcileRestoring(i)
             \/ ReadyToMigrate(i) \/ ReadyToSwitch(i)
    BY <2>2 DEF ReconcileCreated, ReconcileRestoring, ReadyToMigrate, ReadyToSwitch
  <2>3. CASE ReconcileMigrating(i)
    BY <2>3 DEF ReconcileMigrating
  <2>4. CASE fail_restore(i)
    BY <2>4 DEF fail_restore
  <2>5. CASE FailureBooked(i)
    <3>1. status' \in StatusType
      BY <2>5 DEF FailureBooked
    <3>2. QED
      BY <2>5, <3>1 DEF FailureBooked
  <2>6. CASE ReconcilePending(i)
    <3>1. phase' \in [Ids -> Phases] /\ migJob' \in MigJobType /\ snapJob' \in JobStates
      BY <2>6 DEF ReconcilePending, NoMigJob, MigJobType, JobStates
    <3>2. faults' \in 0..MaxFaults
      BY <2>6 DEF ReconcilePending
    <3>3. QED
      BY <2>6, <3>1, <3>2 DEF ReconcilePending
  <2>7. QED
    BY <2>1, <2>2, <2>3, <2>4, <2>5, <2>6 DEF RestoreProgress
<1>9. CASE CallFails \/ OperatorRestarts
  BY <1>1, <1>9 DEF CallFails, OperatorRestarts, At, ApiError, Requeue
<1>10. CASE Environment
  <2>. USE DEF EnvFrame
  <2>1. CASE SnapshotJobSucceeds \/ SnapshotJobFails \/ SnapshotJobExpires
    BY <2>1 DEF SnapshotJobSucceeds, SnapshotJobFails, SnapshotJobExpires
  <2>2. CASE MigrationJobSucceeds \/ MigrationJobFails
    BY <2>2 DEF MigrationJobSucceeds, MigrationJobFails, Pass
  <2>3. CASE GraceElapses
    BY <2>3 DEF GraceElapses
  <2>4. CASE ScheduleFires
    <3>1. status' \in StatusType
      BY <2>4 DEF ScheduleFires
    <3>2. QED
      BY <2>4, <3>1 DEF ScheduleFires
  <2>5. CASE SnapshotTaken \/ SnapshotOffered
    BY <2>5 DEF SnapshotTaken, SnapshotOffered
  <2>6. ASSUME NEW i \in Ids, DeletedByHand(i) PROVE TypeOK'
    BY <2>6 DEF DeletedByHand
  <2>7. QED
    BY <1>10, <2>1, <2>2, <2>3, <2>4, <2>5, <2>6 DEF Environment
<1>11. QED
  BY <1>2, <1>3, <1>4, <1>5, <1>6, <1>7, <1>8, <1>9, <1>10 DEF Next, ReplicaNext

(* The restore controller only moves a restore on its way to Switching.    *)
LEMMA RestoreMoves ==
    ASSUME RestoreNext
    PROVE  /\ \/ phase' = phase
              \/ \E i \in Ids, p \in {"Pending", "Restoring", "Ready", "Migrating", "Switching", "Failed"} :
                   /\ phase[i] \in {"none", "Pending", "Restoring", "Ready", "Migrating"}
                   /\ phase' = [phase EXCEPT ![i] = p]
           /\ UNCHANGED <<snap, created, selector, results, pc, loc, removed, ghosts>>
           /\ migJob' \in {migJob, NoMigJob} /\ snapJob' \in {snapJob, "none"}
           /\ status' \in {status, [status EXCEPT !.failing = TRUE, !.due = FALSE]}
           /\ faults' \in {faults, faults + 1}
  BY DEF RestoreNext, RestoreProgress, ReconcileCreated, ReconcilePending, ReconcileRestoring,
     ReadyToMigrate, ReadyToSwitch, ReconcileMigrating, fail_restore, FailureBooked, MayFail,
     SetPhase, RestoreFrame, jobVars

(* A pass only gets to a step with something for the step to work on.      *)
LEMMA PassStep ==
    ASSUME TypeOK, Pass, Next
    PROVE  Pass'
<1>. USE DEF Pass, SwitchSteps
<1>1. CASE UNCHANGED <<pc, loc>> /\ migJob' \in {migJob, NoMigJob}
  BY <1>1 DEF InPhase, NoMigJob
<1>2. CASE pc' = "idle" /\ loc' = NoLoc /\ migJob' \in {migJob, NoMigJob}
  BY <1>2 DEF NoLoc, NoMigJob
<1>3. CASE Reconcile
  BY <1>3 DEF Reconcile, NoLoc, FirstGate, At, jobVars, InPhase
<1>4. CASE RedactionStep
  BY <1>2, <1>4 DEF RedactionStep, RedactionAlreadyDone, RedactionBegins, RedactionFinishes,
     RedactionFails, RedactionFrame, jobVars, At, Goto, Requeue, AfterRedaction, InPhase
<1>5. CASE MigrationStep
  <2>1. CASE MigrationStarts
    BY <2>1, Found DEF MigrationStarts, MigrationWith, At, Goto, InPhase
  <2>2. CASE MigrationOverBudget
    BY <2>2, Found DEF MigrationOverBudget, MigrationWith, At, Goto, InPhase, NoMigJob
  <2>3. CASE \/ MigrationNotNeeded \/ MigrationSkipped \/ MigrationSucceeded
             \/ MigrationCleanup \/ MigrationFailed \/ NothingToCarry
    BY <2>3 DEF MigrationNotNeeded, MigrationSkipped, MigrationSucceeded, MigrationCleanup,
       MigrationFailed, NothingToCarry, MigrationWith, MigrationFrame, At, Goto, InPhase, NoMigJob
  <2>4. CASE \/ MigrationRuns \/ MigrationFailureRecorded \/ CredentialReset \/ MigrationMarked
    BY <1>2, <2>4 DEF MigrationRuns, MigrationFailureRecorded, CredentialReset, MigrationMarked,
       Requeue
  <2>5. QED
    BY <1>5, <2>1, <2>2, <2>3, <2>4 DEF MigrationStep
<1>6. CASE SwitchoverStep
  BY <1>2, <1>6 DEF SwitchoverStep, GatesHold, GatesPass, SelectorMoves, RestoreActivated,
     StatusRecorded, SwitchoverReported, SwitchFrame, jobVars, At, Goto, Requeue, InPhase
<1>7. CASE CleanupStep
  <2>. USE DEF CleanFrame, jobVars, At, Goto, Requeue
  <2>1. CASE TeardownRecorded \/ TeardownDeletes
    BY <1>2, <2>1 DEF TeardownRecorded, TeardownDeletes, InPhase
  <2>2. CASE SweepBegins
    BY <2>2 DEF SweepBegins, Stale, st, InPhase, TypeOK, LocType
  <2>3. CASE SweepDeletes
    <3>1. loc'.ph = loc.ph /\ loc'.st = loc.st /\ loc'.todo \subseteq loc.todo
      BY <2>3 DEF SweepDeletes, TypeOK, LocType
    <3>2. pc' = "sweeping" /\ migJob' = migJob
      BY <2>3 DEF SweepDeletes
    <3>3. QED
      BY <3>1, <3>2 DEF InPhase
  <2>4. CASE SweepEnds \/ FailedCleanup
    BY <2>4 DEF SweepEnds, FailedCleanup, InPhase
  <2>5. QED
    BY <1>7, <2>1, <2>2, <2>3, <2>4 DEF CleanupStep
<1>8. CASE RestoreStep
  <2>. USE DEF ListFrame, DecideFrame, At, Goto, Requeue
  <2>1. CASE SnapshotJobPending
    BY <1>2, <2>1 DEF SnapshotJobPending, InPhase, TypeOK, LocType
  <2>2. CASE SnapshotResultTaken
    BY <2>2 DEF SnapshotResultTaken, InPhase, TypeOK, LocType
  <2>3. CASE RestoreCreated \/ CreationRefused
    BY <2>3 DEF RestoreCreated, CreationRefused, InPhase
  <2>4. CASE \/ SnapshotResultMissing \/ WaitForRestore \/ Queued \/ SnapshotJobCreated
             \/ PassEnds
    BY <1>2, <2>4 DEF SnapshotResultMissing, WaitForRestore, Queued, SnapshotJobCreated, PassEnds
  <2>5. QED
    BY <1>8, <2>1, <2>2, <2>3, <2>4 DEF RestoreStep
<1>9. CASE RestoreNext
  BY <1>1, <1>9, RestoreMoves DEF jobVars
<1>10. CASE CallFails \/ OperatorRestarts
  BY <1>2, <1>10 DEF CallFails, OperatorRestarts, Requeue, jobVars
<1>11. CASE Environment
  <2>1. CASE MigrationJobSucceeds \/ MigrationJobFails
    BY <2>1 DEF MigrationJobSucceeds, MigrationJobFails, EnvFrame, InPhase, TypeOK, MigJobType
  <2>2. CASE ~(MigrationJobSucceeds \/ MigrationJobFails)
    BY <1>1, <1>11, <2>2 DEF Environment, SnapshotJobSucceeds, SnapshotJobFails,
       SnapshotJobExpires, GraceElapses, ScheduleFires, SnapshotTaken, SnapshotOffered,
       DeletedByHand, EnvFrame, jobVars
  <2>3. QED
    BY <2>1, <2>2
<1>12. QED
  BY <1>3, <1>4, <1>5, <1>6, <1>7, <1>8, <1>9, <1>10, <1>11 DEF Next, ReplicaNext

(* The list of a pass ages as View says under whatever the others do.      *)
LEMMA ViewStep ==
    ASSUME TypeOK, Pass, View, Next
    PROVE  View'
<1>. USE DEF View, TypeOK, Live
<1>1. CASE /\ UNCHANGED <<phase, created, removed>> /\ loc'.ph = loc.ph
           /\ pc \in {"idle", "decide"} => pc' \in {"idle", "decide"}
  BY <1>1
<1>2. CASE UNCHANGED <<phase, created, removed>> /\ pc' = "idle" /\ loc' = NoLoc
  BY <1>2 DEF NoLoc
<1>3. CASE Reconcile
  BY <1>3 DEF Reconcile, NoLoc, At
<1>4. CASE RedactionStep
  BY <1>1, <1>2, <1>4 DEF RedactionStep, RedactionAlreadyDone, RedactionBegins, RedactionFinishes,
     RedactionFails, RedactionFrame, At, Goto, Requeue
<1>5. CASE MigrationStep
  BY <1>1, <1>2, <1>5 DEF MigrationStep, MigrationNotNeeded, MigrationRuns, MigrationOverBudget,
     MigrationSkipped, MigrationSucceeded, MigrationCleanup, MigrationFailed,
     MigrationFailureRecorded, NothingToCarry, CredentialReset, MigrationStarts, MigrationMarked,
     MigrationWith, MigrationFrame, At, Goto, Requeue
<1>6. CASE SwitchoverStep
  <2>1. CASE RestoreActivated
    <3>1. switching \in Ids /\ loc.ph[switching] = "Switching"
      BY <2>1, Found DEF RestoreActivated, At, SwitchSteps
    <3>2. CASE phase[switching] = "absent"
      BY <1>2, <2>1, <3>2 DEF RestoreActivated, SwitchFrame, At, Requeue
    <3>3. CASE phase[switching] # "absent"
      BY <2>1, <3>1, <3>3 DEF RestoreActivated, SwitchFrame, At, Goto
    <3>4. QED
      BY <3>2, <3>3
  <2>2. CASE ~RestoreActivated
    BY <1>1, <1>2, <1>6, <2>2 DEF SwitchoverStep, GatesHold, GatesPass, SelectorMoves,
       StatusRecorded, SwitchoverReported, SwitchFrame, At, Goto, Requeue
  <2>3. QED
    BY <2>1, <2>2
<1>7. CASE CleanupStep
  <2>. USE DEF CleanFrame, At, Goto
  <2>1. CASE TeardownRecorded \/ SweepEnds
    BY <1>1, <2>1 DEF TeardownRecorded, SweepEnds
  <2>2. CASE TeardownDeletes
    BY <2>2, Found DEF TeardownDeletes, Requeue, NoLoc
  <2>3. CASE SweepBegins
    BY <1>1, <2>3 DEF SweepBegins, LocType
  <2>4. CASE SweepDeletes
    <3>1. loc.todo # {} /\ loc.ph[First(loc.todo)] = "Active" /\ First(loc.todo) \in Ids
      BY <2>4, Found DEF SweepDeletes, Pass, InPhase
    <3>2. loc'.ph = loc.ph /\ pc' = pc /\ UNCHANGED <<created, removed>>
      BY <2>4 DEF SweepDeletes, LocType
    <3>3. phase' = phase \/ phase' = [phase EXCEPT ![First(loc.todo)] = "absent"]
      BY <2>4 DEF SweepDeletes
    <3>4. QED
      BY <3>1, <3>2, <3>3
  <2>5. CASE FailedCleanup
    <3>1. PICK S \in SUBSET InPhase(loc.ph, "Failed") :
             phase' = [i \in Ids |-> IF i \in S THEN "absent" ELSE phase[i]]
      BY <2>5 DEF FailedCleanup
    <3>2. QED
      BY <2>5, <3>1 DEF FailedCleanup, InPhase
  <2>6. QED
    BY <1>7, <2>1, <2>2, <2>3, <2>4, <2>5 DEF CleanupStep
<1>8. CASE RestoreStep
  <2>. USE DEF ListFrame, DecideFrame, At, Goto, Requeue
  <2>1. CASE SnapshotJobPending
    BY <1>1, <1>2, <2>1 DEF SnapshotJobPending, LocType
  <2>2. CASE SnapshotResultTaken
    BY <1>1, <2>2 DEF SnapshotResultTaken, LocType
  <2>3. CASE RestoreCreated
    <3>1. created + 1 \in Ids
      BY <2>3, BoundsAssumption DEF RestoreCreated, Ids
    <3>2. QED
      BY <2>3, <3>1, BoundsAssumption DEF RestoreCreated, Ids
  <2>4. CASE CreationRefused
    BY <1>1, <2>4 DEF CreationRefused
  <2>5. CASE \/ SnapshotResultMissing \/ WaitForRestore \/ Queued \/ SnapshotJobCreated
             \/ PassEnds
    BY <1>2, <2>5 DEF SnapshotResultMissing, WaitForRestore, Queued, SnapshotJobCreated, PassEnds
  <2>6. QED
    BY <1>8, <2>1, <2>2, <2>3, <2>4, <2>5 DEF RestoreStep
<1>9. CASE RestoreNext
  BY <1>9, RestoreMoves
<1>10. CASE CallFails \/ OperatorRestarts
  BY <1>2, <1>10 DEF CallFails, OperatorRestarts, At, Requeue, objects
<1>11. CASE Environment
  <2>1. ASSUME NEW i \in Ids, DeletedByHand(i) PROVE View'
    BY <2>1 DEF DeletedByHand, EnvFrame
  <2>2. CASE ~\E i \in Ids : DeletedByHand(i)
    BY <1>1, <1>11, <2>2 DEF Environment, SnapshotJobSucceeds, SnapshotJobFails,
       SnapshotJobExpires, MigrationJobSucceeds, MigrationJobFails, GraceElapses, ScheduleFires,
       SnapshotTaken, SnapshotOffered, EnvFrame
  <2>3. QED
    BY <2>1, <2>2
<1>12. QED
  BY <1>3, <1>4, <1>5, <1>6, <1>7, <1>8, <1>9, <1>10, <1>11 DEF Next, ReplicaNext

-----------------------------------------------------------------------------
(* The pointer of the status                                               *)

(* No step leaves status.currentRestore pointing at a restore that is not  *)
(* Active, unless it was deleted by hand.                                  *)
LEMMA CurrentStep ==
    ASSUME TypeOK, Pass, View, Handed, CurrentIsActive, Next
    PROVE  Handed' /\ CurrentIsActive'
<1>. USE DEF Handed, CurrentIsActive, NoRestore
<1>1. CASE UNCHANGED <<phase, removed>> /\ status'.current = status.current /\ pc' \notin
             {"sweep", "sweeping", "teardownDelete", "record"}
  BY <1>1
<1>2. CASE Reconcile
  BY <1>2 DEF Reconcile, NoLoc, FirstGate, At
<1>3. CASE RedactionStep
  BY <1>1, <1>3 DEF RedactionStep, RedactionAlreadyDone, RedactionBegins, RedactionFinishes,
     RedactionFails, RedactionFrame, At, Goto, Requeue, AfterRedaction, TypeOK, StatusType
<1>4. CASE MigrationStep
  BY <1>1, <1>4 DEF MigrationStep, MigrationNotNeeded, MigrationRuns, MigrationOverBudget,
     MigrationSkipped, MigrationSucceeded, MigrationCleanup, MigrationFailed,
     MigrationFailureRecorded, NothingToCarry, CredentialReset, MigrationStarts, MigrationMarked,
     MigrationWith, MigrationFrame, At, Goto, Requeue, TypeOK, StatusType
<1>5. CASE SwitchoverStep
  <2>. USE Found DEF SwitchFrame, At, Goto, Requeue, SwitchSteps
  <2>1. CASE RestoreActivated
    <3>1. switching \in Ids
      BY <2>1 DEF RestoreActivated
    <3>2. CASE phase[switching] = "absent"
      BY <2>1, <3>2 DEF RestoreActivated
    <3>3. CASE phase[switching] # "absent"
      <4>1. /\ pc' = "record" /\ UNCHANGED <<status, removed, loc>>
            /\ phase' = [phase EXCEPT ![switching] = "Active"]
        BY <2>1, <3>3 DEF RestoreActivated
      <4>2. switching' = switching
        BY <4>1 DEF switching
      <4>3. phase'[switching] = "Active"
        BY <3>1, <4>1 DEF TypeOK
      <4>4. status.current # NoRestore => phase'[status.current] = "Active" \/ status.current \in removed
        BY <4>1 DEF TypeOK, StatusType
      <4>5. QED
        BY <4>1, <4>2, <4>3, <4>4
    <3>4. QED
      BY <3>2, <3>3
  <2>2. CASE StatusRecorded
    BY <2>2 DEF StatusRecorded, TypeOK, StatusType
  <2>3. CASE GatesHold \/ GatesPass \/ SelectorMoves \/ SwitchoverReported
    BY <1>1, <2>3 DEF GatesHold, GatesPass, SelectorMoves, SwitchoverReported
  <2>4. QED
    BY <1>5, <2>1, <2>2, <2>3 DEF SwitchoverStep
<1>6. CASE CleanupStep
  <2>. USE DEF CleanFrame, At, Goto
  <2>1. CASE TeardownRecorded
    BY <2>1 DEF TeardownRecorded, TypeOK, StatusType
  <2>2. CASE TeardownDeletes
    BY <2>2 DEF TeardownDeletes, Requeue
  <2>3. CASE SweepBegins
    BY <2>3 DEF SweepBegins, TypeOK, LocType
  <2>4. CASE SweepDeletes
    <3>1. First(loc.todo) # status.current
      BY <2>4, Found DEF SweepDeletes, Pass
    <3>2. loc'.st = loc.st /\ pc = "sweeping" /\ UNCHANGED <<pc, status, removed>>
      BY <2>4 DEF SweepDeletes, TypeOK, LocType
    <3>3. phase' = phase \/ phase' = [phase EXCEPT ![First(loc.todo)] = "absent"]
      BY <2>4 DEF SweepDeletes
    <3>4. QED
      BY <3>1, <3>2, <3>3 DEF TypeOK, StatusType
  <2>5. CASE SweepEnds
    BY <1>1, <2>5 DEF SweepEnds, TypeOK, StatusType
  <2>6. CASE FailedCleanup
    <3>1. PICK S \in SUBSET InPhase(loc.ph, "Failed") :
             phase' = [i \in Ids |-> IF i \in S THEN "absent" ELSE phase[i]]
      BY <2>6 DEF FailedCleanup
    <3>2. QED
      BY <2>6, <3>1 DEF FailedCleanup, InPhase, View, TypeOK, StatusType
  <2>7. QED
    BY <1>6, <2>1, <2>2, <2>3, <2>4, <2>5, <2>6 DEF CleanupStep
<1>7. CASE RestoreStep
  <2>. USE DEF ListFrame, DecideFrame, At, Goto, Requeue
  <2>1. CASE RestoreCreated
    <3>1. created + 1 \in Ids /\ created + 1 > created
      BY <2>1, BoundsAssumption DEF RestoreCreated, Ids, TypeOK
    <3>2. status.current # created + 1 \/ status.current = NoRestore
      BY <3>1 DEF View
    <3>3. QED
      BY <2>1, <3>1, <3>2 DEF RestoreCreated, TypeOK, StatusType
  <2>2. CASE ~RestoreCreated
    BY <1>1, <1>7, <2>2 DEF RestoreStep, SnapshotJobPending, SnapshotResultMissing,
       SnapshotResultTaken, CreationRefused, WaitForRestore, Queued, SnapshotJobCreated, PassEnds,
       TypeOK, StatusType
  <2>3. QED
    BY <2>1, <2>2
<1>8. CASE RestoreNext
  <2>1. status'.current = status.current
    BY <1>8, RestoreMoves DEF TypeOK, StatusType
  <2>2. UNCHANGED <<loc, pc, removed>> /\ switching' = switching
    BY <1>8, RestoreMoves DEF switching
  <2>3. QED
    <3>1. \A j \in Ids : phase[j] = "Active" => phase'[j] = "Active"
      BY <1>8, RestoreMoves DEF TypeOK
    <3>2. status.current # NoRestore => status.current \in Ids
      BY DEF TypeOK, StatusType
    <3>3. pc = "record" => switching \in Ids
      BY Found DEF SwitchSteps
    <3>4. pc \in {"sweep", "sweeping"} => loc'.st.current = status'.current
      BY <2>1, <2>2
    <3>5. QED
      BY <2>1, <2>2, <3>1, <3>2, <3>3, <3>4
<1>9. CASE CallFails \/ OperatorRestarts
  BY <1>1, <1>9 DEF CallFails, OperatorRestarts, At, Requeue, objects
<1>10. CASE Environment
  <2>. USE DEF EnvFrame
  <2>1. status'.current = status.current /\ UNCHANGED <<loc, pc>>
    BY <1>10 DEF Environment, SnapshotJobSucceeds, SnapshotJobFails, SnapshotJobExpires,
       MigrationJobSucceeds, MigrationJobFails, GraceElapses, ScheduleFires, SnapshotTaken,
       SnapshotOffered, DeletedByHand, TypeOK, StatusType
  <2>2. switching' = switching
    BY <2>1 DEF switching
  <2>3. ASSUME NEW i \in Ids, DeletedByHand(i) PROVE Handed' /\ CurrentIsActive'
    BY <2>1, <2>2, <2>3 DEF DeletedByHand, TypeOK
  <2>4. CASE ~\E i \in Ids : DeletedByHand(i)
    <3>1. UNCHANGED <<phase, removed>>
      BY <1>10, <2>4 DEF Environment, SnapshotJobSucceeds, SnapshotJobFails, SnapshotJobExpires,
         MigrationJobSucceeds, MigrationJobFails, GraceElapses, ScheduleFires, SnapshotTaken,
         SnapshotOffered
    <3>2. QED
      BY <2>1, <2>2, <3>1
  <2>5. QED
    BY <2>3, <2>4
<1>11. QED
  BY <1>2, <1>3, <1>4, <1>5, <1>6, <1>7, <1>8, <1>9, <1>10 DEF Next, ReplicaNext

-----------------------------------------------------------------------------
(* The live restores: only RestoreCreated adds one.                        *)

(* Every step but RestoreCreated leaves the live restores or takes some.   *)
LEMMA LiveStep ==
    ASSUME TypeOK, Pass, View, Next
    PROVE  \/ Live(phase') \subseteq Live(phase) /\ UNCHANGED snap
           \/ RestoreCreated
<1>. USE DEF Live, TypeOK
<1>1. CASE Reconcile
  BY <1>1 DEF Reconcile
<1>2. CASE RedactionStep
  BY <1>2 DEF RedactionStep, RedactionAlreadyDone, RedactionBegins, RedactionFinishes,
     RedactionFails, RedactionFrame
<1>3. CASE MigrationStep
  BY <1>3 DEF MigrationStep, MigrationNotNeeded, MigrationRuns, MigrationOverBudget,
     MigrationSkipped, MigrationSucceeded, MigrationCleanup, MigrationFailed,
     MigrationFailureRecorded, NothingToCarry, CredentialReset, MigrationStarts, MigrationMarked,
     MigrationWith, MigrationFrame
<1>4. CASE SwitchoverStep
  <2>1. CASE RestoreActivated
    <3>1. switching \in Ids /\ loc.ph[switching] = "Switching"
      BY <2>1, Found DEF RestoreActivated, At, SwitchSteps
    <3>2. phase[switching] = "absent" \/ phase[switching] \in {"Switching", "Active"}
      BY <3>1 DEF View
    <3>3. QED
      BY <2>1, <3>1, <3>2 DEF RestoreActivated, SwitchFrame
  <2>2. CASE ~RestoreActivated
    BY <1>4, <2>2 DEF SwitchoverStep, GatesHold, GatesPass, SelectorMoves, StatusRecorded,
       SwitchoverReported, SwitchFrame
  <2>3. QED
    BY <2>1, <2>2
<1>5. CASE CleanupStep
  <2>. USE DEF CleanFrame
  <2>1. CASE TeardownRecorded \/ TeardownDeletes
    BY <2>1 DEF TeardownRecorded, TeardownDeletes
  <2>2. CASE SweepBegins \/ SweepDeletes \/ SweepEnds
    BY <2>2 DEF SweepBegins, SweepDeletes, SweepEnds
  <2>3. CASE FailedCleanup
    BY <2>3 DEF FailedCleanup
  <2>4. QED
    BY <1>5, <2>1, <2>2, <2>3 DEF CleanupStep
<1>6. CASE RestoreStep
  BY <1>6 DEF RestoreStep, SnapshotJobPending, SnapshotResultMissing, SnapshotResultTaken,
     CreationRefused, WaitForRestore, Queued, SnapshotJobCreated, PassEnds, DecideFrame
<1>7. CASE RestoreNext
  BY <1>7, RestoreMoves
<1>8. CASE CallFails \/ OperatorRestarts
  BY <1>8 DEF CallFails, OperatorRestarts, objects
<1>9. CASE Environment
  BY <1>9 DEF Environment, SnapshotJobSucceeds, SnapshotJobFails, SnapshotJobExpires,
     MigrationJobSucceeds, MigrationJobFails, GraceElapses, ScheduleFires, SnapshotTaken,
     SnapshotOffered, DeletedByHand, EnvFrame
<1>10. QED
  BY <1>1, <1>2, <1>3, <1>4, <1>5, <1>6, <1>7, <1>8, <1>9 DEF Next, ReplicaNext

(* The live restores can be counted.                                       *)
LEMMA LiveIsFinite ==
    ASSUME NEW ph
    PROVE  IsFiniteSet(Live(ph)) /\ Cardinality(Live(ph)) \in Nat
<1>1. IsFiniteSet(Ids)
  BY BoundsAssumption, FS_Interval DEF Ids
<1>2. Live(ph) \in SUBSET Ids
  BY DEF Live
<1>3. QED
  BY <1>1, <1>2, FS_Subset, FS_CardinalityType

(* The guardrail counts before it creates, so the bound is kept.           *)
LEMMA BoundStep ==
    ASSUME TypeOK, Pass, View, LiveRestoresBounded, Next
    PROVE  LiveRestoresBounded'
<1>1. CASE Live(phase') \subseteq Live(phase)
  <2>1. Cardinality(Live(phase')) <= Cardinality(Live(phase))
    BY <1>1, LiveIsFinite, FS_Subset
  <2>2. QED
    BY <2>1, LiveIsFinite, BoundsAssumption DEF LiveRestoresBounded
<1>2. CASE RestoreCreated
  <2>1. Live(phase') \in SUBSET (Live(phase) \cup {created + 1})
    BY <1>2 DEF RestoreCreated, Live, TypeOK
  <2>2. /\ IsFiniteSet(Live(phase) \cup {created + 1})
        /\ Cardinality(Live(phase) \cup {created + 1}) <= Cardinality(Live(phase)) + 1
    BY LiveIsFinite, FS_AddElement
  <2>3. Cardinality(Live(phase')) <= Cardinality(Live(phase)) + 1
    <3>1. Cardinality(Live(phase')) <= Cardinality(Live(phase) \cup {created + 1})
      BY <2>1, <2>2, FS_Subset
    <3>2. Cardinality(Live(phase) \cup {created + 1}) \in Nat
      BY <2>2, FS_CardinalityType
    <3>3. QED
      BY <2>2, <3>1, <3>2, LiveIsFinite
  <2>4. Cardinality(Live(phase)) < LiveLimit
    BY <1>2, LiveIsFinite, BoundsAssumption DEF RestoreCreated, TooManyRestores
  <2>5. QED
    BY <2>3, <2>4, LiveIsFinite, BoundsAssumption DEF LiveRestoresBounded
<1>3. QED
  BY <1>1, <1>2, LiveStep

(* A pass that is about to create has picked a snapshot no live restore    *)
(* of its list works on.                                                   *)
LEMMA FreshStep ==
    ASSUME TypeOK, Pass, View, Fresh, Next
    PROVE  Fresh'
<1>1. CASE pc' # "create"
  BY <1>1 DEF Fresh
<1>2. CASE SnapshotResultTaken /\ pc' = "create"
  <2>1. PICK s \in Picked(results) :
           /\ loc' = [loc EXCEPT !.hadJob = TRUE, !.pick = s]
           /\ ~snapshot_already_covered(s)
    BY <1>2 DEF SnapshotResultTaken
  <2>2. \A i \in Live(loc.ph) : snap[i] # s
    BY <2>1 DEF snapshot_already_covered
  <2>3. loc'.ph = loc.ph /\ loc'.pick = s /\ snap' = snap
    BY <1>2, <2>1 DEF SnapshotResultTaken, TypeOK, LocType
  <2>4. QED
    BY <2>2, <2>3 DEF Fresh, Live
<1>3. CASE UNCHANGED <<pc, loc, snap>>
  BY <1>3 DEF Fresh, Live
<1>4. CASE ReplicaNext /\ pc' = "create"
  <2>1. SnapshotResultTaken
    BY <1>4 DEF ReplicaNext, Reconcile, FirstGate, AfterRedaction, RedactionStep,
       RedactionAlreadyDone, RedactionBegins, RedactionFinishes, RedactionFails, MigrationStep,
       MigrationNotNeeded, MigrationRuns, MigrationOverBudget, MigrationSkipped,
       MigrationSucceeded, MigrationCleanup, MigrationFailed, MigrationFailureRecorded,
       NothingToCarry, CredentialReset, MigrationStarts, MigrationMarked, MigrationWith,
       SwitchoverStep, GatesHold, GatesPass, SelectorMoves, RestoreActivated, StatusRecorded,
       SwitchoverReported, CleanupStep, TeardownRecorded, TeardownDeletes, SweepBegins,
       SweepDeletes, SweepEnds, FailedCleanup, RestoreStep, SnapshotJobPending,
       SnapshotResultMissing, RestoreCreated, CreationRefused, WaitForRestore, Queued,
       SnapshotJobCreated, PassEnds, At, Goto, Requeue
  <2>2. QED
    BY <1>2, <1>4, <2>1
<1>5. CASE RestoreNext
  BY <1>3, <1>5, RestoreMoves
<1>6. CASE CallFails \/ OperatorRestarts
  BY <1>1, <1>6 DEF CallFails, OperatorRestarts, Requeue
<1>7. CASE Environment
  BY <1>3, <1>7 DEF Environment, SnapshotJobSucceeds, SnapshotJobFails, SnapshotJobExpires,
     MigrationJobSucceeds, MigrationJobFails, GraceElapses, ScheduleFires, SnapshotTaken,
     SnapshotOffered, DeletedByHand, EnvFrame
<1>8. QED
  BY <1>1, <1>4, <1>5, <1>6, <1>7 DEF Next

(* What is fresh in the list is fresh in the cluster: the list lacks none  *)
(* of the live restores.                                                   *)
LEMMA OnePerSnapshotStep ==
    ASSUME TypeOK, Pass, View, Fresh, OneRestorePerSnapshot, Next
    PROVE  OneRestorePerSnapshot'
<1>1. CASE Live(phase') \subseteq Live(phase) /\ UNCHANGED snap
  BY <1>1 DEF OneRestorePerSnapshot
<1>2. CASE RestoreCreated
  <2>1. created + 1 \in Ids /\ created + 1 \notin Live(phase)
    BY <1>2, BoundsAssumption DEF RestoreCreated, Ids, TypeOK, View, Live
  <2>2. Live(phase') \subseteq Live(phase) \cup {created + 1}
    BY <1>2 DEF RestoreCreated, Live, TypeOK
  <2>3. snap'[created + 1] = loc.pick /\ \A i \in Live(phase) : snap'[i] = snap[i]
    BY <1>2, <2>1 DEF RestoreCreated, Live, TypeOK
  <2>4. \A i \in Live(phase) : snap[i] # loc.pick
    BY <1>2 DEF RestoreCreated, At, View, Fresh, Live
  <2>5. QED
    BY <2>2, <2>3, <2>4 DEF OneRestorePerSnapshot
<1>3. QED
  BY <1>1, <1>2, LiveStep

-----------------------------------------------------------------------------
(* The Service                                                             *)

(* Without faults, no step leaves the Service of a kept replica on a       *)
(* restore that is not up.                                                 *)
LEMMA ServedStep ==
    ASSUME TypeOK, Pass, View, Handed, Pointed, ServedIsUpUnlessFault, Next,
           faults' = 0, ~Ephemeral
    PROVE  Pointed' /\ ServedIsUp'
<1>. USE DEF TypeOK, NoRestore
<1>1. faults = 0 /\ ServedIsUp
  <2>1. faults' \in {faults, faults + 1}
    BY RestoreMoves DEF Next, ReplicaNext, Reconcile, RedactionStep, RedactionAlreadyDone,
       RedactionBegins, RedactionFinishes, RedactionFails, RedactionFrame, MigrationStep,
       MigrationNotNeeded, MigrationRuns, MigrationOverBudget, MigrationSkipped,
       MigrationSucceeded, MigrationCleanup, MigrationFailed, MigrationFailureRecorded,
       NothingToCarry, CredentialReset, MigrationStarts, MigrationMarked, SwitchoverStep,
       GatesHold, GatesPass, SelectorMoves, RestoreActivated, StatusRecorded, SwitchoverReported,
       SwitchFrame, CleanupStep, TeardownRecorded, TeardownDeletes, SweepBegins, SweepDeletes,
       SweepEnds, FailedCleanup, RestoreStep, SnapshotJobPending, SnapshotResultMissing,
       SnapshotResultTaken, RestoreCreated, CreationRefused, WaitForRestore, Queued,
       SnapshotJobCreated, PassEnds, DecideFrame, Works, ApiError, CallFails, OperatorRestarts,
       Environment, SnapshotJobSucceeds, SnapshotJobFails, SnapshotJobExpires,
       MigrationJobSucceeds, MigrationJobFails, GraceElapses, ScheduleFires, SnapshotTaken,
       SnapshotOffered, DeletedByHand, EnvFrame
  <2>2. faults = 0
    BY <2>1, BoundsAssumption
  <2>3. QED
    BY <2>2 DEF ServedIsUpUnlessFault
<1>2. IF pc \in {"activate", "record"} THEN selector = switching
      ELSE selector = status.current \/ selector \in removed
  BY <1>1 DEF Pointed
<1>3. SUFFICES
        /\ ServedIsUp'
        /\ IF pc' \in {"activate", "record"} THEN selector' = switching'
           ELSE selector' = status'.current \/ selector' \in removed'
  BY DEF Pointed
<1>4. CASE /\ UNCHANGED <<phase, removed, selector>> /\ status'.current = status.current
           /\ pc \notin {"activate", "record"} /\ pc' \notin {"activate", "record"}
  BY <1>1, <1>2, <1>4 DEF ServedIsUp
<1>5. CASE Reconcile
  BY <1>4, <1>5 DEF Reconcile, FirstGate, At
<1>6. CASE RedactionStep
  BY <1>4, <1>6 DEF RedactionStep, RedactionAlreadyDone, RedactionBegins, RedactionFinishes,
     RedactionFails, RedactionFrame, At, Goto, Requeue, AfterRedaction, StatusType
<1>7. CASE MigrationStep
  BY <1>4, <1>7 DEF MigrationStep, MigrationNotNeeded, MigrationRuns, MigrationOverBudget,
     MigrationSkipped, MigrationSucceeded, MigrationCleanup, MigrationFailed,
     MigrationFailureRecorded, NothingToCarry, CredentialReset, MigrationStarts, MigrationMarked,
     MigrationWith, MigrationFrame, At, Goto, Requeue, StatusType
<1>8. CASE SwitchoverStep
  <2>. USE DEF SwitchFrame, At, Goto, Requeue
  <2>1. pc \in SwitchSteps =>
          /\ switching \in Ids
          /\ phase[switching] \in {"Switching", "Active"} \/ switching \in removed
    BY Found DEF View
  <2>2. CASE GatesHold \/ GatesPass \/ SwitchoverReported
    BY <1>4, <2>2 DEF GatesHold, GatesPass, SwitchoverReported
  <2>3. CASE SelectorMoves
    <3>1. switching' = switching
      BY <2>3 DEF SelectorMoves, switching
    <3>2. QED
      BY <2>1, <2>3, <3>1 DEF SelectorMoves, ServedIsUp, SwitchSteps
  <2>4. CASE RestoreActivated
    <3>1. CASE phase[switching] = "absent"
      BY <1>1, <1>2, <2>1, <2>4, <3>1 DEF RestoreActivated, ServedIsUp, SwitchSteps
    <3>2. CASE phase[switching] # "absent"
      <4>1. UNCHANGED <<loc, selector, removed>> /\ pc' = "record" /\ selector = switching
        BY <1>2, <2>4, <3>2 DEF RestoreActivated
      <4>2. switching' = switching
        BY <4>1 DEF switching
      <4>3. phase'[switching] = "Active"
        BY <2>1, <2>4, <3>2 DEF RestoreActivated, SwitchSteps
      <4>4. QED
        BY <4>1, <4>2, <4>3 DEF ServedIsUp
    <3>3. QED
      BY <3>1, <3>2
  <2>5. CASE StatusRecorded
    <3>1. selector = switching /\ status'.current = switching
      BY <1>2, <2>5 DEF StatusRecorded, StatusType
    <3>2. UNCHANGED <<phase, removed, selector>> /\ pc' = "report"
      BY <2>5 DEF StatusRecorded
    <3>3. QED
      BY <1>1, <3>1, <3>2 DEF ServedIsUp
  <2>6. QED
    BY <1>8, <2>2, <2>3, <2>4, <2>5 DEF SwitchoverStep
<1>9. CASE CleanupStep
  <2>. USE DEF CleanFrame, At, Goto
  <2>1. CASE TeardownRecorded \/ TeardownDeletes
    BY <2>1 DEF TeardownRecorded, TeardownDeletes, Pass
  <2>2. CASE SweepBegins
    BY <1>4, <2>2 DEF SweepBegins
  <2>3. CASE SweepDeletes
    <3>1. First(loc.todo) # status.current
      BY <2>3, Found DEF SweepDeletes, Pass, Handed
    <3>2. pc = "sweeping" /\ UNCHANGED <<pc, status, selector, removed>>
      BY <2>3 DEF SweepDeletes
    <3>3. phase' = phase \/ phase' = [phase EXCEPT ![First(loc.todo)] = "absent"]
      BY <2>3 DEF SweepDeletes
    <3>4. QED
      BY <1>1, <1>2, <3>1, <3>2, <3>3 DEF ServedIsUp
  <2>4. CASE SweepEnds
    BY <1>4, <2>4 DEF SweepEnds, StatusType
  <2>5. CASE FailedCleanup
    <3>1. PICK S \in SUBSET InPhase(loc.ph, "Failed") :
             phase' = [i \in Ids |-> IF i \in S THEN "absent" ELSE phase[i]]
      BY <2>5 DEF FailedCleanup
    <3>2. ServedIsUp'
      BY <1>1, <2>5, <3>1 DEF FailedCleanup, InPhase, View, ServedIsUp
    <3>3. QED
      BY <1>2, <2>5, <3>2 DEF FailedCleanup
  <2>6. QED
    BY <1>9, <2>1, <2>2, <2>3, <2>4, <2>5 DEF CleanupStep
<1>10. CASE RestoreStep
  <2>. USE DEF ListFrame, DecideFrame, At, Goto, Requeue
  <2>1. CASE RestoreCreated
    <3>1. created + 1 \in Ids /\ created + 1 > created
      BY <2>1, BoundsAssumption DEF RestoreCreated, Ids
    <3>2. selector # created + 1
      BY <1>1, <3>1 DEF View, ServedIsUp, Ids
    <3>3. ServedIsUp'
      BY <1>1, <2>1, <3>1, <3>2 DEF RestoreCreated, ServedIsUp
    <3>4. QED
      BY <1>2, <2>1, <3>3 DEF RestoreCreated
  <2>2. CASE ~RestoreCreated
    BY <1>4, <1>10, <2>2 DEF RestoreStep, SnapshotJobPending, SnapshotResultMissing,
       SnapshotResultTaken, CreationRefused, WaitForRestore, Queued, SnapshotJobCreated, PassEnds,
       StatusType
  <2>3. QED
    BY <2>1, <2>2
<1>11. CASE RestoreNext
  <2>1. status'.current = status.current
    BY <1>11, RestoreMoves DEF StatusType
  <2>2. UNCHANGED <<loc, pc, removed, selector>> /\ switching' = switching
    BY <1>11, RestoreMoves DEF switching
  <2>3. \A j \in Ids : phase[j] \in {"Switching", "Active"} => phase'[j] = phase[j]
    BY <1>11, RestoreMoves
  <2>4. QED
    BY <1>1, <1>2, <2>1, <2>2, <2>3 DEF ServedIsUp
<1>12. CASE CallFails \/ OperatorRestarts
  BY <1>1, <1>12 DEF CallFails, OperatorRestarts, ApiError
<1>13. CASE Environment
  <2>. USE DEF EnvFrame
  <2>1. status'.current = status.current /\ UNCHANGED <<loc, pc, selector>>
    BY <1>13 DEF Environment, SnapshotJobSucceeds, SnapshotJobFails, SnapshotJobExpires,
       MigrationJobSucceeds, MigrationJobFails, GraceElapses, ScheduleFires, SnapshotTaken,
       SnapshotOffered, DeletedByHand, StatusType
  <2>2. switching' = switching
    BY <2>1 DEF switching
  <2>3. /\ removed \subseteq removed'
        /\ \A j \in Ids : phase'[j] = phase[j] \/ j \in removed'
    BY <1>13 DEF Environment, SnapshotJobSucceeds, SnapshotJobFails, SnapshotJobExpires,
       MigrationJobSucceeds, MigrationJobFails, GraceElapses, ScheduleFires, SnapshotTaken,
       SnapshotOffered, DeletedByHand
  <2>4. QED
    BY <1>1, <1>2, <2>1, <2>2, <2>3 DEF ServedIsUp
<1>14. QED
  BY <1>5, <1>6, <1>7, <1>8, <1>9, <1>10, <1>11, <1>12, <1>13 DEF Next, ReplicaNext

-----------------------------------------------------------------------------
(* The gates                                                               *)

(* A pass past the redaction gate has done recorded, and one that creates  *)
(* has checked the recorded marker.                                        *)
LEMMA GatedStep ==
    ASSUME TypeOK, Gated, Next
    PROVE  Gated'
<1>. USE DEF Gated, SwitchSteps, TypeOK, StatusType
<1>1. CASE pc' \in {"idle", "activate", "record", "report", "teardown", "teardownDelete", "decide"}
  BY <1>1
<1>2. CASE Reconcile
  <2>1. loc'.st = status /\ status' = status
    BY <1>2 DEF Reconcile, NoLoc
  <2>2. pc' \in {"redact", "sweep", "teardown"} \/ (~Redaction /\ pc' \in {"migrate", "gates"})
    BY <1>2 DEF Reconcile, FirstGate
  <2>3. QED
    BY <2>1, <2>2
<1>3. CASE RedactionStep
  BY <1>3 DEF RedactionStep, RedactionAlreadyDone, RedactionBegins, RedactionFinishes,
     RedactionFails, RedactionIsDone, AfterRedaction, st, At, Goto, Requeue
<1>4. CASE MigrationStep
  <2>1. pc \in {"migrate", "migMark", "migClean", "migFail", "migSkip"}
    BY <1>4 DEF MigrationStep, MigrationNotNeeded, MigrationRuns, MigrationOverBudget,
       MigrationSkipped, MigrationSucceeded, MigrationCleanup, MigrationFailed,
       MigrationFailureRecorded, NothingToCarry, CredentialReset, MigrationStarts,
       MigrationMarked, MigrationWith, At
  <2>2. pc' \in {"idle", "migMark", "migClean", "migFail", "migSkip", "gates"}
    BY <1>4 DEF MigrationStep, MigrationNotNeeded, MigrationRuns, MigrationOverBudget,
       MigrationSkipped, MigrationSucceeded, MigrationCleanup, MigrationFailed,
       MigrationFailureRecorded, NothingToCarry, CredentialReset, MigrationStarts,
       MigrationMarked, Goto, Requeue
  <2>3. status'.redaction = status.redaction
    BY <1>4 DEF MigrationStep, MigrationNotNeeded, MigrationRuns, MigrationOverBudget,
       MigrationSkipped, MigrationSucceeded, MigrationCleanup, MigrationFailed,
       MigrationFailureRecorded, NothingToCarry, CredentialReset, MigrationStarts,
       MigrationMarked
  <2>4. QED
    BY <2>1, <2>2, <2>3
<1>5. CASE SwitchoverStep
  BY <1>1, <1>5 DEF SwitchoverStep, GatesHold, GatesPass, SelectorMoves, RestoreActivated,
     StatusRecorded, SwitchoverReported, At, Goto, Requeue
<1>6. CASE CleanupStep
  <2>. USE DEF At, Goto
  <2>1. CASE TeardownRecorded \/ TeardownDeletes
    BY <1>1, <2>1 DEF TeardownRecorded, TeardownDeletes, Requeue
  <2>2. CASE SweepBegins \/ SweepDeletes \/ SweepEnds \/ FailedCleanup
    <3>1. /\ pc \in {"sweep", "sweeping", "failed"} /\ pc' \in {"sweeping", "failed", "snapshots"}
          /\ loc'.st = loc.st
      BY <2>2 DEF SweepBegins, SweepDeletes, SweepEnds, FailedCleanup, LocType
    <3>2. status'.verified = status.verified
      BY <2>2 DEF SweepBegins, SweepDeletes, SweepEnds, FailedCleanup
    <3>3. QED
      BY <3>1, <3>2
  <2>3. QED
    BY <1>6, <2>1, <2>2 DEF CleanupStep
<1>7. CASE RestoreStep
  <2>1. CASE SnapshotResultTaken
    <3>1. PICK s \in Picked(results) :
             /\ loc' = [loc EXCEPT !.hadJob = TRUE, !.pick = s]
             /\ pc' \in {"create", "decide"}
             /\ pc' = "create" => ~snapshot_already_covered(s)
      BY <2>1 DEF SnapshotResultTaken
    <3>2. loc'.st = loc.st /\ loc'.pick = s /\ status' = status /\ pc = "snapshots"
      BY <2>1, <3>1 DEF SnapshotResultTaken, ListFrame, At, LocType
    <3>3. pc' = "create" => s # loc.st.verified
      BY <3>1 DEF snapshot_already_covered, st
    <3>4. QED
      BY <3>1, <3>2, <3>3
  <2>2. CASE ~SnapshotResultTaken
    BY <1>1, <1>7, <2>2 DEF RestoreStep, SnapshotJobPending, SnapshotResultMissing,
       RestoreCreated, CreationRefused, WaitForRestore, Queued, SnapshotJobCreated, PassEnds,
       Goto, Requeue
  <2>3. QED
    BY <2>1, <2>2
<1>8. CASE RestoreNext
  <2>1. status'.redaction = status.redaction /\ status'.verified = status.verified
    BY <1>8, RestoreMoves
  <2>2. QED
    BY <1>8, <2>1, RestoreMoves
<1>9. CASE CallFails \/ OperatorRestarts
  BY <1>1, <1>9 DEF CallFails, OperatorRestarts, Requeue
<1>10. CASE Environment
  <2>1. status'.redaction = status.redaction /\ status'.verified = status.verified
    BY <1>10 DEF Environment, SnapshotJobSucceeds, SnapshotJobFails, SnapshotJobExpires,
       MigrationJobSucceeds, MigrationJobFails, GraceElapses, ScheduleFires, SnapshotTaken,
       SnapshotOffered, DeletedByHand
  <2>2. UNCHANGED <<pc, loc>>
    BY <1>10 DEF Environment, SnapshotJobSucceeds, SnapshotJobFails, SnapshotJobExpires,
       MigrationJobSucceeds, MigrationJobFails, GraceElapses, ScheduleFires, SnapshotTaken,
       SnapshotOffered, DeletedByHand, EnvFrame
  <2>3. QED
    BY <2>1, <2>2
<1>11. QED
  BY <1>2, <1>3, <1>4, <1>5, <1>6, <1>7, <1>8, <1>9, <1>10 DEF Next, ReplicaNext

(* Which steps move the Service, and which create a restore.               *)
LEMMA MovesAndCreations ==
    ASSUME Next
    PROVE  /\ selector' # selector => SelectorMoves
           /\ created' # created => RestoreCreated
<1>1. CASE ReplicaNext
  BY <1>1 DEF ReplicaNext, Reconcile, RedactionStep, RedactionAlreadyDone,
     RedactionBegins, RedactionFinishes, RedactionFails, RedactionFrame, MigrationStep,
     MigrationNotNeeded, MigrationRuns, MigrationOverBudget, MigrationSkipped,
     MigrationSucceeded, MigrationCleanup, MigrationFailed, MigrationFailureRecorded,
     NothingToCarry, CredentialReset, MigrationStarts, MigrationMarked, MigrationWith,
     MigrationFrame, SwitchoverStep, GatesHold, GatesPass, RestoreActivated,
     StatusRecorded, SwitchoverReported, SwitchFrame, CleanupStep, TeardownRecorded,
     TeardownDeletes, SweepBegins, SweepDeletes, SweepEnds, FailedCleanup, CleanFrame, RestoreStep,
     SnapshotJobPending, SnapshotResultMissing, SnapshotResultTaken,
     CreationRefused, WaitForRestore, Queued, SnapshotJobCreated, PassEnds, ListFrame, DecideFrame,
     SelectorMoves, RestoreCreated
<1>2. CASE RestoreNext
  BY <1>2, RestoreMoves
<1>3. CASE CallFails \/ OperatorRestarts
  BY <1>3 DEF CallFails, OperatorRestarts, objects
<1>4. CASE Environment
  BY <1>4 DEF Environment, SnapshotJobSucceeds, SnapshotJobFails, SnapshotJobExpires,
     MigrationJobSucceeds, MigrationJobFails, GraceElapses, ScheduleFires, SnapshotTaken,
     SnapshotOffered, DeletedByHand, EnvFrame
<1>5. QED
  BY <1>1, <1>2, <1>3, <1>4 DEF Next

-----------------------------------------------------------------------------
(* The theorems                                                            *)

(* What the safety proofs carry from step to step.                         *)
Inv ==
    /\ TypeOK /\ Pass /\ View
    /\ Handed /\ CurrentIsActive
    /\ LiveRestoresBounded
    /\ Fresh /\ OneRestorePerSnapshot
    /\ Pointed /\ ServedIsUpUnlessFault
    /\ Gated

(* The invariant holds at the start.                                       *)
LEMMA InitInv == Init => Inv
<1>. SUFFICES ASSUME Init PROVE Inv
  OBVIOUS
<1>1. TypeOK /\ Pass
  BY InitType
<1>2. Live(phase) = {}
  BY DEF Init, Live
<1>3. LiveRestoresBounded
  BY <1>2, FS_EmptySet, BoundsAssumption DEF LiveRestoresBounded
<1>4. View
  BY DEF Init, View, NoLoc, Live
<1>5. Handed /\ CurrentIsActive /\ Fresh /\ OneRestorePerSnapshot
  BY <1>2 DEF Init, Handed, CurrentIsActive, Fresh, OneRestorePerSnapshot, InitStatus
<1>6. Pointed /\ ServedIsUpUnlessFault /\ Gated
  BY DEF Init, Pointed, ServedIsUpUnlessFault, ServedIsUp, Gated, InitStatus, SwitchSteps, NoRestore
<1>7. QED
  BY <1>1, <1>3, <1>4, <1>5, <1>6 DEF Inv

(* The invariant is inductive.                                             *)
LEMMA NextInv == Inv /\ [Next]_vars => Inv'
<1>. SUFFICES ASSUME Inv, [Next]_vars PROVE Inv'
  OBVIOUS
<1>1. CASE Next
  <2>1. TypeOK' /\ Pass' /\ View'
    BY <1>1, TypeStep, PassStep, ViewStep DEF Inv
  <2>2. Handed' /\ CurrentIsActive'
    BY <1>1, CurrentStep DEF Inv
  <2>3. LiveRestoresBounded' /\ Fresh' /\ OneRestorePerSnapshot' /\ Gated'
    BY <1>1, BoundStep, FreshStep, OnePerSnapshotStep, GatedStep DEF Inv
  <2>4. Pointed' /\ ServedIsUpUnlessFault'
    <3>1. CASE faults' = 0 /\ ~Ephemeral
      BY <1>1, <3>1, ServedStep DEF Inv, ServedIsUpUnlessFault
    <3>2. CASE ~(faults' = 0 /\ ~Ephemeral)
      BY <3>2 DEF Pointed, ServedIsUpUnlessFault
    <3>3. QED
      BY <3>1, <3>2
  <2>5. QED
    BY <2>1, <2>2, <2>3, <2>4 DEF Inv
<1>2. CASE UNCHANGED vars
  <2>1. /\ UNCHANGED <<phase, snap, migrated, created, status, selector, migJob, snapJob, results>>
        /\ UNCHANGED <<booking, pc, loc, newest, faults, removed, redacted, carried, reported>>
    BY <1>2 DEF vars, objects, jobVars, env, ghosts
  <2>2. TypeOK' /\ Pass' /\ View'
    BY <2>1 DEF Inv, TypeOK, Pass, View, InPhase, Live
  <2>3. switching' = switching
    BY <2>1 DEF switching
  <2>4. Handed' /\ CurrentIsActive' /\ LiveRestoresBounded' /\ Fresh' /\ OneRestorePerSnapshot'
    BY <2>1, <2>3 DEF Inv, Handed, CurrentIsActive, LiveRestoresBounded, Fresh,
       OneRestorePerSnapshot, Live
  <2>5. Pointed' /\ ServedIsUpUnlessFault' /\ Gated'
    BY <2>1, <2>3 DEF Inv, Pointed, ServedIsUpUnlessFault, ServedIsUp, Gated
  <2>6. QED
    BY <2>2, <2>4, <2>5 DEF Inv
<1>3. QED
  BY <1>1, <1>2

(* The invariant holds throughout every behaviour of the operator.         *)
THEOREM Invariance == Spec => []Inv
  BY InitInv, NextInv, PTL DEF Spec

(* Every variable keeps its type: the phases the two controllers write are *)
(* the ones they read, and no reconcile refers to a restore it has not got.*)
THEOREM TypeCorrect == Spec => []TypeOK
<1>1. Inv => TypeOK
  BY DEF Inv
<1>2. QED
  BY <1>1, Invariance, PTL

(* status.currentRestore never dangles, whatever fails or restarts.        *)
THEOREM CurrentNeverDangles == Spec => []CurrentIsActive
<1>1. Inv => CurrentIsActive
  BY DEF Inv
<1>2. QED
  BY <1>1, Invariance, PTL

(* No sweep takes away the restore a kept replica's Service selects, as    *)
(* long as nothing has failed.                                             *)
THEOREM ServedStaysUp == Spec => []ServedIsUpUnlessFault
<1>1. Inv => ServedIsUpUnlessFault
  BY DEF Inv
<1>2. QED
  BY <1>1, Invariance, PTL

(* A replica never has more live restores than MAX_RESTORES_PER_REPLICA.   *)
THEOREM GuardrailHolds == Spec => []LiveRestoresBounded
<1>1. Inv => LiveRestoresBounded
  BY DEF Inv
<1>2. QED
  BY <1>1, Invariance, PTL

(* No two live restores of a replica work on the same snapshot.            *)
THEOREM SnapshotsNotShared == Spec => []OneRestorePerSnapshot
<1>1. Inv => OneRestorePerSnapshot
  BY DEF Inv
<1>2. QED
  BY <1>1, Invariance, PTL

(* The Service of a replica with redaction moves on no recorded phase but  *)
(* done: a redaction that failed or was cut short holds the switchover.    *)
THEOREM RedactionGates == Spec => FailedRedactionHolds
<1>1. Inv /\ [Next]_vars => [Redaction /\ selector' # selector => status.redaction = "done"]_vars
  BY MovesAndCreations DEF Inv, Gated, SelectorMoves, At, SwitchSteps, vars
<1>2. QED
  BY <1>1, Invariance, PTL DEF Spec, FailedRedactionHolds

(* No restore is created for the snapshot the verified marker names.       *)
THEOREM VerifiedGates == Spec => VerifiedNotRepeated
<1>1. Inv /\ [Next]_vars => [created' # created => snap'[created'] # status.verified]_vars
  <2>. SUFFICES ASSUME Inv, Next, created' # created
                PROVE  snap'[created'] # status.verified
    BY DEF vars, objects
  <2>1. RestoreCreated
    BY MovesAndCreations
  <2>2. created + 1 \in Ids
    BY <2>1, BoundsAssumption DEF RestoreCreated, Inv, TypeOK, Ids
  <2>3. snap'[created'] = loc.pick
    BY <2>1, <2>2 DEF RestoreCreated, Inv, TypeOK
  <2>4. QED
    BY <2>1, <2>3 DEF RestoreCreated, At, Inv, Gated
<1>2. QED
  BY <1>1, Invariance, PTL DEF Spec, VerifiedNotRepeated

=============================================================================
