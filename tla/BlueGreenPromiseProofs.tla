------------------------ MODULE BlueGreenPromiseProofs ------------------------
(***************************************************************************)
(* What a replica keeps while it switches over, for every number of        *)
(* restores and snapshots: the source of a schema migration, the gate of   *)
(* that migration, the report before a teardown, and the promise of module *)
(* ServedDatabase.                                                         *)
(*                                                                         *)
(* They need more of a pass than module BlueGreenProofs carries: Known is  *)
(* what a pass can still rely on of what it listed and was handed, and     *)
(* holds of every replica; the invariants after it hold of a replica that  *)
(* is kept, or as long as nothing has failed.                              *)
(***************************************************************************)
EXTENDS BlueGreenProofs

InMigration == {"migMark", "migClean", "migFail", "migSkip"}
MigSteps == {"migrate"} \cup InMigration

(* Until the switchover is reported a pass deletes nothing, so a restore   *)
(* it lists as Active stays Active; nobody else writes the migration phase *)
(* it was handed; and the sweep goes by conditions that still hold.        *)
Known ==
    /\ pc \in SwitchSteps => \A i \in Ids :
         loc.ph[i] = "Active" => phase[i] = "Active" \/ i \in removed
    /\ pc \in {"redact", "redacting", "migrate", "sweep", "sweeping"} =>
         loc.st.migration = status.migration
    /\ pc \in MigSteps \/ migJob.state # "none" => PersistentSchemas
    /\ pc \in InMigration => InPhase(loc.ph, "Active") # {}
    /\ pc = "sweep" /\ loc.st.completed = "pastGrace" => status.completed = "pastGrace"
    /\ pc = "sweeping" =>
         /\ loc.st.current # NoRestore
         /\ status.completed = "pastGrace"
         /\ PersistentSchemas => loc.st.migration # "active"
    /\ pc = "migClean" => status.migration \in {"complete", "partial"}

(* Without faults a running migration Job is the recorded one, and its     *)
(* source is there.                                                        *)
SourceKept ==
    faults = 0 =>
        /\ migJob.state = "Active" =>
             /\ status.migration = "active" \/ pc = "migMark"
             /\ phase[migJob.from] = "Active" \/ migJob.from \in removed
        /\ pc \in {"migClean", "migFail", "migSkip"} => migJob.state # "Active"

Unfinished == {"active", "failed"}

(* A kept replica nobody deletes from has a restore to carry from as long  *)
(* as its migration is not done with, and a pass that is past the          *)
(* migration has it done with.                                             *)
MigrationGate ==
    /\ removed = {}
    /\ status.migration \in Unfinished => InPhase(phase, "Active") # {}
    /\ pc \in {"redact", "redacting", "migrate"} /\ status.migration \in Unfinished
         => InPhase(loc.ph, "Active") # {}
    /\ PersistentSchemas /\ pc \in {"gates", "selector"} => status.migration \notin Unfinished

(* Without faults an Active restore has been reported, or the pass that    *)
(* activated it is about to.                                               *)
ReportDue ==
    faults = 0 => \A i \in Ids : phase[i] = "Active" =>
        i \in reported \/ (pc \in {"record", "report"} /\ i = switching)

(* A switchover that is on record has left a current restore.              *)
Recorded == status.completed # "never" => status.current # NoRestore

-----------------------------------------------------------------------------
(* Which actions write what; every proof below goes by these.              *)
LEMMA Writers ==
    ASSUME TypeOK, Next
    PROVE  /\ phase' # phase => \/ RestoreNext \/ RestoreActivated \/ TeardownDeletes
                                \/ SweepDeletes \/ FailedCleanup \/ RestoreCreated
                                \/ \E i \in Ids : DeletedByHand(i)
           /\ removed' # removed => \E i \in Ids : DeletedByHand(i)
           /\ faults' \in {faults, faults + 1}
           /\ reported' # reported => SwitchoverReported
           /\ migJob' # migJob => \/ MigrationStep \/ MigrationJobSucceeds \/ MigrationJobFails
                                  \/ migJob' = NoMigJob
           /\ status'.migration # status.migration => MigrationStep \/ SweepEnds
           /\ status'.completed # status.completed => StatusRecorded \/ GraceElapses
           /\ status'.current # status.current => StatusRecorded \/ TeardownRecorded
<1>. USE DEF TypeOK, StatusType, jobVars, ghosts, objects
<1>1. CASE ReplicaNext
  BY <1>1 DEF ReplicaNext, Reconcile, RedactionStep, RedactionAlreadyDone, RedactionBegins,
     RedactionFinishes, RedactionFails, RedactionFrame, MigrationStep, MigrationNotNeeded,
     MigrationRuns, MigrationOverBudget, MigrationSkipped, MigrationSucceeded, MigrationCleanup,
     MigrationFailed, MigrationFailureRecorded, NothingToCarry, CredentialReset, MigrationStarts,
     MigrationMarked, MigrationWith, MigrationFrame, SwitchoverStep, GatesHold, GatesPass,
     SelectorMoves, RestoreActivated, StatusRecorded, SwitchoverReported, SwitchFrame, CleanupStep,
     TeardownRecorded, TeardownDeletes, SweepBegins, SweepDeletes, SweepEnds, FailedCleanup,
     CleanFrame, RestoreStep, SnapshotJobPending, SnapshotResultMissing, SnapshotResultTaken,
     RestoreCreated, CreationRefused, ListFrame, WaitForRestore, Queued, SnapshotJobCreated,
     PassEnds, DecideFrame, At, Goto, Requeue, Works, ApiError
<1>2. CASE RestoreNext
  BY <1>2, RestoreMoves
<1>3. CASE CallFails \/ OperatorRestarts
  BY <1>3 DEF CallFails, OperatorRestarts, At, ApiError, Requeue
<1>4. CASE Environment
  BY <1>4 DEF Environment, SnapshotJobSucceeds, SnapshotJobFails, SnapshotJobExpires,
     MigrationJobSucceeds, MigrationJobFails, GraceElapses, ScheduleFires, SnapshotTaken,
     SnapshotOffered, DeletedByHand, EnvFrame
<1>5. QED
  BY <1>1, <1>2, <1>3, <1>4 DEF Next

(* Only the migration step takes a pass into or out of its inner steps, as *)
(* long as nothing fails.                                                  *)
LEMMA MigrationSteps ==
    ASSUME Next, pc' # pc, pc \in InMigration \/ pc' \in InMigration
    PROVE  MigrationStep \/ faults' = faults + 1
<1>. USE DEF InMigration
<1>1. CASE Reconcile \/ RedactionStep
  BY <1>1 DEF Reconcile, FirstGate, RedactionStep, RedactionAlreadyDone, RedactionBegins,
     RedactionFinishes, RedactionFails, AfterRedaction, At, Goto, Requeue
<1>2. CASE SwitchoverStep \/ CleanupStep
  BY <1>2 DEF SwitchoverStep, GatesHold, GatesPass, SelectorMoves, RestoreActivated, StatusRecorded,
     SwitchoverReported, CleanupStep, TeardownRecorded, TeardownDeletes, SweepBegins, SweepDeletes,
     SweepEnds, FailedCleanup, At, Goto, Requeue
<1>3. CASE RestoreStep
  BY <1>3 DEF RestoreStep, SnapshotJobPending, SnapshotResultMissing, SnapshotResultTaken,
     RestoreCreated, CreationRefused, WaitForRestore, Queued, SnapshotJobCreated, PassEnds,
     At, Goto, Requeue
<1>4. CASE RestoreNext
  BY <1>4, RestoreMoves
<1>5. CASE CallFails \/ OperatorRestarts
  BY <1>5 DEF CallFails, OperatorRestarts, ApiError
<1>6. CASE Environment
  BY <1>6 DEF Environment, SnapshotJobSucceeds, SnapshotJobFails, SnapshotJobExpires,
     MigrationJobSucceeds, MigrationJobFails, GraceElapses, ScheduleFires, SnapshotTaken,
     SnapshotOffered, DeletedByHand, EnvFrame
<1>7. QED
  BY <1>1, <1>2, <1>3, <1>4, <1>5, <1>6 DEF Next, ReplicaNext

(* Only the steps of a switchover take a pass to and from the two in which *)
(* the Service is ahead of the status, as long as nothing fails.           *)
LEMMA SwitchoverSteps ==
    ASSUME Next, pc' # pc, pc \in {"activate", "record"} \/ pc' \in {"activate", "record"}
    PROVE  SelectorMoves \/ RestoreActivated \/ StatusRecorded \/ faults' = faults + 1
<1>1. CASE Reconcile \/ RedactionStep
  BY <1>1 DEF Reconcile, FirstGate, RedactionStep, RedactionAlreadyDone, RedactionBegins,
     RedactionFinishes, RedactionFails, AfterRedaction, At, Goto, Requeue
<1>2. CASE MigrationStep
  BY <1>2 DEF MigrationStep, MigrationNotNeeded, MigrationRuns, MigrationOverBudget,
     MigrationSkipped, MigrationSucceeded, MigrationCleanup, MigrationFailed,
     MigrationFailureRecorded, NothingToCarry, CredentialReset, MigrationStarts, MigrationMarked,
     MigrationWith, At, Goto, Requeue
<1>3. CASE SwitchoverStep \/ CleanupStep
  BY <1>3 DEF SwitchoverStep, GatesHold, GatesPass, SwitchoverReported, CleanupStep,
     TeardownRecorded, TeardownDeletes, SweepBegins, SweepDeletes, SweepEnds, FailedCleanup,
     At, Goto, Requeue
<1>4. CASE RestoreStep
  BY <1>4 DEF RestoreStep, SnapshotJobPending, SnapshotResultMissing, SnapshotResultTaken,
     RestoreCreated, CreationRefused, WaitForRestore, Queued, SnapshotJobCreated, PassEnds,
     At, Goto, Requeue
<1>5. CASE RestoreNext
  BY <1>5, RestoreMoves
<1>6. CASE CallFails \/ OperatorRestarts
  BY <1>6 DEF CallFails, OperatorRestarts, ApiError
<1>7. CASE Environment
  BY <1>7 DEF Environment, SnapshotJobSucceeds, SnapshotJobFails, SnapshotJobExpires,
     MigrationJobSucceeds, MigrationJobFails, GraceElapses, ScheduleFires, SnapshotTaken,
     SnapshotOffered, DeletedByHand, EnvFrame
<1>8. QED
  BY <1>1, <1>2, <1>3, <1>4, <1>5, <1>6, <1>7 DEF Next, ReplicaNext

(* A pass deletes nothing before it has switched over.                     *)
LEMMA DeletesLate ==
    ASSUME TypeOK, Pass, View, Next, pc \in SwitchSteps, NEW i \in Ids, phase[i] = "Active"
    PROVE  phase'[i] = "Active" \/ i \in removed'
<1>1. CASE RestoreNext
  BY <1>1, RestoreMoves DEF TypeOK
<1>2. CASE RestoreActivated
  BY <1>2 DEF RestoreActivated, TypeOK
<1>3. CASE TeardownDeletes \/ SweepDeletes \/ FailedCleanup
  BY <1>3 DEF TeardownDeletes, SweepDeletes, FailedCleanup, At, SwitchSteps
<1>4. CASE RestoreCreated
  BY <1>4 DEF RestoreCreated, At, SwitchSteps
<1>5. ASSUME NEW j \in Ids, DeletedByHand(j)
      PROVE  phase'[i] = "Active" \/ i \in removed'
  BY <1>5 DEF DeletedByHand, TypeOK
<1>6. QED
  BY <1>1, <1>2, <1>3, <1>4, <1>5, Writers

(* What a pass knows stays true.                                           *)
LEMMA KnownStep ==
    ASSUME TypeOK, Pass, View, Known, Next
    PROVE  Known'
<1>. USE DEF SwitchSteps, MigSteps, InMigration
<1>1. CASE pc' = "idle" /\ (migJob'.state # "none" => migJob.state # "none")
  BY <1>1 DEF Known
<1>2. ASSUME pc \in SwitchSteps
      PROVE  \A i \in Ids : loc.ph[i] = "Active" => phase'[i] = "Active" \/ i \in removed'
  <2>1. SUFFICES ASSUME NEW i \in Ids, loc.ph[i] = "Active"
                 PROVE  phase'[i] = "Active" \/ i \in removed'
    OBVIOUS
  <2>2. CASE i \in removed
    BY <2>2, Writers DEF DeletedByHand
  <2>3. QED
    BY <1>2, <2>1, <2>2, DeletesLate DEF Known
<1>3. CASE /\ UNCHANGED <<pc, loc>>
           /\ migJob'.state # "none" => migJob.state # "none"
           /\ status'.migration = status.migration
           /\ status.completed = "pastGrace" => status'.completed = "pastGrace"
  BY <1>2, <1>3 DEF Known, InPhase
<1>4. CASE Reconcile
  BY <1>4 DEF Known, Reconcile, FirstGate, NoLoc, jobVars, TypeOK, StatusType, At
<1>5. CASE RedactionStep
  BY <1>1, <1>2, <1>5 DEF Known, RedactionStep, RedactionAlreadyDone, RedactionBegins,
     RedactionFinishes, RedactionFails, RedactionFrame, jobVars, At, Goto, Requeue,
     AfterRedaction, InPhase, TypeOK, StatusType
<1>6. CASE MigrationStep
  BY <1>1, <1>2, <1>6, Found DEF Known, MigrationStep, MigrationNotNeeded,
     MigrationRuns, MigrationOverBudget, MigrationSkipped, MigrationSucceeded, MigrationCleanup,
     MigrationFailed, MigrationFailureRecorded, NothingToCarry, CredentialReset, MigrationStarts,
     MigrationMarked, MigrationWith, MigrationFrame, At, Goto, Requeue, InPhase, TypeOK,
     StatusType, NoMigJob
<1>7. CASE SwitchoverStep
  BY <1>1, <1>2, <1>7 DEF Known, SwitchoverStep, GatesHold, GatesPass, SelectorMoves,
     RestoreActivated, StatusRecorded, SwitchoverReported, SwitchFrame, jobVars, At, Goto, Requeue
<1>8. CASE CleanupStep
  BY <1>1, <1>8 DEF Known, CleanupStep, TeardownRecorded, TeardownDeletes, SweepBegins, SweepDue,
     SweepDeletes, SweepEnds, FailedCleanup, CleanFrame, jobVars, At, Goto, Requeue, st, InPhase,
     TypeOK, LocType, StatusType
<1>9. CASE RestoreStep
  <2>1. pc' \in {"idle", "create", "decide"} /\ migJob' = migJob
    BY <1>9 DEF RestoreStep, SnapshotJobPending, SnapshotResultMissing, SnapshotResultTaken,
       RestoreCreated, CreationRefused, ListFrame, WaitForRestore, Queued, SnapshotJobCreated,
       PassEnds, DecideFrame, Goto, Requeue
  <2>2. QED
    BY <2>1 DEF Known
<1>10. CASE RestoreNext
  <2>1. /\ UNCHANGED <<pc, loc>> /\ migJob' \in {migJob, NoMigJob}
        /\ status'.migration = status.migration /\ status'.completed = status.completed
    BY <1>10, RestoreMoves DEF TypeOK, StatusType
  <2>2. migJob'.state # "none" => migJob.state # "none"
    BY <2>1 DEF NoMigJob
  <2>3. QED
    BY <1>3, <2>1, <2>2
<1>11. CASE CallFails \/ OperatorRestarts
  BY <1>1, <1>11 DEF CallFails, OperatorRestarts, Requeue, jobVars
<1>12. CASE Environment
  BY <1>3, <1>12, Writers DEF Environment, SnapshotJobSucceeds, SnapshotJobFails,
     SnapshotJobExpires, MigrationJobSucceeds, MigrationJobFails, GraceElapses, ScheduleFires,
     SnapshotTaken, SnapshotOffered, DeletedByHand, EnvFrame, jobVars, TypeOK, StatusType
<1>13. QED
  BY <1>4, <1>5, <1>6, <1>7, <1>8, <1>9, <1>10, <1>11, <1>12 DEF Next, ReplicaNext

(* A kept replica deletes an Active restore only by its sweep.             *)
LEMMA SweepAlone ==
    ASSUME TypeOK, Pass, View, Next, ~Ephemeral,
           NEW i \in Ids, phase[i] = "Active", phase'[i] # "Active", i \notin removed'
    PROVE  SweepDeletes /\ i = First(loc.todo)
<1>1. ~RestoreNext
  BY RestoreMoves DEF TypeOK
<1>2. ~RestoreActivated
  BY DEF RestoreActivated, TypeOK
<1>3. ~TeardownDeletes
  BY DEF TeardownDeletes, At, Pass
<1>4. ~FailedCleanup
  BY DEF FailedCleanup, View, InPhase, TypeOK
<1>5. ~RestoreCreated
  BY BoundsAssumption DEF RestoreCreated, View, TypeOK, Ids
<1>6. ASSUME NEW j \in Ids, DeletedByHand(j)
      PROVE  FALSE
  BY <1>6 DEF DeletedByHand, TypeOK
<1>7. SweepDeletes
  BY <1>1, <1>2, <1>3, <1>4, <1>5, <1>6, Writers
<1>8. QED
  BY <1>7 DEF SweepDeletes, TypeOK

(* The sweep does not start while a migration runs, and a migration does   *)
(* not start while the sweep does: its source stays.                       *)
LEMMA SourceStep ==
    ASSUME TypeOK, Pass, View, Known, SourceKept, Next, ~Ephemeral
    PROVE  SourceKept'
<1>. SUFFICES ASSUME faults' = 0 PROVE SourceKept'
  BY DEF SourceKept
<1>1. faults = 0
  BY Writers, BoundsAssumption DEF TypeOK
<1>2. ASSUME NEW i \in Ids, phase[i] = "Active" \/ i \in removed,
             migJob.state = "Active" \/ pc \in MigSteps
      PROVE  phase'[i] = "Active" \/ i \in removed'
  <2>1. CASE i \in removed
    BY <2>1, Writers DEF DeletedByHand
  <2>2. CASE SweepDeletes
    BY <1>1, <1>2, <2>2 DEF SweepDeletes, At, Known, SourceKept, MigSteps, InMigration
  <2>3. QED
    BY <1>2, <2>1, <2>2, SweepAlone
<1>3. migJob.state = "Active" => migJob.from \in Ids
  BY DEF Pass
<1>5. CASE RedactionStep
  BY <1>1, <1>2, <1>3, <1>5 DEF SourceKept, RedactionStep, RedactionAlreadyDone, RedactionBegins,
     RedactionFinishes, RedactionFails, RedactionFrame, jobVars, At, Goto, Requeue,
     AfterRedaction, TypeOK, StatusType
<1>6. CASE MigrationStep
  <2>1. CASE MigrationStarts
    <3>1. active \in Ids /\ loc.ph[active] = "Active"
      BY <2>1, Found DEF MigrationStarts, MigrationWith
    <3>2. phase[active] = "Active" \/ active \in removed
      BY <2>1, <3>1 DEF MigrationStarts, MigrationWith, At, Known, SwitchSteps
    <3>3. QED
      BY <1>2, <2>1, <3>1, <3>2 DEF SourceKept, MigrationStarts, MigrationWith, At, Goto,
         MigSteps, InMigration, MigrationFrame
  <2>2. QED
    BY <1>1, <1>2, <1>3, <1>6, <2>1, BoundsAssumption DEF SourceKept, Known, MigrationStep,
       MigrationNotNeeded, MigrationRuns, MigrationOverBudget, MigrationSkipped,
       MigrationSucceeded, MigrationCleanup, MigrationFailed, MigrationFailureRecorded,
       NothingToCarry, CredentialReset, MigrationMarked, MigrationWith, MigrationFrame, At, Goto,
       Requeue, TypeOK, StatusType, NoMigJob, ApiError, Works, MigSteps, InMigration
<1>7. CASE SweepEnds
  BY <1>1, <1>2, <1>3, <1>7 DEF SourceKept, Known, SweepEnds, At, Goto, CleanFrame, jobVars
<1>8. CASE MigrationJobSucceeds \/ MigrationJobFails
  BY <1>1, <1>2, <1>3, <1>8 DEF SourceKept, MigrationJobSucceeds, MigrationJobFails, EnvFrame,
     TypeOK, MigJobType
<1>9. CASE /\ ~MigrationStep /\ ~SweepEnds /\ ~RedactionStep
           /\ ~MigrationJobSucceeds /\ ~MigrationJobFails
  <2>1. migJob' \in {migJob, NoMigJob} /\ status'.migration = status.migration
    BY <1>9, Writers
  <2>2. pc \in InMigration \/ pc' \in InMigration => pc' = pc
    BY <1>1, <1>9, MigrationSteps DEF TypeOK
  <2>3. QED
    BY <1>1, <1>2, <1>3, <2>1, <2>2 DEF SourceKept, InMigration, NoMigJob
<1>10. QED
  BY <1>5, <1>6, <1>7, <1>8, <1>9

(* The restores a kept replica is left with always include an Active one.  *)
LEMMA ActiveStays ==
    ASSUME TypeOK, Pass, View, Handed, CurrentIsActive, Known, removed = {}, removed' = {},
           Next, ~Ephemeral, InPhase(phase, "Active") # {}
    PROVE  InPhase(phase', "Active") # {}
<1>1. PICK i \in Ids : phase[i] = "Active"
  BY DEF InPhase
<1>2. CASE phase'[i] = "Active"
  BY <1>2 DEF InPhase
<1>3. CASE phase'[i] # "Active"
  <2>1. SweepDeletes
    BY <1>1, <1>3, SweepAlone
  <2>2. status.current \in Ids /\ phase[status.current] = "Active"
    BY <2>1 DEF SweepDeletes, At, Handed, Known, CurrentIsActive, TypeOK, StatusType
  <2>3. First(loc.todo) # status.current
    BY <2>1, Found DEF SweepDeletes, At, Handed, Pass
  <2>4. phase'[status.current] = "Active"
    BY <2>1, <2>2, <2>3 DEF SweepDeletes, TypeOK
  <2>5. QED
    BY <2>2, <2>4 DEF InPhase
<1>4. QED
  BY <1>2, <1>3

(* An unfinished migration keeps its source and is not passed by.          *)
LEMMA GateStep ==
    ASSUME TypeOK, Pass, View, Handed, CurrentIsActive, Known, MigrationGate, Next,
           ~Ephemeral, MaxDeletes = 0
    PROVE  MigrationGate'
<1>. USE DEF Unfinished
<1>1. removed' = {}
  <2>1. ASSUME NEW i \in Ids PROVE ~DeletedByHand(i)
    <3>1. removed = {} /\ Cardinality({}) = 0
      BY FS_EmptySet DEF MigrationGate
    <3>2. QED
      BY <3>1 DEF DeletedByHand
  <2>2. QED
    BY <2>1, Writers DEF MigrationGate
<1>2. InPhase(phase, "Active") # {} => InPhase(phase', "Active") # {}
  BY <1>1, ActiveStays DEF MigrationGate
<1>3. InPhase(loc.ph, "Active") # {} /\ pc \in SwitchSteps => InPhase(phase, "Active") # {}
  BY DEF InPhase, Known, MigrationGate
<1>4. CASE pc' \notin {"redact", "redacting", "migrate", "gates", "selector"}
           /\ status'.migration \in {status.migration, "unset"}
  BY <1>1, <1>2, <1>4 DEF MigrationGate
<1>5. CASE Reconcile
  BY <1>1, <1>2, <1>5 DEF MigrationGate, Reconcile, FirstGate, NoLoc, InPhase
<1>6. CASE RedactionStep
  BY <1>1, <1>2, <1>6 DEF MigrationGate, RedactionStep, RedactionAlreadyDone, RedactionBegins,
     RedactionFinishes, RedactionFails, At, Goto, Requeue, AfterRedaction, TypeOK, StatusType
<1>7. CASE MigrationStep
  <2>1. \/ status'.migration \in {status.migration, "complete", "partial", "skipped"}
        \/ MigrationFailureRecorded \/ MigrationMarked
    BY <1>7 DEF MigrationStep, MigrationNotNeeded,
       MigrationRuns, MigrationOverBudget, MigrationSkipped, MigrationSucceeded, MigrationCleanup,
       MigrationFailed, NothingToCarry, CredentialReset, MigrationStarts, TypeOK, StatusType
  <2>2. status'.migration \in Unfinished => InPhase(phase', "Active") # {}
    BY <1>2, <1>3, <2>1 DEF MigrationFailureRecorded, MigrationMarked, At, MigrationGate, Known,
       InMigration, SwitchSteps
  <2>3. pc' \in {"idle", "gates"} \cup InMigration
    BY <1>7 DEF MigrationStep, MigrationNotNeeded, MigrationRuns, MigrationOverBudget,
       MigrationSkipped, MigrationSucceeded, MigrationCleanup, MigrationFailed,
       MigrationFailureRecorded, NothingToCarry, CredentialReset, MigrationStarts,
       MigrationMarked, Goto, Requeue, InMigration
  <2>4. active = NoRestore => InPhase(loc.ph, "Active") = {}
    BY FirstIsMember DEF active, InPhase, Ids, NoRestore
  <2>5. pc' = "gates" => status'.migration \notin Unfinished
    BY <1>7, <2>4 DEF MigrationGate, Known, MigrationComplete, st, MigrationStep,
       MigrationNotNeeded, MigrationRuns, MigrationOverBudget,
       MigrationSkipped, MigrationSucceeded, MigrationCleanup, MigrationFailed,
       MigrationFailureRecorded, NothingToCarry, CredentialReset, MigrationStarts,
       MigrationMarked, Goto, Requeue, At, TypeOK, StatusType
  <2>6. QED
    BY <1>1, <2>2, <2>3, <2>5 DEF MigrationGate, InMigration
<1>8. CASE SwitchoverStep
  BY <1>1, <1>2, <1>8 DEF MigrationGate, SwitchoverStep, GatesHold, GatesPass, SelectorMoves,
     RestoreActivated, StatusRecorded, SwitchoverReported, At, Goto, Requeue, TypeOK, StatusType
<1>9. CASE CleanupStep
  BY <1>4, <1>9 DEF CleanupStep, TeardownRecorded, TeardownDeletes, SweepBegins,
     SweepDeletes, SweepEnds, FailedCleanup, At, Goto, Requeue, TypeOK, StatusType
<1>10. CASE RestoreStep
  BY <1>4, <1>10 DEF RestoreStep, SnapshotJobPending, SnapshotResultMissing, SnapshotResultTaken,
     RestoreCreated, CreationRefused, WaitForRestore, Queued, SnapshotJobCreated, PassEnds,
     ListFrame, Goto, Requeue, TypeOK, StatusType
<1>11. CASE CallFails \/ OperatorRestarts
  BY <1>4, <1>11 DEF CallFails, OperatorRestarts, Requeue
<1>12. CASE UNCHANGED <<pc, loc>> /\ status'.migration = status.migration
  BY <1>1, <1>2, <1>12 DEF MigrationGate
<1>13. CASE RestoreNext
  BY <1>12, <1>13, RestoreMoves DEF TypeOK, StatusType
<1>14. CASE Environment
  BY <1>12, <1>14 DEF Environment, SnapshotJobSucceeds, SnapshotJobFails,
     SnapshotJobExpires, MigrationJobSucceeds, MigrationJobFails, GraceElapses, ScheduleFires,
     SnapshotTaken, SnapshotOffered, DeletedByHand, EnvFrame, TypeOK, StatusType
<1>15. QED
  BY <1>5, <1>6, <1>7, <1>8, <1>9, <1>10, <1>11, <1>13, <1>14 DEF Next, ReplicaNext

(* A restore is reported by the pass that activates it, unless that pass   *)
(* is cut short.                                                           *)
LEMMA ReportStep ==
    ASSUME TypeOK, Pass, View, ReportDue, Next
    PROVE  ReportDue'
<1>. SUFFICES ASSUME faults' = 0, NEW i \in Ids, phase'[i] = "Active"
              PROVE  i \in reported' \/ (pc' \in {"record", "report"} /\ i = switching')
  BY DEF ReportDue
<1>1. faults = 0
  BY Writers, BoundsAssumption DEF TypeOK
<1>2. CASE RestoreActivated
  BY <1>1, <1>2 DEF RestoreActivated, SwitchFrame, At, Goto, Requeue, switching, ReportDue, TypeOK
<1>3. CASE phase[i] = "Active" /\ ~RestoreActivated
  <2>1. reported \subseteq reported'
    BY Writers DEF SwitchoverReported
  <2>2. CASE i \in reported
    BY <2>1, <2>2
  <2>3. CASE pc \in {"record", "report"} /\ i = switching
    <3>1. CASE StatusRecorded \/ SwitchoverReported
      BY <2>3, <3>1 DEF StatusRecorded, SwitchoverReported, At, Goto, switching
    <3>2. CASE UNCHANGED <<pc, loc>>
      BY <2>3, <3>2 DEF switching
    <3>3. CASE RestoreNext
      BY <3>2, <3>3, RestoreMoves
    <3>4. CASE CallFails \/ OperatorRestarts
      BY <1>1, <3>4 DEF CallFails, OperatorRestarts, ApiError
    <3>5. CASE Environment
      BY <3>2, <3>5 DEF Environment, SnapshotJobSucceeds, SnapshotJobFails,
         SnapshotJobExpires, MigrationJobSucceeds, MigrationJobFails, GraceElapses, ScheduleFires,
         SnapshotTaken, SnapshotOffered, DeletedByHand, EnvFrame
    <3>6. CASE ReplicaNext
      BY <2>3, <3>1, <3>6 DEF ReplicaNext, Reconcile, RedactionStep, RedactionAlreadyDone,
         RedactionBegins, RedactionFinishes, RedactionFails, MigrationStep, MigrationNotNeeded,
         MigrationRuns, MigrationOverBudget, MigrationSkipped, MigrationSucceeded,
         MigrationCleanup, MigrationFailed, MigrationFailureRecorded, NothingToCarry,
         CredentialReset, MigrationStarts, MigrationMarked, MigrationWith, SwitchoverStep,
         GatesHold, GatesPass, SelectorMoves, RestoreActivated, CleanupStep, TeardownRecorded,
         TeardownDeletes, SweepBegins, SweepDeletes, SweepEnds, FailedCleanup, RestoreStep,
         SnapshotJobPending, SnapshotResultMissing, SnapshotResultTaken, RestoreCreated,
         CreationRefused, WaitForRestore, Queued, SnapshotJobCreated, PassEnds, At
    <3>7. QED
      BY <3>1, <3>3, <3>4, <3>5, <3>6 DEF Next
  <2>4. QED
    BY <1>1, <1>3, <2>2, <2>3 DEF ReportDue
<1>4. CASE phase[i] # "Active" /\ ~RestoreActivated
  <2>1. ~RestoreNext
    BY <1>4, RestoreMoves DEF TypeOK
  <2>2. ~TeardownDeletes /\ ~SweepDeletes
    BY <1>4, Found DEF TeardownDeletes, SweepDeletes, TypeOK
  <2>3. ~FailedCleanup /\ ~RestoreCreated
    BY <1>4 DEF FailedCleanup, RestoreCreated, TypeOK
  <2>4. \A j \in Ids : ~DeletedByHand(j)
    BY <1>4 DEF DeletedByHand, TypeOK
  <2>5. QED
    BY <1>4, <2>1, <2>2, <2>3, <2>4, Writers
<1>5. QED
  BY <1>2, <1>3, <1>4

(* Only the teardown of an ephemeral replica clears the current restore.   *)
LEMMA RecordedStep ==
    ASSUME TypeOK, Pass, Recorded, Next, ~Ephemeral
    PROVE  Recorded'
<1>1. CASE StatusRecorded
  <2>1. switching \in Ids
    BY <1>1, Found DEF StatusRecorded, At, SwitchSteps
  <2>2. QED
    BY <1>1, <2>1 DEF StatusRecorded, Recorded, TypeOK, StatusType, Ids, NoRestore
<1>2. CASE ~StatusRecorded
  <2>1. ~TeardownRecorded
    BY DEF TeardownRecorded, At, Pass
  <2>2. status'.current = status.current
    BY <1>2, <2>1, Writers
  <2>3. status'.completed # "never" => status.completed # "never"
    BY <1>2, Writers DEF GraceElapses
  <2>4. QED
    BY <2>2, <2>3 DEF Recorded
<1>3. QED
  BY <1>1, <1>2

-----------------------------------------------------------------------------
(* The theorems                                                            *)

(* A stuttering step keeps what the invariants are about.                  *)
LEMMA Stutter ==
    ASSUME UNCHANGED vars
    PROVE  /\ UNCHANGED <<phase, status, selector, migJob, pc, loc, faults, removed, reported>>
           /\ switching' = switching
  BY DEF vars, objects, jobVars, env, ghosts, switching

(* What a pass knows, with the invariant of module BlueGreenProofs.        *)
PassInv == Inv /\ Known

(* A pass can rely on what it knows, whatever fails.                       *)
THEOREM PassInvariance == Spec => []PassInv
<1>1. Init => Known
  BY DEF Init, Known, SwitchSteps, MigSteps, InMigration, NoMigJob
<1>2. Inv /\ Known /\ [Next]_vars => Known'
  <2>1. SUFFICES ASSUME Inv, Known, [Next]_vars PROVE Known'
    OBVIOUS
  <2>2. CASE Next
    BY <2>1, <2>2, KnownStep DEF Inv
  <2>3. CASE UNCHANGED vars
    BY <2>1, <2>3, Stutter DEF Known, InPhase
  <2>4. QED
    BY <2>1, <2>2, <2>3
<1>3. QED
  BY <1>1, <1>2, Invariance, PTL DEF Spec, PassInv

(* While the schema migration Job of a kept replica runs, the restore it   *)
(* dumps from stays, unless a call failed or it was deleted by hand.       *)
THEOREM MigrationKeepsItsSource ==
    ASSUME ~Ephemeral
    PROVE  Spec => []MigrationSourceKept
<1>1. Init => SourceKept
  BY DEF Init, SourceKept, NoMigJob
<1>2. PassInv /\ SourceKept /\ [Next]_vars => SourceKept'
  <2>1. SUFFICES ASSUME PassInv, SourceKept, [Next]_vars PROVE SourceKept'
    OBVIOUS
  <2>2. CASE Next
    BY <2>1, <2>2, SourceStep DEF PassInv, Inv
  <2>3. CASE UNCHANGED vars
    BY <2>1, <2>3, Stutter DEF SourceKept
  <2>4. QED
    BY <2>1, <2>2, <2>3
<1>3. SourceKept => MigrationSourceKept
  BY DEF SourceKept, MigrationSourceKept
<1>4. QED
  BY <1>1, <1>2, <1>3, PassInvariance, PTL DEF Spec

(* On a kept replica nobody deletes restores from, an unfinished migration *)
(* always has a restore to carry from and is never passed by, whatever     *)
(* fails.                                                                  *)
LEMMA GateInvariance ==
    ASSUME ~Ephemeral, MaxDeletes = 0
    PROVE  Spec => []MigrationGate
<1>1. Init => MigrationGate
  BY DEF Init, MigrationGate, Unfinished, InitStatus
<1>2. PassInv /\ MigrationGate /\ [Next]_vars => MigrationGate'
  <2>1. SUFFICES ASSUME PassInv, MigrationGate, [Next]_vars PROVE MigrationGate'
    OBVIOUS
  <2>2. CASE Next
    BY <2>1, <2>2, GateStep DEF PassInv, Inv
  <2>3. CASE UNCHANGED vars
    BY <2>1, <2>3, Stutter DEF MigrationGate
  <2>4. QED
    BY <2>1, <2>2, <2>3
<1>3. QED
  BY <1>1, <1>2, PassInvariance, PTL DEF Spec

(* The Service of such a replica never moves while the recorded migration  *)
(* runs or has failed, however many calls fail or restarts come between.   *)
THEOREM MigrationGates ==
    ASSUME ~Ephemeral, MaxDeletes = 0
    PROVE  Spec => FailedMigrationHolds
<1>1. MigrationGate /\ [Next]_vars
        => [PersistentSchemas /\ selector' # selector
              => status.migration \notin {"active", "failed"}]_vars
  BY MovesAndCreations DEF MigrationGate, Unfinished, SelectorMoves, At, vars
<1>2. QED
  BY <1>1, GateInvariance, PTL DEF Spec, FailedMigrationHolds

(* As long as nothing fails, an ephemeral restore is torn down only after  *)
(* its verification was reported to canopy.                                *)
THEOREM ReportedBeforeTeardown == Spec => ReportedUnlessFault
<1>1. Init => ReportDue
  BY DEF Init, ReportDue
<1>2. Inv /\ ReportDue /\ [Next]_vars => ReportDue'
  <2>1. SUFFICES ASSUME Inv, ReportDue, [Next]_vars PROVE ReportDue'
    OBVIOUS
  <2>2. CASE Next
    BY <2>1, <2>2, ReportStep DEF Inv
  <2>3. CASE UNCHANGED vars
    BY <2>1, <2>3, Stutter DEF ReportDue
  <2>4. QED
    BY <2>1, <2>2, <2>3
<1>3. Inv /\ ReportDue /\ [Next]_vars
        => [faults' = 0 => \A i \in Ids : TornDown(i) => i \in reported]_vars
  <2>1. SUFFICES ASSUME Inv, ReportDue, Next, faults' = 0, NEW i \in Ids, TornDown(i)
                 PROVE  i \in reported
    OBVIOUS
  <2>2. faults = 0
    BY <2>1, Writers, BoundsAssumption DEF Inv, TypeOK
  <2>3. pc \notin {"record", "report"}
    <3>1. ~RestoreNext
      BY <2>1, RestoreMoves DEF TornDown, Inv, TypeOK
    <3>2. \A j \in Ids : ~DeletedByHand(j)
      BY <2>1 DEF TornDown, DeletedByHand, Inv, TypeOK
    <3>3. QED
      BY <2>1, <3>1, <3>2, Writers DEF TornDown, Inv, RestoreActivated, TeardownDeletes,
         SweepDeletes, FailedCleanup, RestoreCreated, At
  <2>4. QED
    BY <2>1, <2>2, <2>3 DEF TornDown, ReportDue
<1>4. QED
  BY <1>1, <1>2, <1>3, Invariance, PTL DEF Spec, ReportedUnlessFault

-----------------------------------------------------------------------------
(* The promise of module ServedDatabase                                    *)

Up(ph) == {i \in Ids : ph[i] \in {"Switching", "Active"}}
Done == status.completed = "pastGrace" /\ pc \notin {"activate", "record"}

(* What the refinement rests on.                                           *)
PromiseInv == PassInv /\ MigrationGate /\ Recorded /\ faults = 0

(* Without faults and deletions by hand, every step of a kept replica is a *)
(* step of the promise or none that a client could see.                    *)
LEMMA PromiseStep ==
    ASSUME PromiseInv, Next, faults' = 0, removed' = {}, ~Ephemeral
    PROVE  \/ Promise!Next
           \/ Up(phase') = Up(phase) /\ selector' = selector /\ Done' = Done
<1>. USE DEF Up
<1>1. TypeOK /\ Pass /\ View /\ Handed /\ Known /\ removed = {} /\ faults = 0
      /\ Pointed /\ Recorded
  BY DEF PromiseInv, PassInv, Inv, MigrationGate
<1>2. ASSUME NEW i \in Ids, ReadyToSwitch(i)
      PROVE  Promise!Next
  <2>1. Promise!ComesUp(i)
    BY <1>1, <1>2 DEF Promise!ComesUp, ReadyToSwitch, SetPhase, RestoreFrame, TypeOK
  <2>2. QED
    BY <2>1 DEF Promise!Next
<1>3. CASE SelectorMoves
  <2>1. switching \in Ids /\ phase[switching] \in {"Switching", "Active"}
    BY <1>1, <1>3, Found DEF SelectorMoves, At, SwitchSteps, View
  <2>2. Promise!Serve(switching)
    BY <1>3, <2>1 DEF Promise!Serve, SelectorMoves, Goto
  <2>3. QED
    BY <2>1, <2>2 DEF Promise!Next
<1>4. CASE GraceElapses
  <2>1. CASE pc \in {"activate", "record"}
    BY <1>4, <2>1 DEF GraceElapses, EnvFrame, Done
  <2>2. CASE pc \notin {"activate", "record"}
    <3>1. selector # 0
      BY <1>1, <1>4, <2>2 DEF Pointed, PromiseInv, Recorded, GraceElapses, NoRestore
    <3>2. Promise!Settle
      BY <1>1, <1>4, <2>2, <3>1 DEF Promise!Settle, GraceElapses, EnvFrame, TypeOK, StatusType
    <3>3. QED
      BY <3>2 DEF Promise!Next
  <2>3. QED
    BY <2>1, <2>2
<1>5. CASE SweepDeletes
  <2>1. PICK i \in Ids : i = First(loc.todo) /\ i # status.current
    BY <1>1, <1>5, Found DEF SweepDeletes, At, Handed, Pass, TypeOK, LocType
  <2>2. selector = status.current /\ status.completed = "pastGrace"
    BY <1>1, <1>5 DEF SweepDeletes, At, Pointed, Known
  <2>3. Done /\ Done' /\ selector' = selector
    BY <1>5, <2>2 DEF SweepDeletes, At, Done, CleanFrame
  <2>4. phase' = [phase EXCEPT ![i] = "absent"]
    BY <1>1, <1>5, <2>1 DEF SweepDeletes, ApiError
  <2>5. CASE i \in Up(phase)
    <3>1. Promise!Retire(i)
      BY <1>1, <2>1, <2>2, <2>3, <2>4, <2>5 DEF Promise!Retire, Done, TypeOK
    <3>2. QED
      BY <2>1, <3>1 DEF Promise!Next
  <2>6. CASE i \notin Up(phase)
    BY <1>1, <2>1, <2>3, <2>4, <2>6 DEF TypeOK
  <2>7. QED
    BY <2>5, <2>6
<1>6. CASE RestoreActivated
  <2>1. switching \in Ids /\ phase[switching] \in {"Switching", "Active"}
    BY <1>1, <1>6, Found DEF RestoreActivated, At, SwitchSteps, View
  <2>2. Up(phase') = Up(phase)
    BY <1>1, <1>6, <2>1 DEF RestoreActivated, TypeOK
  <2>3. Done = FALSE /\ Done' = FALSE
    BY <1>6, <2>1 DEF RestoreActivated, At, Goto, Done
  <2>4. QED
    BY <1>6, <2>2, <2>3 DEF RestoreActivated
<1>7. CASE StatusRecorded
  <2>1. Done = FALSE /\ Done' = FALSE
    BY <1>1, <1>7 DEF StatusRecorded, At, Goto, Done, TypeOK, StatusType
  <2>2. QED
    BY <1>7, <2>1 DEF StatusRecorded
<1>8. CASE /\ ~SelectorMoves /\ ~GraceElapses /\ ~SweepDeletes /\ ~RestoreActivated
           /\ ~StatusRecorded /\ \A i \in Ids : ~ReadyToSwitch(i)
  <2>1. selector' = selector
    BY <1>8, MovesAndCreations
  <2>2. status'.completed = status.completed
    BY <1>1, <1>8, Writers
  <2>3. pc \in {"activate", "record"} \/ pc' \in {"activate", "record"} => pc' = pc
    BY <1>1, <1>8, SwitchoverSteps
  <2>4. Done' = Done
    BY <2>2, <2>3 DEF Done
  <2>5. CASE RestoreNext
    BY <1>1, <1>8, <2>1, <2>4, <2>5 DEF RestoreNext, RestoreProgress, ReconcileCreated,
       ReconcilePending, ReconcileRestoring, ReadyToMigrate, ReconcileMigrating, fail_restore,
       FailureBooked, MayFail, SetPhase, TypeOK
  <2>6. CASE FailedCleanup
    BY <1>1, <2>1, <2>4, <2>6 DEF FailedCleanup, View, InPhase, TypeOK
  <2>7. CASE RestoreCreated
    <3>1. created + 1 \in Ids /\ phase[created + 1] = "absent"
      BY <1>1, <2>7, BoundsAssumption DEF RestoreCreated, View, TypeOK, Ids
    <3>2. QED
      BY <1>1, <2>1, <2>4, <2>7, <3>1 DEF RestoreCreated, TypeOK
  <2>8. ~TeardownDeletes
    BY <1>1 DEF TeardownDeletes, At, Pass
  <2>9. \A i \in Ids : ~DeletedByHand(i)
    BY DEF DeletedByHand
  <2>10. QED
    BY <1>1, <1>8, <2>1, <2>4, <2>5, <2>6, <2>7, <2>8, <2>9, Writers
<1>9. QED
  BY <1>2, <1>3, <1>4, <1>5, <1>6, <1>7, <1>8

(* A kept replica that nothing fails for and nobody deletes restores from  *)
(* keeps the promise of module ServedDatabase: once there is a database to *)
(* reach there always is one, and what was replaced stays up until the     *)
(* grace period is over.                                                   *)
THEOREM PromiseKept ==
    ASSUME ~Ephemeral, MaxFaults = 0, MaxDeletes = 0
    PROVE  Spec => KeepsPromise
<1>1. Init => Recorded
  BY DEF Init, Recorded, InitStatus
<1>2. PassInv /\ Recorded /\ [Next]_vars => Recorded'
  <2>1. SUFFICES ASSUME PassInv, Recorded, [Next]_vars PROVE Recorded'
    OBVIOUS
  <2>2. CASE Next
    BY <2>1, <2>2, RecordedStep DEF PassInv, Inv
  <2>3. CASE UNCHANGED vars
    BY <2>1, <2>3, Stutter DEF Recorded
  <2>4. QED
    BY <2>1, <2>2, <2>3
<1>3. PassInv => faults = 0
  BY DEF PassInv, Inv, TypeOK
<1>4. Spec => []PromiseInv
  BY <1>1, <1>2, <1>3, PassInvariance, GateInvariance, PTL DEF Spec, PromiseInv
<1>5. Init => Promise!Init
  BY DEF Init, Promise!Init, InitStatus, NoRestore
<1>6. PromiseInv /\ PromiseInv' /\ [Next]_vars => [Promise!Next]_(Promise!vars)
  <2>1. SUFFICES ASSUME PromiseInv, PromiseInv', [Next]_vars
                 PROVE  [Promise!Next]_(Promise!vars)
    OBVIOUS
  <2>2. ASSUME Up(phase') = Up(phase), selector' = selector, Done' = Done
        PROVE  UNCHANGED Promise!vars
    BY <2>2 DEF Promise!vars, Up, Done
  <2>3. CASE Next
    BY <2>1, <2>2, <2>3, PromiseStep DEF PromiseInv, MigrationGate
  <2>4. CASE UNCHANGED vars
    BY <2>2, <2>4, Stutter DEF Up, Done
  <2>5. QED
    BY <2>1, <2>3, <2>4
<1>7. QED
  BY <1>4, <1>5, <1>6, PTL DEF Spec, KeepsPromise, Promise!Spec

=============================================================================
