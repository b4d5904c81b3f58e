-------------------------- MODULE SchemaBuildProofs --------------------------
(***************************************************************************)
(* Safety of the reporting schema build for every number of restores,      *)
(* attempts, faults and deletions.                                         *)
(***************************************************************************)
EXTENDS SchemaBuild, TLAPS

(* What a pass at each of its steps knows.                                 *)
Working ==
    /\ pc = "idle" => loc = NoLoc
    /\ pc # "idle" => target \in Restores
    /\ pc \in {"setup", "attempt", "rebuild", "register", "record"}
         => loc.attempts = attempts[target]
    /\ pc \in {"attempt", "rebuild"} => loc.attempts + 1 < BuildAttempts
    /\ pc = "register" => loc.sql \in Restores
    /\ job.state # "none" => job.of \in Restores
    /\ post # NoPost => post.of \in Restores /\ job.state # "Succeeded"

(* The Job of a replica is that of the switching restore as long as it     *)
(* runs, and only a finished one is ever left over; a schema in the store  *)
(* next to a Job that succeeded is the schema of both.                     *)
Own ==
    removed = {} =>
        /\ job.state # "none" => kind[job.of] = "Build"
        /\ job.state = "Active" =>
             /\ pc = "idle" /\ target = job.of /\ result[target] = "none"
             /\ store \in {None, target}
        /\ job.state = "Succeeded" /\ store # None => store = target /\ job.of = target
        /\ job.state = "Succeeded" /\ pc = "switch" => store = None
        /\ post # NoPost => target \in {None, post.of}
        /\ pc = "setup" =>
             /\ result[target] = "none" /\ kind[target] = "Build"
             /\ store \in {None, target}
        /\ loc.sql # None =>
             loc.sql = target /\ (job.state = "Succeeded" => job.of = target)

(* A report is made from a result that is recorded and stays.              *)
Told ==
    /\ target # None => target <= created /\ reported[target] = "unreported"
    /\ \A r \in Restores : r > created => reported[r] = "unreported"
    /\ pc = "switch" =>
         /\ loc.result = result[target]
         /\ kind[target] # "NoImage" => result[target] # "none"

(* A build about to be settled as empty has not delivered, or is out of    *)
(* attempts.                                                               *)
Receipted ==
    /\ accepted => job.receipt \/ job.state = "none"
    /\ pc = "record" /\ loc.outcome = "empty" =>
         /\ post = NoPost /\ job.state \in {"Succeeded", "Deleting", "none"}
         /\ ~accepted \/ loc.attempts + 1 >= BuildAttempts

Inv == TypeOK /\ Working /\ Own /\ Told /\ Receipted /\ RegisteredIsOwn /\ ReportCarriesBuild

-----------------------------------------------------------------------------

(* What a pass reads has the type it is kept under.                        *)
LEMMA ReadsLoc ==
    ASSUME TypeOK, target \in Restores, NEW p, NEW o \in Results, Reads(p, o)
    PROVE  /\ loc' \in LocType
           /\ loc'.attempts = attempts[target] /\ attempts[target] \in Int
<1>1. /\ result[target] \in Results
      /\ attempts[target] \in 0..(BuildAttempts - 1) /\ attempts[target] \in Int
  BY BuildAssumption DEF TypeOK
<1>2. "none" \in Results
  BY DEF Results
<1>3. loc' = [result |-> result[target], attempts |-> attempts[target], sql |-> None, outcome |-> o]
  BY DEF Reads, NoLoc
<1>4. QED
  BY <1>1, <1>2, <1>3 DEF LocType

(* Every step keeps the types.                                             *)
LEMMA TypeStep ==
    ASSUME TypeOK, Working, Next
    PROVE  TypeOK'
<1>. USE BuildAssumption DEF TypeOK, Working, None, Gone
<1>. NoLoc \in LocType /\ NoJob \in JobType /\ NoPost \in PostType
  BY DEF NoLoc, LocType, Results, NoJob, JobType, JobStates, NoPost, PostType
<1>1. CASE AlreadySettled
  <2>1. store' \in Restores \cup {None}
    BY <1>1 DEF AlreadySettled, Begins, Reads
  <2>2. loc' \in LocType
    BY <1>1 DEF AlreadySettled, Begins, Reads, LocType, NoLoc, Results
  <2>3. QED
    BY <1>1, <2>1, <2>2 DEF AlreadySettled, Begins, Reads, Steps, api, memory, ghosts
<1>2. CASE NothingToBuild
  <2>1. loc' \in LocType
    BY <1>2 DEF NothingToBuild, Begins, Reads, LocType, NoLoc, Results
  <2>2. QED
    BY <1>2, <2>1 DEF NothingToBuild, Begins, Reads, Steps, api, memory, ghosts
<1>3. CASE CannotBuild
  <2>1. loc' \in LocType
    BY <1>3 DEF CannotBuild, Begins, Reads, LocType, NoLoc, Results
  <2>2. QED
    BY <1>3, <2>1 DEF CannotBuild, Begins, Reads, Steps, api, memory, ghosts
<1>4. CASE BuildNotStarted
  <2>1. store' \in Restores \cup {None}
    BY <1>4 DEF BuildNotStarted, ToBuild, Begins, Reads
  <2>2. loc' \in LocType
    BY <1>4 DEF BuildNotStarted, ToBuild, Begins, Reads, LocType, NoLoc, Results
  <2>3. QED
    BY <1>4, <2>1, <2>2 DEF BuildNotStarted, ToBuild, Begins, Reads, Steps, api, memory, ghosts
<1>5. CASE BuildFailed
  <2>1. loc' \in LocType
    BY <1>5 DEF BuildFailed, ToBuild, Begins, Reads, LocType, NoLoc, Results
  <2>2. QED
    BY <1>5, <2>1 DEF BuildFailed, ToBuild, Begins, Reads, Steps, api, memory, ghosts
<1>6. CASE BuildEmpty
  <2>1. loc' \in LocType
    <3>1. Reads("rebuild", "none") \/ Reads("record", "empty")
      BY <1>6 DEF BuildEmpty
    <3>2. target \in Restores
      BY <1>6 DEF BuildEmpty, ToBuild, Begins
    <3>3. QED
      BY <3>1, <3>2, ReadsLoc DEF Results
  <2>2. QED
    BY <1>6, <2>1 DEF BuildEmpty, ToBuild, Begins, Reads, empty_build, Steps, api, memory, ghosts
<1>7. CASE BuildDelivered
  <2>1. store' \in Restores \cup {None}
    BY <1>7 DEF BuildDelivered, ToBuild, Begins
  <2>2. loc' \in LocType
    BY <1>7 DEF BuildDelivered, ToBuild, Begins, LocType, NoLoc, Results
  <2>3. QED
    BY <1>7, <2>1, <2>2 DEF BuildDelivered, ToBuild, Begins, Steps, api, memory, ghosts
<1>8. CASE SetupFails
  <2>1. loc' \in LocType
    BY <1>8 DEF SetupFails, MayRetry, LocType, NoLoc, Results
  <2>2. QED
    BY <1>8, <2>1 DEF SetupFails, MayRetry, Steps, api, memory, ghosts
<1>9. CASE BuildStarts
  <2>1. job' \in JobType
    BY <1>9 DEF BuildStarts, Requeue, JobType, JobStates, NoJob
  <2>2. loc' \in LocType
    BY <1>9 DEF BuildStarts, Requeue
  <2>3. accepted' \in BOOLEAN
    BY <1>9 DEF BuildStarts, Requeue
  <2>4. QED
    BY <1>9, <2>1, <2>2, <2>3 DEF BuildStarts, Requeue, Steps, api, memory, ghosts
<1>10. CASE SchemaRegistered
  <2>1. loc' \in LocType
    BY <1>10 DEF SchemaRegistered, LocType, NoLoc, Results
  <2>2. registered' \subseteq Restores \X Restores
    BY <1>10 DEF SchemaRegistered, LocType
  <2>3. QED
    BY <1>10, <2>1, <2>2 DEF SchemaRegistered, Steps, api, memory, ghosts
<1>11. CASE RegistrationFails
  <2>1. store' \in Restores \cup {None}
    BY <1>11 DEF RegistrationFails, MayRetry, LocType, PostType, NoPost
  <2>2. loc' \in LocType
    BY <1>11 DEF RegistrationFails, MayRetry, LocType, NoLoc, Results
  <2>3. QED
    BY <1>11, <2>1, <2>2 DEF RegistrationFails, MayRetry, Steps, api, memory, ghosts
<1>12. CASE AttemptRecorded
  <2>1. attempts' \in [Restores -> 0..(BuildAttempts - 1)]
    BY <1>12 DEF AttemptRecorded, Requeue, LocType
  <2>2. loc' \in LocType
    BY <1>12 DEF AttemptRecorded, Requeue
  <2>3. QED
    BY <1>12, <2>1, <2>2 DEF AttemptRecorded, Requeue, Steps, api, memory, ghosts
<1>13. CASE AttemptNotRecorded
  <2>1. attempts' \in [Restores -> 0..(BuildAttempts - 1)]
    BY <1>13 DEF AttemptNotRecorded, Requeue, Fault, LocType
  <2>2. loc' \in LocType
    BY <1>13 DEF AttemptNotRecorded, Requeue, Fault
  <2>3. faults' \in 0..MaxFaults
    BY <1>13 DEF AttemptNotRecorded, Requeue, Fault
  <2>4. QED
    BY <1>13, <2>1, <2>2, <2>3 DEF AttemptNotRecorded, Requeue, Fault, Steps, api, memory, ghosts
<1>14. CASE ResultRecorded
  <2>1. result' \in [Restores -> Results]
    BY <1>14 DEF ResultRecorded, Requeue, LocType, Results
  <2>2. store' \in Restores \cup {None}
    BY <1>14 DEF ResultRecorded, Requeue
  <2>3. loc' \in LocType
    BY <1>14 DEF ResultRecorded, Requeue
  <2>4. QED
    BY <1>14, <2>1, <2>2, <2>3 DEF ResultRecorded, Requeue, Steps, api, memory, ghosts
<1>15. CASE ResultNotRecorded
  <2>1. result' \in [Restores -> Results]
    BY <1>15 DEF ResultNotRecorded, Requeue, Fault, LocType, Results
  <2>2. store' \in Restores \cup {None}
    BY <1>15 DEF ResultNotRecorded, Requeue, Fault, LocType, PostType, NoPost
  <2>3. loc' \in LocType
    BY <1>15 DEF ResultNotRecorded, Requeue, Fault
  <2>4. faults' \in 0..MaxFaults
    BY <1>15 DEF ResultNotRecorded, Requeue, Fault
  <2>5. QED
    BY <1>15, <2>1, <2>2, <2>3, <2>4 DEF ResultNotRecorded, Requeue, Fault, Steps, api, memory, ghosts
<1>16. CASE JobDeleted
  <2>1. job' \in JobType
    BY <1>16 DEF JobDeleted, Requeue, Fault, JobType, JobStates, NoJob
  <2>2. loc' \in LocType
    BY <1>16 DEF JobDeleted, Requeue, Fault
  <2>3. faults' \in 0..MaxFaults
    BY <1>16 DEF JobDeleted, Requeue, Fault
  <2>4. QED
    BY <1>16, <2>1, <2>2, <2>3 DEF JobDeleted, Requeue, Fault, Steps, api, memory, ghosts
<1>17. CASE Switchover
  <2>1. target' \in Restores \cup {None}
    BY <1>17 DEF Switchover, Requeue
  <2>2. reported' \in [Restores -> Results \cup {"unreported"}]
    BY <1>17 DEF Switchover, Requeue, LocType, Results
  <2>3. loc' \in LocType
    BY <1>17 DEF Switchover, Requeue
  <2>4. QED
    BY <1>17, <2>1, <2>2, <2>3 DEF Switchover, Requeue, Steps, api, memory, ghosts
<1>18. CASE DeliveryVerified
  <2>1. post' \in PostType
    BY <1>18 DEF DeliveryVerified, CallbackFrame, PostType, NoPost, JobType
  <2>2. QED
    BY <1>18, <2>1 DEF DeliveryVerified, CallbackFrame, Steps, api, memory, ghosts
<1>19. CASE DeliveryStored
  <2>1. store' \in Restores \cup {None}
    BY <1>19 DEF DeliveryStored, CallbackFrame, LocType, PostType, NoPost
  <2>2. post' \in PostType
    BY <1>19 DEF DeliveryStored, CallbackFrame, PostType, NoPost, JobType
  <2>3. QED
    BY <1>19, <2>1, <2>2 DEF DeliveryStored, CallbackFrame, Steps, api, memory, ghosts
<1>20. CASE DeliveryReceipted
  <2>1. job' \in JobType
    BY <1>20 DEF DeliveryReceipted, CallbackFrame, JobType, JobStates, NoJob
  <2>2. post' \in PostType
    BY <1>20 DEF DeliveryReceipted, CallbackFrame, PostType, NoPost, JobType
  <2>3. accepted' \in BOOLEAN
    BY <1>20 DEF DeliveryReceipted, CallbackFrame
  <2>4. QED
    BY <1>20, <2>1, <2>2, <2>3 DEF DeliveryReceipted, CallbackFrame, Steps, api, memory, ghosts
<1>21. CASE DeliveryRefused
  <2>1. post' \in PostType
    BY <1>21 DEF DeliveryRefused, CallbackFrame, Fault, PostType, NoPost, JobType
  <2>2. faults' \in 0..MaxFaults
    BY <1>21 DEF DeliveryRefused, CallbackFrame, Fault
  <2>3. QED
    BY <1>21, <2>1, <2>2 DEF DeliveryRefused, CallbackFrame, Fault, Steps, api, memory, ghosts
<1>22. CASE StoreSwept
  <2>1. store' \in Restores \cup {None}
    BY <1>22 DEF StoreSwept, CallbackFrame
  <2>2. QED
    BY <1>22, <2>1 DEF StoreSwept, CallbackFrame, Steps, api, memory, ghosts
<1>23. CASE JobSucceeds
  <2>1. job' \in JobType
    BY <1>23 DEF JobSucceeds, JobFrame, JobType, JobStates, NoJob
  <2>2. QED
    BY <1>23, <2>1 DEF JobSucceeds, JobFrame, Steps, api, memory, ghosts
<1>24. CASE JobFails
  <2>1. job' \in JobType
    BY <1>24 DEF JobFails, JobFrame, JobType, JobStates, NoJob
  <2>2. QED
    BY <1>24, <2>1 DEF JobFails, JobFrame, Steps, api, memory, ghosts
<1>25. CASE JobGone
  <2>1. job' \in JobType
    BY <1>25 DEF JobGone, JobFrame, JobType, JobStates, NoJob
  <2>2. QED
    BY <1>25, <2>1 DEF JobGone, JobFrame, Steps, api, memory, ghosts
<1>26. CASE JobExpires
  <2>1. job' \in JobType
    BY <1>26 DEF JobExpires, JobFrame, Fault, JobType, JobStates, NoJob
  <2>2. faults' \in 0..MaxFaults
    BY <1>26 DEF JobExpires, JobFrame, Fault
  <2>3. QED
    BY <1>26, <2>1, <2>2 DEF JobExpires, JobFrame, Fault, Steps, api, memory, ghosts
<1>27. CASE RestoreSwitching
  <2>1. created' \in 0..MaxRestores
    BY <1>27 DEF RestoreSwitching, Restores
  <2>2. target' \in Restores \cup {None}
    BY <1>27 DEF RestoreSwitching, Restores
  <2>3. QED
    BY <1>27, <2>1, <2>2 DEF RestoreSwitching, Steps, api, memory, ghosts
<1>28. CASE RestoreDeleted
  <2>1. removed' \subseteq Restores
    BY <1>28 DEF RestoreDeleted
  <2>2. QED
    BY <1>28, <2>1 DEF RestoreDeleted, Steps, api, memory, ghosts
<1>29. CASE CallFails
  <2>1. loc' \in LocType
    BY <1>29 DEF CallFails, Requeue, Fault
  <2>2. faults' \in 0..MaxFaults
    BY <1>29 DEF CallFails, Requeue, Fault
  <2>3. QED
    BY <1>29, <2>1, <2>2 DEF CallFails, Requeue, Fault, Steps, api, memory, ghosts
<1>30. CASE OperatorRestarts
  <2>1. store' \in Restores \cup {None}
    BY <1>30 DEF OperatorRestarts, Requeue, Fault
  <2>2. post' \in PostType
    BY <1>30 DEF OperatorRestarts, Requeue, Fault, PostType, NoPost, JobType
  <2>3. loc' \in LocType
    BY <1>30 DEF OperatorRestarts, Requeue, Fault
  <2>4. faults' \in 0..MaxFaults
    BY <1>30 DEF OperatorRestarts, Requeue, Fault
  <2>5. QED
    BY <1>30, <2>1, <2>2, <2>3, <2>4 DEF OperatorRestarts, Requeue, Fault, Steps, api, memory, ghosts
<1>31. CASE JobCleanedUp
  <2>1. job' \in JobType
    BY <1>31 DEF JobCleanedUp, JobFrame, Fault, JobType, JobStates
  <2>2. faults' \in 0..MaxFaults
    BY <1>31 DEF JobCleanedUp, Fault
  <2>3. QED
    BY <1>31, <2>1, <2>2 DEF JobCleanedUp, JobFrame, Steps, api, memory, ghosts
<1>32. QED
  BY <1>1, <1>2, <1>3, <1>4, <1>5, <1>6, <1>7, <1>8, <1>9, <1>10, <1>11, <1>12, <1>13, <1>14, <1>15, <1>16, <1>17, <1>18, <1>19, <1>20, <1>21, <1>22, <1>23, <1>24, <1>25, <1>26, <1>27, <1>28, <1>29, <1>30, <1>31 DEF Next, Pass, Callback

(* A pass keeps what it has read until it is done with it.                 *)
LEMMA WorkingStep ==
    ASSUME TypeOK, Working, Next
    PROVE  Working'
<1>. USE BuildAssumption DEF TypeOK, JobType, PostType, LocType, Working, Restores, Gone, NoLoc, NoJob, NoPost, None, api, memory, ghosts
<1>1. CASE AlreadySettled
  BY <1>1 DEF AlreadySettled, Begins, Reads
<1>2. CASE NothingToBuild
  BY <1>2 DEF NothingToBuild, Begins, Reads
<1>3. CASE CannotBuild
  BY <1>3 DEF CannotBuild, Begins, Reads
<1>4. CASE BuildNotStarted
  BY <1>4 DEF BuildNotStarted, ToBuild, Begins, Reads
<1>5. CASE BuildFailed
  BY <1>5 DEF BuildFailed, ToBuild, Begins, Reads
<1>6. CASE BuildEmpty
  BY <1>6 DEF BuildEmpty, ToBuild, Begins, Reads, empty_build
<1>7. CASE BuildDelivered
  BY <1>7 DEF BuildDelivered, ToBuild, Begins
<1>8. CASE SetupFails
  BY <1>8 DEF SetupFails, MayRetry
<1>9. CASE BuildStarts
  BY <1>9 DEF BuildStarts, Requeue
<1>10. CASE SchemaRegistered
  BY <1>10 DEF SchemaRegistered
<1>11. CASE RegistrationFails
  BY <1>11 DEF RegistrationFails, MayRetry
<1>12. CASE AttemptRecorded
  BY <1>12 DEF AttemptRecorded, Requeue
<1>13. CASE AttemptNotRecorded
  BY <1>13 DEF AttemptNotRecorded, Requeue, Fault
<1>14. CASE ResultRecorded
  BY <1>14 DEF ResultRecorded, Requeue
<1>15. CASE ResultNotRecorded
  BY <1>15 DEF ResultNotRecorded, Requeue, Fault
<1>16. CASE JobDeleted
  BY <1>16 DEF JobDeleted, Requeue, Fault
<1>17. CASE Switchover
  BY <1>17 DEF Switchover, Requeue
<1>18. CASE DeliveryVerified
  BY <1>18 DEF DeliveryVerified, CallbackFrame
<1>19. CASE DeliveryStored
  BY <1>19 DEF DeliveryStored, CallbackFrame
<1>20. CASE DeliveryReceipted
  BY <1>20 DEF DeliveryReceipted, CallbackFrame
<1>21. CASE DeliveryRefused
  BY <1>21 DEF DeliveryRefused, CallbackFrame, Fault
<1>22. CASE StoreSwept
  BY <1>22 DEF StoreSwept, CallbackFrame
<1>23. CASE JobSucceeds
  BY <1>23 DEF JobSucceeds, JobFrame
<1>24. CASE JobFails
  BY <1>24 DEF JobFails, JobFrame
<1>25. CASE JobGone
  BY <1>25 DEF JobGone, JobFrame
<1>26. CASE JobExpires
  BY <1>26 DEF JobExpires, JobFrame, Fault
<1>27. CASE RestoreSwitching
  BY <1>27 DEF RestoreSwitching
<1>28. CASE RestoreDeleted
  BY <1>28 DEF RestoreDeleted
<1>29. CASE CallFails
  BY <1>29 DEF CallFails, Requeue, Fault
<1>30. CASE OperatorRestarts
  BY <1>30 DEF OperatorRestarts, Requeue, Fault
<1>31. CASE JobCleanedUp
  BY <1>31 DEF JobCleanedUp, JobFrame, Fault
<1>32. QED
  BY <1>1, <1>2, <1>3, <1>4, <1>5, <1>6, <1>7, <1>8, <1>9, <1>10, <1>11, <1>12, <1>13, <1>14, <1>15, <1>16, <1>17, <1>18, <1>19, <1>20, <1>21, <1>22, <1>23, <1>24, <1>25, <1>26, <1>27, <1>28, <1>29, <1>30, <1>31 DEF Next, Pass, Callback

(* Job and schema stay with the restore they are of.                       *)
LEMMA OwnStep ==
    ASSUME TypeOK, Working, Own, Next
    PROVE  Own'
<1>. USE DEF TypeOK, JobType, PostType, LocType, Working, Own, Restores, Gone, NoLoc, NoJob, NoPost, None, api, memory, ghosts
<1>1. CASE AlreadySettled
  BY <1>1 DEF AlreadySettled, Begins, Reads
<1>2. CASE NothingToBuild
  BY <1>2 DEF NothingToBuild, Begins, Reads
<1>3. CASE CannotBuild
  BY <1>3 DEF CannotBuild, Begins, Reads
<1>4. CASE BuildNotStarted
  BY <1>4 DEF BuildNotStarted, ToBuild, Begins, Reads
<1>5. CASE BuildFailed
  BY <1>5 DEF BuildFailed, ToBuild, Begins, Reads
<1>6. CASE BuildEmpty
  BY <1>6 DEF BuildEmpty, ToBuild, Begins, Reads, empty_build
<1>7. CASE BuildDelivered
  BY <1>7 DEF BuildDelivered, ToBuild, Begins
<1>8. CASE SetupFails
  BY <1>8 DEF SetupFails, MayRetry
<1>9. CASE BuildStarts
  BY <1>9 DEF BuildStarts, Requeue
<1>10. CASE SchemaRegistered
  BY <1>10 DEF SchemaRegistered
<1>11. CASE RegistrationFails
  BY <1>11 DEF RegistrationFails, MayRetry
<1>12. CASE AttemptRecorded
  BY <1>12 DEF AttemptRecorded, Requeue
<1>13. CASE AttemptNotRecorded
  BY <1>13 DEF AttemptNotRecorded, Requeue, Fault
<1>14. CASE ResultRecorded
  BY <1>14 DEF ResultRecorded, Requeue
<1>15. CASE ResultNotRecorded
  BY <1>15 DEF ResultNotRecorded, Requeue, Fault
<1>16. CASE JobDeleted
  BY <1>16 DEF JobDeleted, Requeue, Fault
<1>17. CASE Switchover
  BY <1>17 DEF Switchover, Requeue
<1>18. CASE DeliveryVerified
  BY <1>18 DEF DeliveryVerified, CallbackFrame
<1>19. CASE DeliveryStored
  BY <1>19 DEF DeliveryStored, CallbackFrame
<1>20. CASE DeliveryReceipted
  BY <1>20 DEF DeliveryReceipted, CallbackFrame
<1>21. CASE DeliveryRefused
  BY <1>21 DEF DeliveryRefused, CallbackFrame, Fault
<1>22. CASE StoreSwept
  BY <1>22 DEF StoreSwept, CallbackFrame
<1>23. CASE JobSucceeds
  BY <1>23 DEF JobSucceeds, JobFrame
<1>24. CASE JobFails
  BY <1>24 DEF JobFails, JobFrame
<1>25. CASE JobGone
  BY <1>25 DEF JobGone, JobFrame
<1>26. CASE JobExpires
  BY <1>26 DEF JobExpires, JobFrame, Fault
<1>27. CASE RestoreSwitching
  BY <1>27 DEF RestoreSwitching
<1>28. CASE RestoreDeleted
  BY <1>28 DEF RestoreDeleted
<1>29. CASE CallFails
  BY <1>29 DEF CallFails, Requeue, Fault
<1>30. CASE OperatorRestarts
  BY <1>30 DEF OperatorRestarts, Requeue, Fault
<1>31. CASE JobCleanedUp
  BY <1>31 DEF JobCleanedUp, JobFrame, Fault
<1>32. QED
  BY <1>1, <1>2, <1>3, <1>4, <1>5, <1>6, <1>7, <1>8, <1>9, <1>10, <1>11, <1>12, <1>13, <1>14, <1>15, <1>16, <1>17, <1>18, <1>19, <1>20, <1>21, <1>22, <1>23, <1>24, <1>25, <1>26, <1>27, <1>28, <1>29, <1>30, <1>31 DEF Next, Pass, Callback

(* What has been reported is recorded for good.                            *)
LEMMA ToldStep ==
    ASSUME TypeOK, Working, Told, ReportCarriesBuild, Next
    PROVE  Told' /\ ReportCarriesBuild'
<1>. USE BuildAssumption DEF TypeOK, JobType, PostType, LocType, Working, Told, ReportCarriesBuild, Restores, Gone, NoLoc, NoJob, NoPost, None, api, memory, ghosts
<1>1. CASE AlreadySettled
  BY <1>1 DEF AlreadySettled, Begins, Reads
<1>2. CASE NothingToBuild
  BY <1>2 DEF NothingToBuild, Begins, Reads
<1>3. CASE CannotBuild
  BY <1>3 DEF CannotBuild, Begins, Reads
<1>4. CASE BuildNotStarted
  BY <1>4 DEF BuildNotStarted, ToBuild, Begins, Reads
<1>5. CASE BuildFailed
  BY <1>5 DEF BuildFailed, ToBuild, Begins, Reads
<1>6. CASE BuildEmpty
  BY <1>6 DEF BuildEmpty, ToBuild, Begins, Reads, empty_build
<1>7. CASE BuildDelivered
  BY <1>7 DEF BuildDelivered, ToBuild, Begins
<1>8. CASE SetupFails
  BY <1>8 DEF SetupFails, MayRetry
<1>9. CASE BuildStarts
  BY <1>9 DEF BuildStarts, Requeue
<1>10. CASE SchemaRegistered
  BY <1>10 DEF SchemaRegistered
<1>11. CASE RegistrationFails
  BY <1>11 DEF RegistrationFails, MayRetry
<1>12. CASE AttemptRecorded
  BY <1>12 DEF AttemptRecorded, Requeue
<1>13. CASE AttemptNotRecorded
  BY <1>13 DEF AttemptNotRecorded, Requeue, Fault
<1>14. CASE ResultRecorded
  BY <1>14 DEF ResultRecorded, Requeue
<1>15. CASE ResultNotRecorded
  <2>1. UNCHANGED <<target, created, reported, kind>> /\ pc' = "idle"
    BY <1>15 DEF ResultNotRecorded, Requeue
  <2>2. Told'
    BY <2>1
  <2>3. \A r \in Restores : r # target => result'[r] = result[r]
    BY <1>15 DEF ResultNotRecorded
  <2>4. reported[target] = "unreported"
    BY <1>15 DEF ResultNotRecorded
  <2>5. ReportCarriesBuild'
    BY <2>1, <2>3, <2>4 DEF ReportCarriesBuild
  <2>6. QED
    BY <2>2, <2>5
<1>16. CASE JobDeleted
  BY <1>16 DEF JobDeleted, Requeue, Fault
<1>17. CASE Switchover
  <2>1. CASE Gone
    BY <1>17, <2>1 DEF Switchover, Requeue
  <2>2. CASE ~Gone
    <3>1. /\ reported' = [reported EXCEPT ![target] = result[target]]
          /\ target' = None /\ UNCHANGED <<created, kind, result>> /\ pc' = "idle"
      BY <1>17, <2>2 DEF Switchover, Requeue
    <3>2. target <= created /\ target \in Restores
      BY <1>17 DEF Switchover
    <3>3. Told'
      BY <3>1, <3>2
    <3>4. ReportCarriesBuild'
      BY <1>17, <3>1, <3>2 DEF Switchover, ReportCarriesBuild
    <3>5. QED
      BY <3>3, <3>4
  <2>3. QED
    BY <2>1, <2>2
<1>18. CASE DeliveryVerified
  BY <1>18 DEF DeliveryVerified, CallbackFrame
<1>19. CASE DeliveryStored
  BY <1>19 DEF DeliveryStored, CallbackFrame
<1>20. CASE DeliveryReceipted
  BY <1>20 DEF DeliveryReceipted, CallbackFrame
<1>21. CASE DeliveryRefused
  BY <1>21 DEF DeliveryRefused, CallbackFrame, Fault
<1>22. CASE StoreSwept
  BY <1>22 DEF StoreSwept, CallbackFrame
<1>23. CASE JobSucceeds
  BY <1>23 DEF JobSucceeds, JobFrame
<1>24. CASE JobFails
  BY <1>24 DEF JobFails, JobFrame
<1>25. CASE JobGone
  BY <1>25 DEF JobGone, JobFrame
<1>26. CASE JobExpires
  BY <1>26 DEF JobExpires, JobFrame, Fault
<1>27. CASE RestoreSwitching
  <2>1. UNCHANGED <<reported, kind, result>> /\ pc' = "idle" /\ target' = created + 1
        /\ created' = created + 1 /\ created + 1 \in Restores
    BY <1>27 DEF RestoreSwitching
  <2>2. Told'
    BY <2>1
  <2>3. ReportCarriesBuild'
    BY <2>1 DEF ReportCarriesBuild
  <2>4. QED
    BY <2>2, <2>3
<1>28. CASE RestoreDeleted
  BY <1>28 DEF RestoreDeleted
<1>29. CASE CallFails
  BY <1>29 DEF CallFails, Requeue, Fault
<1>30. CASE OperatorRestarts
  BY <1>30 DEF OperatorRestarts, Requeue, Fault
<1>31. CASE JobCleanedUp
  BY <1>31 DEF JobCleanedUp, JobFrame, Fault
<1>32. QED
  BY <1>1, <1>2, <1>3, <1>4, <1>5, <1>6, <1>7, <1>8, <1>9, <1>10, <1>11, <1>12, <1>13, <1>14, <1>15, <1>16, <1>17, <1>18, <1>19, <1>20, <1>21, <1>22, <1>23, <1>24, <1>25, <1>26, <1>27, <1>28, <1>29, <1>30, <1>31 DEF Next, Pass, Callback

(* A delivery that was taken leaves its receipt on the Job.                *)
LEMMA ReceiptStep ==
    ASSUME TypeOK, Working, Receipted, Next
    PROVE  Receipted'
<1>. USE BuildAssumption DEF TypeOK, JobType, PostType, LocType, Working, Receipted, Restores, Gone, NoLoc, NoJob, NoPost, None, api, memory, ghosts
<1>1. CASE AlreadySettled
  BY <1>1 DEF AlreadySettled, Begins, Reads
<1>2. CASE NothingToBuild
  BY <1>2 DEF NothingToBuild, Begins, Reads
<1>3. CASE CannotBuild
  BY <1>3 DEF CannotBuild, Begins, Reads
<1>4. CASE BuildNotStarted
  BY <1>4 DEF BuildNotStarted, ToBuild, Begins, Reads
<1>5. CASE BuildFailed
  BY <1>5 DEF BuildFailed, ToBuild, Begins, Reads
<1>6. CASE BuildEmpty
  <2>. USE DEF ToBuild, Begins, Reads
  <2>1. post = NoPost /\ job.state = "Succeeded" /\ UNCHANGED <<job, post, accepted, attempts>>
    BY <1>6 DEF BuildEmpty
  <2>2. CASE empty_build(job.receipt, attempts[target] + 1)
    BY <1>6, <2>1, <2>2 DEF BuildEmpty
  <2>3. CASE ~empty_build(job.receipt, attempts[target] + 1)
    <3>1. loc'.attempts = attempts[target] /\ attempts[target] \in Int
      <4>1. Reads("rebuild", "none") \/ Reads("record", "empty")
        BY <1>6 DEF BuildEmpty
      <4>2. target \in Restores
        BY <1>6 DEF BuildEmpty
      <4>3. QED
        BY <4>1, <4>2, ReadsLoc DEF Results
    <3>2. ~job.receipt \/ loc'.attempts + 1 >= BuildAttempts
      BY <2>3, <3>1, BuildAssumption DEF empty_build
    <3>3. QED
      BY <2>1, <3>2
  <2>4. QED
    BY <2>2, <2>3
<1>7. CASE BuildDelivered
  BY <1>7 DEF BuildDelivered, ToBuild, Begins
<1>8. CASE SetupFails
  BY <1>8 DEF SetupFails, MayRetry
<1>9. CASE BuildStarts
  BY <1>9 DEF BuildStarts, Requeue
<1>10. CASE SchemaRegistered
  BY <1>10 DEF SchemaRegistered
<1>11. CASE RegistrationFails
  BY <1>11 DEF RegistrationFails, MayRetry
<1>12. CASE AttemptRecorded
  BY <1>12 DEF AttemptRecorded, Requeue
<1>13. CASE AttemptNotRecorded
  BY <1>13 DEF AttemptNotRecorded, Requeue, Fault
<1>14. CASE ResultRecorded
  BY <1>14 DEF ResultRecorded, Requeue
<1>15. CASE ResultNotRecorded
  BY <1>15 DEF ResultNotRecorded, Requeue, Fault
<1>16. CASE JobDeleted
  <2>1. pc' = "idle" /\ UNCHANGED accepted
    BY <1>16 DEF JobDeleted, Requeue
  <2>2. job'.receipt = job.receipt /\ (job.state = "none" => job'.state = "none")
    BY <1>16 DEF JobDeleted
  <2>3. QED
    BY <2>1, <2>2
<1>17. CASE Switchover
  BY <1>17 DEF Switchover, Requeue
<1>18. CASE DeliveryVerified
  BY <1>18 DEF DeliveryVerified, CallbackFrame
<1>19. CASE DeliveryStored
  BY <1>19 DEF DeliveryStored, CallbackFrame
<1>20. CASE DeliveryReceipted
  BY <1>20 DEF DeliveryReceipted, CallbackFrame
<1>21. CASE DeliveryRefused
  BY <1>21 DEF DeliveryRefused, CallbackFrame, Fault
<1>22. CASE StoreSwept
  BY <1>22 DEF StoreSwept, CallbackFrame
<1>23. CASE JobSucceeds
  BY <1>23 DEF JobSucceeds, JobFrame
<1>24. CASE JobFails
  BY <1>24 DEF JobFails, JobFrame
<1>25. CASE JobGone
  BY <1>25 DEF JobGone, JobFrame
<1>26. CASE JobExpires
  BY <1>26 DEF JobExpires, JobFrame, Fault
<1>27. CASE RestoreSwitching
  BY <1>27 DEF RestoreSwitching
<1>28. CASE RestoreDeleted
  BY <1>28 DEF RestoreDeleted
<1>29. CASE CallFails
  BY <1>29 DEF CallFails, Requeue, Fault
<1>30. CASE OperatorRestarts
  BY <1>30 DEF OperatorRestarts, Requeue, Fault
<1>31. CASE JobCleanedUp
  BY <1>31 DEF JobCleanedUp, JobFrame, Fault
<1>32. QED
  BY <1>1, <1>2, <1>3, <1>4, <1>5, <1>6, <1>7, <1>8, <1>9, <1>10, <1>11, <1>12, <1>13, <1>14, <1>15, <1>16, <1>17, <1>18, <1>19, <1>20, <1>21, <1>22, <1>23, <1>24, <1>25, <1>26, <1>27, <1>28, <1>29, <1>30, <1>31 DEF Next, Pass, Callback

(* The only registration is that of a schema the pass holds.               *)
LEMMA RegisteredStep ==
    ASSUME TypeOK, Working, Own, RegisteredIsOwn, Next
    PROVE  RegisteredIsOwn'
<1>1. CASE SchemaRegistered
  <2>1. removed = {} => loc.sql = target
    BY <1>1 DEF SchemaRegistered, Working, Own, Restores, None
  <2>2. QED
    BY <1>1, <2>1 DEF SchemaRegistered, RegisteredIsOwn, api
<1>2. CASE ~SchemaRegistered
  <2>1. UNCHANGED registered
    BY <1>2 DEF Next, Pass, Callback, AlreadySettled, NothingToBuild, CannotBuild, BuildNotStarted,
       BuildFailed, BuildEmpty, BuildDelivered, SetupFails, BuildStarts, RegistrationFails,
       AttemptRecorded, AttemptNotRecorded, ResultRecorded, ResultNotRecorded, JobDeleted,
       Switchover, DeliveryVerified, DeliveryStored, DeliveryReceipted, DeliveryRefused,
       StoreSwept, JobSucceeds, JobFails, JobGone, JobExpires, JobCleanedUp, RestoreSwitching, RestoreDeleted,
       CallFails, OperatorRestarts, ToBuild, Begins, CallbackFrame, JobFrame, ghosts
  <2>2. removed \subseteq removed'
    BY DEF Next, Pass, Callback, AlreadySettled, NothingToBuild, CannotBuild, BuildNotStarted,
       BuildFailed, BuildEmpty, BuildDelivered, SetupFails, BuildStarts, RegistrationFails,
       SchemaRegistered,
       AttemptRecorded, AttemptNotRecorded, ResultRecorded, ResultNotRecorded, JobDeleted,
       Switchover, DeliveryVerified, DeliveryStored, DeliveryReceipted, DeliveryRefused,
       StoreSwept, JobSucceeds, JobFails, JobGone, JobExpires, JobCleanedUp, RestoreSwitching, RestoreDeleted,
       CallFails, OperatorRestarts, ToBuild, Begins, CallbackFrame, JobFrame, api
  <2>3. QED
    BY <2>1, <2>2 DEF RegisteredIsOwn
<1>3. QED
  BY <1>1, <1>2

-----------------------------------------------------------------------------

(* The inductive invariant holds when the operator starts.                 *)
LEMMA InitInv == Init => Inv
<1>. SUFFICES ASSUME Init PROVE Inv
  OBVIOUS
<1>1. TypeOK
  <2>1. loc \in LocType /\ job \in JobType /\ post \in PostType
    BY BuildAssumption
    DEF Init, LocType, JobType, PostType, JobStates, Results, NoLoc, NoJob, NoPost, None
  <2>2. /\ result \in [Restores -> Results]
        /\ attempts \in [Restores -> 0..(BuildAttempts - 1)]
        /\ reported \in [Restores -> Results \cup {"unreported"}]
    BY BuildAssumption DEF Init, Results
  <2>3. created \in 0..MaxRestores /\ faults \in 0..MaxFaults
    BY BuildAssumption DEF Init
  <2>4. /\ target \in Restores \cup {None} /\ store \in Restores \cup {None}
        /\ pc \in Steps /\ accepted \in BOOLEAN
    BY DEF Init, Steps
  <2>5. removed \subseteq Restores /\ registered \subseteq Restores \X Restores
    BY DEF Init
  <2>6. QED
    BY <2>1, <2>2, <2>3, <2>4, <2>5 DEF Init, TypeOK
<1>. USE DEF NoLoc, NoJob, NoPost, None
<1>2. Working /\ Own /\ Receipted
  BY DEF Init, Working, Own, Receipted
<1>3. Told /\ RegisteredIsOwn /\ ReportCarriesBuild
  BY DEF Init, Told, RegisteredIsOwn, ReportCarriesBuild
<1>4. QED
  BY <1>1, <1>2, <1>3 DEF Inv

(* Every step keeps the inductive invariant.                               *)
LEMMA NextInv == Inv /\ [Next]_vars => Inv'
<1>. SUFFICES ASSUME Inv, [Next]_vars PROVE Inv'
  OBVIOUS
<1>1. CASE Next
  BY <1>1, TypeStep, WorkingStep, OwnStep, ToldStep, ReceiptStep, RegisteredStep DEF Inv
<1>2. CASE UNCHANGED vars
  BY <1>2 DEF vars, api, memory, ghosts, Inv, TypeOK, Working, Own, Told, Receipted,
     RegisteredIsOwn, ReportCarriesBuild
<1>3. QED
  BY <1>1, <1>2

(* The inductive invariant holds.                                          *)
THEOREM Invariance == Spec => []Inv
  BY InitInv, NextInv, PTL DEF Spec

(* The attempts a build is given never exceed BUILD_ATTEMPTS, and every    *)
(* other variable keeps its type.                                          *)
THEOREM TypeCorrect == Spec => []TypeOK
<1>1. Inv => TypeOK
  BY DEF Inv
<1>2. QED
  BY <1>1, Invariance, PTL

(* No schema is registered for a restore it was not built from, as long as *)
(* no restore is deleted under its build.                                  *)
THEOREM SchemasNotMixedUp == Spec => []RegisteredIsOwn
<1>1. Inv => RegisteredIsOwn
  BY DEF Inv
<1>2. QED
  BY <1>1, Invariance, PTL

(* Every report carries the result of the build.                           *)
THEOREM ReportsAreComplete == Spec => []ReportCarriesBuild
<1>1. Inv => ReportCarriesBuild
  BY DEF Inv
<1>2. QED
  BY <1>1, Invariance, PTL

(* Only a pass at record writes a result, and it writes what it has        *)
(* decided on the restore it is about.                                     *)
LEMMA ResultsWritten ==
    ASSUME TypeOK, Next, result' # result
    PROVE  /\ pc = "record"
           /\ result' = [result EXCEPT ![target] = loc.outcome]
  BY DEF Next, Pass, Callback, AlreadySettled, NothingToBuild, CannotBuild, BuildNotStarted,
     BuildFailed, BuildEmpty, BuildDelivered, SetupFails, BuildStarts, SchemaRegistered,
     RegistrationFails, AttemptRecorded, AttemptNotRecorded, ResultRecorded, ResultNotRecorded,
     JobDeleted, Switchover, DeliveryVerified, DeliveryStored, DeliveryReceipted, DeliveryRefused,
     StoreSwept, JobSucceeds, JobFails, JobGone, JobExpires, JobCleanedUp, RestoreSwitching, RestoreDeleted,
     CallFails, OperatorRestarts, ToBuild, Begins, CallbackFrame, JobFrame, api

(* A schema that was delivered and lost is built again.                    *)
THEOREM DeliveriesAreRebuilt == Spec => LostSchemaRebuilt
<1>1. Inv /\ [Next]_vars =>
        [\A r \in Restores : result[r] = "none" /\ result'[r] = "empty"
           => ~accepted \/ attempts[r] + 1 >= BuildAttempts]_vars
  <2>. SUFFICES ASSUME Inv, Next, NEW r \in Restores, result[r] = "none", result'[r] = "empty"
                PROVE  ~accepted \/ attempts[r] + 1 >= BuildAttempts
    OBVIOUS
  <2>1. pc = "record" /\ result' = [result EXCEPT ![target] = loc.outcome]
    BY ResultsWritten DEF Inv
  <2>2. r = target /\ loc.outcome = "empty"
    BY <2>1 DEF Inv, TypeOK
  <2>3. loc.attempts = attempts[r]
    BY <2>1, <2>2 DEF Inv, Working
  <2>4. QED
    BY <2>1, <2>2, <2>3 DEF Inv, Receipted
<1>2. QED
  BY <1>1, Invariance, PTL DEF Spec, LostSchemaRebuilt

=============================================================================
