----------------------- MODULE DatabaseSessionsProofs -----------------------
(***************************************************************************)
(* Safety of a restore's pod and of the sessions on its database, for any  *)
(* databases, schemas and columns, any set of replica specs, and any       *)
(* number of kills and failures.                                           *)
(***************************************************************************)
EXTENDS DatabaseSessions, TLAPS

(* A server runs in the postgres container, and connections and background *)
(* jobs live no longer than it does.                                       *)
Living ==
    /\ server # "off" => pc = "main"
    /\ pc = "main" => server # "off"
    /\ job.step # "none" => pc = "main"
    /\ job.todo # {} => job.step \in {"locale", "all", "collation"}
    /\ conn => server = "up"

(* The database whose version is about to be stamped was just rebuilt.     *)
Clean == job.clean \cap stale["collation"] = {}

(* Once setup-auth has recorded the stage, flags only go, and the reindex  *)
(* comes to a branch when those before it have no flag left.               *)
Staged ==
    /\ pc \in {"stop", "exec", "main"} /\ info.stage = "ready" => flags \cap Reindexes = {}
    /\ job.step \in {"all", "collation", "ready"} => "needs-reindex" \notin flags
    /\ job.step \in {"collation", "ready"} => "needs-reindex-all" \notin flags

(* Indexes out of order are flagged, about to be flagged, still to be gone *)
(* over by the branch that rebuilds them, or let go of.                    *)
Flagged ==
    /\ stale["locale"] # {} =>
         \/ "needs-reindex" \in flags
         \/ pc \in {"rewritten", "rewritten2", "fallen", "fallen2"}
         \/ "locale" \in slips
    /\ stale["torn"] # {} =>
         "needs-reindex-all" \in flags \/ pc = "resetDone" \/ "torn" \in slips
    /\ job.step = "locale" => stale["locale"] \subseteq job.todo \/ "locale" \in slips
    /\ job.step = "all" => stale["torn"] \subseteq job.todo \/ "torn" \in slips

(* What a pod past the command that grants it has granted.                 *)
Granting ==
    /\ pc \in {"info", "stop", "exec", "main"} =>
         /\ analytics # {}
         /\ "persistentSchemas" \in config => "super" \in analytics
    /\ /\ pc \in {"privilege", "info", "stop", "exec", "main"}
       /\ "persistentSchemas" \notin config \/ gate \in {"served", "replaced"}
       => schemas \subseteq granted
    /\ sess \in {"alter", "grant", "demote"} => should_enforce_read_only
    /\ dbReadOnly => "persistentSchemas" \notin config /\ schemas \subseteq granted
    /\ sess = "demote" /\ conn => "pg_read_all_data" \in analytics

(* What the run may claim of a column so far.                              *)
Refused(c) == c \in masked \/ outcome[c] = "refused"

(* How far a run that will ask more of its connection is with the masks.   *)
Masking ==
    /\ sess # "none" => gate = "redact"
    /\ phase \in {"complete", "partial"} => sess = "none" /\ gate \notin {"waiting", "redact"}
    /\ sess \in {"none", "extension"} /\ phase \notin {"complete", "partial"} => outcome = Untried
    /\ \A c \in Columns : outcome[c] = "masked" => c \in masked
    /\ sess = "mask" /\ conn => \A c \in Columns : Refused(c) \/ outcome[c] = "todo"
    /\ sess = "alter" /\ conn => \A c \in Columns : Refused(c)
    /\ sess \in {"grant", "demote", "settle"} /\ should_enforce_read_only =>
         \A c \in Columns : Refused(c)

Inv ==
    /\ TypeOK /\ Living
    /\ Clean /\ VersionHonest
    /\ Staged /\ Flagged
    /\ Granting
    /\ Masking /\ RedactedAsRecorded

-----------------------------------------------------------------------------

JobType == [step : JobSteps, todo : SUBSET Databases, clean : SUBSET Databases]

(* The reindex goes on with the first branch whose flag is there.          *)
LEMMA BranchFacts ==
    ASSUME NEW n \in 0..3
    PROVE  /\ Branch(n) \in JobType
           /\ Branch(n).clean = {}
           /\ Branch(n).step \in {"locale", "all", "collation", "ready"}
           /\ Branch(n).step \in {"locale", "all", "collation"} => Branch(n).todo = Listed
           /\ Branch(n).step = "ready" => Branch(n).todo = {}
           /\ n = 0 /\ Branch(n).step # "locale" => "needs-reindex" \notin flags'
           /\ n <= 1 /\ Branch(n).step \notin {"locale", "all"} => "needs-reindex-all" \notin flags'
<1>. DEFINE order == <<"locale", "all", "collation">>
            flag == [locale |-> "needs-reindex", all |-> "needs-reindex-all",
                     collation |-> "needs-collation-refresh"]
            left == {m \in 1..3 : m > n /\ flag[order[m]] \in flags'}
            least == CHOOSE m \in left : \A k \in left : m <= k
            picked == [step |-> order[least], todo |-> Listed, clean |-> {}]
<1>1. Branch(n) = IF left = {} THEN [NoJob EXCEPT !.step = "ready"] ELSE picked
  BY DEF Branch
<1>2. Listed \subseteq Databases
  BY DEF Listed
<1>3. /\ 1 \in left <=> n = 0 /\ "needs-reindex" \in flags'
      /\ 2 \in left <=> n <= 1 /\ "needs-reindex-all" \in flags'
  BY DEF left
<1>4. CASE left = {}
  BY <1>1, <1>3, <1>4 DEF NoJob, JobType, JobSteps
<1>5. CASE left # {}
  <2>1. least \in left /\ \A k \in left : least <= k
    <3>1. \E m \in left : \A k \in left : m <= k
      <4>1. left \subseteq {1, 2, 3}
        OBVIOUS
      <4>. HIDE DEF left
      <4>2. CASE 1 \in left
        BY <4>1, <4>2
      <4>3. CASE 1 \notin left /\ 2 \in left
        BY <4>1, <4>3
      <4>4. CASE 1 \notin left /\ 2 \notin left
        <5>1. left = {3}
          BY <1>5, <4>1, <4>4
        <5>2. QED
          BY <5>1
      <4>5. QED
        BY <4>2, <4>3, <4>4
    <3>. QED
      BY <3>1
  <2>2. least \in 1..3
    BY <2>1
  <2>3. order[least] = (IF least = 1 THEN "locale" ELSE IF least = 2 THEN "all" ELSE "collation")
    <3>1. \A m \in 1..3 : order[m] = (IF m = 1 THEN "locale" ELSE IF m = 2 THEN "all" ELSE "collation")
      OBVIOUS
    <3>. HIDE DEF left, least, order
    <3>2. QED
      BY <2>2, <3>1
  <2>4. Branch(n) = picked
    BY <1>1, <1>5
  <2>5. 1 \in left => least = 1
    BY <2>1, <2>2
  <2>6. 2 \in left => least \in {1, 2}
    BY <2>1, <2>2
  <2>. HIDE DEF left, least, order
  <2>7. QED
    BY <1>2, <1>3, <2>2, <2>3, <2>4, <2>5, <2>6 DEF JobType, JobSteps
<1>6. QED
  BY <1>4, <1>5

(* A run that fails leaves the database as it is.                          *)
LEMMA RunFailsTypes ==
    ASSUME TypeOK, RunFails
    PROVE  TypeOK'
<1>1. PodTypeOK'
  BY DEF TypeOK, PodTypeOK, RunFails, CatalogFrame, PodFrame, volumeVars, catalogVars
<1>2. QED
  BY <1>1 DEF TypeOK, RunFails, CatalogFrame, SessionSteps, Phases, Untried, Outcomes

(* Every step keeps the types.                                             *)
LEMMA TypeStep ==
    ASSUME TypeOK, Living, Next
    PROVE  TypeOK'
<1>. USE PodAssumption, SessionAssumption
   DEF TypeOK, PodTypeOK, InPod, volumeVars, catalogVars
<1>1. CASE InPod(PodStarts)
  BY <1>1 DEF PodStarts, Goto, InitSteps
<1>2. CASE InPod(CheckWal)
  BY <1>2 DEF CheckWal, Goto, InitFrame, InitSteps
<1>3. CASE InPod(FlagRecreated)
  BY <1>3 DEF FlagRecreated, Goto, Touch, InitFrame, InitSteps, Flags
<1>4. CASE InPod(SingleSucceeds)
  BY <1>4 DEF SingleSucceeds, Goto, Fault, InitFrame, InitSteps, Reasons
<1>5. CASE InPod(SingleFails)
  BY <1>5 DEF SingleFails, Goto, Fault, InitFrame, InitSteps
<1>6. CASE InPod(ResetWal)
  BY <1>6 DEF ResetWal, Goto, InitFrame, InitSteps, Reasons
<1>7. CASE InPod(FlagReset)
  BY <1>7 DEF FlagReset, Goto, Touch, InitFrame, InitSteps, Flags
<1>8. CASE InPod(FlagRewrite)
  <2>1. flags' \in SUBSET Flags
    BY <1>8 DEF FlagRewrite, Touch, Flags
  <2>2. pc' \in InitSteps
    BY <1>8 DEF FlagRewrite, Goto, InitSteps
  <2>3. QED
    BY <1>8, <2>1, <2>2 DEF FlagRewrite, InitFrame
<1>9. CASE InPod(FallbackRewrite)
  BY <1>9 DEF FallbackRewrite, Goto, InitFrame, InitSteps, Reasons
<1>10. CASE InPod(DetectCollation)
  <2>1. flags' \in SUBSET Flags
    BY <1>10 DEF DetectCollation, Touch, Flags
  <2>2. faults' \in 0..MaxFaults
    BY <1>10 DEF DetectCollation, Fault
  <2>3. QED
    BY <1>10, <2>1, <2>2 DEF DetectCollation, Goto, InitFrame, InitSteps
<1>11. CASE InPod(ResetRoles)
  BY <1>11 DEF ResetRoles, Goto, role_reset_block, database_lockdown_block, InitSteps
<1>12. CASE InPod(GrantPrivilege)
  BY <1>12 DEF GrantPrivilege, Goto, InitSteps
<1>13. CASE InPod(RecordInfo)
  BY <1>13 DEF RecordInfo, Goto, Fixes, Stages, InitSteps
<1>14. CASE InPod(StopTemporary)
  BY <1>14 DEF StopTemporary, Goto, InitFrame, InitSteps
<1>15. CASE InPod(MainStarts)
  <2>1. faults' \in 0..MaxFaults
    BY <1>15 DEF MainStarts, InstallAnon, Fault
  <2>2. anon' \in BOOLEAN
    BY <1>15 DEF MainStarts, InstallAnon
  <2>3. job' \in JobType
    BY <1>15 DEF MainStarts, NoJob, JobType, JobSteps
  <2>4. QED
    BY <1>15, <2>1, <2>2, <2>3 DEF MainStarts, Goto, JobType
<1>16. CASE InPod(JobBegins)
  BY <1>16, BranchFacts DEF JobBegins, SetStage, MainFrame, JobType, Stages
<1>17. ASSUME NEW db \in Databases, InPod(ReindexDatabase(db))
      PROVE  TypeOK'
  <2>1. faults' \in 0..MaxFaults
    BY <1>17 DEF ReindexDatabase, Fault
  <2>2. stale' \in [Reasons -> SUBSET Databases]
    <3>1. Rebuilt(db) \in [Reasons -> SUBSET Databases]
      <4>1. job.step \in {"locale", "all", "collation"}
        BY <1>17 DEF ReindexDatabase, Living
      <4>2. QED
        BY <4>1 DEF Rebuilt, Reasons
    <3>2. QED
      BY <1>17, <3>1 DEF ReindexDatabase
  <2>3. job' \in JobType
    <3>1. PICK c \in {job.clean, {}, {db}} : job' = [job EXCEPT !.todo = @ \ {db}, !.clean = c]
      <4>1. job' = [job EXCEPT !.todo = @ \ {db}] => job' = [job EXCEPT !.todo = @ \ {db}, !.clean = job.clean]
        OBVIOUS
      <4>2. QED
        BY <1>17, <4>1 DEF ReindexDatabase
    <3>2. QED
      BY <3>1 DEF JobType
  <2>4. slips' \in SUBSET Reasons
    BY <1>17 DEF ReindexDatabase, Owes, Reasons
  <2>5. QED
    BY <1>17, <2>1, <2>2, <2>3, <2>4 DEF ReindexDatabase, MainFrame, JobType
<1>18. CASE InPod(RefreshVersion)
  BY <1>18 DEF RefreshVersion, Fault, MainFrame
<1>19. CASE InPod(BranchEnds)
  <2>1. slips' \in SUBSET Reasons
    BY <1>19 DEF BranchEnds, Owes, Reasons
  <2>2. job' \in JobType
    BY <1>19, BranchFacts DEF BranchEnds
  <2>3. flags' \in SUBSET Flags
    BY <1>19 DEF BranchEnds
  <2>4. QED
    BY <1>19, <2>1, <2>2, <2>3 DEF BranchEnds, MainFrame, JobType
<1>20. CASE InPod(JobEnds)
  BY <1>20 DEF JobEnds, SetStage, NoJob, MainFrame, JobSteps, Stages
<1>21. CASE InPod(ServerRefuses)
  BY <1>21 DEF ServerRefuses, Fault
<1>22. CASE InPod(ServerRecovers)
  BY <1>22 DEF ServerRecovers
<1>23. CASE InPod(ContainerRestarts)
  BY <1>23 DEF ContainerRestarts, Goto, Fault, NoJob, JobSteps
<1>24. CASE InPod(PodReplaced)
  <2>1. slips' \in SUBSET Reasons
    BY <1>24 DEF PodReplaced, Reasons
  <2>2. QED
    BY <1>24, <2>1 DEF PodReplaced, Goto, Fault, NoJob, JobSteps
<1>25. CASE SwitchoverBegins
  BY <1>25 DEF SwitchoverBegins, CatalogFrame, PodFrame, Gates, SessionSteps
<1>26. CASE RedactionBegins
  <2>1. faults' \in 0..MaxFaults
    BY <1>26 DEF RedactionBegins
  <2>2. PodTypeOK'
    BY <1>26, <2>1 DEF RedactionBegins, CatalogFrame, PodFrame
  <2>3. conn' \in BOOLEAN /\ phase' \in Phases /\ sess' \in SessionSteps
    BY <1>26 DEF RedactionBegins, SessionSteps, Phases
  <2>4. QED
    BY <1>26, <2>2, <2>3 DEF RedactionBegins, CatalogFrame
<1>27. CASE CreateExtension
  <2>1. CASE conn /\ Writable /\ anon
    BY <1>27, <2>1 DEF CreateExtension, CatalogFrame, PodFrame, SessionSteps
  <2>2. CASE ~(conn /\ Writable /\ anon)
    BY <1>27, <2>2, RunFailsTypes DEF CreateExtension
  <2>3. QED
    BY <2>1, <2>2
<1>28. ASSUME NEW c \in Columns, MaskColumn(c)
      PROVE  TypeOK'
  <2>1. outcome' \in [Columns -> Outcomes]
    BY <1>28 DEF MaskColumn, Outcomes
  <2>2. QED
    BY <1>28, <2>1 DEF MaskColumn, CatalogFrame, PodFrame, Gates, SessionSteps
<1>29. CASE MasksDone
  BY <1>29 DEF MasksDone, CatalogFrame, PodFrame, Gates, SessionSteps
<1>30. CASE AlterDatabase
  <2>1. CASE conn
    BY <1>30, <2>1 DEF AlterDatabase, PodFrame, SessionSteps
  <2>2. CASE ~(conn)
    BY <1>30, <2>2, RunFailsTypes DEF AlterDatabase
  <2>3. QED
    BY <2>1, <2>2
<1>31. CASE GrantRead
  <2>1. CASE conn /\ "super" \in analytics
    BY <1>31, <2>1 DEF GrantRead, PodFrame, ReplicaFrame, SessionSteps
  <2>2. CASE ~(conn /\ "super" \in analytics)
    BY <1>31, <2>2, RunFailsTypes DEF GrantRead
  <2>3. QED
    BY <2>1, <2>2
<1>32. CASE Demote
  <2>1. CASE conn
    BY <1>32, <2>1 DEF Demote, PodFrame, ReplicaFrame, SessionSteps
  <2>2. CASE ~(conn)
    BY <1>32, <2>2, RunFailsTypes DEF Demote
  <2>3. QED
    BY <2>1, <2>2
<1>33. CASE RedactionSettles
  BY <1>33 DEF RedactionSettles, CatalogFrame, PodFrame, Gates, SessionSteps, Phases
<1>34. CASE SchemasMigrated
  BY <1>34 DEF SchemasMigrated, GateFrame, PodFrame, Gates, SessionSteps
<1>35. CASE GrantSchemas
  BY <1>35 DEF GrantSchemas, GateFrame, PodFrame, Gates, SessionSteps
<1>36. CASE MarkOutgoing
  BY <1>36 DEF MarkOutgoing, GateFrame, PodFrame, Stages, Gates
<1>37. CASE RunLost
  <2>1. faults' \in 0..MaxFaults
    BY <1>37 DEF RunLost, Fault
  <2>2. PodTypeOK'
    BY <1>37, <2>1 DEF RunLost, CatalogFrame, PodFrame
  <2>3. QED
    BY <1>37, <2>2 DEF RunLost, CatalogFrame, SessionSteps, Untried, Outcomes
<1>38. CASE LookupFails
  BY <1>38, RunFailsTypes DEF LookupFails
<1>39. QED
  BY <1>1, <1>2, <1>3, <1>4, <1>5, <1>6, <1>7, <1>8, <1>9, <1>10, <1>11, <1>12, <1>13,
     <1>14, <1>15, <1>16, <1>17, <1>18, <1>19, <1>20, <1>21, <1>22, <1>23, <1>24,
     <1>25, <1>26, <1>27, <1>28, <1>29, <1>30, <1>31, <1>32, <1>33, <1>34, <1>35,
     <1>36, <1>37, <1>38
     DEF Next, InPod, PodNext, SetupAuth, BackgroundReindex, Switchover, Redact

(* The server, its connections and the background job end together.        *)
LEMMA LivingStep ==
    ASSUME TypeOK, Living, Next
    PROVE  Living'
<1>. USE PodAssumption DEF TypeOK, PodTypeOK, Living, InPod, volumeVars, catalogVars
<1>1. CASE InPod(PodStarts \/ CheckWal \/ FlagRecreated \/ SingleSucceeds \/
           SingleFails \/ ResetWal \/ FlagReset)
  BY <1>1 DEF PodStarts, Goto, CheckWal, InitFrame, FlagRecreated, Touch,
     SingleSucceeds, Fault, SingleFails, ResetWal, FlagReset
<1>2. CASE InPod(FlagRewrite \/ FallbackRewrite \/ DetectCollation \/ ResetRoles \/
           GrantPrivilege \/ RecordInfo \/ StopTemporary)
  BY <1>2 DEF FlagRewrite, Goto, Touch, InitFrame, FallbackRewrite, DetectCollation,
     Fault, ResetRoles, role_reset_block, database_lockdown_block, GrantPrivilege,
     RecordInfo, StopTemporary
<1>3. CASE InPod(MainStarts)
  BY <1>3 DEF MainStarts, Goto, InstallAnon, Fault, NoJob
<1>4. CASE InPod(JobBegins)
  BY <1>4, BranchFacts DEF JobBegins, SetStage, MainFrame
<1>5. ASSUME NEW db \in Databases, InPod(ReindexDatabase(db))
      PROVE  Living'
  BY <1>5 DEF ReindexDatabase, Fault, MainFrame
<1>6. CASE InPod(RefreshVersion)
  BY <1>6 DEF RefreshVersion, Fault, MainFrame
<1>7. CASE InPod(BranchEnds)
  BY <1>7, BranchFacts DEF BranchEnds, MainFrame
<1>8. CASE InPod(JobEnds)
  BY <1>8 DEF JobEnds, SetStage, NoJob, MainFrame
<1>9. CASE InPod(ServerRefuses)
  BY <1>9 DEF ServerRefuses
<1>10. CASE InPod(ServerRecovers)
  BY <1>10 DEF ServerRecovers
<1>11. CASE InPod(ContainerRestarts)
  BY <1>11 DEF ContainerRestarts, Goto, Fault, NoJob
<1>12. CASE InPod(PodReplaced)
  BY <1>12 DEF PodReplaced, Goto, Fault, NoJob
<1>13. CASE SwitchoverBegins
  BY <1>13 DEF SwitchoverBegins, CatalogFrame, PodFrame
<1>14. CASE RedactionBegins
  BY <1>14 DEF RedactionBegins, CatalogFrame, PodFrame
<1>15. CASE CreateExtension
  BY <1>15 DEF CreateExtension, RunFails, CatalogFrame, PodFrame
<1>16. ASSUME NEW c \in Columns, MaskColumn(c)
      PROVE  Living'
  BY <1>16 DEF MaskColumn, CatalogFrame, PodFrame
<1>17. CASE MasksDone
  BY <1>17 DEF MasksDone, CatalogFrame, PodFrame
<1>18. CASE AlterDatabase
  BY <1>18 DEF AlterDatabase, RunFails, CatalogFrame, PodFrame
<1>19. CASE GrantRead
  BY <1>19 DEF GrantRead, RunFails, CatalogFrame, PodFrame, ReplicaFrame
<1>20. CASE Demote
  BY <1>20 DEF Demote, RunFails, CatalogFrame, PodFrame, ReplicaFrame
<1>21. CASE RedactionSettles
  BY <1>21 DEF RedactionSettles, CatalogFrame, PodFrame
<1>22. CASE SchemasMigrated
  BY <1>22 DEF SchemasMigrated, GateFrame, PodFrame
<1>23. CASE GrantSchemas
  BY <1>23 DEF GrantSchemas, GateFrame, PodFrame
<1>24. CASE MarkOutgoing
  BY <1>24 DEF MarkOutgoing, GateFrame, PodFrame
<1>25. CASE RunLost
  BY <1>25 DEF RunLost, Fault, CatalogFrame, PodFrame
<1>26. CASE LookupFails
  BY <1>26 DEF LookupFails, RunFails, CatalogFrame, PodFrame
<1>27. QED
  BY <1>1, <1>2, <1>3, <1>4, <1>5, <1>6, <1>7, <1>8, <1>9, <1>10, <1>11, <1>12, <1>13,
     <1>14, <1>15, <1>16, <1>17, <1>18, <1>19, <1>20, <1>21, <1>22, <1>23, <1>24,
     <1>25, <1>26
     DEF Next, InPod, PodNext, SetupAuth, BackgroundReindex, Switchover, Redact

(* A version is stamped only when the indexes ordered by it are rebuilt.   *)
LEMMA CleanStep ==
    ASSUME TypeOK, Living, Clean, VersionHonest, Next
    PROVE  Clean' /\ VersionHonest'
<1>. USE DEF TypeOK, PodTypeOK, Clean, VersionHonest, InPod, volumeVars, catalogVars
<1>1. CASE InPod(PodStarts \/ CheckWal \/ FlagRecreated \/ SingleFails \/ FlagReset \/
           FlagRewrite \/ DetectCollation)
  BY <1>1 DEF PodStarts, Goto, CheckWal, InitFrame, FlagRecreated, Touch, SingleFails,
     Fault, FlagReset, FlagRewrite, DetectCollation
<1>2. CASE InPod(ResetRoles \/ GrantPrivilege \/ RecordInfo \/ StopTemporary \/
           ServerRefuses \/ ServerRecovers)
  BY <1>2 DEF ResetRoles, Goto, role_reset_block, database_lockdown_block,
     GrantPrivilege, RecordInfo, StopTemporary, InitFrame, ServerRefuses, Fault,
     ServerRecovers
<1>3. CASE InPod(SingleSucceeds)
  BY <1>3 DEF SingleSucceeds, Goto, Fault, InitFrame, Reasons
<1>4. CASE InPod(ResetWal)
  BY <1>4 DEF ResetWal, Goto, InitFrame, Reasons
<1>5. CASE InPod(FallbackRewrite)
  BY <1>5 DEF FallbackRewrite, Goto, InitFrame, Reasons
<1>6. CASE InPod(MainStarts)
  BY <1>6 DEF MainStarts, Goto, InstallAnon, Fault, NoJob
<1>7. CASE InPod(JobBegins)
  BY <1>7, BranchFacts DEF JobBegins, SetStage, MainFrame
<1>8. ASSUME NEW db \in Databases, InPod(ReindexDatabase(db))
      PROVE  Clean' /\ VersionHonest'
  <2>1. job.step \in {"locale", "all", "collation"} /\ job.clean = {}
    BY <1>8 DEF ReindexDatabase, Living
  <2>2. CASE stale' = Rebuilt(db) /\ job' = [job EXCEPT !.todo = @ \ {db},
                               !.clean = IF job.step = "collation" THEN {db} ELSE {}]
    <3>1. stale'["collation"] =
            IF job.step = "locale" THEN stale["collation"] ELSE stale["collation"] \ {db}
      BY <2>1, <2>2 DEF Rebuilt, Reasons
    <3>2. job'.clean = IF job.step = "collation" THEN {db} ELSE {}
      BY <2>2
    <3>3. oldVersion' = oldVersion
      BY <1>8 DEF ReindexDatabase
    <3>4. QED
      BY <3>1, <3>2, <3>3
  <2>3. CASE stale' = stale /\ job' = [job EXCEPT !.todo = @ \ {db}]
    <3>1. job'.clean = {}
      BY <2>1, <2>3
    <3>2. QED
      BY <1>8, <2>3, <3>1 DEF ReindexDatabase
  <2>4. QED
    BY <1>8, <2>2, <2>3 DEF ReindexDatabase
<1>9. CASE InPod(RefreshVersion)
  BY <1>9 DEF RefreshVersion, Fault, MainFrame
<1>10. CASE InPod(BranchEnds)
  BY <1>10, BranchFacts DEF BranchEnds, MainFrame
<1>11. CASE InPod(JobEnds)
  BY <1>11 DEF JobEnds, SetStage, NoJob, MainFrame
<1>12. CASE InPod(ContainerRestarts)
  BY <1>12 DEF ContainerRestarts, Goto, Fault, NoJob
<1>13. CASE InPod(PodReplaced)
  BY <1>13 DEF PodReplaced, Goto, Fault, NoJob
<1>14. CASE SwitchoverBegins \/ RedactionBegins \/ CreateExtension \/
           (\E c \in Columns : MaskColumn(c)) \/ LookupFails \/ MasksDone \/ AlterDatabase \/
           GrantRead \/ Demote \/ RedactionSettles \/ SchemasMigrated \/
           GrantSchemas \/ MarkOutgoing \/ RunLost
  BY <1>14 DEF SwitchoverBegins, CatalogFrame, PodFrame, RedactionBegins,
     CreateExtension, RunFails, MaskColumn, LookupFails, MasksDone, AlterDatabase, GrantRead,
     ReplicaFrame, Demote, RedactionSettles, SchemasMigrated, GateFrame, GrantSchemas,
     MarkOutgoing, RunLost, Fault
<1>15. QED
  BY <1>1, <1>2, <1>3, <1>4, <1>5, <1>6, <1>7, <1>8, <1>9, <1>10, <1>11, <1>12, <1>13,
     <1>14
     DEF Next, InPod, PodNext, SetupAuth, BackgroundReindex, Switchover, Redact

(* The stage of the database is ready only when no flag for it is left.    *)
LEMMA StagedStep ==
    ASSUME TypeOK, Living, Staged, Next
    PROVE  Staged'
<1>. USE DEF TypeOK, PodTypeOK, Living, Staged, InPod, volumeVars, catalogVars
<1>1. CASE InPod(PodStarts \/ CheckWal \/ FlagRecreated \/ SingleSucceeds \/
           SingleFails \/ ResetWal \/ FlagReset \/ FlagRewrite \/ FallbackRewrite \/
           DetectCollation \/ ResetRoles \/ GrantPrivilege)
  BY <1>1 DEF PodStarts, Goto, CheckWal, InitFrame, FlagRecreated, Touch,
     SingleSucceeds, Fault, SingleFails, ResetWal, FlagReset, FlagRewrite,
     FallbackRewrite, DetectCollation, ResetRoles, role_reset_block,
     database_lockdown_block, GrantPrivilege
<1>2. CASE InPod(RefreshVersion \/ ServerRefuses \/ ServerRecovers)
  BY <1>2 DEF RefreshVersion, Fault, MainFrame, ServerRefuses, ServerRecovers
<1>3. CASE InPod(RecordInfo)
  BY <1>3 DEF RecordInfo, Goto, Reindexes
<1>4. CASE InPod(StopTemporary)
  BY <1>4 DEF StopTemporary, Goto, InitFrame
<1>5. CASE InPod(MainStarts)
  BY <1>5 DEF MainStarts, Goto, InstallAnon, Fault, NoJob
<1>6. CASE InPod(JobBegins)
  BY <1>6, BranchFacts DEF JobBegins, SetStage, MainFrame
<1>7. ASSUME NEW db \in Databases, InPod(ReindexDatabase(db))
      PROVE  Staged'
  BY <1>7 DEF ReindexDatabase, Fault, MainFrame
<1>8. CASE InPod(BranchEnds)
  BY <1>8, BranchFacts DEF BranchEnds, MainFrame, Reindexes
<1>9. CASE InPod(JobEnds)
  BY <1>9 DEF JobEnds, SetStage, NoJob, MainFrame, Reindexes
<1>10. CASE InPod(ContainerRestarts)
  BY <1>10 DEF ContainerRestarts, Goto, Fault, NoJob
<1>11. CASE InPod(PodReplaced)
  BY <1>11 DEF PodReplaced, Goto, Fault, NoJob
<1>12. CASE MarkOutgoing
  BY <1>12 DEF MarkOutgoing, GateFrame, PodFrame
<1>13. CASE SwitchoverBegins \/ RedactionBegins \/ CreateExtension \/
           (\E c \in Columns : MaskColumn(c)) \/ LookupFails \/ MasksDone \/ AlterDatabase \/
           GrantRead \/ Demote \/ RedactionSettles \/ SchemasMigrated \/
           GrantSchemas \/ RunLost
  BY <1>13 DEF SwitchoverBegins, CatalogFrame, PodFrame, RedactionBegins,
     CreateExtension, RunFails, MaskColumn, LookupFails, MasksDone, AlterDatabase, GrantRead,
     ReplicaFrame, Demote, RedactionSettles, SchemasMigrated, GateFrame, GrantSchemas,
     RunLost, Fault
<1>14. QED
  BY <1>1, <1>2, <1>3, <1>4, <1>5, <1>6, <1>7, <1>8, <1>9, <1>10, <1>11, <1>12, <1>13
     DEF Next, InPod, PodNext, SetupAuth, BackgroundReindex, Switchover, Redact

(* No index out of order is forgotten but where it is let go of.           *)
LEMMA FlaggedStep ==
    ASSUME TypeOK, TypeOK', Living, Staged, Flagged, Next
    PROVE  Flagged'
<1>. USE DEF TypeOK, PodTypeOK, Living, Flagged, InPod, volumeVars, catalogVars
<1>1. CASE InPod(PodStarts \/ CheckWal \/ FlagRecreated \/ SingleFails \/
           DetectCollation \/ ResetRoles \/ GrantPrivilege \/ RecordInfo \/
           StopTemporary)
  BY <1>1 DEF PodStarts, Goto, CheckWal, InitFrame, FlagRecreated, Touch, SingleFails,
     Fault, DetectCollation, ResetRoles, role_reset_block, database_lockdown_block,
     GrantPrivilege, RecordInfo, StopTemporary
<1>2. CASE InPod(SingleSucceeds)
  <2>1. \/ stale' = [stale EXCEPT !["locale"] = @ \cup foreign]
        \/ stale' = stale
    BY <1>2 DEF SingleSucceeds
  <2>2. /\ stale'["locale"] \subseteq stale["locale"] \cup foreign
        /\ stale'["torn"] = stale["torn"]
    BY <2>1 DEF Reasons
  <2>3. pc # "main" /\ job' = job /\ flags' = flags /\ slips' = slips
    BY <1>2 DEF SingleSucceeds, InitFrame
  <2>4. foreign # {} => pc' = "rewritten"
    BY <1>2 DEF SingleSucceeds, Goto
  <2>5. /\ "locale" # job.step /\ "all" # job.step
        /\ pc \notin {"rewritten", "rewritten2", "fallen", "fallen2", "resetDone"}
    BY <1>2, <2>3 DEF SingleSucceeds
  <2>6. QED
    BY <2>2, <2>3, <2>4, <2>5
<1>3. CASE InPod(ResetWal)
  BY <1>3 DEF ResetWal, Goto, InitFrame, Reasons
<1>4. CASE InPod(FlagReset)
  BY <1>4 DEF FlagReset, Goto, Touch, InitFrame
<1>5. CASE InPod(FlagRewrite)
  BY <1>5 DEF FlagRewrite, Goto, Touch, InitFrame
<1>6. CASE InPod(FallbackRewrite)
  BY <1>6 DEF FallbackRewrite, Goto, InitFrame, Reasons
<1>7. CASE InPod(MainStarts)
  BY <1>7 DEF MainStarts, Goto, InstallAnon, Fault, NoJob
<1>8. CASE InPod(JobBegins)
  <2>1. job' = Branch(0) /\ Listed = Databases
    BY <1>8 DEF JobBegins, Listed
  <2>2. job'.step \in {"locale", "all", "collation"} => job'.todo = Databases
    BY <2>1, BranchFacts
  <2>3. stale["locale"] \subseteq Databases /\ stale["torn"] \subseteq Databases
    BY DEF Reasons
  <2>4. QED
    BY <1>8, <2>2, <2>3 DEF JobBegins, MainFrame
<1>9. ASSUME NEW db \in Databases, InPod(ReindexDatabase(db))
      PROVE  Flagged'
  <2>1. job.step \in {"locale", "all", "collation"} /\ flags' = flags /\ pc' = pc
    BY <1>9 DEF ReindexDatabase, MainFrame
  <2>2. job'.step = job.step /\ job'.todo = job.todo \ {db}
    BY <1>9 DEF ReindexDatabase
  <2>3. CASE stale' = Rebuilt(db) /\ slips' = slips
    <3>1. /\ stale'["locale"] = IF job.step = "collation" THEN stale["locale"]
                                ELSE stale["locale"] \ {db}
          /\ stale'["torn"] = IF job.step = "all" THEN stale["torn"] \ {db} ELSE stale["torn"]
      BY <2>1, <2>3 DEF Rebuilt, Reasons
    <3>2. QED
      BY <2>1, <2>2, <2>3, <3>1
  <2>4. CASE stale' = stale /\ slips' = slips \cup Owes(job.step)
    BY <2>1, <2>2, <2>4 DEF Owes
  <2>5. QED
    BY <1>9, <2>3, <2>4 DEF ReindexDatabase
<1>10. CASE InPod(RefreshVersion)
  BY <1>10 DEF RefreshVersion, Fault, MainFrame
<1>11. CASE InPod(BranchEnds)
  <2>1. /\ job.step \in {"locale", "all", "collation"} /\ job.todo = {}
        /\ stale' = stale /\ pc' = pc /\ pc = "main"
        /\ slips \subseteq slips'
    BY <1>11 DEF BranchEnds, MainFrame
  <2>2. \/ job'.step \in {"locale", "all", "collation"} => job'.todo = Databases
        \/ slips' = slips \cup Owes(job'.step)
    BY <1>11, BranchFacts DEF BranchEnds, Listed
  <2>3. stale["locale"] \subseteq Databases /\ stale["torn"] \subseteq Databases
    BY DEF Reasons
  <2>4. /\ stale["locale"] # {} => "needs-reindex" \in flags' \/ "locale" \in slips'
        /\ stale["torn"] # {} => "needs-reindex-all" \in flags' \/ "torn" \in slips'
    BY <1>11, <2>1 DEF BranchEnds
  <2>5. QED
    BY <2>1, <2>2, <2>3, <2>4 DEF Owes
<1>12. CASE InPod(JobEnds)
  BY <1>12 DEF JobEnds, SetStage, NoJob, MainFrame
<1>13. CASE InPod(ServerRefuses)
  BY <1>13 DEF ServerRefuses, Fault
<1>14. CASE InPod(ServerRecovers)
  BY <1>14 DEF ServerRecovers
<1>15. CASE InPod(ContainerRestarts)
  BY <1>15 DEF ContainerRestarts, Goto, Fault, NoJob
<1>16. CASE InPod(PodReplaced)
  BY <1>16 DEF PodReplaced, Goto, Fault, NoJob
<1>17. CASE SwitchoverBegins \/ RedactionBegins \/ CreateExtension \/
           (\E c \in Columns : MaskColumn(c)) \/ LookupFails \/ MasksDone \/ AlterDatabase \/
           GrantRead \/ Demote \/ RedactionSettles \/ SchemasMigrated \/
           GrantSchemas \/ MarkOutgoing \/ RunLost
  BY <1>17 DEF SwitchoverBegins, CatalogFrame, PodFrame, RedactionBegins,
     CreateExtension, RunFails, MaskColumn, LookupFails, MasksDone, AlterDatabase, GrantRead,
     ReplicaFrame, Demote, RedactionSettles, SchemasMigrated, GateFrame, GrantSchemas,
     MarkOutgoing, RunLost, Fault
<1>18. QED
  BY <1>1, <1>2, <1>3, <1>4, <1>5, <1>6, <1>7, <1>8, <1>9, <1>10, <1>11, <1>12, <1>13,
     <1>14, <1>15, <1>16, <1>17
     DEF Next, InPod, PodNext, SetupAuth, BackgroundReindex, Switchover, Redact

(* Privileges are taken away only where others are left.                   *)
LEMMA GrantingStep ==
    ASSUME TypeOK, Living, Granting, Next
    PROVE  Granting'
<1>. USE DEF TypeOK, PodTypeOK, Living, Granting, should_enforce_read_only, InPod,
   volumeVars, catalogVars
<1>1. CASE InPod(PodStarts \/ CheckWal \/ FlagRecreated \/ SingleSucceeds \/
           SingleFails \/ ResetWal \/ FlagReset \/ FlagRewrite \/ FallbackRewrite \/
           DetectCollation)
  BY <1>1 DEF PodStarts, Goto, CheckWal, InitFrame, FlagRecreated, Touch,
     SingleSucceeds, Fault, SingleFails, ResetWal, FlagReset, FlagRewrite,
     FallbackRewrite, DetectCollation
<1>2. CASE InPod(RecordInfo \/ StopTemporary \/ MainStarts)
  BY <1>2 DEF RecordInfo, Goto, StopTemporary, InitFrame, MainStarts, InstallAnon,
     Fault, NoJob
<1>3. CASE InPod(JobBegins \/ (\E db \in Databases : ReindexDatabase(db)) \/
           RefreshVersion \/ BranchEnds \/ JobEnds \/ ServerRefuses \/ ServerRecovers)
  <2>1. UNCHANGED <<config, schemas, granted, analytics, dbReadOnly, pc>>
    BY <1>3 DEF JobBegins, MainFrame, ReindexDatabase, RefreshVersion, BranchEnds,
       JobEnds, ServerRefuses, ServerRecovers
  <2>2. UNCHANGED <<gate, sess>> /\ (conn' => conn)
    BY <1>3
  <2>3. QED
    BY <2>1, <2>2
<1>4. CASE InPod(ContainerRestarts \/ PodReplaced)
  BY <1>4 DEF ContainerRestarts, Goto, Fault, NoJob, PodReplaced
<1>5. CASE InPod(ResetRoles)
  BY <1>5 DEF ResetRoles, Goto, role_reset_block, database_lockdown_block
<1>6. CASE InPod(GrantPrivilege)
  BY <1>6 DEF GrantPrivilege, Goto, effective_read_only
<1>7. CASE SwitchoverBegins
  BY <1>7 DEF SwitchoverBegins, CatalogFrame, PodFrame
<1>8. CASE RedactionBegins
  BY <1>8 DEF RedactionBegins, CatalogFrame, PodFrame
<1>9. CASE CreateExtension
  BY <1>9 DEF CreateExtension, RunFails, CatalogFrame, PodFrame
<1>10. ASSUME NEW c \in Columns, MaskColumn(c)
      PROVE  Granting'
  BY <1>10 DEF MaskColumn, CatalogFrame, PodFrame
<1>11. CASE MasksDone
  BY <1>11 DEF MasksDone, CatalogFrame, PodFrame
<1>12. CASE AlterDatabase
  BY <1>12 DEF AlterDatabase, RunFails, CatalogFrame, PodFrame
<1>13. CASE GrantRead
  BY <1>13 DEF GrantRead, RunFails, CatalogFrame, PodFrame, ReplicaFrame
<1>14. CASE Demote
  BY <1>14 DEF Demote, RunFails, CatalogFrame, PodFrame, ReplicaFrame
<1>15. CASE RedactionSettles
  BY <1>15 DEF RedactionSettles, CatalogFrame, PodFrame
<1>16. CASE SchemasMigrated
  BY <1>16 DEF SchemasMigrated, GateFrame, PodFrame
<1>17. CASE GrantSchemas
  BY <1>17 DEF GrantSchemas, GateFrame, PodFrame
<1>18. CASE MarkOutgoing
  BY <1>18 DEF MarkOutgoing, GateFrame, PodFrame
<1>19. CASE RunLost
  BY <1>19 DEF RunLost, Fault, CatalogFrame, PodFrame
<1>20. CASE LookupFails
  BY <1>20 DEF LookupFails, RunFails, CatalogFrame, PodFrame
<1>21. QED
  BY <1>1, <1>2, <1>3, <1>4, <1>5, <1>6, <1>7, <1>8, <1>9, <1>10, <1>11, <1>12, <1>13,
     <1>14, <1>15, <1>16, <1>17, <1>18, <1>19, <1>20
     DEF Next, InPod, PodNext, SetupAuth, BackgroundReindex, Switchover, Redact

(* A run that locks the database has lost no connection among the masks.   *)
LEMMA MaskingStep ==
    ASSUME TypeOK, Living, Masking, RedactedAsRecorded, Next
    PROVE  Masking' /\ RedactedAsRecorded'
<1>. USE DEF TypeOK, PodTypeOK, Masking, RedactedAsRecorded, Refused,
   should_enforce_read_only, InPod, volumeVars, catalogVars
<1>1. CASE InPod(PodStarts \/ CheckWal \/ FlagRecreated \/ SingleSucceeds \/
           SingleFails \/ ResetWal \/ FlagReset \/ FlagRewrite \/ FallbackRewrite \/
           DetectCollation \/ ResetRoles \/ GrantPrivilege \/ RecordInfo \/
           StopTemporary)
  BY <1>1 DEF PodStarts, Goto, CheckWal, InitFrame, FlagRecreated, Touch,
     SingleSucceeds, Fault, SingleFails, ResetWal, FlagReset, FlagRewrite,
     FallbackRewrite, DetectCollation, ResetRoles, role_reset_block,
     database_lockdown_block, GrantPrivilege, RecordInfo, StopTemporary
<1>2. CASE InPod(MainStarts \/ JobBegins \/
           (\E db \in Databases : ReindexDatabase(db)) \/ RefreshVersion \/
           BranchEnds \/ JobEnds)
  BY <1>2 DEF MainStarts, Goto, InstallAnon, Fault, NoJob, JobBegins, SetStage,
     MainFrame, ReindexDatabase, RefreshVersion, BranchEnds, JobEnds
<1>3. CASE InPod(ServerRefuses \/ ServerRecovers \/ ContainerRestarts \/ PodReplaced)
  BY <1>3 DEF ServerRefuses, Fault, ServerRecovers, ContainerRestarts, Goto, NoJob,
     PodReplaced
<1>4. CASE SwitchoverBegins
  BY <1>4 DEF SwitchoverBegins, CatalogFrame, PodFrame
<1>5. CASE RedactionBegins
  BY <1>5 DEF RedactionBegins, CatalogFrame, PodFrame
<1>6. CASE CreateExtension
  BY <1>6 DEF CreateExtension, RunFails, CatalogFrame, PodFrame, Untried
<1>7. ASSUME NEW c \in Columns, MaskColumn(c)
      PROVE  Masking' /\ RedactedAsRecorded'
  <2>1. /\ sess = "mask" /\ UNCHANGED <<gate, phase, sess, conn, config>>
        /\ masked \subseteq masked'
        /\ \A d \in Columns \ {c} : outcome'[d] = outcome[d]
        /\ outcome'[c] = "masked" => c \in masked'
        /\ conn => outcome'[c] \in {"masked", "refused"}
    BY <1>7 DEF MaskColumn, CatalogFrame
  <2>2. QED
    BY <2>1
<1>8. CASE MasksDone
  BY <1>8 DEF MasksDone, Tried, CatalogFrame, PodFrame
<1>9. CASE AlterDatabase
  BY <1>9 DEF AlterDatabase, RunFails, CatalogFrame, PodFrame, Untried
<1>10. CASE GrantRead
  BY <1>10 DEF GrantRead, RunFails, CatalogFrame, PodFrame, ReplicaFrame, Untried
<1>11. CASE Demote
  BY <1>11 DEF Demote, RunFails, CatalogFrame, PodFrame, ReplicaFrame, Untried
<1>12. CASE RedactionSettles
  BY <1>12 DEF RedactionSettles, is_partial, CatalogFrame, PodFrame
<1>13. CASE RunLost
  BY <1>13 DEF RunLost, Fault, CatalogFrame, PodFrame, Untried
<1>14. CASE SchemasMigrated \/ GrantSchemas \/ MarkOutgoing
  BY <1>14 DEF SchemasMigrated, GateFrame, PodFrame, GrantSchemas, MarkOutgoing
<1>15. CASE LookupFails
  BY <1>15 DEF LookupFails, RunFails, CatalogFrame, PodFrame, Untried
<1>16. QED
  BY <1>1, <1>2, <1>3, <1>4, <1>5, <1>6, <1>7, <1>8, <1>9, <1>10, <1>11, <1>12, <1>13,
     <1>14, <1>15
     DEF Next, InPod, PodNext, SetupAuth, BackgroundReindex, Switchover, Redact

-----------------------------------------------------------------------------

LEMMA InitInv == Init => Inv
<1>. SUFFICES ASSUME Init PROVE Inv
  OBVIOUS
<1>. USE PodAssumption, SessionAssumption DEF Init, PodInit
<1>1. TypeOK
  <2>1. pgWal \in BOOLEAN /\ wal \in {"usable", "torn"} /\ anon \in BOOLEAN
    OBVIOUS
  <2>2. job \in JobType
    BY DEF NoJob, JobType, JobSteps
  <2>3. stale \in [Reasons -> SUBSET Databases]
    BY DEF Reasons
  <2>4. info \in [stage : Stages, fixes : SUBSET {"locale", "reindex", "reset_wal", "recreated_pg_wal"}]
    BY DEF Stages
  <2>5. faults \in 0..MaxFaults
    OBVIOUS
  <2>6. PodTypeOK
    BY <2>1, <2>2, <2>3, <2>4, <2>5 DEF PodTypeOK, JobType
  <2>7. QED
    BY <2>6 DEF TypeOK, Gates, SessionSteps, Phases, Untried, Outcomes
<1>2. Living /\ Clean /\ Staged
  BY DEF Living, Clean, Staged, NoJob
<1>3. VersionHonest /\ stale["locale"] = {} /\ stale["torn"] = {}
  BY DEF VersionHonest, Reasons
<1>4. Flagged
  BY <1>3 DEF Flagged, NoJob
<1>5. Granting /\ Masking /\ RedactedAsRecorded
  BY DEF Granting, Masking, RedactedAsRecorded, Untried
<1>6. QED
  BY <1>1, <1>2, <1>3, <1>4, <1>5 DEF Inv

(* The invariant of the pod and the sessions on its database.              *)
THEOREM Invariance == Spec => []Inv
<1>1. Inv /\ [Next]_vars => Inv'
  <2>. SUFFICES ASSUME Inv, [Next]_vars PROVE Inv'
    OBVIOUS
  <2>1. CASE Next
    <3>1. TypeOK' /\ Living'
      BY <2>1, TypeStep, LivingStep DEF Inv
    <3>2. QED
      BY <2>1, <3>1, CleanStep, StagedStep, FlaggedStep, GrantingStep, MaskingStep DEF Inv
  <2>2. CASE UNCHANGED vars
    <3>. USE <2>2 DEF Inv, vars, podVars, volumeVars, catalogVars, sessionVars
    <3>1. TypeOK'
      BY DEF TypeOK, PodTypeOK
    <3>2. Living' /\ Clean' /\ VersionHonest' /\ Staged' /\ Flagged'
      BY DEF Living, Clean, VersionHonest, Staged, Flagged
    <3>3. Granting' /\ Masking' /\ RedactedAsRecorded'
      BY DEF Granting, Masking, RedactedAsRecorded, Refused,
         should_enforce_read_only
    <3>4. QED
      BY <3>1, <3>2, <3>3
  <2>3. QED
    BY <2>1, <2>2
<1>2. QED
  BY InitInv, <1>1, PTL DEF Spec

(* The volume, the pod and the sessions hold values of their kind.         *)
THEOREM TypeCorrect == Spec => []TypeOK
<1>1. Inv => TypeOK
  BY DEF Inv
<1>2. QED
  BY Invariance, <1>1, PTL

(* A collation's version is never stamped over an index it does not order  *)
(* (REFRESH VERSION in the reindex script).                                *)
THEOREM VersionsAreHonest == Spec => []VersionHonest
<1>1. Inv => VersionHonest
  BY DEF Inv
<1>2. QED
  BY Invariance, <1>1, PTL

(* A database that calls itself ready has no reindex pending, wherever its *)
(* containers were killed (PGRO_STAGE and the reindex script).             *)
THEOREM StagesAreHonest == Spec => []StageHonest
<1>1. Inv => StageHonest
  BY DEF Inv, Staged, StageHonest
<1>2. QED
  BY Invariance, <1>1, PTL

(* A Ready database has its indexes in the order of its locale, and torn   *)
(* ones flagged, whatever was killed or failed, unless it was a kill just  *)
(* before the flag or the rebuild itself (the readiness probe).            *)
THEOREM ReadyMeansReindexed == Spec => []ReadyIsReindexed
<1>1. Inv => ReadyIsReindexed
  BY DEF Inv, Flagged, ReadyIsReindexed, Ready
<1>2. QED
  BY Invariance, <1>1, PTL

(* Analytics and the extra user can read what they are to read, wherever a *)
(* redaction run or setup-auth stopped (enforce_read_only,                 *)
(* role_reset_block, reconcile_extra_user_grants).                         *)
THEOREM AccessStays == Spec => []AccessKept
<1>1. Inv => AccessKept
  BY DEF Inv, Granting, AccessKept
<1>2. QED
  BY Invariance, <1>1, PTL

(* A redaction recorded as complete has masked every column, and one that  *)
(* locked the database left only columns whose statement was refused       *)
(* (reconcile_redaction, apply).                                           *)
THEOREM RedactionAsRecorded == Spec => []RedactedAsRecorded
<1>1. Inv => RedactedAsRecorded
  BY DEF Inv
<1>2. QED
  BY Invariance, <1>1, PTL

=============================================================================
