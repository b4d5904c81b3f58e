---------------------------- MODULE PostgresPod ----------------------------
(***************************************************************************)
(* The Deployment of one restore, as restore/builders.rs writes it: the    *)
(* setup-auth init container that makes a restored data directory usable,  *)
(* the postgres container with its background reindex, its readiness       *)
(* probe, and the data volume that outlives them.  The scripts stop at any *)
(* command when the pod is replaced or the container restarted, and start  *)
(* again on what the volume holds.                                         *)
(***************************************************************************)
EXTENDS Naturals, FiniteSets

CONSTANTS
    Databases,  \* the connectable databases of the cluster but template0
    Schemas,    \* the schemas an extra user may read
    Configs,    \* the replica specs to try, sets of Options
    MaxFaults   \* bound: kills, refusals and failed commands

(* What the spec of the replica asks for; the server is PG >= 15.          *)
Options == {"readOnly", "redaction", "persistentSchemas", "migrateTo"}

ASSUME PodAssumption ==
    IsFiniteSet(Databases) /\ Configs \subseteq SUBSET Options /\ MaxFaults \in Nat

VARIABLES
    config,     \* the spec of the replica
    \* the volume
    pgWal,      \* the pg_wal directory is there
    wal,        \* "usable", or "torn": recovery cannot get past it
    flags,      \* the flag files beside the data directory
    foreign,    \* databases whose locale is not one this OS has
    oldVersion, \* databases with a collation recorded against another OS version
    stale,      \* why -> the databases with indexes that are wrong for it
    schemas,    \* of Schemas, those that exist
    granted,    \* of Schemas, those the extra user may read
    analytics,  \* the privileges of the analytics role
    anon,       \* postgresql_anonymizer is cached on the volume
    info,       \* the row of _pgro.restore_info
    dbReadOnly, \* ALTER DATABASE ... SET default_transaction_read_only
    \* the pod
    pc,         \* the command the pod is at
    server,     \* "off", "up", or "refusing": stopping, or in crash recovery
    job,        \* the background reindex of the postgres container
    faults,
    slips       \* ghost: why indexes in the wrong order were let go of

volumeVars == <<pgWal, wal, flags, foreign, oldVersion, stale>>
catalogVars == <<config, schemas, granted, analytics, anon, info, dbReadOnly>>
podVars == <<volumeVars, catalogVars, pc, server, job, faults, slips>>

Flags == {"needs-reindex", "needs-reindex-all", "needs-collation-refresh",
          "fix-locale", "fix-reset-wal", "fix-recreated-pg-wal"}
Needs == {"needs-reindex", "needs-reindex-all", "needs-collation-refresh"}
Reasons == {"locale", "torn", "collation"}
Stages == {"none", "restored", "reindexing", "ready", "outgoing"}

InitSteps == {"pg_wal", "recreated", "single", "retry", "reset", "resetDone", "again",
              "rewritten", "rewritten2", "fallback", "fallen", "fallen2",
              "collation", "roles", "privilege", "info", "stop"}
NoJob == [step |-> "none", todo |-> {}, clean |-> {}]
JobSteps == {"none", "wait", "locale", "all", "collation", "ready"}

PodTypeOK ==
    /\ config \in Configs
    /\ pgWal \in BOOLEAN /\ wal \in {"usable", "torn"}
    /\ flags \subseteq Flags
    /\ foreign \subseteq Databases /\ oldVersion \subseteq Databases
    /\ stale \in [Reasons -> SUBSET Databases]
    /\ schemas \subseteq Schemas /\ granted \subseteq Schemas
    /\ analytics \subseteq {"super", "pg_read_all_data"}
    /\ anon \in BOOLEAN /\ dbReadOnly \in BOOLEAN
    /\ info \in [stage : Stages, fixes : SUBSET {"locale", "reindex", "reset_wal", "recreated_pg_wal"}]
    /\ pc \in {"down", "exec", "main"} \cup InitSteps
    /\ server \in {"off", "up", "refusing"}
    /\ job \in [step : JobSteps, todo : SUBSET Databases, clean : SUBSET Databases]
    /\ faults \in 0..MaxFaults /\ slips \subseteq Reasons

(* A snapshot just restored: taken on any OS, with or without its WAL.  An *)
(* index ordered by a collation of another OS version is already wrong.    *)
PodInit ==
    /\ config \in Configs
    /\ pgWal \in BOOLEAN
    /\ wal \in IF pgWal THEN {"usable", "torn"} ELSE {"torn"}
    /\ flags = {}
    /\ foreign \in SUBSET Databases
    /\ oldVersion \in SUBSET Databases
    /\ stale = [why \in Reasons |-> IF why = "collation" THEN oldVersion ELSE {}]
    /\ schemas \in SUBSET Schemas /\ granted = {}
    /\ analytics = {} /\ anon = FALSE /\ dbReadOnly = FALSE
    /\ info = [stage |-> "none", fixes |-> {}]
    /\ pc = "down" /\ server = "off" /\ job = NoJob
    /\ faults = 0 /\ slips = {}

Fault == faults < MaxFaults /\ faults' = faults + 1
Touch(file) == flags' = flags \cup {file}
Goto(step) == pc' = step

-----------------------------------------------------------------------------
(* setup-auth                                                              *)

InitFrame == UNCHANGED <<catalogVars, server, job, slips>>

(* The configuration files are written afresh; pg_wal is made when missing.*)
CheckWal ==
    /\ pc = "pg_wal"
    /\ pgWal' = TRUE
    /\ Goto(IF pgWal THEN "single" ELSE "recreated")
    /\ InitFrame /\ UNCHANGED <<wal, flags, foreign, oldVersion, stale, faults>>

FlagRecreated ==
    /\ pc = "recreated"
    /\ Touch("fix-recreated-pg-wal")
    /\ Goto("single")
    /\ InitFrame /\ UNCHANGED <<pgWal, wal, foreign, oldVersion, stale, faults>>

(* One postgres --single session: the probe counts, then the rewrite puts  *)
(* the databases on a locale of this OS, which leaves their indexes in the *)
(* order of the one before.  A failed UPDATE does not end the session.     *)
SingleSucceeds ==
    /\ pc \in {"single", "retry", "again"}
    /\ wal = "usable"
    /\ \/ /\ foreign' = {}
          /\ stale' = [stale EXCEPT !["locale"] = @ \cup foreign]
          /\ UNCHANGED faults
       \/ /\ foreign # {} /\ Fault
          /\ UNCHANGED <<foreign, stale>>
    /\ Goto(IF foreign # {} THEN "rewritten" ELSE "fallback")
    /\ InitFrame /\ UNCHANGED <<pgWal, wal, flags, oldVersion>>

(* Mutant: the write-ahead log is never reset.                             *)
SingleFails_NoReset ==
    /\ pc \in {"single", "retry", "again"}
    /\ \/ wal = "torn" /\ UNCHANGED faults
       \/ wal = "usable" /\ Fault
    /\ Goto("down")
    /\ InitFrame /\ UNCHANGED <<volumeVars>>

(* The session exits non-zero.  A log that looks like a failed recovery    *)
(* goes straight to pg_resetwal, any other gets one more attempt; after    *)
(* the reset the script gives up.                                          *)
SingleFails ==
    /\ pc \in {"single", "retry", "again"}
    /\ \/ wal = "torn" /\ UNCHANGED faults
       \/ wal = "usable" /\ Fault
    /\ \/ pc = "single" /\ Goto("reset")
       \/ pc = "single" /\ Goto("retry")
       \/ pc = "retry" /\ Goto("reset")
       \/ pc = "again" /\ Goto("down")
    /\ InitFrame /\ UNCHANGED <<volumeVars>>

(* Skipping recovery may leave torn pages in any index.                    *)
ResetWal ==
    /\ pc = "reset"
    /\ wal' = "usable"
    /\ stale' = [stale EXCEPT !["torn"] = Databases]
    /\ Goto("resetDone")
    /\ InitFrame /\ UNCHANGED <<pgWal, flags, foreign, oldVersion, faults>>

FlagReset ==
    /\ pc = "resetDone"
    /\ \/ "needs-reindex-all" \notin flags /\ Touch("needs-reindex-all") /\ UNCHANGED pc
       \/ "needs-reindex-all" \in flags /\ Touch("fix-reset-wal") /\ Goto("again")
    /\ InitFrame /\ UNCHANGED <<pgWal, wal, foreign, oldVersion, stale, faults>>

(* The rewrite is flagged only by the commands that follow it.             *)
FlagRewrite ==
    /\ \/ pc = "rewritten" /\ Touch("fix-locale") /\ Goto("rewritten2")
       \/ pc = "rewritten2" /\ Touch("needs-reindex") /\ Goto("fallback")
       \/ pc = "fallen" /\ Touch("fix-locale") /\ Goto("fallen2")
       \/ pc = "fallen2" /\ Touch("needs-reindex") /\ Goto("collation")
    /\ InitFrame /\ UNCHANGED <<pgWal, wal, foreign, oldVersion, stale, faults>>

(* A temporary server without a listener; restored passwords are cleared,  *)
(* and the rewrite is done again for what the first one missed.            *)
FallbackRewrite ==
    /\ pc = "fallback"
    /\ foreign' = {}
    /\ stale' = [stale EXCEPT !["locale"] = @ \cup foreign]
    /\ Goto(IF foreign # {} THEN "fallen" ELSE "collation")
    /\ InitFrame /\ UNCHANGED <<pgWal, wal, flags, oldVersion, faults>>

(* A probe that fails finds nothing.                                       *)
DetectCollation ==
    /\ pc = "collation"
    /\ \/ oldVersion # {} /\ Touch("needs-collation-refresh") /\ UNCHANGED faults
       \/ oldVersion = {} /\ UNCHANGED <<flags, faults>>
       \/ oldVersion # {} /\ Fault /\ UNCHANGED flags
    /\ Goto("roles")
    /\ InitFrame /\ UNCHANGED <<pgWal, wal, foreign, oldVersion, stale>>

(* A managed role goes back to a baseline without any privilege.           *)
role_reset_block == {}

(* DROP OWNED takes the grants of the extra user, and of the schemas it is *)
(* to read, it is granted those that exist; in a database that redaction   *)
(* locked each of these statements is refused.                             *)
database_lockdown_block == IF dbReadOnly THEN granted ELSE schemas

ResetRoles ==
    /\ pc = "roles"
    /\ analytics' = role_reset_block
    /\ granted' = database_lockdown_block
    /\ Goto("privilege")
    /\ UNCHANGED <<volumeVars, config, schemas, anon, info, dbReadOnly>>
    /\ UNCHANGED <<server, job, faults, slips>>

(* Whatever writes to the restore after it is up needs it writable.        *)
effective_read_only ==
    "readOnly" \in config /\ config \cap {"persistentSchemas", "redaction", "migrateTo"} = {}

GrantPrivilege ==
    /\ pc = "privilege"
    /\ analytics' = IF effective_read_only THEN {"pg_read_all_data"} ELSE {"super"}
    /\ Goto("info")
    /\ UNCHANGED <<volumeVars, config, schemas, granted, anon, info, dbReadOnly>>
    /\ UNCHANGED <<server, job, faults, slips>>

Reindexes == {"needs-reindex", "needs-reindex-all"}
Fixes ==
    (IF "fix-locale" \in flags THEN {"locale"} ELSE {})
    \cup (IF flags \cap Reindexes # {} THEN {"reindex"} ELSE {})
    \cup (IF "fix-reset-wal" \in flags THEN {"reset_wal"} ELSE {})
    \cup (IF "fix-recreated-pg-wal" \in flags THEN {"recreated_pg_wal"} ELSE {})

(* Mutant: only the flag the readiness probe looks at holds the stage.     *)
RecordInfo_ProbeFlagOnly ==
    /\ pc = "info"
    /\ info' = [stage |-> IF "needs-reindex" \in flags THEN "restored" ELSE "ready",
                fixes |-> Fixes]
    /\ Goto("stop")
    /\ UNCHANGED <<volumeVars, config, schemas, granted, analytics, anon, dbReadOnly>>
    /\ UNCHANGED <<server, job, faults, slips>>

RecordInfo ==
    /\ pc = "info"
    /\ info' = [stage |-> IF flags \cap Reindexes # {} THEN "restored" ELSE "ready",
                fixes |-> Fixes]
    /\ Goto("stop")
    /\ UNCHANGED <<volumeVars, config, schemas, granted, analytics, anon, dbReadOnly>>
    /\ UNCHANGED <<server, job, faults, slips>>

StopTemporary ==
    /\ pc = "stop"
    /\ Goto("exec")
    /\ InitFrame /\ UNCHANGED <<volumeVars, faults>>

SetupAuth ==
    \/ CheckWal \/ FlagRecreated
    \/ SingleSucceeds \/ SingleFails \/ ResetWal \/ FlagReset \/ FlagRewrite
    \/ FallbackRewrite \/ DetectCollation
    \/ ResetRoles \/ GrantPrivilege \/ RecordInfo \/ StopTemporary

-----------------------------------------------------------------------------
(* The postgres container                                                  *)

MainFrame ==
    UNCHANGED <<config, pgWal, wal, foreign, schemas, granted, analytics, anon, dbReadOnly,
                pc, server>>

(* The prelude installs the anonymizer and caches it, or copies the cache; *)
(* the server starts whether or not that worked.                           *)
InstallAnon ==
    \/ anon' = (anon \/ "redaction" \in config) /\ UNCHANGED faults
    \/ "redaction" \in config /\ ~anon /\ Fault /\ UNCHANGED anon

MainStarts ==
    /\ pc = "exec"
    /\ InstallAnon
    /\ Goto("main")
    /\ server' = "up"
    /\ job' = IF flags \cap Needs = {} THEN NoJob ELSE [NoJob EXCEPT !.step = "wait"]
    /\ UNCHANGED <<volumeVars, config, schemas, granted, analytics, info, dbReadOnly, slips>>

(* What psql does to the row when the server lets it.                      *)
SetStage(stage) ==
    info' = IF server = "up" THEN [info EXCEPT !.stage = stage] ELSE info

(* The databases a branch goes over: none when psql cannot ask.            *)
Listed == IF server = "up" THEN Databases ELSE {}

(* The branch of the script that comes next, or its end.                   *)
Branch(step) ==
    LET order == <<"locale", "all", "collation">>
        flag == [locale |-> "needs-reindex", all |-> "needs-reindex-all",
                 collation |-> "needs-collation-refresh"]
        left == {n \in 1..3 : n > step /\ flag[order[n]] \in flags'}
    IN  IF left = {} THEN [NoJob EXCEPT !.step = "ready"]
        ELSE [step |-> order[CHOOSE n \in left : \A m \in left : n <= m],
              todo |-> Listed, clean |-> {}]

JobBegins ==
    /\ job.step = "wait" /\ server = "up"
    /\ SetStage("reindexing")
    /\ UNCHANGED flags
    /\ job' = Branch(0)
    /\ MainFrame /\ UNCHANGED <<oldVersion, stale, faults, slips>>

(* What a branch is there to rebuild, and its flag to guard.               *)
Owes(step) == IF step = "locale" THEN {"locale"} ELSE IF step = "all" THEN {"torn"} ELSE {}

(* REINDEX of one database, for the reason of the branch.  The first two   *)
(* branches carry on after a failure; the third goes on to the version of  *)
(* the database's collations only after a clean sweep.                     *)
Rebuilt(db) ==
    CASE job.step = "locale" -> [stale EXCEPT !["locale"] = @ \ {db}]
      [] job.step = "all" -> [why \in Reasons |-> stale[why] \ {db}]
      [] job.step = "collation" -> [stale EXCEPT !["collation"] = @ \ {db}]

(* Mutant: a failed rebuild counts as a clean sweep.                       *)
ReindexDatabase_FailureIsClean(db) ==
    /\ db \in job.todo /\ job.clean = {}
    /\ \/ server = "up" /\ stale' = Rebuilt(db) /\ UNCHANGED faults
       \/ server = "up" /\ Fault /\ UNCHANGED stale
       \/ server = "refusing" /\ UNCHANGED <<stale, faults>>
    /\ job' = [job EXCEPT !.todo = @ \ {db},
                         !.clean = IF job.step = "collation" THEN {db} ELSE {}]
    /\ MainFrame /\ UNCHANGED <<flags, oldVersion, info, slips>>

ReindexDatabase(db) ==
    /\ db \in job.todo /\ job.clean = {}
    /\ \/ /\ server = "up" /\ UNCHANGED <<faults, slips>>
          /\ stale' = Rebuilt(db)
          /\ job' = [job EXCEPT !.todo = @ \ {db},
                               !.clean = IF job.step = "collation" THEN {db} ELSE {}]
       \/ /\ \/ server = "refusing" /\ UNCHANGED faults
             \/ server = "up" /\ Fault
          /\ slips' = slips \cup Owes(job.step) /\ UNCHANGED stale
          /\ job' = [job EXCEPT !.todo = @ \ {db}]
    /\ MainFrame /\ UNCHANGED <<flags, oldVersion, info>>

(* A read-only session is refused the statement, as nobody asked for       *)
(* another.                                                                *)
RefreshVersion ==
    /\ job.clean # {}
    /\ LET allowed == server = "up" /\ ~effective_read_only /\ ~dbReadOnly IN
       \/ allowed /\ oldVersion' = oldVersion \ job.clean /\ UNCHANGED faults
       \/ ~allowed /\ UNCHANGED <<oldVersion, faults>>
       \/ allowed /\ Fault /\ UNCHANGED oldVersion
    /\ job' = [job EXCEPT !.clean = {}]
    /\ MainFrame /\ UNCHANGED <<flags, stale, info, slips>>

(* The loop is over, whatever came of it, and the flag goes.  The next one *)
(* has nothing to go over when the databases cannot be listed.             *)
BranchEnds ==
    /\ job.step \in {"locale", "all", "collation"} /\ job.todo = {} /\ job.clean = {}
    /\ \/ job.step = "locale" /\ flags' = flags \ {"needs-reindex"} /\ job' = Branch(1)
       \/ job.step = "all" /\ flags' = flags \ {"needs-reindex-all"} /\ job' = Branch(2)
       \/ job.step = "collation" /\ flags' = flags \ {"needs-collation-refresh"} /\ job' = Branch(3)
    /\ slips' = IF server = "up" THEN slips ELSE slips \cup Owes(job'.step)
    /\ MainFrame /\ UNCHANGED <<oldVersion, stale, info, faults>>

JobEnds ==
    /\ job.step = "ready"
    /\ SetStage("ready")
    /\ job' = NoJob
    /\ MainFrame /\ UNCHANGED <<flags, oldVersion, stale, faults, slips>>

BackgroundReindex ==
    \/ JobBegins \/ (\E db \in Databases : ReindexDatabase(db)) \/ RefreshVersion
    \/ BranchEnds \/ JobEnds

(* Mutant: pg_isready alone.                                               *)
Ready_Listening == pc = "main" /\ server = "up"

(* The readiness probe of the postgres container.                          *)
Ready == pc = "main" /\ server = "up" /\ "needs-reindex" \notin flags

-----------------------------------------------------------------------------
(* What happens to a pod                                                   *)

PodStarts ==
    /\ pc = "down"
    /\ Goto("pg_wal")
    /\ UNCHANGED <<volumeVars, catalogVars, server, job, faults, slips>>

(* A backend dies and the server recovers, or it is told to stop: until it *)
(* is back, or gone, the script's psql calls fail.                         *)
ServerRefuses ==
    /\ server = "up" /\ Fault
    /\ server' = "refusing"
    /\ UNCHANGED <<volumeVars, catalogVars, pc, job, slips>>

ServerRecovers ==
    /\ server = "refusing"
    /\ server' = "up"
    /\ UNCHANGED <<volumeVars, catalogVars, pc, job, faults, slips>>

(* The liveness probe has the container restarted, without setup-auth.     *)
ContainerRestarts ==
    /\ pc = "main" /\ Fault
    /\ Goto("exec") /\ server' = "off" /\ job' = NoJob
    /\ UNCHANGED <<volumeVars, catalogVars, slips>>

(* An eviction, a node loss, a changed Deployment (strategy Recreate), or  *)
(* an init container that is killed: what it has not flagged by then, no   *)
(* later run of it finds to be wrong.                                      *)
PodReplaced ==
    /\ pc # "down" /\ Fault
    /\ Goto("down") /\ server' = "off" /\ job' = NoJob
    /\ slips' = slips
         \cup (IF pc \in {"rewritten", "rewritten2", "fallen", "fallen2"} THEN {"locale"} ELSE {})
         \cup (IF pc = "resetDone" THEN {"torn"} ELSE {})
    /\ UNCHANGED <<volumeVars, catalogVars>>

PodNext ==
    \/ PodStarts \/ SetupAuth \/ MainStarts \/ BackgroundReindex
    \/ ServerRefuses \/ ServerRecovers \/ ContainerRestarts \/ PodReplaced

=============================================================================
