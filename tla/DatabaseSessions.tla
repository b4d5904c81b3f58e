--------------------------- MODULE DatabaseSessions ---------------------------
(***************************************************************************)
(* The sessions the operator opens on the database of a restore that is    *)
(* about to go live: redaction, the schemas carried over, the grants of    *)
(* the extra user, and the mark it leaves when the restore is replaced.    *)
(* The pod under them comes and goes, see module PostgresPod.              *)
(***************************************************************************)
EXTENDS PostgresPod

CONSTANT Columns    \* the columns and tables the manifest masks

ASSUME SessionAssumption == IsFiniteSet(Columns)

VARIABLES
    gate,       \* what the switchover is at
    phase,      \* status.redactionPhase
    sess,       \* the redaction run: its next statement
    outcome,    \* column -> how the run fared with it
    conn,       \* the connection of the run is alive
    masked      \* columns whose data is masked

sessionVars == <<gate, phase, sess, outcome, conn, masked>>
vars == <<podVars, sessionVars>>

Gates == {"waiting", "redact", "migrate", "grant", "served", "replaced"}
Phases == {"none", "active", "failed", "partial", "complete"}
SessionSteps == {"none", "extension", "mask", "alter", "grant", "demote", "settle"}

(* "refused": the statement met an error on a live connection, or the      *)
(* column is absent or no mask fits it; "lost": the connection was gone.   *)
Outcomes == {"todo", "masked", "refused", "lost"}
Untried == [c \in Columns |-> "todo"]

(* The pod, the volume and the sessions hold values of their kind.         *)
TypeOK ==
    /\ PodTypeOK
    /\ gate \in Gates
    /\ phase \in Phases
    /\ sess \in SessionSteps /\ outcome \in [Columns -> Outcomes] /\ conn \in BOOLEAN
    /\ masked \subseteq Columns

Init ==
    /\ PodInit
    /\ gate = "waiting"
    /\ phase = "none" /\ sess = "none" /\ outcome = Untried /\ conn = FALSE
    /\ masked = {}

(* The server takes its connections along.                                 *)
InPod(Action) ==
    /\ Action
    /\ conn' = (conn /\ server' = "up")
    /\ UNCHANGED <<gate, phase, sess, outcome, masked>>

-----------------------------------------------------------------------------
(* reconcile_redaction_step                                                *)

PodFrame == UNCHANGED <<volumeVars, pc, server, job, slips>>
CatalogFrame == PodFrame /\ UNCHANGED catalogVars
ReplicaFrame == UNCHANGED <<config, schemas, granted, anon, info, dbReadOnly>>

(* The Deployment is seen available, and the restore goes to Switching.    *)
SwitchoverBegins ==
    /\ gate = "waiting" /\ Ready
    /\ gate' = IF "redaction" \in config THEN "redact" ELSE "migrate"
    /\ CatalogFrame /\ UNCHANGED <<phase, sess, outcome, conn, masked, faults>>

(* Mutant: a redaction that failed is left at that.                        *)
RedactionBegins_Once ==
    /\ gate = "redact" /\ sess = "none" /\ phase # "failed"
    /\ \/ /\ server = "up"
          /\ conn' = TRUE /\ sess' = "extension" /\ phase' = "active"
          /\ UNCHANGED faults
       \/ /\ server # "up" \/ faults < MaxFaults
          /\ faults' = IF server = "up" THEN faults + 1 ELSE faults
          /\ phase' = "failed" /\ UNCHANGED <<conn, sess>>
    /\ CatalogFrame /\ UNCHANGED <<gate, outcome, masked>>

(* The phase is recorded, then the run connects and fetches the manifest.  *)
RedactionBegins ==
    /\ gate = "redact" /\ sess = "none"
    /\ \/ /\ server = "up"
          /\ conn' = TRUE /\ sess' = "extension" /\ phase' = "active"
          /\ UNCHANGED faults
       \/ /\ server # "up" \/ faults < MaxFaults
          /\ faults' = IF server = "up" THEN faults + 1 ELSE faults
          /\ phase' = "failed" /\ UNCHANGED <<conn, sess>>
    /\ CatalogFrame /\ UNCHANGED <<gate, outcome, masked>>

(* An error of the run is recorded, and the next pass starts over.         *)
RunFails ==
    /\ phase' = "failed" /\ sess' = "none" /\ outcome' = Untried /\ conn' = FALSE
    /\ CatalogFrame /\ UNCHANGED <<gate, masked, faults>>

Writable == "super" \in analytics /\ ~dbReadOnly

CreateExtension ==
    /\ sess = "extension"
    /\ IF conn /\ Writable /\ anon
       THEN /\ sess' = "mask"
            /\ CatalogFrame /\ UNCHANGED <<gate, phase, outcome, conn, masked, faults>>
       ELSE RunFails

(* UPDATE of the columns of a table, one by one when the batch fails, or   *)
(* TRUNCATE.  Any error of a statement is counted and tolerated.           *)
MaskColumn(c) ==
    /\ sess = "mask" /\ outcome[c] = "todo"
    /\ \/ /\ conn
          /\ outcome' = [outcome EXCEPT ![c] = "masked"] /\ masked' = masked \cup {c}
       \/ /\ conn
          /\ outcome' = [outcome EXCEPT ![c] = "refused"] /\ UNCHANGED masked
       \/ /\ ~conn
          /\ outcome' = [outcome EXCEPT ![c] = "lost"] /\ UNCHANGED masked
    /\ CatalogFrame /\ UNCHANGED <<gate, phase, sess, conn, faults>>

(* lookup_column_infos, after the tables and before the columns: its error *)
(* is the run's.                                                           *)
LookupFails ==
    /\ sess = "mask" /\ ~conn
    /\ \E c \in Columns : outcome[c] = "todo"
    /\ RunFails

Tried == \A c \in Columns : outcome[c] # "todo"

should_enforce_read_only == "readOnly" \in config /\ "persistentSchemas" \notin config

(* Mutant: nothing is asked of the connection after the last mask.         *)
MasksDone_NoLock ==
    /\ sess = "mask" /\ Tried
    /\ sess' = "settle"
    /\ CatalogFrame /\ UNCHANGED <<gate, phase, outcome, conn, masked, faults>>

MasksDone ==
    /\ sess = "mask" /\ Tried
    /\ sess' = IF should_enforce_read_only THEN "alter" ELSE "settle"
    /\ CatalogFrame /\ UNCHANGED <<gate, phase, outcome, conn, masked, faults>>

(* enforce_read_only: the grant has to land before the demotion, because   *)
(* the session is the role it demotes.                                     *)
AlterDatabase ==
    /\ sess = "alter"
    /\ IF conn
       THEN /\ dbReadOnly' = TRUE /\ sess' = "grant"
            /\ PodFrame /\ UNCHANGED <<config, schemas, granted, analytics, anon, info>>
            /\ UNCHANGED <<gate, phase, outcome, conn, masked, faults>>
       ELSE RunFails

(* Mutant: the role gives up superuser before it is granted anything.      *)
GrantRead_DemotesFirst ==
    /\ sess = "grant"
    /\ IF conn /\ "super" \in analytics
       THEN /\ analytics' = analytics \ {"super"} /\ sess' = "demote"
            /\ PodFrame /\ ReplicaFrame
            /\ UNCHANGED <<gate, phase, outcome, conn, masked, faults>>
       ELSE RunFails

GrantRead ==
    /\ sess = "grant"
    /\ IF conn /\ "super" \in analytics
       THEN /\ analytics' = analytics \cup {"pg_read_all_data"} /\ sess' = "demote"
            /\ PodFrame /\ ReplicaFrame
            /\ UNCHANGED <<gate, phase, outcome, conn, masked, faults>>
       ELSE RunFails

Demote ==
    /\ sess = "demote"
    /\ IF conn
       THEN /\ analytics' = analytics \ {"super"} /\ sess' = "settle"
            /\ PodFrame /\ ReplicaFrame
            /\ UNCHANGED <<gate, phase, outcome, conn, masked, faults>>
       ELSE RunFails

(* Outcome::is_partial.                                                    *)
is_partial == \E c \in Columns : outcome[c] # "masked"

(* patch_settled; complete and partial both let the switchover go on.      *)
RedactionSettles ==
    /\ sess = "settle"
    /\ phase' = IF is_partial THEN "partial" ELSE "complete"
    /\ sess' = "none" /\ conn' = FALSE /\ gate' = "migrate"
    /\ CatalogFrame /\ UNCHANGED <<outcome, masked, faults>>

(* The operator dies, or the call that records the phase fails.            *)
RunLost ==
    /\ sess # "none" /\ Fault
    /\ sess' = "none" /\ outcome' = Untried /\ conn' = FALSE
    /\ CatalogFrame /\ UNCHANGED <<gate, phase, masked>>

Redact ==
    \/ RedactionBegins \/ CreateExtension \/ (\E c \in Columns : MaskColumn(c))
    \/ LookupFails \/ MasksDone \/ AlterDatabase \/ GrantRead \/ Demote \/ RedactionSettles

-----------------------------------------------------------------------------
(* The gates after it                                                      *)

GateFrame == PodFrame /\ UNCHANGED <<phase, sess, outcome, conn, masked, dbReadOnly, faults>>

(* The migration drops the schemas and loads them without privileges.      *)
SchemasMigrated ==
    /\ gate = "migrate"
    /\ IF "persistentSchemas" \in config
       THEN server = "up" /\ schemas' = Schemas /\ granted' = {}
       ELSE UNCHANGED <<schemas, granted>>
    /\ gate' = "grant"
    /\ GateFrame /\ UNCHANGED <<config, analytics, anon, info>>

(* reconcile_extra_user_grants: left to setup-auth when the session is no  *)
(* superuser; without a connection, or when a locked database refuses the  *)
(* grant, the pass ends and comes back.                                    *)
GrantSchemas ==
    /\ gate = "grant" /\ server = "up"
    /\ "super" \in analytics => ~dbReadOnly
    /\ granted' = IF "super" \in analytics THEN schemas ELSE granted
    /\ gate' = "served"
    /\ GateFrame /\ UNCHANGED <<config, schemas, analytics, anon, info>>

(* mark_restore_outgoing, when another restore takes over.                 *)
MarkOutgoing ==
    /\ gate = "served"
    /\ gate' = "replaced"
    /\ info' = IF server = "up" THEN [info EXCEPT !.stage = "outgoing"] ELSE info
    /\ GateFrame /\ UNCHANGED <<config, schemas, granted, analytics, anon>>

Switchover == SwitchoverBegins \/ Redact \/ SchemasMigrated \/ GrantSchemas \/ MarkOutgoing

Next == InPod(PodNext) \/ Switchover \/ RunLost

Spec == Init /\ [][Next]_vars

(* Scripts run on, a stopped pod is started again, a server in recovery    *)
(* comes back, and the replica is reconciled again and again.              *)
Fairness ==
    /\ WF_vars(InPod(PodStarts \/ SetupAuth \/ MainStarts))
    /\ WF_vars(InPod(BackgroundReindex))
    /\ WF_vars(InPod(ServerRecovers))
    /\ WF_vars(SwitchoverBegins) /\ WF_vars(Redact)
    /\ WF_vars(SchemasMigrated) /\ WF_vars(GrantSchemas)

FairSpec == Spec /\ Fairness

-----------------------------------------------------------------------------
(* What holds                                                              *)

(* Postgres goes on warning about a collation as long as an index ordered  *)
(* by it is not rebuilt, whatever fails on the way: its version is stamped *)
(* only after a clean sweep (REFRESH VERSION in the reindex script).       *)
VersionHonest == stale["collation"] \subseteq oldVersion

(* A database that says it is ready has no reindex pending, through kills  *)
(* of either container and reruns of setup-auth (PGRO_STAGE, and the last  *)
(* command of the reindex script).                                         *)
StageHonest ==
    pc = "main" /\ info.stage = "ready" => flags \cap Reindexes = {}

(* A Ready database has every index in the order of its locale, through    *)
(* kills, reruns of setup-auth, log resets and refused rewrites, with two  *)
(* exceptions the scripts have no answer to: a kill between the rewrite    *)
(* and the flag for it, and a rebuild that failed or was refused.  Torn    *)
(* indexes are there on a Ready database, against builders.rs:1739-1741    *)
(* and as builders.rs:2258-2264 has it, but only with the flag that has    *)
(* them rebuilt, but for the same two (readiness probe).                   *)
ReadyIsReindexed ==
    Ready =>
        /\ stale["locale"] # {} => "locale" \in slips
        /\ stale["torn"] # {} => "needs-reindex-all" \in flags \/ "torn" \in slips

(* A database that is up can be read by those it is for, wherever a        *)
(* redaction run stopped and however often setup-auth ran since: analytics *)
(* has a privilege that lets it read (enforce_read_only, role_reset_block) *)
(* and once it is live, the extra user has its schemas, also those brought *)
(* in after setup-auth (reconcile_extra_user_grants).                      *)
AccessKept ==
    pc = "main" =>
        /\ analytics # {}
        /\ gate \in {"served", "replaced"} => schemas \subseteq granted

(* The redaction phase says what was done.  A restore recorded as complete *)
(* has every column masked; one that ended by locking the database, also   *)
(* as partial, has a column in the clear only because its statement was    *)
(* refused: a connection lost on the way, whose errors are tolerated like  *)
(* any other, fails the run (reconcile_redaction, apply).                  *)
RedactedAsRecorded ==
    /\ phase = "complete" => Columns \subseteq masked
    /\ phase \in {"complete", "partial"} /\ should_enforce_read_only =>
         \A c \in Columns : c \in masked \/ outcome[c] = "refused"

(* However often its pod was killed, a database gets ready to serve.       *)
ComesUp == []<>Ready

(* A redaction that fails or is cut short is taken up again until it gets  *)
(* through (redaction.rs:41-45), with two exceptions that hold the         *)
(* switchover for good: a run that had come as far as locking the          *)
(* database, whose retries are refused their first statement, and a pod    *)
(* that started without the anonymizer.                                    *)
RedactionGetsThrough == gate = "redact" ~> gate # "redact" \/ dbReadOnly \/ ~anon

=============================================================================
