------------------------------ MODULE Worklist -------------------------------
(***************************************************************************)
(* The canopy worklist syncer: each tick fetches the worklist, lists the   *)
(* namespaces it manages, provisions a namespace with a Secret and a       *)
(* replica for every entry, several entries at a time, and then deletes    *)
(* the namespaces no entry stands behind.                                  *)
(*                                                                         *)
(* The worklist changes under a tick, calls fail, a namespace takes its    *)
(* time to go, and its name is all that ties an entry to its replica.      *)
(***************************************************************************)
EXTENDS Integers

CONSTANTS
    Ids,            \* declaration, server and name of an entry
    Building,       \* the ones whose intent is reporting-schema
    Supported,      \* the ones whose intent this operator knows
    Versions,       \* target versions
    MaxSnapshots,   \* bound: snapshots taken
    MaxChanges,     \* bound: changes of the worklist, and snapshots taken
    MaxFaults       \* bound: failed calls, restarts, edits by hand

ASSUME WorklistAssumption ==
    /\ Building \subseteq Ids /\ Supported \subseteq Ids
    /\ Versions \subseteq Nat \ {0}
    /\ MaxSnapshots \in Nat /\ MaxChanges \in Nat /\ MaxFaults \in Nat

NoVersion == 0
NoSnapshot == 0

Snapshots == 0..MaxSnapshots
Entries == [id : Ids, version : Versions, snapshot : Snapshots]
Names == Ids \X (Versions \cup {NoVersion})

(* Mutant: one namespace for all the versions of a build.                  *)
namespace_name_for_PerMachine(e) == <<e.id, NoVersion>>

(* The slug and the hash are taken to be free of collisions.               *)
namespace_name_for(e) ==
    <<e.id, IF e.id \in Building THEN e.version ELSE NoVersion>>

NamesOf(list) == {namespace_name_for(e) : e \in list}

VARIABLES
    worklist,   \* what canopy would answer
    newest,     \* the newest snapshot
    space,      \* name -> state of the namespace
    secret,     \* name -> whether it holds the credentials Secret
    cr,         \* name -> the replica in it
    pc,         \* where the tick is
    entries,    \* the worklist it fetched
    listed,     \* the namespaces it listed
    step,       \* entry -> how far reconcile_entry is
    orphans,    \* namespaces still to be torn down
    changes, faults,
    gap,        \* ghost: names that no entry stood behind at some time in this tick
    edited      \* ghost: names whose replica was edited by hand

canopy == <<worklist, newest, changes>>
cluster == <<space, secret, cr>>
tick == <<pc, entries, listed, step, orphans>>
vars == <<canopy, cluster, tick, faults, gap, edited>>

NoReplica == [version |-> NoVersion, desired |-> NoSnapshot]
Replicas == [version : Versions, desired : Snapshots] \cup {NoReplica}
Steps == {"namespace", "secret", "replica", "snapshot", "done"}

TypeOK ==
    /\ worklist \subseteq Entries /\ newest \in Snapshots
    /\ space \in [Names -> {"none", "Present", "Terminating"}]
    /\ secret \in [Names -> BOOLEAN]
    /\ cr \in [Names -> Replicas]
    /\ pc \in {"idle", "list", "provision", "teardown"}
    /\ entries \subseteq Entries /\ listed \subseteq Names /\ orphans \subseteq Names
    /\ step \in [entries -> Steps]
    /\ changes \in 0..MaxChanges /\ faults \in 0..MaxFaults
    /\ gap \subseteq Names /\ edited \subseteq Names

(* Namespaces may be left from an operator that knew another intent.       *)
Init ==
    /\ worklist = {} /\ newest = NoSnapshot
    /\ \E left \in SUBSET ((Ids \ (Supported \cup Building)) \X {NoVersion}) :
         /\ space = [n \in Names |-> IF n \in left THEN "Present" ELSE "none"]
         /\ secret = [n \in Names |-> n \in left]
    /\ cr = [n \in Names |-> NoReplica]
    /\ pc = "idle" /\ entries = {} /\ listed = {} /\ step = <<>> /\ orphans = {}
    /\ changes = 0 /\ faults = 0
    /\ gap = Names /\ edited = {}

TickOver == pc' = "idle" /\ entries' = {} /\ listed' = {} /\ step' = <<>> /\ orphans' = {}

Fault == faults < MaxFaults /\ faults' = faults + 1

-----------------------------------------------------------------------------
(* tick                                                                    *)

Fetch ==
    /\ pc = "idle"
    /\ pc' = "list"
    /\ entries' = worklist
    /\ gap' = Names \ NamesOf(worklist)
    /\ step' = [e \in worklist |-> "done"]
    /\ UNCHANGED <<canopy, cluster, listed, orphans, faults, edited>>

(* Mutant: a worklist that could not be fetched is an empty one.           *)
FetchFails_Empty ==
    /\ pc = "idle" /\ Fault
    /\ pc' = "list"
    /\ entries' = {} /\ step' = <<>>
    /\ gap' = Names \ NamesOf(worklist)
    /\ UNCHANGED <<canopy, cluster, listed, orphans, edited>>

FetchFails ==
    /\ pc = "idle" /\ Fault
    /\ UNCHANGED <<canopy, cluster, tick, gap, edited>>

config_for(e) == e.id \in Supported

(* An entry whose intent is not known is skipped.                          *)
List ==
    /\ pc = "list"
    /\ pc' = "provision"
    /\ listed' = {n \in Names : space[n] # "none"}
    /\ step' = [e \in entries |-> IF config_for(e) THEN "namespace" ELSE "done"]
    /\ UNCHANGED <<canopy, cluster, entries, orphans, faults, gap, edited>>

Provisioned ==
    /\ pc = "provision" /\ \A e \in entries : step[e] = "done"
    /\ pc' = "teardown"
    /\ orphans' = listed \ NamesOf(entries)
    /\ UNCHANGED <<canopy, cluster, entries, listed, step, faults, gap, edited>>

TickFrame == UNCHANGED <<canopy, secret, cr, gap, edited>>

(* teardown; what is gone already is no error.                             *)
Teardown(n) ==
    /\ pc = "teardown"
    /\ orphans' = orphans \ {n}
    /\ space' = IF space[n] = "Present" THEN [space EXCEPT ![n] = "Terminating"] ELSE space
    /\ TickFrame
    /\ UNCHANGED <<pc, entries, listed, step, faults>>

TeardownFails(n) ==
    /\ pc = "teardown"
    /\ Fault
    /\ orphans' = orphans \ {n}
    /\ TickFrame
    /\ UNCHANGED <<pc, entries, listed, step, space>>

TickEnds ==
    /\ pc = "teardown" /\ orphans = {}
    /\ TickOver
    /\ TickFrame
    /\ UNCHANGED <<space, faults>>

(* A restart, or a failure of the list.                                    *)
TickLost ==
    /\ pc # "idle" /\ Fault
    /\ TickOver
    /\ UNCHANGED <<canopy, cluster, gap, edited>>

-----------------------------------------------------------------------------
(* reconcile_entry, for several entries at a time                          *)

Goes(e, s) ==
    /\ step' = [step EXCEPT ![e] = s]
    /\ UNCHANGED <<canopy, pc, entries, listed, orphans, gap, edited>>

(* What is there may be written to; something new needs a namespace that   *)
(* is not on its way out.                                                  *)
Writable(n, there) == there \/ space[n] = "Present"

ensure_namespace(e) ==
    LET n == namespace_name_for(e) IN
    /\ step[e] = "namespace"
    /\ space' = IF space[n] = "none" THEN [space EXCEPT ![n] = "Present"] ELSE space
    /\ Goes(e, "secret")
    /\ UNCHANGED <<secret, cr, faults>>

ensure_canopy_creds_secret(e) ==
    LET n == namespace_name_for(e) IN
    /\ step[e] = "secret"
    /\ Writable(n, secret[n])
    /\ secret' = [secret EXCEPT ![n] = TRUE]
    /\ Goes(e, "replica")
    /\ UNCHANGED <<space, cr, faults>>

(* Of the spec, the version to migrate to; the status is not touched.      *)
to_replica_spec(r, e) == [r EXCEPT !.version = e.version]

(* Mutant: a replica that exists is left as it is.                         *)
ensure_replica_cr_OnlyCreates(e) ==
    LET n == namespace_name_for(e) IN
    /\ step[e] = "replica"
    /\ Writable(n, cr[n] # NoReplica)
    /\ cr' = IF cr[n] = NoReplica THEN [cr EXCEPT ![n] = to_replica_spec(@, e)] ELSE cr
    /\ Goes(e, "snapshot")
    /\ UNCHANGED <<space, secret, faults>>

ensure_replica_cr(e) ==
    LET n == namespace_name_for(e) IN
    /\ step[e] = "replica"
    /\ Writable(n, cr[n] # NoReplica)
    /\ cr' = [cr EXCEPT ![n] = to_replica_spec(@, e)]
    /\ Goes(e, "snapshot")
    /\ UNCHANGED <<space, secret, faults>>

(* Mutant: the offer is looked up by declaration and server only, so that  *)
(* one version's replica may get what another version was offered.         *)
set_desired_snapshot_AnyVersion(e) ==
    LET n == namespace_name_for(e) IN
    /\ step[e] = "snapshot"
    /\ \E f \in entries :
         /\ f.id = e.id
         /\ \/ f.snapshot = NoSnapshot /\ UNCHANGED cr
            \/ /\ f.snapshot # NoSnapshot /\ cr[n] # NoReplica
               /\ cr' = [cr EXCEPT ![n].desired = f.snapshot]
    /\ Goes(e, "done")
    /\ UNCHANGED <<space, secret, faults>>

(* Mutant: the offer is applied whether or not the replica is still there, *)
(* which makes one without a spec.                                         *)
set_desired_snapshot_Upserts(e) ==
    LET n == namespace_name_for(e) IN
    /\ step[e] = "snapshot"
    /\ cr' = IF e.snapshot = NoSnapshot THEN cr ELSE [cr EXCEPT ![n].desired = e.snapshot]
    /\ Goes(e, "done")
    /\ UNCHANGED <<space, secret, faults>>

set_desired_snapshot(e) ==
    LET n == namespace_name_for(e) IN
    /\ step[e] = "snapshot"
    /\ \/ e.snapshot = NoSnapshot /\ UNCHANGED cr
       \/ /\ e.snapshot # NoSnapshot /\ cr[n] # NoReplica
          /\ cr' = [cr EXCEPT ![n].desired = e.snapshot]
    /\ Goes(e, "done")
    /\ UNCHANGED <<space, secret, faults>>

CannotGoOn(e) ==
    LET n == namespace_name_for(e) IN
    \/ step[e] = "secret" /\ ~Writable(n, secret[n])
    \/ step[e] = "replica" /\ ~Writable(n, cr[n] # NoReplica)
    \/ step[e] = "snapshot" /\ e.snapshot # NoSnapshot /\ cr[n] = NoReplica

(* An error ends the entry for this tick, not the tick.                    *)
EntryFails(e) ==
    /\ step[e] # "done"
    /\ \/ CannotGoOn(e) /\ UNCHANGED faults
       \/ ~CannotGoOn(e) /\ Fault
    /\ Goes(e, "done")
    /\ UNCHANGED cluster

reconcile_entry(e) ==
    \/ ensure_namespace(e) \/ ensure_canopy_creds_secret(e) \/ ensure_replica_cr(e)
    \/ set_desired_snapshot(e) \/ EntryFails(e)

Tick ==
    \/ Fetch \/ List \/ Provisioned \/ TickEnds
    \/ pc = "provision" /\ \E e \in entries : reconcile_entry(e)
    \/ \E n \in orphans : Teardown(n)

-----------------------------------------------------------------------------
(* Namespaces on their way out                                             *)

ClusterFrame == UNCHANGED <<canopy, tick, faults, gap, edited>>

SecretCollected(n) ==
    /\ space[n] = "Terminating" /\ secret[n]
    /\ secret' = [secret EXCEPT ![n] = FALSE]
    /\ ClusterFrame /\ UNCHANGED <<space, cr>>

ReplicaCollected(n) ==
    /\ space[n] = "Terminating" /\ cr[n] # NoReplica
    /\ cr' = [cr EXCEPT ![n] = NoReplica]
    /\ ClusterFrame /\ UNCHANGED <<space, secret>>

NamespaceGone(n) ==
    /\ space[n] = "Terminating" /\ ~secret[n] /\ cr[n] = NoReplica
    /\ space' = [space EXCEPT ![n] = "none"]
    /\ ClusterFrame /\ UNCHANGED <<secret, cr>>

Collect == \E n \in Names : SecretCollected(n) \/ ReplicaCollected(n) \/ NamespaceGone(n)

(* Somebody deletes a replica, or points it at another version.            *)
EditedByHand(n) ==
    /\ cr[n] # NoReplica /\ Fault
    /\ \/ cr' = [cr EXCEPT ![n] = NoReplica]
       \/ \E v \in Versions \ {cr[n].version} : cr' = [cr EXCEPT ![n].version = v]
    /\ edited' = edited \cup {n}
    /\ UNCHANGED <<canopy, space, secret, tick, gap>>

-----------------------------------------------------------------------------
(* Canopy: an entry offers the newest snapshot or none, one entry per      *)
(* declaration and machine, and per version where schemas are built.       *)

Change(list) ==
    /\ changes < MaxChanges /\ changes' = changes + 1
    /\ worklist' = list
    /\ gap' = gap \cup (Names \ NamesOf(list))
    /\ UNCHANGED <<newest, cluster, tick, faults, edited>>

Same(e, f) == e.id = f.id /\ (e.id \in Building => e.version = f.version)

EntryOffered(e) ==
    /\ e.snapshot \in {NoSnapshot, newest}
    /\ e \notin worklist
    /\ Change({f \in worklist : ~Same(e, f)} \cup {e})

EntryWithdrawn(e) ==
    /\ e \in worklist
    /\ Change(worklist \ {e})

SnapshotTaken ==
    /\ newest < MaxSnapshots /\ changes < MaxChanges
    /\ newest' = newest + 1 /\ changes' = changes + 1
    /\ UNCHANGED <<worklist, cluster, tick, faults, gap, edited>>

Canopy == SnapshotTaken \/ \E e \in Entries : EntryOffered(e) \/ EntryWithdrawn(e)

Next ==
    \/ Tick \/ Collect \/ Canopy \/ FetchFails \/ TickLost
    \/ \E n \in orphans : TeardownFails(n)
    \/ \E n \in Names : EditedByHand(n)

Spec == Init /\ [][Next]_vars

(* The syncer ticks for ever, and namespaces on their way out do go.       *)
FairSpec == Spec /\ WF_vars(Tick) /\ WF_vars(Collect)

-----------------------------------------------------------------------------

(* A namespace is only deleted if there was a time since the tick began at *)
(* which the worklist had no entry for it: a worklist that could not be    *)
(* fetched, an entry that could not be provisioned or an intent that is    *)
(* not known takes no replica away (CanopyController::tick).               *)
WantedNotTornDown ==
    [][\A n \in Names : space[n] = "Present" /\ space'[n] = "Terminating" => n \in gap]_vars

(* The replica of a schema build is for one version as long as it lives,   *)
(* although one declaration has an entry for each (namespace_name_for).    *)
BuildKeepsVersion ==
    [][\A n \in Names \ edited' :
         n[1] \in Building /\ cr[n] # NoReplica /\ cr'[n] # NoReplica
           => cr'[n].version = cr[n].version]_vars

(* The snapshot a replica is offered is never taken back, nor replaced by  *)
(* an older one, although entries are old by the time they are applied and *)
(* may come without a snapshot (set_desired_snapshot).                     *)
OfferNotWithdrawn ==
    [][\A n \in Names : cr[n] # NoReplica /\ cr'[n] # NoReplica
         => cr'[n].desired >= cr[n].desired]_vars

Synced ==
    /\ \A e \in worklist : e.id \in Supported =>
         LET n == namespace_name_for(e) IN
         /\ space[n] = "Present" /\ secret[n] /\ cr[n].version = e.version
         /\ e.snapshot # NoSnapshot => cr[n].desired = e.snapshot
    /\ \A n \in Names : space[n] # "none" => n \in NamesOf(worklist)

(* Once the worklist rests and the faults stop, the namespaces come to be  *)
(* what it says and stay so, also when an entry comes back while its       *)
(* namespace is on its way out.                                            *)
Synchronises == <>[]Synced

=============================================================================
