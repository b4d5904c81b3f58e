---------------------------- MODULE WorklistProofs ----------------------------
(***************************************************************************)
(* Safety of the worklist syncer for every set of declarations, versions   *)
(* and intents and any number of snapshots, changes and faults.            *)
(***************************************************************************)
EXTENDS Worklist, TLAPS

(* What a tick may tear down has been without an entry since it began.     *)
Orphaned ==
    /\ pc \in {"list", "provision"} => Names \ NamesOf(entries) \subseteq gap
    /\ orphans \subseteq gap
    /\ pc # "teardown" => orphans = {}

(* A build's replica has the version of its namespace.                     *)
Versioned ==
    \A n \in Names \ edited :
        n[1] \in Building /\ cr[n] # NoReplica => cr[n].version = n[2]

Unique(list) ==
    \A e, f \in list : namespace_name_for(e) = namespace_name_for(f) => e = f

(* Nothing in the worklist, nor in what a tick has fetched of it, is older *)
(* than what the replica it is about was offered.                          *)
Ordered ==
    /\ Unique(worklist) /\ Unique(entries)
    /\ \A e \in worklist \cup entries :
         /\ e.snapshot <= newest
         /\ e.snapshot # NoSnapshot => cr[namespace_name_for(e)].desired <= e.snapshot
    /\ \A n \in Names : cr[n].desired <= newest
    /\ \A e \in entries, f \in worklist :
         namespace_name_for(e) = namespace_name_for(f) /\ f.snapshot # NoSnapshot
           => e.snapshot <= f.snapshot

Inv == TypeOK /\ Orphaned /\ Versioned /\ Ordered

-----------------------------------------------------------------------------

(* Every entry has a namespace.                                            *)
LEMMA NameType ==
    ASSUME NEW e \in Entries
    PROVE  namespace_name_for(e) \in Names
  BY DEF Entries, Names, namespace_name_for

(* Two entries have the same namespace if they are of one declaration and, *)
(* for a build, of one version.                                            *)
LEMMA NameSame ==
    ASSUME NEW e \in Entries, NEW f \in Entries
    PROVE  (namespace_name_for(e) = namespace_name_for(f)) <=> Same(e, f)
  BY DEF Entries, namespace_name_for, Same

(* A replica stays one when its spec is applied.                           *)
LEMMA SpecApplied ==
    ASSUME NEW r \in Replicas, NEW v \in Versions
    PROVE  /\ [r EXCEPT !.version = v] \in Replicas
           /\ [r EXCEPT !.version = v].version = v
           /\ [r EXCEPT !.version = v].desired = r.desired
  BY WorklistAssumption DEF Replicas, NoReplica, Snapshots, NoSnapshot

(* A replica stays one when it is offered a snapshot.                      *)
LEMMA SnapshotSet ==
    ASSUME NEW r \in Replicas, r # NoReplica, NEW s \in Snapshots
    PROVE  /\ [r EXCEPT !.desired = s] \in Replicas
           /\ [r EXCEPT !.desired = s].desired = s
           /\ [r EXCEPT !.desired = s].version = r.version
  BY DEF Replicas

(* A step that leaves the tick and the cluster alone, or one that only     *)
(* moves an entry on.                                                      *)
LEMMA GoesType ==
    ASSUME TypeOK, NEW e \in entries, NEW s \in Steps, Goes(e, s)
    PROVE  /\ step' \in [entries' -> Steps]
           /\ UNCHANGED <<worklist, newest, changes, pc, entries, listed, orphans, gap, edited>>
  BY DEF Goes, TypeOK, canopy

(* A tick that is over leaves nothing behind.                              *)
LEMMA TickOverType ==
    ASSUME TickOver
    PROVE  /\ pc' = "idle" /\ entries' = {} /\ listed' = {} /\ orphans' = {}
           /\ step' \in [entries' -> Steps]
  <1>1. <<>> \in [{} -> Steps]
    OBVIOUS
  <1>2. QED
    BY <1>1 DEF TickOver

(* The faults stay within their bound.                                     *)
LEMMA FaultType ==
    ASSUME TypeOK, Fault
    PROVE  faults' \in 0..MaxFaults
  BY WorklistAssumption DEF TypeOK, Fault

(* Every step keeps the types.                                             *)
LEMMA TypeStep ==
    ASSUME TypeOK, [Next]_vars
    PROVE  TypeOK'
  <1>. USE DEF canopy, cluster, tick
  <1>1. CASE Fetch
    BY <1>1 DEF TypeOK, Fetch, Steps
  <1>2. CASE FetchFails
    BY <1>2, FaultType DEF TypeOK, FetchFails
  <1>3. CASE List
    BY <1>3 DEF TypeOK, List, Steps
  <1>4. CASE Provisioned
    BY <1>4 DEF TypeOK, Provisioned
  <1>5. ASSUME NEW n \in orphans, Teardown(n) PROVE TypeOK'
    BY <1>5 DEF TypeOK, Teardown, TickFrame
  <1>6. ASSUME NEW n \in orphans, TeardownFails(n) PROVE TypeOK'
    BY <1>6, FaultType DEF TypeOK, TeardownFails, TickFrame
  <1>7. CASE TickEnds
    BY <1>7, TickOverType DEF TypeOK, TickEnds, TickFrame
  <1>8. CASE TickLost
    BY <1>8, TickOverType, FaultType DEF TypeOK, TickLost
  <1>9. ASSUME NEW e \in entries, reconcile_entry(e) PROVE TypeOK'
    <2>. DEFINE n == namespace_name_for(e)
    <2>1. e \in Entries /\ n \in Names /\ cr[n] \in Replicas /\ e.version \in Versions
          /\ e.snapshot \in Snapshots
      BY NameType DEF TypeOK, Entries
    <2>2. CASE ensure_namespace(e)
      <3>1. Goes(e, "secret") /\ "secret" \in Steps
        BY <2>2 DEF ensure_namespace, Steps
      <3>2. space' \in [Names -> {"none", "Present", "Terminating"}] /\ UNCHANGED <<secret, cr, faults>>
        BY <2>1, <2>2 DEF ensure_namespace, TypeOK
      <3>3. QED
        BY <3>1, <3>2, GoesType DEF TypeOK
    <2>3. CASE ensure_canopy_creds_secret(e)
      <3>1. Goes(e, "replica") /\ "replica" \in Steps
        BY <2>3 DEF ensure_canopy_creds_secret, Steps
      <3>2. secret' \in [Names -> BOOLEAN] /\ UNCHANGED <<space, cr, faults>>
        BY <2>1, <2>3 DEF ensure_canopy_creds_secret, TypeOK
      <3>3. QED
        BY <3>1, <3>2, GoesType DEF TypeOK
    <2>4. CASE ensure_replica_cr(e)
      <3>1. Goes(e, "snapshot") /\ "snapshot" \in Steps
        BY <2>4 DEF ensure_replica_cr, Steps
      <3>2. cr' \in [Names -> Replicas] /\ UNCHANGED <<space, secret, faults>>
        BY <2>1, <2>4, SpecApplied DEF ensure_replica_cr, to_replica_spec, TypeOK
      <3>3. QED
        BY <3>1, <3>2, GoesType DEF TypeOK
    <2>5. CASE set_desired_snapshot(e)
      <3>1. Goes(e, "done") /\ "done" \in Steps
        BY <2>5 DEF set_desired_snapshot, Steps
      <3>2. cr' \in [Names -> Replicas] /\ UNCHANGED <<space, secret, faults>>
        BY <2>1, <2>5, SnapshotSet DEF set_desired_snapshot, TypeOK
      <3>3. QED
        BY <3>1, <3>2, GoesType DEF TypeOK
    <2>6. CASE EntryFails(e)
      <3>1. Goes(e, "done") /\ "done" \in Steps /\ UNCHANGED <<space, secret, cr>>
        BY <2>6 DEF EntryFails, Steps
      <3>2. faults' \in 0..MaxFaults
        BY <2>6, FaultType DEF EntryFails, TypeOK
      <3>3. QED
        BY <3>1, <3>2, GoesType DEF TypeOK
    <2>7. QED
      BY <1>9, <2>2, <2>3, <2>4, <2>5, <2>6 DEF reconcile_entry
  <1>10. ASSUME NEW n \in Names, SecretCollected(n) \/ ReplicaCollected(n) \/ NamespaceGone(n)
         PROVE TypeOK'
    BY <1>10 DEF TypeOK, SecretCollected, ReplicaCollected, NamespaceGone, ClusterFrame, Replicas
  <1>11. ASSUME NEW n \in Names, EditedByHand(n) PROVE TypeOK'
    <2>1. cr' \in [Names -> Replicas]
      BY <1>11, SpecApplied DEF EditedByHand, TypeOK, Replicas
    <2>2. QED
      BY <1>11, <2>1, FaultType DEF EditedByHand, TypeOK
  <1>12. ASSUME NEW e \in Entries, EntryOffered(e) \/ EntryWithdrawn(e) PROVE TypeOK'
    BY <1>12, WorklistAssumption DEF EntryOffered, EntryWithdrawn, Change, TypeOK
  <1>13. CASE SnapshotTaken
    BY <1>13, WorklistAssumption DEF SnapshotTaken, TypeOK, Snapshots
  <1>14. CASE UNCHANGED vars
    BY <1>14 DEF TypeOK, vars
  <1>15. QED
    BY <1>1, <1>2, <1>3, <1>4, <1>5, <1>6, <1>7, <1>8, <1>9, <1>10, <1>11, <1>12, <1>13, <1>14
       DEF Next, Tick, Collect, Canopy

-----------------------------------------------------------------------------
(* A tick only tears down what was without an entry since it began: it     *)
(* starts the record of gaps anew, and later changes only add to it.       *)
LEMMA OrphanedStep ==
    ASSUME TypeOK, Orphaned, [Next]_vars
    PROVE  Orphaned'
  <1>. USE DEF canopy, cluster, tick
  <1>1. CASE Fetch
    BY <1>1 DEF Orphaned, Fetch, NamesOf
  <1>2. CASE FetchFails \/ List
    BY <1>2 DEF Orphaned, FetchFails, List, NamesOf
  <1>3. CASE Provisioned
    <2>1. listed \subseteq Names /\ Names \ NamesOf(entries) \subseteq gap
      BY <1>3 DEF TypeOK, Orphaned, Provisioned
    <2>2. QED
      BY <1>3, <2>1 DEF Orphaned, Provisioned
  <1>4. ASSUME NEW n \in orphans, Teardown(n) \/ TeardownFails(n) PROVE Orphaned'
    BY <1>4 DEF Orphaned, Teardown, TeardownFails, TickFrame
  <1>5. CASE TickEnds \/ TickLost
    BY <1>5, TickOverType DEF Orphaned, TickEnds, TickLost, TickFrame
  <1>6. ASSUME NEW e \in entries, reconcile_entry(e) PROVE Orphaned'
    BY <1>6 DEF Orphaned, NamesOf, reconcile_entry, ensure_namespace, ensure_canopy_creds_secret,
                ensure_replica_cr, set_desired_snapshot, EntryFails, Goes
  <1>7. CASE Collect
    BY <1>7 DEF Orphaned, NamesOf, Collect, SecretCollected, ReplicaCollected, NamespaceGone,
                ClusterFrame
  <1>8. ASSUME NEW n \in Names, EditedByHand(n) PROVE Orphaned'
    BY <1>8 DEF Orphaned, NamesOf, EditedByHand
  <1>9. ASSUME NEW e \in Entries, EntryOffered(e) \/ EntryWithdrawn(e) PROVE Orphaned'
    BY <1>9 DEF Orphaned, EntryOffered, EntryWithdrawn, Change, NamesOf
  <1>10. CASE SnapshotTaken \/ UNCHANGED vars
    BY <1>10 DEF Orphaned, NamesOf, SnapshotTaken, vars
  <1>11. QED
    BY <1>1, <1>2, <1>3, <1>4, <1>5, <1>6, <1>7, <1>8, <1>9, <1>10 DEF Next, Tick, Canopy

(* The steps that change a replica: two of an entry, the end of its        *)
(* namespace, and an edit by hand.                                         *)
LEMMA ReplicasChange ==
    ASSUME TypeOK, [Next]_vars
    PROVE  \/ UNCHANGED <<cr, edited>>
           \/ \E e \in entries : pc = "provision" /\ ensure_replica_cr(e) /\ UNCHANGED edited
           \/ \E e \in entries : pc = "provision" /\ set_desired_snapshot(e) /\ UNCHANGED edited
           \/ \E n \in Names : ReplicaCollected(n) /\ UNCHANGED edited
           \/ \E n \in Names : EditedByHand(n)
  <1>. USE DEF canopy, cluster, tick
  <1>1. CASE Fetch \/ FetchFails \/ List \/ Provisioned \/ TickEnds \/ TickLost
    BY <1>1 DEF Fetch, FetchFails, List, Provisioned, TickEnds, TickLost, TickFrame
  <1>2. ASSUME NEW n \in orphans, Teardown(n) \/ TeardownFails(n) PROVE UNCHANGED <<cr, edited>>
    BY <1>2 DEF Teardown, TeardownFails, TickFrame
  <1>3. ASSUME NEW e \in entries, reconcile_entry(e)
        PROVE \/ UNCHANGED <<cr, edited>>
              \/ ensure_replica_cr(e) /\ UNCHANGED edited
              \/ set_desired_snapshot(e) /\ UNCHANGED edited
    BY <1>3 DEF reconcile_entry, ensure_namespace, ensure_canopy_creds_secret,
                ensure_replica_cr, set_desired_snapshot, EntryFails, Goes
  <1>4. ASSUME NEW n \in Names, SecretCollected(n) \/ NamespaceGone(n) PROVE UNCHANGED <<cr, edited>>
    BY <1>4 DEF SecretCollected, NamespaceGone, ClusterFrame
  <1>5. ASSUME NEW n \in Names, ReplicaCollected(n) PROVE UNCHANGED edited
    BY <1>5 DEF ReplicaCollected, ClusterFrame
  <1>6. CASE Canopy \/ UNCHANGED vars
    BY <1>6 DEF Canopy, EntryOffered, EntryWithdrawn, Change, SnapshotTaken, vars
  <1>7. QED
    BY <1>1, <1>2, <1>3, <1>4, <1>5, <1>6 DEF Next, Tick, Collect

(* The replica of a build has the version of its namespace, whichever      *)
(* entries were applied to it.                                             *)
LEMMA VersionedStep ==
    ASSUME TypeOK, Versioned, [Next]_vars
    PROVE  Versioned'
  <1>1. CASE UNCHANGED <<cr, edited>>
    BY <1>1 DEF Versioned
  <1>2. ASSUME NEW e \in entries, ensure_replica_cr(e), UNCHANGED edited PROVE Versioned'
    <2>. DEFINE m == namespace_name_for(e)
    <2>1. e \in Entries /\ m \in Names /\ cr[m] \in Replicas /\ e.version \in Versions
      BY NameType DEF TypeOK, Entries
    <2>2. m[1] \in Building => m[2] = e.version
      BY DEF namespace_name_for
    <2>3. cr' = [cr EXCEPT ![m] = [cr[m] EXCEPT !.version = e.version]]
      BY <1>2 DEF ensure_replica_cr, to_replica_spec
    <2>4. cr'[m].version = e.version
      BY <2>1, <2>3, SpecApplied DEF TypeOK
    <2>5. \A n \in Names : n # m => cr'[n] = cr[n]
      BY <2>3 DEF TypeOK
    <2>6. QED
      BY <1>2, <2>2, <2>4, <2>5 DEF Versioned
  <1>3. ASSUME NEW e \in entries, set_desired_snapshot(e), UNCHANGED edited PROVE Versioned'
    <2>. DEFINE m == namespace_name_for(e)
    <2>1. e \in Entries /\ m \in Names /\ cr[m] \in Replicas /\ e.snapshot \in Snapshots
      BY NameType DEF TypeOK, Entries
    <2>2. CASE UNCHANGED cr
      BY <1>3, <2>2 DEF Versioned
    <2>3. CASE cr[m] # NoReplica /\ cr' = [cr EXCEPT ![m] = [cr[m] EXCEPT !.desired = e.snapshot]]
      <3>1. cr'[m].version = cr[m].version
        BY <2>1, <2>3, SnapshotSet DEF TypeOK
      <3>2. \A n \in Names : n # m => cr'[n] = cr[n]
        BY <2>3 DEF TypeOK
      <3>3. QED
        BY <1>3, <2>3, <3>1, <3>2 DEF Versioned
    <2>4. QED
      BY <1>3, <2>2, <2>3 DEF set_desired_snapshot
  <1>4. ASSUME NEW n \in Names, ReplicaCollected(n), UNCHANGED edited PROVE Versioned'
    BY <1>4 DEF ReplicaCollected, Versioned, TypeOK
  <1>5. ASSUME NEW n \in Names, EditedByHand(n) PROVE Versioned'
    <2>1. \A m \in Names \ {n} : cr'[m] = cr[m]
      BY <1>5 DEF EditedByHand, TypeOK
    <2>2. edited' = edited \cup {n}
      BY <1>5 DEF EditedByHand
    <2>3. QED
      BY <2>1, <2>2 DEF Versioned
  <1>6. QED
    BY <1>1, <1>2, <1>3, <1>4, <1>5, ReplicasChange

-----------------------------------------------------------------------------
(* What an entry applies to its replica changes that replica alone, and    *)
(* what it is offered only by set_desired_snapshot.                        *)
LEMMA OfferChange ==
    ASSUME TypeOK, [Next]_vars
    PROVE  \/ \A n \in Names : cr'[n].desired = cr[n].desired \/ cr'[n] = NoReplica
           \/ \E e \in entries :
                /\ pc = "provision" /\ UNCHANGED <<worklist, entries, newest>>
                /\ e.snapshot # NoSnapshot
                /\ cr'[namespace_name_for(e)].desired = e.snapshot
                /\ \A n \in Names \ {namespace_name_for(e)} : cr'[n] = cr[n]
  <1>1. CASE UNCHANGED <<cr, edited>>
    BY <1>1
  <1>2. ASSUME NEW e \in entries, ensure_replica_cr(e)
        PROVE  \A n \in Names : cr'[n].desired = cr[n].desired
    <2>. DEFINE m == namespace_name_for(e)
    <2>1. e \in Entries /\ m \in Names /\ cr[m] \in Replicas /\ e.version \in Versions
      BY NameType DEF TypeOK, Entries
    <2>2. cr' = [cr EXCEPT ![m] = [cr[m] EXCEPT !.version = e.version]]
      BY <1>2 DEF ensure_replica_cr, to_replica_spec
    <2>3. cr'[m].desired = cr[m].desired
      BY <2>1, <2>2, SpecApplied DEF TypeOK
    <2>4. \A n \in Names : n # m => cr'[n] = cr[n]
      BY <2>2 DEF TypeOK
    <2>5. QED
      BY <2>3, <2>4
  <1>3. ASSUME NEW e \in entries, pc = "provision", set_desired_snapshot(e)
        PROVE  \/ UNCHANGED cr
               \/ /\ pc = "provision" /\ UNCHANGED <<worklist, entries, newest>>
                  /\ e.snapshot # NoSnapshot
                  /\ cr'[namespace_name_for(e)].desired = e.snapshot
                  /\ \A n \in Names \ {namespace_name_for(e)} : cr'[n] = cr[n]
    <2>. DEFINE m == namespace_name_for(e)
    <2>1. e \in Entries /\ m \in Names /\ cr[m] \in Replicas /\ e.snapshot \in Snapshots
      BY NameType DEF TypeOK, Entries
    <2>2. UNCHANGED <<worklist, entries, newest>>
      BY <1>3 DEF set_desired_snapshot, Goes, canopy
    <2>3. CASE UNCHANGED cr
      BY <2>3
    <2>4. CASE /\ e.snapshot # NoSnapshot /\ cr[m] # NoReplica
               /\ cr' = [cr EXCEPT ![m] = [cr[m] EXCEPT !.desired = e.snapshot]]
      <3>1. cr'[m].desired = e.snapshot
        BY <2>1, <2>4, SnapshotSet DEF TypeOK
      <3>2. \A n \in Names : n # m => cr'[n] = cr[n]
        BY <2>4 DEF TypeOK
      <3>3. QED
        BY <1>3, <2>2, <2>4, <3>1, <3>2
    <2>5. QED
      BY <1>3, <2>3, <2>4 DEF set_desired_snapshot
  <1>4. ASSUME NEW m \in Names, ReplicaCollected(m)
        PROVE  \A n \in Names : cr'[n].desired = cr[n].desired \/ cr'[n] = NoReplica
    BY <1>4 DEF ReplicaCollected, TypeOK
  <1>5. ASSUME NEW m \in Names, EditedByHand(m)
        PROVE  \A n \in Names : cr'[n].desired = cr[n].desired \/ cr'[n] = NoReplica
    <2>1. CASE cr' = [cr EXCEPT ![m] = NoReplica]
      BY <2>1 DEF TypeOK
    <2>2. ASSUME NEW v \in Versions, cr' = [cr EXCEPT ![m] = [cr[m] EXCEPT !.version = v]]
          PROVE  \A n \in Names : cr'[n].desired = cr[n].desired
      <3>1. cr'[m].desired = cr[m].desired
        BY <2>2, SpecApplied DEF TypeOK
      <3>2. \A n \in Names : n # m => cr'[n] = cr[n]
        BY <2>2 DEF TypeOK
      <3>3. QED
        BY <3>1, <3>2
    <2>3. QED
      BY <1>5, <2>1, <2>2 DEF EditedByHand
  <1>6. QED
    BY <1>1, <1>2, <1>3, <1>4, <1>5, ReplicasChange

(* What there is to know of the worklist and of what a tick has fetched.   *)
LEMMA ListsChange ==
    ASSUME TypeOK, [Next]_vars
    PROVE  \/ UNCHANGED <<worklist, entries, newest>>
           \/ Fetch
           \/ entries' = {} /\ UNCHANGED <<worklist, newest, cr>>
           \/ \E e \in Entries : EntryOffered(e) \/ EntryWithdrawn(e)
           \/ SnapshotTaken
  <1>. USE DEF canopy, cluster, tick
  <1>1. CASE FetchFails \/ List \/ Provisioned
    BY <1>1 DEF FetchFails, List, Provisioned
  <1>2. CASE TickEnds \/ TickLost
    BY <1>2, TickOverType DEF TickEnds, TickLost, TickFrame
  <1>3. ASSUME NEW n \in orphans, Teardown(n) \/ TeardownFails(n)
        PROVE UNCHANGED <<worklist, entries, newest>>
    BY <1>3 DEF Teardown, TeardownFails, TickFrame
  <1>4. ASSUME NEW e \in entries, reconcile_entry(e) PROVE UNCHANGED <<worklist, entries, newest>>
    BY <1>4 DEF reconcile_entry, ensure_namespace, ensure_canopy_creds_secret,
                ensure_replica_cr, set_desired_snapshot, EntryFails, Goes
  <1>5. CASE Collect
    BY <1>5 DEF Collect, SecretCollected, ReplicaCollected, NamespaceGone, ClusterFrame
  <1>6. ASSUME NEW n \in Names, EditedByHand(n) PROVE UNCHANGED <<worklist, entries, newest>>
    BY <1>6 DEF EditedByHand
  <1>7. CASE UNCHANGED vars
    BY <1>7 DEF vars
  <1>8. QED
    BY <1>1, <1>2, <1>3, <1>4, <1>5, <1>6, <1>7 DEF Next, Tick, Canopy

(* What a replica is offered is a snapshot's number.                       *)
LEMMA Numbers ==
    ASSUME TypeOK
    PROVE  /\ newest \in Nat
           /\ \A n \in Names : cr[n].desired \in Nat
           /\ \A e \in Entries : e.snapshot \in Nat
  BY WorklistAssumption DEF TypeOK, Replicas, NoReplica, NoSnapshot, Snapshots, Entries

(* A replica that is offered nothing new, or is no longer there, stays     *)
(* behind the entries.                                                     *)
LEMMA OfferFalls ==
    ASSUME TypeOK,
           \A n \in Names : cr'[n].desired = cr[n].desired \/ cr'[n] = NoReplica
    PROVE  \A n \in Names : cr'[n].desired <= cr[n].desired
  <1>1. NoReplica.desired = 0
    BY DEF NoReplica, NoSnapshot
  <1>2. QED
    BY <1>1, Numbers

(* Entries and replicas stay in order: canopy offers the newest snapshot   *)
(* or none, and a fetched entry and the one that took its place have the   *)
(* same namespace.                                                         *)
LEMMA OrderedStep ==
    ASSUME TypeOK, TypeOK', Ordered, [Next]_vars
    PROVE  Ordered'
  <1>. USE DEF canopy, cluster, tick
  <1>a. /\ newest \in Nat /\ newest' \in Nat
        /\ \A n \in Names : cr[n].desired \in Nat /\ cr'[n].desired \in Nat
        /\ \A e \in Entries : e.snapshot \in Nat /\ namespace_name_for(e) \in Names
        /\ worklist \subseteq Entries /\ entries \subseteq Entries
    BY Numbers, NameType DEF TypeOK, Replicas, NoReplica, NoSnapshot, Snapshots
  <1>1. CASE UNCHANGED <<worklist, entries, newest>>
    <2>1. CASE \A n \in Names : cr'[n].desired = cr[n].desired \/ cr'[n] = NoReplica
      <3>1. \A n \in Names : cr'[n].desired <= cr[n].desired
        BY <2>1, OfferFalls
      <3>2. \A n \in Names, k \in Nat : cr[n].desired <= k => cr'[n].desired <= k
        BY <3>1, <1>a
      <3>3. QED
        BY <1>1, <1>a, <3>2 DEF Ordered, Unique
    <2>2. ASSUME NEW e \in entries, e.snapshot # NoSnapshot,
                 cr'[namespace_name_for(e)].desired = e.snapshot,
                 \A n \in Names \ {namespace_name_for(e)} : cr'[n] = cr[n]
          PROVE  Ordered'
      <3>. DEFINE m == namespace_name_for(e)
      <3>1. e \in Entries /\ m \in Names /\ e.snapshot <= newest
        BY <1>a DEF Ordered
      <3>2. \A n \in Names : cr'[n].desired <= newest
        BY <1>a, <2>2, <3>1 DEF Ordered
      <3>3. ASSUME NEW f \in worklist \cup entries, f.snapshot # NoSnapshot
            PROVE  cr'[namespace_name_for(f)].desired <= f.snapshot
        <4>1. CASE namespace_name_for(f) # m
          BY <1>a, <2>2, <3>3, <4>1 DEF Ordered
        <4>2. CASE namespace_name_for(f) = m /\ f \in worklist
          BY <1>a, <2>2, <3>3, <4>2 DEF Ordered
        <4>3. CASE namespace_name_for(f) = m /\ f \in entries
          <5>1. f = e
            BY <4>3 DEF Ordered, Unique
          <5>2. QED
            BY <1>a, <2>2, <5>1
        <4>4. QED
          BY <4>1, <4>2, <4>3
      <3>4. QED
        BY <1>1, <3>2, <3>3 DEF Ordered, Unique
    <2>3. QED
      BY <2>1, <2>2, OfferChange
  <1>2. CASE Fetch
    <2>1. entries' = worklist /\ UNCHANGED <<worklist, newest, cr>>
      BY <1>2 DEF Fetch
    <2>2. \A e \in worklist, f \in worklist :
            namespace_name_for(e) = namespace_name_for(f) => e.snapshot <= f.snapshot
      BY <1>a DEF Ordered, Unique
    <2>3. QED
      BY <2>1, <2>2 DEF Ordered, Unique
  <1>3. CASE entries' = {} /\ UNCHANGED <<worklist, newest, cr>>
    BY <1>3 DEF Ordered, Unique
  <1>4. ASSUME NEW e \in Entries, EntryOffered(e) PROVE Ordered'
    <2>1. /\ worklist' = {f \in worklist : ~Same(e, f)} \cup {e}
          /\ e.snapshot \in {NoSnapshot, newest}
          /\ UNCHANGED <<newest, cr, entries>>
      BY <1>4 DEF EntryOffered, Change
    <2>2. \A f \in worklist' : \/ f = e
                               \/ f \in worklist /\ namespace_name_for(f) # namespace_name_for(e)
      BY <1>a, <2>1, NameSame
    <2>3. Unique(worklist')
      BY <2>2 DEF Ordered, Unique
    <2>4. e.snapshot <= newest
      BY <1>a, <2>1 DEF NoSnapshot
    <2>5. e.snapshot # NoSnapshot => e.snapshot = newest
      BY <2>1
    <2>6. \A f \in worklist' \cup entries :
             /\ f.snapshot <= newest
             /\ f.snapshot # NoSnapshot => cr[namespace_name_for(f)].desired <= f.snapshot
      <3>1. cr[namespace_name_for(e)].desired <= newest
        BY <1>a DEF Ordered
      <3>2. QED
        BY <2>2, <2>4, <2>5, <3>1 DEF Ordered
    <2>7. \A g \in entries, f \in worklist' :
            namespace_name_for(g) = namespace_name_for(f) /\ f.snapshot # NoSnapshot
              => g.snapshot <= f.snapshot
      BY <2>2, <2>5 DEF Ordered
    <2>8. Unique(entries) /\ \A n \in Names : cr[n].desired <= newest
      BY DEF Ordered
    <2>9. QED
      BY <2>1, <2>3, <2>6, <2>7, <2>8 DEF Ordered, Unique
  <1>5. ASSUME NEW e \in Entries, EntryWithdrawn(e) PROVE Ordered'
    <2>1. worklist' \subseteq worklist /\ UNCHANGED <<newest, cr, entries>>
      BY <1>5 DEF EntryWithdrawn, Change
    <2>2. QED
      BY <2>1 DEF Ordered, Unique
  <1>6. CASE SnapshotTaken
    <2>1. newest' = newest + 1 /\ UNCHANGED <<worklist, entries, cr>>
      BY <1>6 DEF SnapshotTaken
    <2>2. \A k \in Nat : k <= newest => k <= newest'
      BY <1>a, <2>1
    <2>3. QED
      BY <1>a, <2>1, <2>2 DEF Ordered, Unique
  <1>7. QED
    BY <1>1, <1>2, <1>3, <1>4, <1>5, <1>6, ListsChange

-----------------------------------------------------------------------------
(* The syncer starts with an empty worklist and no replica.                *)
LEMMA InitInv ==
    ASSUME Init
    PROVE  Inv
  <1>1. TypeOK
    <2>1. <<>> \in [{} -> Steps]
      OBVIOUS
    <2>2. cr \in [Names -> Replicas]
      BY DEF Init, Replicas
    <2>3. /\ space \in [Names -> {"none", "Present", "Terminating"}]
          /\ secret \in [Names -> BOOLEAN]
      BY DEF Init
    <2>4. QED
      BY <2>1, <2>2, <2>3, WorklistAssumption DEF Init, TypeOK, Snapshots, NoSnapshot
  <1>2. Orphaned
    BY DEF Init, Orphaned
  <1>3. Versioned
    BY DEF Init, Versioned
  <1>4. Ordered
    <2>1. \A n \in Names : cr[n].desired = 0
      BY DEF Init, NoReplica, NoSnapshot
    <2>2. QED
      BY <2>1, WorklistAssumption DEF Init, Ordered, Unique, NoSnapshot
  <1>5. QED
    BY <1>1, <1>2, <1>3, <1>4 DEF Inv

(* Every step of the syncer, of canopy and of the cluster keeps the        *)
(* invariant.                                                              *)
LEMMA NextInv ==
    ASSUME Inv, [Next]_vars
    PROVE  Inv'
  BY TypeStep, OrphanedStep, VersionedStep, OrderedStep DEF Inv

(* The inductive invariant holds throughout (CanopyController::tick).      *)
THEOREM Invariance == Spec => []Inv
  BY InitInv, NextInv, PTL DEF Spec

(* The variables keep their types, whatever the worklist does to a tick.   *)
THEOREM TypeCorrect == Spec => []TypeOK
  <1>1. Inv => TypeOK
    BY DEF Inv
  <1>2. QED
    BY <1>1, Invariance, PTL

(* A namespace is torn down only if it was without an entry at some time   *)
(* since the tick began, for any number of entries and faults (tick).      *)
THEOREM WantedStay == Spec => WantedNotTornDown
  <1>. DEFINE Torn(n) == space[n] = "Present" /\ space'[n] = "Terminating" => n \in gap
  <1>1. ASSUME Inv, [Next]_vars, NEW n \in Names PROVE Torn(n)
    <2>. USE DEF canopy, cluster, tick
    <2>1. TypeOK /\ orphans \subseteq gap
      BY <1>1 DEF Inv, Orphaned
    <2>2. ASSUME NEW m \in orphans, Teardown(m) PROVE Torn(n)
      BY <2>1, <2>2 DEF Teardown, TypeOK
    <2>3. ASSUME NEW m \in orphans, TeardownFails(m) PROVE Torn(n)
      BY <2>3 DEF TeardownFails
    <2>4. CASE Fetch \/ FetchFails \/ List \/ Provisioned \/ TickEnds \/ TickLost
      BY <2>4 DEF Fetch, FetchFails, List, Provisioned, TickEnds, TickLost
    <2>5. ASSUME NEW e \in entries, reconcile_entry(e) PROVE Torn(n)
      <3>1. CASE ensure_namespace(e)
        BY <2>1, <3>1 DEF ensure_namespace, TypeOK
      <3>2. CASE ~ensure_namespace(e)
        BY <2>5, <3>2 DEF reconcile_entry, ensure_canopy_creds_secret, ensure_replica_cr,
                     set_desired_snapshot, EntryFails
      <3>3. QED
        BY <3>1, <3>2
    <2>6. ASSUME NEW m \in Names, SecretCollected(m) \/ ReplicaCollected(m) PROVE Torn(n)
      BY <2>6 DEF SecretCollected, ReplicaCollected
    <2>7. ASSUME NEW m \in Names, NamespaceGone(m) PROVE Torn(n)
      BY <2>1, <2>7 DEF NamespaceGone, TypeOK
    <2>8. ASSUME NEW m \in Names, EditedByHand(m) PROVE Torn(n)
      BY <2>8 DEF EditedByHand
    <2>9. CASE Canopy \/ UNCHANGED vars
      BY <2>9 DEF Canopy, EntryOffered, EntryWithdrawn, Change, SnapshotTaken, vars
    <2>10. QED
      BY <1>1, <2>2, <2>3, <2>4, <2>5, <2>6, <2>7, <2>8, <2>9 DEF Next, Tick, Collect
  <1>2. Inv /\ [Next]_vars => [\A n \in Names : Torn(n)]_vars
    BY <1>1
  <1>3. QED
    BY <1>2, Invariance, PTL DEF Spec, WantedNotTornDown

(* A build's replica is for one version for as long as it lives, for any   *)
(* number of versions and builds (namespace_name_for, ensure_replica_cr).  *)
THEOREM BuildsKeepVersion == Spec => BuildKeepsVersion
  <1>. DEFINE Keeps == \A n \in Names \ edited' :
                         n[1] \in Building /\ cr[n] # NoReplica /\ cr'[n] # NoReplica
                           => cr'[n].version = cr[n].version
  <1>1. ASSUME Inv, [Next]_vars PROVE Keeps
    <2>1. Versioned /\ Versioned'
      BY <1>1, NextInv DEF Inv
    <2>2. edited \subseteq edited'
      BY <1>1, ReplicasChange DEF Inv, EditedByHand
    <2>3. QED
      BY <2>1, <2>2 DEF Versioned
  <1>2. Inv /\ [Next]_vars => [Keeps]_vars
    BY <1>1
  <1>3. QED
    BY <1>2, Invariance, PTL DEF Spec, BuildKeepsVersion

(* What a replica is offered is not taken back nor replaced by something   *)
(* older, for any number of snapshots and however old the entry is that a  *)
(* tick applies (set_desired_snapshot).                                    *)
THEOREM OffersStand == Spec => OfferNotWithdrawn
  <1>. DEFINE Stands == \A n \in Names : cr[n] # NoReplica /\ cr'[n] # NoReplica
                           => cr'[n].desired >= cr[n].desired
  <1>1. ASSUME Inv, [Next]_vars PROVE Stands
    <2>1. TypeOK /\ Ordered
      BY <1>1 DEF Inv
    <2>2. \A n \in Names : cr[n].desired \in Nat
      BY <2>1, Numbers
    <2>3. CASE \A n \in Names : cr'[n].desired = cr[n].desired \/ cr'[n] = NoReplica
      BY <2>2, <2>3
    <2>4. ASSUME NEW e \in entries, e.snapshot # NoSnapshot,
                 cr'[namespace_name_for(e)].desired = e.snapshot,
                 \A n \in Names \ {namespace_name_for(e)} : cr'[n] = cr[n]
          PROVE  Stands
      <3>1. e.snapshot \in Nat /\ cr[namespace_name_for(e)].desired <= e.snapshot
        BY <2>1, <2>4, Numbers DEF TypeOK, Ordered
      <3>2. QED
        BY <2>2, <2>4, <3>1
    <2>5. QED
      BY <1>1, <2>1, <2>3, <2>4, OfferChange
  <1>2. Inv /\ [Next]_vars => [Stands]_vars
    BY <1>1
  <1>3. QED
    BY <1>2, Invariance, PTL DEF Spec, OfferNotWithdrawn

=============================================================================
