---------------------------- MODULE RestoreQueue ----------------------------
(***************************************************************************)
(* The in-memory queue that is to keep the restores of all replicas under  *)
(* maxConcurrentRestores, and the four places that touch it: the replica   *)
(* controller asking for capacity, the restore controller taking a slot    *)
(* and giving it back, the tick that reconciles the slots with the restores*)
(* it listed, and the restart that empties it.                             *)
(*                                                                         *)
(* The queue is behind a lock, but the restores' statuses are not: between *)
(* a status write and the queue update that goes with it, and between the  *)
(* tick's list and its update, anything can happen.                        *)
(***************************************************************************)
EXTENDS Naturals, FiniteSets, SequencesExt

CONSTANTS
    Replicas,       \* the replicas of the cluster
    MaxConcurrent,  \* ctx.max_concurrent_restores()
    MaxRestarts,    \* bound: operator restarts
    Second,         \* bound: the replicas that may have two restores at once
    Ephemeral,      \* the replicas whose verified restore is torn down
    Deletable       \* the replicas whose restores may be deleted while running

ASSUME QueueAssumption ==
    /\ IsFiniteSet(Replicas)
    /\ MaxConcurrent \in Nat \ {0}
    /\ MaxRestarts \in Nat
    /\ Second \subseteq Replicas /\ Ephemeral \subseteq Replicas /\ Deletable \subseteq Replicas

(* A restore: its replica, and which of the replica's two it is.           *)
Restores == (Replicas \X {1}) \cup (Second \X {2})

VARIABLES
    active,     \* RestoreQueue.active: the replicas holding a slot
    pending,    \* RestoreQueue.pending: the replicas waiting, first come first
    due,        \* replica -> its should_restore
    listing,    \* the replicas with a snapshot-list Job
    pass,       \* replica -> how far its reconcile is
    stage,      \* restore -> how far it is
    owed,       \* restore -> the queue update its last status write is owed
    tick,       \* the restores the tick has listed, as a set of sets
    restarts

vars == <<active, pending, due, listing, pass, stage, owed, tick, restarts>>

(* "created" has no phase yet; "Ready" stands for Ready and Migrating,     *)
(* "verified" for the Active restore of an ephemeral replica; "none" for a *)
(* restore that is Failed, kept as the Active one, or gone.                *)
Stages == {"none", "created", "Pending", "Restoring", "Ready", "Switching", "verified"}

(* "deciding": the pass has listed the restores and found the replica due  *)
(* with none in progress; "tearing": it has deleted the verified restore.  *)
Passes == {"idle", "deciding", "tearing"}

TypeOK ==
    /\ active \in Seq(Replicas)
    /\ pending \in Seq(Replicas)
    /\ due \in [Replicas -> BOOLEAN]
    /\ listing \subseteq Replicas
    /\ pass \in [Replicas -> Passes]
    /\ stage \in [Restores -> Stages]
    /\ owed \in [Restores -> {"nothing", "mark", "release"}]
    /\ tick \in SUBSET (SUBSET Replicas) /\ Cardinality(tick) <= 1
    /\ restarts \in 0..MaxRestarts

Init ==
    /\ active = <<>> /\ pending = <<>>
    /\ due = [r \in Replicas |-> FALSE]
    /\ listing = {}
    /\ pass = [r \in Replicas |-> "idle"]
    /\ stage = [x \in Restores |-> "none"]
    /\ owed = [x \in Restores |-> "nothing"]
    /\ tick = {}
    /\ restarts = 0

-----------------------------------------------------------------------------
(* The operations of RestoreQueue                                          *)

can_start == Len(active) < MaxConcurrent

(* Mutant: a replica that waits already is put at the end once more.       *)
enqueue_Again(q, r) == Append(q, r)

(* Mutant: the key is the bare name, which every canopy replica shares.    *)
enqueue_BareName(q, r) ==
    IF Contains(q, "canopy-replica") THEN q ELSE Append(q, "canopy-replica")

enqueue(q, r) == IF Contains(q, r) THEN q ELSE Append(q, r)

(* Vec::retain: the entries of q that are in Keep, in their order, the n-th *)
(* of them being the one with n such entries up to and including it.       *)
KeptUpTo(q, Keep, i) == {j \in 1..i : q[j] \in Keep}

retain(q, Keep) ==
    [n \in 1..Cardinality(KeptUpTo(q, Keep, Len(q))) |->
        q[CHOOSE i \in 1..Len(q) :
            q[i] \in Keep /\ Cardinality(KeptUpTo(q, Keep, i)) = n]]

without(q, r) == retain(q, Replicas \ {r})

mark_active(r) ==
    /\ pending' = without(pending, r)
    /\ active' = IF Contains(active, r) THEN active ELSE Append(active, r)

(* release_restore_slot: remove, then try_promote.                         *)
release_restore_slot(r) ==
    LET a == without(active, r)
        p == without(pending, r)
    IN  IF Len(a) < MaxConcurrent /\ p # <<>>
        THEN active' = Append(a, Head(p)) /\ pending' = Tail(p)
        ELSE active' = a /\ pending' = p

(* Mutant: the slots of no live restore are found and kept.                *)
retain_active_KeepsAll(live) == UNCHANGED active

retain_active(live) == active' = retain(active, live)

-----------------------------------------------------------------------------
(* The replica controller: what a pass does is decided on the list it began *)
(* with, and a restore without a phase is not in progress.                 *)

restore_in_progress(x) == stage[x] \in {"Pending", "Restoring", "Ready"}

RestoresOf(r) == {x \in Restores : x[1] = r}

BecomesDue(r) ==
    /\ ~due[r]
    /\ due' = [due EXCEPT ![r] = TRUE]
    /\ UNCHANGED <<active, pending, listing, pass, stage, owed, tick, restarts>>

(* A switchover under way, or an ephemeral restore to tear down, ends the  *)
(* pass before it comes to the trigger.                                    *)
Lists(r) ==
    /\ pass[r] = "idle" /\ due[r]
    /\ \A x \in RestoresOf(r) :
         ~restore_in_progress(x) /\ stage[x] \notin {"Switching", "verified"}
    /\ pass' = [pass EXCEPT ![r] = "deciding"]
    /\ UNCHANGED <<active, pending, due, listing, stage, owed, tick, restarts>>

(* Nothing is reserved: the slot is taken when the restore runs.           *)
StartsListing(r) ==
    /\ pass[r] = "deciding" /\ r \notin listing
    /\ can_start
    /\ listing' = listing \cup {r}
    /\ pass' = [pass EXCEPT ![r] = "idle"]
    /\ UNCHANGED <<active, pending, due, stage, owed, tick, restarts>>

Waits(r) ==
    /\ pass[r] = "deciding" /\ r \notin listing
    /\ ~can_start
    /\ pending' = enqueue(pending, r)
    /\ pass' = [pass EXCEPT ![r] = "idle"]
    /\ UNCHANGED <<active, due, listing, stage, owed, tick, restarts>>

(* The Job still runs, or has failed: the pass has nothing to start.       *)
StillListing(r) ==
    /\ pass[r] = "deciding" /\ r \in listing
    /\ pass' = [pass EXCEPT ![r] = "idle"]
    /\ UNCHANGED <<active, pending, due, listing, stage, owed, tick, restarts>>

(* The snapshot list is in, which a pass sees before it looks for a restore *)
(* in progress: a restore is created, or none is called for. A replica that *)
(* goes on being due becomes due again.                                    *)
ListingEnds(r) ==
    /\ r \in listing /\ pass[r] # "tearing"
    /\ \/ UNCHANGED stage
       \/ \E x \in RestoresOf(r) :
            /\ stage[x] = "none" /\ owed[x] = "nothing"
            /\ stage' = [stage EXCEPT ![x] = "created"]
    /\ listing' = listing \ {r}
    /\ due' = [due EXCEPT ![r] = FALSE]
    /\ pass' = [pass EXCEPT ![r] = "idle"]
    /\ UNCHANGED <<active, pending, owed, tick, restarts>>

(* The switchover of the pass: an ephemeral replica has its restore still  *)
(* to tear down.                                                           *)
SwitchesOver(x) ==
    /\ stage[x] = "Switching" /\ pass[x[1]] = "idle"
    /\ stage' = [stage EXCEPT ![x] = IF x[1] \in Ephemeral THEN "verified" ELSE "none"]
    /\ UNCHANGED <<active, pending, due, listing, pass, owed, tick, restarts>>

(* The ephemeral teardown gives the slot back once more.                   *)
TearsDown(x) ==
    /\ stage[x] = "verified" /\ pass[x[1]] = "idle"
    /\ stage' = [stage EXCEPT ![x] = "none"]
    /\ pass' = [pass EXCEPT ![x[1]] = "tearing"]
    /\ UNCHANGED <<active, pending, due, listing, owed, tick, restarts>>

GivesBack(r) ==
    /\ pass[r] = "tearing"
    /\ release_restore_slot(r)
    /\ pass' = [pass EXCEPT ![r] = "idle"]
    /\ UNCHANGED <<due, listing, stage, owed, tick, restarts>>

-----------------------------------------------------------------------------
(* The restore controller: each status write, and then the queue.          *)

TakesUp(x) ==
    /\ stage[x] = "created"
    /\ stage' = [stage EXCEPT ![x] = "Pending"]
    /\ UNCHANGED <<active, pending, due, listing, pass, owed, tick, restarts>>

(* cleanup_previous_jobs removes every other Job of the replica, its       *)
(* snapshot-list Job too.                                                  *)
StartsRestoring(x) ==
    /\ stage[x] = "Pending"
    /\ listing' = listing \ {x[1]}
    /\ stage' = [stage EXCEPT ![x] = "Restoring"]
    /\ owed' = [owed EXCEPT ![x] = "mark"]
    /\ UNCHANGED <<active, pending, due, pass, tick, restarts>>

MarksActive(x) ==
    /\ owed[x] = "mark"
    /\ mark_active(x[1])
    /\ owed' = [owed EXCEPT ![x] = "nothing"]
    /\ UNCHANGED <<due, listing, pass, stage, tick, restarts>>

RestoreJobSucceeds(x) ==
    /\ stage[x] = "Restoring" /\ owed[x] = "nothing"
    /\ stage' = [stage EXCEPT ![x] = "Ready"]
    /\ UNCHANGED <<active, pending, due, listing, pass, owed, tick, restarts>>

(* The restore goes on to the switchover, or it fails.                     *)
RestoreEnds(x) ==
    /\ stage[x] \in {"Restoring", "Ready"} /\ owed[x] = "nothing"
    /\ \/ stage' = [stage EXCEPT ![x] = "none"]
       \/ stage[x] = "Ready" /\ stage' = [stage EXCEPT ![x] = "Switching"]
    /\ owed' = [owed EXCEPT ![x] = "release"]
    /\ UNCHANGED <<active, pending, due, listing, pass, tick, restarts>>

ReleasesSlot(x) ==
    /\ owed[x] = "release"
    /\ release_restore_slot(x[1])
    /\ owed' = [owed EXCEPT ![x] = "nothing"]
    /\ UNCHANGED <<due, listing, pass, stage, tick, restarts>>

(* A restore deleted on its way: nobody gives its slot back.               *)
RestoreDeleted(x) ==
    /\ x[1] \in Deletable
    /\ stage[x] \in {"created", "Pending", "Restoring", "Ready"}
    /\ stage' = [stage EXCEPT ![x] = "none"]
    /\ UNCHANGED <<active, pending, due, listing, pass, owed, tick, restarts>>

-----------------------------------------------------------------------------
(* The queue tick of the operator, and its restart                         *)

(* Mutant: the live set is built from the replicas, not their restores.    *)
TickLists_Replicas ==
    /\ tick = {}
    /\ tick' = {Replicas}
    /\ UNCHANGED <<active, pending, due, listing, pass, stage, owed, restarts>>

TickLists ==
    /\ tick = {}
    /\ tick' = {{r \in Replicas : \E x \in RestoresOf(r) : stage[x] = "Restoring"}}
    /\ UNCHANGED <<active, pending, due, listing, pass, stage, owed, restarts>>

TickRetains ==
    /\ \E live \in tick : retain_active(live)
    /\ tick' = {}
    /\ UNCHANGED <<pending, due, listing, pass, stage, owed, restarts>>

OperatorRestarts ==
    /\ restarts < MaxRestarts
    /\ restarts' = restarts + 1
    /\ active' = <<>> /\ pending' = <<>>
    /\ pass' = [r \in Replicas |-> "idle"]
    /\ owed' = [x \in Restores |-> "nothing"]
    /\ tick' = {}
    /\ UNCHANGED <<due, listing, stage>>

ReplicaRuns(r) ==
    Lists(r) \/ StartsListing(r) \/ Waits(r) \/ StillListing(r) \/ GivesBack(r)

RestoreRuns(x) ==
    \/ TakesUp(x) \/ StartsRestoring(x) \/ MarksActive(x) \/ RestoreJobSucceeds(x)
    \/ RestoreEnds(x) \/ ReleasesSlot(x) \/ SwitchesOver(x) \/ TearsDown(x)

Next ==
    \/ \E r \in Replicas : BecomesDue(r) \/ ReplicaRuns(r) \/ ListingEnds(r)
    \/ \E x \in Restores : RestoreRuns(x) \/ RestoreDeleted(x)
    \/ TickLists \/ TickRetains \/ OperatorRestarts

Spec == Init /\ [][Next]_vars

(* Every replica is reconciled again and again, its snapshot-list Job ends, *)
(* a restore that can go on does, and the tick comes every minute.         *)
Fairness ==
    /\ \A r \in Replicas : WF_vars(ReplicaRuns(r)) /\ WF_vars(ListingEnds(r))
    /\ \A x \in Restores : WF_vars(RestoreRuns(x))
    /\ WF_vars(TickLists \/ TickRetains)

FairSpec == Spec /\ Fairness

-----------------------------------------------------------------------------

(* Nobody waits twice: a replica that is reconciled again and again while  *)
(* the slots are taken keeps one place, also when it is promoted, runs and *)
(* comes back (RestoreQueue::enqueue, mark_active, try_promote).           *)
WaitsOnce == IsInjective(pending)

Runs(r) == \E x \in RestoresOf(r) : stage[x] = "Restoring"

(* A slot nobody runs a restore in is given up in the end: no promotion,   *)
(* deletion, or tick that raced a restore keeps it for good                *)
(* (RestoreQueue::retain_active and the tick of operator.rs).              *)
IdleSlotsHeal ==
    \A r \in Replicas :
        Contains(active, r) /\ ~Runs(r) ~> ~Contains(active, r) \/ Runs(r)

Idle(r) == r \notin listing /\ \A x \in RestoresOf(r) : stage[x] = "none"

(* The queue never stalls the fleet: when a replica is due, some replica   *)
(* gets to start, whatever slots were leaked, promoted or lost to a restart*)
(* (the comment of the tick in operator.rs).                               *)
FleetNeverStalls ==
    (\E r \in Replicas : due[r] /\ Idle(r))
        ~> listing # {} \/ \A r \in Replicas : Idle(r) => ~due[r]

=============================================================================
