----------------------------- MODULE ReadinessWait -----------------------------
(***************************************************************************)
(* The wait for the Deployment of a restore to become ready, past its      *)
(* budget: reindex_watch.rs and the end of reconcile_ready in restore.rs.  *)
(* A reindex after a locale change holds readiness for as long as it takes *)
(* so the operator asks postgres how it is doing, and gives up on it once  *)
(* the answer has not changed for Stall.  Time passes in ticks of several  *)
(* requeue intervals; a timestamp is kept as its age.                      *)
(***************************************************************************)
EXTENDS Naturals

CONSTANTS
    Pinned,         \* spec.deploymentReadyTimeout, where it is given
    Global,         \* DEPLOYMENT_READY_TIMEOUT_SECS
    Extra,          \* what the size of the snapshot adds to it
    Observe,        \* OBSERVE_INTERVAL
    Abandon,        \* ABANDONED_AFTER
    Stall,          \* STALL_TIMEOUT
    Indexes,        \* how many indexes the reindex rebuilds
    MaxFaults       \* bound: restarts, failed asks, ticks without a pass

ASSUME WaitAssumption ==
    /\ Pinned \in Nat /\ Global \in Nat /\ Extra \in Nat
    /\ Indexes \in Nat /\ MaxFaults \in Nat
    /\ Observe \in Nat /\ Abandon \in Nat /\ Stall \in Nat
    /\ Observe < Abandon /\ Abandon < Stall

VARIABLES
    explicit,   \* spec.deploymentReadyTimeout is given
    silent,     \* postgres is 11 or older and has no progress to tell
    life,       \* where the restore is
    waited,     \* time since status.restoredAt
    pending,    \* the flag /pgdata/needs-reindex is there
    done,       \* steps of the reindex; at an odd one an index is being rebuilt
    backend,    \* the server process the reindex runs in
    idle,       \* time since the reindex last got a step further
    up,         \* the server accepts connections
    ready,      \* the Deployment has a ready replica
    watch,      \* the entry of ctx.reindex_watches
    asking,     \* a pass waits for an answer of postgres
    prev,       \* the watch it began from
    seen,       \* a pass has looked at the restore since the last tick
    faults,
    unasked,    \* ghost: an ask has failed
    still       \* ghost: how long the reindex had been still at the last answer

dbVars == <<silent, pending, done, backend, idle, up, ready>>
watchVars == <<watch, asking, prev>>
ghosts == <<unasked, still>>
vars == <<explicit, life, waited, dbVars, watchVars, seen, faults, ghosts>>

Waiting == life = "waiting"
Steps == 2 * Indexes
Null == <<>>            \* no locale reindex is pending
Blank == <<0, 0>>       \* one is, and is between two indexes
Progresses == {Null, Blank} \cup ((0..MaxFaults) \X (0..Steps))

deployment_ready_timeout == IF explicit THEN Pinned ELSE Global + Extra

NoWatch == [held |-> FALSE, progress |-> Null, observed |-> 0, changed |-> 0]
WatchType ==
    [held : BOOLEAN, progress : Progresses, observed : 0..(Abandon + 1), changed : 0..(Stall + 1)]

(* Ages stay within the bounds they are compared with.                     *)
TypeOK ==
    /\ explicit \in BOOLEAN /\ silent \in BOOLEAN
    /\ life \in {"waiting", "passed", "failed"}
    /\ waited \in 0..(deployment_ready_timeout + 1)
    /\ pending \in BOOLEAN /\ done \in 0..Steps /\ backend \in 0..MaxFaults
    /\ idle \in 0..(Stall + 1) /\ up \in BOOLEAN /\ ready \in BOOLEAN
    /\ watch \in WatchType /\ prev \in WatchType /\ asking \in BOOLEAN
    /\ seen \in BOOLEAN /\ faults \in 0..MaxFaults
    /\ unasked \in BOOLEAN /\ still \in 0..(Stall + 1)

Init ==
    /\ explicit \in BOOLEAN /\ silent \in BOOLEAN /\ pending \in BOOLEAN
    /\ life = "waiting" /\ waited = 0
    /\ done = 0 /\ backend = 0 /\ idle = 0 /\ up = FALSE /\ ready = FALSE
    /\ watch = NoWatch /\ prev = NoWatch /\ asking = FALSE
    /\ seen = FALSE /\ faults = 0 /\ unasked = FALSE /\ still = 0

Fault == faults < MaxFaults /\ faults' = faults + 1

-----------------------------------------------------------------------------
(* The database, see module PostgresPod                                    *)

OperatorFrame == UNCHANGED <<explicit, silent, life, waited, watchVars, seen, ghosts>>

ServerUp ==
    /\ Waiting /\ ~up
    /\ up' = TRUE
    /\ OperatorFrame /\ UNCHANGED <<pending, done, backend, idle, ready, faults>>

(* The next REINDEX INDEX begins, or ends.                                 *)
Move ==
    /\ Waiting /\ up /\ pending /\ done < Steps
    /\ done' = done + 1 /\ idle' = 0
    /\ OperatorFrame /\ UNCHANGED <<pending, backend, up, ready, faults>>

(* rm -f /pgdata/needs-reindex                                             *)
Finish ==
    /\ Waiting /\ up /\ pending /\ done = Steps
    /\ pending' = FALSE
    /\ OperatorFrame /\ UNCHANGED <<done, backend, idle, up, ready, faults>>

ProbePasses ==
    /\ Waiting /\ up /\ ~pending /\ ~ready
    /\ ready' = TRUE
    /\ OperatorFrame /\ UNCHANGED <<pending, done, backend, idle, up, faults>>

(* The container dies; a reindex that was pending starts over.             *)
ServerDown ==
    /\ Waiting /\ up /\ Fault
    /\ up' = FALSE /\ ready' = FALSE
    /\ done' = 0 /\ backend' = backend + 1
    /\ OperatorFrame /\ UNCHANGED <<pending, idle>>

(* _pgro.locale_reindex_progress: the counters of the index being rebuilt. *)
read_locale_reindex_progress ==
    IF ~pending \/ silent THEN Null
    ELSE IF done % 2 = 0 THEN Blank ELSE <<backend, done>>

Database == ServerUp \/ Move \/ Finish \/ ProbePasses \/ ServerDown

-----------------------------------------------------------------------------
(* reindex_watch.rs                                                        *)

(* Mutant: the stall clock starts with the watch and runs on.              *)
record_RunsOn(previous, progress) ==
    [held |-> TRUE, progress |-> progress, observed |-> 0,
     changed |-> IF previous.held THEN previous.changed ELSE 0]

(* The stall clock restarts when the progress changed.                     *)
record(previous, progress) ==
    [held |-> TRUE, progress |-> progress, observed |-> 0,
     changed |-> IF previous.held /\ previous.progress = progress THEN previous.changed ELSE 0]

(* Mutant: a failed ask restarts the stall clock.                          *)
unobserved_Restarts(previous) == [previous EXCEPT !.observed = 0, !.changed = 0]

(* A failed ask reads as no change.                                        *)
unobserved(previous) == [previous EXCEPT !.observed = 0]

needs_observation(w) == w.observed >= Observe
is_abandoned(w) == w.observed > Abandon

verdict(w) ==
    IF w.progress = Null THEN "NotReindexing"
    ELSE IF w.changed > Stall THEN "Stalled" ELSE "Wait"

-----------------------------------------------------------------------------
(* reconcile_ready, once the Deployment is applied                         *)

PassFrame == UNCHANGED <<explicit, waited, dbVars>>

(* forget_reindex_watch, and on to the next phase.                         *)
Leave(phase) == life' = phase /\ watch' = NoWatch

(* The restore goes on to be migrated or switched to.                      *)
ReadySeen ==
    /\ Waiting /\ ~asking /\ ready
    /\ Leave("passed") /\ seen' = TRUE
    /\ PassFrame /\ UNCHANGED <<asking, prev, faults, ghosts>>

WithinBudget ==
    /\ Waiting /\ ~asking /\ ~ready /\ waited <= deployment_ready_timeout
    /\ seen' = TRUE
    /\ PassFrame /\ UNCHANGED <<life, watchVars, faults, ghosts>>

PastBudget == Waiting /\ ~asking /\ ~ready /\ waited > deployment_ready_timeout

(* An explicit timeout is the last word.                                   *)
PinnedTimeout ==
    /\ PastBudget /\ explicit
    /\ Leave("failed") /\ seen' = TRUE
    /\ PassFrame /\ UNCHANGED <<asking, prev, faults, ghosts>>

(* Between two asks the last answer stands, while its clock runs on.       *)
LastAnswerStands ==
    /\ PastBudget /\ ~explicit /\ watch.held /\ ~needs_observation(watch)
    /\ IF verdict(watch) = "Wait" THEN UNCHANGED <<life, watch>> ELSE Leave("failed")
    /\ seen' = TRUE
    /\ PassFrame /\ UNCHANGED <<asking, prev, faults, ghosts>>

(* The watch is copied out of the lock before postgres is asked.           *)
Ask ==
    /\ PastBudget /\ ~explicit /\ (watch.held => needs_observation(watch))
    /\ asking' = TRUE /\ prev' = watch
    /\ PassFrame /\ UNCHANGED <<life, watch, seen, faults, ghosts>>

Conclude(w) ==
    IF verdict(w) = "Wait" THEN watch' = w /\ UNCHANGED life ELSE Leave("failed")

AskEnds == asking' = FALSE /\ prev' = NoWatch /\ seen' = TRUE /\ PassFrame

Answer ==
    /\ asking /\ up
    /\ Conclude(record(prev, read_locale_reindex_progress))
    /\ still' = idle
    /\ AskEnds /\ UNCHANGED <<faults, unasked>>

(* Before there was any answer, it reads as not reindexing.                *)
AskFails ==
    /\ asking
    /\ IF up THEN Fault ELSE UNCHANGED faults
    /\ IF prev.held THEN Conclude(unobserved(prev)) ELSE Leave("failed")
    /\ unasked' = TRUE
    /\ AskEnds /\ UNCHANGED still

(* The pass of another restore stores its watch, and drops this one when   *)
(* it is abandoned.                                                        *)
OtherStores ==
    /\ watch.held /\ is_abandoned(watch)
    /\ watch' = NoWatch
    /\ PassFrame /\ UNCHANGED <<life, asking, prev, seen, faults, ghosts>>

Reconcile ==
    \/ ReadySeen \/ WithinBudget \/ PinnedTimeout \/ LastAnswerStands
    \/ Ask \/ Answer \/ AskFails

-----------------------------------------------------------------------------
(* Time, and the operator                                                  *)

(* A clock stops where nothing is compared with anything later.            *)
Older(age, limit) == IF age > limit THEN age ELSE age + 1

Aged(w) ==
    IF w.held THEN [w EXCEPT !.observed = Older(@, Abandon), !.changed = Older(@, Stall)] ELSE w

(* A waiting restore is requeued every 10s, so that a tick without a pass  *)
(* is a fault; an ask ends within the tick.                                *)
Tick ==
    /\ ~asking
    /\ IF Waiting /\ ~seen THEN Fault ELSE UNCHANGED faults
    /\ waited' = Older(waited, deployment_ready_timeout) /\ idle' = Older(idle, Stall)
    /\ watch' = Aged(watch)
    /\ seen' = FALSE
    /\ UNCHANGED <<explicit, silent, life, pending, done, backend, up, ready, asking, prev, ghosts>>

(* Watches are kept in memory only.                                        *)
OperatorRestarts ==
    /\ Waiting /\ Fault
    /\ watch' = NoWatch /\ prev' = NoWatch /\ asking' = FALSE
    /\ PassFrame /\ UNCHANGED <<life, seen, ghosts>>

Next == Database \/ Reconcile \/ OtherStores \/ Tick \/ OperatorRestarts

Spec == Init /\ [][Next]_vars

(* Time passes and the restore is reconciled.  Nothing is asked of the     *)
(* database: it may never come up, and a reindex may wedge on an index.    *)
Fairness == WF_vars(Tick) /\ WF_vars(Reconcile)

FairSpec == Spec /\ Fairness

-----------------------------------------------------------------------------
(* What holds                                                              *)

(* A restore with a reindex pending is failed only when the reindex really *)
(* had been still for the stall timeout when postgres was last asked, give *)
(* or take the interval between two asks: whenever the passes came, and    *)
(* also when the operator or another restore dropped the watch.  Left out  *)
(* are an explicit timeout, a postgres that tells nothing, an ask that     *)
(* failed, and a reindex that two asks in a row found between two indexes  *)
(* (verdict, past_budget).                                                 *)
MovingNotFailed ==
    [][Waiting /\ life' = "failed" /\ pending /\ ~explicit /\ ~silent /\ ~unasked' =>
         \/ still' > Stall - Observe
         \/ Blank \in {watch.progress, prev.progress}]_vars

(* The wait comes to an end whatever the database does, also when the asks *)
(* stop being answered: the stall clock only runs back when the reindex    *)
(* moves (Watch::record, Watch::unobserved).                               *)
WaitEnds == <>[](~Waiting)

=============================================================================
