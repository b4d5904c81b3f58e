------------------------- MODULE RestoreQueueProofs -------------------------
(***************************************************************************)
(* The restore queue, for any number of replicas, slots and restarts: what *)
(* Vec::retain leaves, that the state stays typed and nobody waits twice.  *)
(***************************************************************************)
EXTENDS RestoreQueue, TLAPS, FiniteSetTheorems, WellFoundedInduction

-----------------------------------------------------------------------------
(* What retain() leaves                                                    *)

(* The entries kept up to a place are finitely many, and none at place 0.  *)
LEMMA KeptCount ==
    ASSUME NEW q, NEW Keep, NEW i \in Nat
    PROVE  /\ IsFiniteSet(KeptUpTo(q, Keep, i))
           /\ Cardinality(KeptUpTo(q, Keep, i)) \in Nat
           /\ Cardinality(KeptUpTo(q, Keep, 0)) = 0
<1>1. IsFiniteSet(1..i) /\ KeptUpTo(q, Keep, i) \in SUBSET (1..i)
  BY FS_Interval DEF KeptUpTo
<1>2. IsFiniteSet(KeptUpTo(q, Keep, i))
  BY <1>1, FS_Subset
<1>3. KeptUpTo(q, Keep, 0) = {}
  BY DEF KeptUpTo
<1>4. QED
  BY <1>2, <1>3, FS_CardinalityType, FS_EmptySet

(* One place further there is one more of them exactly when the entry      *)
(* there is kept.                                                          *)
LEMMA KeptGrows ==
    ASSUME NEW q, NEW Keep, NEW i \in Nat, NEW k \in Nat, k = i + 1
    PROVE  Cardinality(KeptUpTo(q, Keep, k)) =
             IF q[k] \in Keep THEN Cardinality(KeptUpTo(q, Keep, i)) + 1
                              ELSE Cardinality(KeptUpTo(q, Keep, i))
<1>1. CASE q[k] \in Keep
  <2>1. KeptUpTo(q, Keep, k) = KeptUpTo(q, Keep, i) \cup {k}
    BY <1>1 DEF KeptUpTo
  <2>2. k \notin KeptUpTo(q, Keep, i)
    BY DEF KeptUpTo
  <2>3. QED
    BY <1>1, <2>1, <2>2, KeptCount, FS_AddElement
<1>2. CASE q[k] \notin Keep
  <2>1. KeptUpTo(q, Keep, k) = KeptUpTo(q, Keep, i)
    BY <1>2 DEF KeptUpTo
  <2>2. QED
    BY <1>2, <2>1
<1>3. QED
  BY <1>1, <1>2

(* Every place of what is left has its entry: the first place up to which  *)
(* n entries are kept holds the n-th.                                      *)
LEMMA NthKept ==
    ASSUME NEW q, NEW Keep, Len(q) \in Nat,
           NEW n \in 1..Cardinality(KeptUpTo(q, Keep, Len(q)))
    PROVE  \E i \in 1..Len(q) : q[i] \in Keep /\ Cardinality(KeptUpTo(q, Keep, i)) = n
<1>. DEFINE Rank(i) == Cardinality(KeptUpTo(q, Keep, i))
            Far == {i \in 0..Len(q) : n <= Rank(i)}
            Less == {p \in Nat \X Nat : p[1] < p[2]}
<1>1. Rank(0) = 0 /\ \A i \in Nat : Rank(i) \in Nat
  BY KeptCount
<1>2. n \in Nat /\ n <= Rank(Len(q)) /\ 1 <= n
  BY <1>1
<1>. HIDE DEF Rank
<1>3. Far \in SUBSET Nat /\ Far # {}
  <2>1. Len(q) \in Far
    BY <1>2
  <2>2. QED
    BY <2>1
<1>4. IsWellFoundedOn(Less, Nat)
  BY NatLessThanWellFounded, Zenon DEF OpToRel
<1>5. \A a, b \in Nat : <<a, b>> \in Less <=> a < b
  OBVIOUS
<1>. HIDE DEF Less
<1>6. PICK x \in Far : \A y \in Far : ~(<<y, x>> \in Less)
  <2>. HIDE DEF Far
  <2>1. QED
    BY <1>3, <1>4, WFMin
<1>7. x \in 1..Len(q)
  BY <1>1, <1>2
<1>8. ~(n <= Rank(x - 1))
  <2>1. x - 1 \in Nat /\ x \in Nat /\ x - 1 < x /\ x - 1 \in 0..Len(q)
    BY <1>7
  <2>2. <<x - 1, x>> \in Less
    BY <1>5, <2>1
  <2>3. QED
    BY <1>6, <2>1, <2>2
<1>9. Rank(x) = IF q[x] \in Keep THEN Rank(x - 1) + 1 ELSE Rank(x - 1)
  <2>1. x - 1 \in Nat /\ x \in Nat /\ x = (x - 1) + 1
    BY <1>7
  <2>2. QED
    BY <2>1, KeptGrows DEF Rank
<1>10. n <= Rank(x)
  OBVIOUS
<1>11. q[x] \in Keep /\ Rank(x) = n
  BY <1>1, <1>2, <1>7, <1>8, <1>9, <1>10
<1>12. QED
  BY <1>7, <1>11 DEF Rank

(* What is left is a queue of replicas, each of its entries was in the     *)
(* queue and is to be kept, and nobody is in it twice who was not before.  *)
LEMMA RetainKeeps ==
    ASSUME NEW q \in Seq(Replicas), NEW Keep
    PROVE  /\ retain(q, Keep) \in Seq(Replicas)
           /\ \A r : Contains(retain(q, Keep), r) => Contains(q, r) /\ r \in Keep
           /\ IsInjective(q) => IsInjective(retain(q, Keep))
<1>. DEFINE N == Cardinality(KeptUpTo(q, Keep, Len(q)))
            Nth(n) == CHOOSE i \in 1..Len(q) :
                        q[i] \in Keep /\ Cardinality(KeptUpTo(q, Keep, i)) = n
            t == retain(q, Keep)
<1>1. Len(q) \in Nat /\ \A i \in 1..Len(q) : q[i] \in Replicas
  OBVIOUS
<1>2. N \in Nat
  BY <1>1, KeptCount
<1>3. \A n \in 1..N : /\ Nth(n) \in 1..Len(q)
                      /\ q[Nth(n)] \in Keep
                      /\ Cardinality(KeptUpTo(q, Keep, Nth(n))) = n
  BY <1>1, NthKept
<1>4. t = [n \in 1..N |-> q[Nth(n)]]
  BY DEF retain
<1>. HIDE DEF N, Nth, t
<1>5. t \in [1..N -> Replicas]
  BY <1>1, <1>3, <1>4
<1>6. t \in Seq(Replicas) /\ Len(t) = N
  BY <1>2, <1>5
<1>7. \A r : Contains(t, r) => Contains(q, r) /\ r \in Keep
  BY <1>3, <1>4, <1>6 DEF Contains
<1>8. IsInjective(q) => IsInjective(t)
  <2>1. SUFFICES ASSUME IsInjective(q), NEW m \in 1..N, NEW n \in 1..N, m # n
                 PROVE  t[m] # t[n]
    BY <1>6 DEF IsInjective
  <2>2. Nth(m) # Nth(n)
    BY <1>3, <2>1
  <2>3. QED
    BY <1>3, <1>4, <2>1, <2>2 DEF IsInjective
<1>9. QED
  BY <1>6, <1>7, <1>8 DEF t

-----------------------------------------------------------------------------
(* The queue                                                               *)

QueueInv == TypeOK /\ WaitsOnce

(* A step leaves the wait list as it is, or drops or promotes replicas of  *)
(* it, or is the one of a replica that begins to wait.                     *)
Dwindles ==
    /\ active' \in Seq(Replicas) /\ pending' \in Seq(Replicas)
    /\ WaitsOnce => WaitsOnce'
    /\ \A r : Contains(pending', r) => Contains(pending, r)

(* The head of a wait list can be promoted, the rest goes on waiting.      *)
LEMMA TailWaits ==
    ASSUME NEW p \in Seq(Replicas), p # <<>>
    PROVE  /\ Head(p) \in Replicas /\ Tail(p) \in Seq(Replicas)
           /\ \A r : Contains(Tail(p), r) => Contains(p, r)
           /\ IsInjective(p) => IsInjective(Tail(p))
<1>1. /\ Head(p) \in Replicas /\ Tail(p) \in Seq(Replicas)
      /\ Len(Tail(p)) = Len(p) - 1 /\ Len(p) \in Nat /\ Len(p) # 0
      /\ \A i \in 1..Len(Tail(p)) : Tail(p)[i] = p[i + 1]
  OBVIOUS
<1>2. \A r : Contains(Tail(p), r) => Contains(p, r)
  BY <1>1 DEF Contains
<1>3. IsInjective(p) => IsInjective(Tail(p))
  BY <1>1 DEF IsInjective
<1>4. QED
  BY <1>1, <1>2, <1>3

(* Beginning to wait puts a replica at the end, unless it waits already.   *)
LEMMA EnqueueWaits ==
    ASSUME NEW p \in Seq(Replicas), NEW r \in Replicas
    PROVE  /\ enqueue(p, r) \in Seq(Replicas)
           /\ \A k : Contains(enqueue(p, r), k) => Contains(p, k) \/ k = r
           /\ IsInjective(p) => IsInjective(enqueue(p, r))
<1>1. CASE Contains(p, r)
  BY <1>1 DEF enqueue
<1>2. CASE ~Contains(p, r)
  <2>1. enqueue(p, r) = Append(p, r)
    BY <1>2 DEF enqueue
  <2>2. /\ Append(p, r) \in Seq(Replicas)
        /\ Len(Append(p, r)) = Len(p) + 1 /\ Len(p) \in Nat
        /\ \A i \in 1..Len(p) : Append(p, r)[i] = p[i]
        /\ Append(p, r)[Len(p) + 1] = r
    OBVIOUS
  <2>3. \A k : Contains(Append(p, r), k) => Contains(p, k) \/ k = r
    BY <2>2 DEF Contains
  <2>4. IsInjective(p) => IsInjective(Append(p, r))
    BY <1>2, <2>2 DEF Contains, IsInjective
  <2>5. QED
    BY <2>1, <2>2, <2>3, <2>4
<1>3. QED
  BY <1>1, <1>2

(* A restore that takes its slot: its replica is gone from the wait list.  *)
LEMMA MarkRemoves ==
    ASSUME TypeOK, NEW r \in Replicas, mark_active(r)
    PROVE  Dwindles /\ ~Contains(pending', r)
<1>1. active \in Seq(Replicas) /\ pending \in Seq(Replicas)
  BY DEF TypeOK
<1>2. active' \in Seq(Replicas)
  BY <1>1 DEF mark_active
<1>3. pending' = retain(pending, Replicas \ {r})
  BY DEF mark_active, without
<1>4. QED
  BY <1>1, <1>2, <1>3, RetainKeeps DEF Dwindles, WaitsOnce

(* A slot given back: the replica waits no more, and another may be        *)
(* promoted from the head of the wait list.                                *)
LEMMA ReleasePromotes ==
    ASSUME TypeOK, NEW r \in Replicas, release_restore_slot(r)
    PROVE  Dwindles
<1>. DEFINE a == without(active, r)
            p == without(pending, r)
<1>1. active \in Seq(Replicas) /\ pending \in Seq(Replicas)
  BY DEF TypeOK
<1>2. /\ a \in Seq(Replicas) /\ p \in Seq(Replicas)
      /\ \A k : Contains(p, k) => Contains(pending, k)
      /\ WaitsOnce => IsInjective(p)
  BY <1>1, RetainKeeps DEF without, WaitsOnce
<1>3. \/ active' = a /\ pending' = p
      \/ p # <<>> /\ active' = Append(a, Head(p)) /\ pending' = Tail(p)
  BY DEF release_restore_slot
<1>. HIDE DEF a, p
<1>4. CASE active' = a /\ pending' = p
  BY <1>2, <1>4 DEF Dwindles, WaitsOnce
<1>5. CASE p # <<>> /\ active' = Append(a, Head(p)) /\ pending' = Tail(p)
  <2>1. /\ Head(p) \in Replicas /\ Tail(p) \in Seq(Replicas)
        /\ \A k : Contains(Tail(p), k) => Contains(p, k)
        /\ IsInjective(p) => IsInjective(Tail(p))
    BY <1>2, <1>5, TailWaits
  <2>2. Append(a, Head(p)) \in Seq(Replicas)
    BY <1>2, <2>1
  <2>3. QED
    BY <1>2, <1>5, <2>1, <2>2 DEF Dwindles, WaitsOnce
<1>6. QED
  BY <1>3, <1>4, <1>5

(* The queue starts empty.                                                 *)
LEMMA InitQueue == Init => QueueInv
<1>. SUFFICES ASSUME Init PROVE QueueInv
  OBVIOUS
<1>1. Cardinality({}) = 0
  BY FS_EmptySet
<1>2. <<>> \in Seq(Replicas)
  OBVIOUS
<1>3. TypeOK
  BY <1>1, <1>2, QueueAssumption DEF Init, TypeOK, Stages, Passes
<1>4. WaitsOnce
  BY DEF Init, WaitsOnce, IsInjective
<1>5. QED
  BY <1>3, <1>4 DEF QueueInv

(* Every step keeps the types, and lets nobody wait twice.                 *)
LEMMA QueueStep ==
    ASSUME QueueInv, Next
    PROVE  QueueInv'
<1>. USE DEF QueueInv
<1>a. \A x \in Restores : x[1] \in Replicas
  BY QueueAssumption DEF Restores
<1>0. Dwindles \/ \E r \in Replicas : Waits(r)
  <2>1. UNCHANGED <<active, pending>> => Dwindles
    BY DEF TypeOK, Dwindles, WaitsOnce, Contains, IsInjective
  <2>2. ASSUME NEW x \in Restores, MarksActive(x) PROVE Dwindles
    BY <1>a, <2>2, MarkRemoves DEF MarksActive
  <2>3. ASSUME NEW x \in Restores, ReleasesSlot(x) PROVE Dwindles
    BY <1>a, <2>3, ReleasePromotes DEF ReleasesSlot
  <2>4. ASSUME NEW r \in Replicas, GivesBack(r) PROVE Dwindles
    BY <2>4, ReleasePromotes DEF GivesBack
  <2>5. ASSUME NEW live \in tick, retain_active(live), UNCHANGED pending PROVE Dwindles
    <3>1. active \in Seq(Replicas) /\ pending \in Seq(Replicas) /\ active' = retain(active, live)
      BY <2>5 DEF TypeOK, retain_active
    <3>2. active' \in Seq(Replicas)
      BY <3>1, RetainKeeps
    <3>3. QED
      BY <2>5, <3>1, <3>2 DEF Dwindles, WaitsOnce
  <2>6. ASSUME active' = <<>>, pending' = <<>> PROVE Dwindles
    BY <2>6 DEF Dwindles, WaitsOnce, IsInjective, Contains
  <2>7. QED
    BY <2>1, <2>2, <2>3, <2>4, <2>5, <2>6 DEF Next, ReplicaRuns, RestoreRuns, Lists,
       StartsListing, StillListing, BecomesDue, ListingEnds, TakesUp, StartsRestoring,
       RestoreJobSucceeds, RestoreEnds, SwitchesOver, TearsDown, RestoreDeleted,
       TickLists, TickRetains, OperatorRestarts
<1>1. TypeOK'
  <2>1. active' \in Seq(Replicas) /\ pending' \in Seq(Replicas)
    BY <1>0, EnqueueWaits DEF Dwindles, Waits, TypeOK
  <2>2. due' \in [Replicas -> BOOLEAN]
    BY Zenon DEF TypeOK, Next, ReplicaRuns, RestoreRuns, Lists, StartsListing, Waits, StillListing,
       GivesBack, BecomesDue, ListingEnds, TakesUp, StartsRestoring, MarksActive,
       RestoreJobSucceeds, RestoreEnds, ReleasesSlot, SwitchesOver, TearsDown, RestoreDeleted,
       TickLists, TickRetains, OperatorRestarts
  <2>3. restarts' \in 0..MaxRestarts
    BY QueueAssumption DEF TypeOK, Next, ReplicaRuns, RestoreRuns, Lists, StartsListing, Waits, StillListing,
       GivesBack, BecomesDue, ListingEnds, TakesUp, StartsRestoring, MarksActive,
       RestoreJobSucceeds, RestoreEnds, ReleasesSlot, SwitchesOver, TearsDown, RestoreDeleted,
       TickLists, TickRetains, OperatorRestarts
  <2>4. listing' \subseteq Replicas /\ pass' \in [Replicas -> Passes]
    BY DEF TypeOK, Passes, Next, ReplicaRuns, RestoreRuns, Lists, StartsListing, Waits, StillListing,
       GivesBack, BecomesDue, ListingEnds, TakesUp, StartsRestoring, MarksActive,
       RestoreJobSucceeds, RestoreEnds, ReleasesSlot, SwitchesOver, TearsDown, RestoreDeleted,
       TickLists, TickRetains, OperatorRestarts
  <2>5. stage' \in [Restores -> Stages]
    BY DEF TypeOK, Stages, Next, ReplicaRuns, RestoreRuns, Lists, StartsListing, Waits, StillListing,
       GivesBack, BecomesDue, ListingEnds, TakesUp, StartsRestoring, MarksActive,
       RestoreJobSucceeds, RestoreEnds, ReleasesSlot, SwitchesOver, TearsDown, RestoreDeleted,
       TickLists, TickRetains, OperatorRestarts
  <2>6. owed' \in [Restores -> {"nothing", "mark", "release"}]
    BY DEF TypeOK, Next, ReplicaRuns, RestoreRuns, Lists, StartsListing, Waits, StillListing,
       GivesBack, BecomesDue, ListingEnds, TakesUp, StartsRestoring, MarksActive,
       RestoreJobSucceeds, RestoreEnds, ReleasesSlot, SwitchesOver, TearsDown, RestoreDeleted,
       TickLists, TickRetains, OperatorRestarts
  <2>7. tick' \in SUBSET (SUBSET Replicas) /\ Cardinality(tick') <= 1
    <3>. DEFINE L == {r \in Replicas : \E x \in RestoresOf(r) : stage[x] = "Restoring"}
    <3>1. tick' = tick \/ tick' = {} \/ tick' = {L}
      BY DEF Next, ReplicaRuns, RestoreRuns, Lists, StartsListing, Waits, StillListing,
       GivesBack, BecomesDue, ListingEnds, TakesUp, StartsRestoring, MarksActive,
       RestoreJobSucceeds, RestoreEnds, ReleasesSlot, SwitchesOver, TearsDown, RestoreDeleted,
       TickLists, TickRetains, OperatorRestarts
    <3>2. Cardinality({}) = 0 /\ \A x : Cardinality({x}) = 1
      BY FS_EmptySet, FS_Singleton
    <3>3. L \in SUBSET Replicas
      OBVIOUS
    <3>. HIDE DEF L
    <3>4. CASE tick' = tick
      BY <3>4 DEF TypeOK
    <3>5. CASE tick' = {}
      BY <3>2, <3>5
    <3>6. CASE tick' = {L}
      <4>1. Cardinality({L}) = 1
        BY <3>2
      <4>2. QED
        BY <3>3, <3>6, <4>1
    <3>7. QED
      BY <3>1, <3>4, <3>5, <3>6
  <2>8. QED
    BY <2>1, <2>2, <2>3, <2>4, <2>5, <2>6, <2>7 DEF TypeOK
<1>2. WaitsOnce'
  BY <1>0, EnqueueWaits DEF Dwindles, Waits, WaitsOnce, TypeOK
<1>3. QED
  BY <1>1, <1>2

(* The queue keeps its invariant, whatever the interleaving of the two     *)
(* controllers, the tick and the restarts.                                 *)
THEOREM QueueInvariance == Spec => []QueueInv
<1>1. QueueInv /\ UNCHANGED vars => QueueInv'
  BY DEF QueueInv, TypeOK, WaitsOnce, vars, Contains, IsInjective
<1>2. QED
  BY <1>1, InitQueue, QueueStep, PTL DEF Spec

(* The slots and the wait list only ever hold replicas of the cluster, by  *)
(* namespace and name, and every restore owes the queue at most one update *)
(* (ReplicaKey, RestoreQueue).                                             *)
THEOREM TypeCorrect == Spec => []TypeOK
  BY QueueInvariance, PTL DEF QueueInv

(* Nobody waits twice, so that the wait list never outgrows the fleet      *)
(* (RestoreQueue::enqueue, try_promote).                                   *)
THEOREM NobodyWaitsTwice == Spec => []WaitsOnce
  BY QueueInvariance, PTL DEF QueueInv

=============================================================================
