------------------------ MODULE ReadinessWaitProofs -------------------------
(***************************************************************************)
(* The wait for a Deployment past its budget, for any timeouts, any number *)
(* of indexes and of faults: the state stays typed, and a reindex that     *)
(* still moves is not given up.                                            *)
(***************************************************************************)
EXTENDS ReadinessWait, TLAPS

(* No more servers have been lost than faults have happened.               *)
Lost == backend <= faults

(* What a watch knows of a reindex that is at a place of its server, and   *)
(* has been there for an age: the watch has seen it at a place that it has *)
(* reached, and where it still is there the clock of the watch, which only *)
(* started when it got there, is not ahead of the age.                     *)
Follows(w, server, place, age) ==
    w.held =>
        /\ w.progress # Null
        /\ w.progress # Blank =>
             \E b \in 0..server, d \in 0..Steps :
                /\ w.progress = <<b, d>>
                /\ b = server => d <= place
                /\ b = server /\ d = place => w.changed <= age

Following == Follows(watch, backend, done, idle) /\ Follows(prev, backend, done, idle)

(* How far the clock of the watch is ahead of what the last answer said is *)
(* the time since that answer.                                             *)
Dated ==
    watch.held /\ ~unasked /\ watch.progress # Blank /\ watch.observed <= Abandon
        => watch.changed <= still + watch.observed

(* The inductive invariant.                                                *)
WaitInv == TypeOK /\ Lost /\ Following /\ Dated

-----------------------------------------------------------------------------
(* Operators                                                               *)

(* Clocks stay within their bounds and never run back.                     *)
LEMMA OlderType ==
    ASSUME NEW limit \in Nat, NEW age \in 0..(limit + 1)
    PROVE  /\ Older(age, limit) \in 0..(limit + 1)
           /\ age <= Older(age, limit)
           /\ age <= limit => Older(age, limit) = age + 1
  BY DEF Older

(* The budget is a number.                                                 *)
LEMMA BudgetType == deployment_ready_timeout \in Nat
  BY WaitAssumption DEF deployment_ready_timeout

(* A watch is a record, whichever way it was made.                         *)
LEMMA WatchTypes ==
    ASSUME NEW w \in WatchType, NEW p \in Progresses
    PROVE  /\ NoWatch \in WatchType /\ record(w, p) \in WatchType
           /\ unobserved(w) \in WatchType /\ Aged(w) \in WatchType
<1>. USE WaitAssumption DEF WatchType
<1>1. NoWatch \in WatchType
  BY DEF NoWatch, Progresses
<1>2. record(w, p) \in WatchType
  BY DEF record
<1>3. unobserved(w) \in WatchType
  BY DEF unobserved
<1>4. Aged(w) \in WatchType
  BY OlderType DEF Aged
<1>5. QED
  BY <1>1, <1>2, <1>3, <1>4

(* What postgres answers is a progress.                                    *)
LEMMA AnswerType ==
    ASSUME TypeOK
    PROVE  read_locale_reindex_progress \in Progresses
  BY DEF TypeOK, read_locale_reindex_progress, Progresses

(* Null is neither Blank nor a place of the reindex.                       *)
LEMMA NullApart == Null # Blank /\ \A b, d : <<b, d>> # Null
  BY DEF Null, Blank

-----------------------------------------------------------------------------
(* The invariant                                                           *)

(* Nothing has been waited for or asked.                                   *)
LEMMA InitWait == Init => WaitInv
<1>. SUFFICES ASSUME Init PROVE WaitInv
  OBVIOUS
<1>1. NoWatch \in WatchType /\ ~NoWatch.held
  BY WaitAssumption DEF NoWatch, WatchType, Progresses
<1>2. TypeOK
  <2>1. /\ 0 \in 0..(deployment_ready_timeout + 1) /\ 0 \in 0..Steps
        /\ 0 \in 0..(Stall + 1) /\ 0 \in 0..MaxFaults
    BY BudgetType, WaitAssumption DEF Steps
  <2>2. QED
    BY <1>1, <2>1, Zenon DEF Init, TypeOK
<1>3. Lost
  BY DEF Init, Lost
<1>4. Following /\ Dated
  BY <1>1 DEF Init, Following, Follows, Dated
<1>5. QED
  BY <1>2, <1>3, <1>4 DEF WaitInv

(* What a step may do to the watch: keep it, drop it, let it age or store  *)
(* what an ask that ended made of the one it began from.                   *)
LEMMA WatchSteps ==
    ASSUME WaitInv, Next
    PROVE  \/ watch' = watch
           \/ watch' = NoWatch
           \/ Tick /\ watch' = Aged(watch)
           \/ /\ Answer /\ watch' = record(prev, read_locale_reindex_progress)
              /\ verdict(watch') = "Wait"
           \/ AskFails /\ watch' = unobserved(prev) /\ prev.held
  BY DEF Next, Database, Reconcile, ServerUp, Move, Finish, ProbePasses, ServerDown,
     OperatorFrame, watchVars, ReadySeen, WithinBudget, PinnedTimeout, LastAnswerStands, Ask,
     Answer, AskFails, Conclude, Leave, OtherStores, Tick, OperatorRestarts

(* Every step of the database, the controller and the clock keeps the      *)
(* types.                                                                  *)
LEMMA TypeStep ==
    ASSUME WaitInv, Next
    PROVE  TypeOK' /\ Lost'
<1>. USE DEF WaitInv
<1>1. NoWatch \in WatchType /\ watch' \in WatchType /\ prev' \in WatchType
  <2>1. watch \in WatchType /\ prev \in WatchType /\ read_locale_reindex_progress \in Progresses
    BY AnswerType DEF TypeOK
  <2>2. NoWatch \in WatchType /\ watch' \in WatchType
    BY <2>1, WatchSteps, WatchTypes
  <2>3. prev' \in {prev, watch, NoWatch}
    BY DEF Next, Database, Reconcile, ServerUp, Move, Finish, ProbePasses, ServerDown,
       OperatorFrame, watchVars, ReadySeen, WithinBudget, PinnedTimeout, LastAnswerStands, Ask,
       Answer, AskFails, AskEnds, OtherStores, Tick, OperatorRestarts
  <2>4. QED
    BY <2>1, <2>2, <2>3
<1>2. /\ explicit' = explicit /\ silent' = silent
      /\ deployment_ready_timeout' = deployment_ready_timeout
  BY DEF Next, Database, Reconcile, ServerUp, Move, Finish, ProbePasses, ServerDown,
     OperatorFrame, dbVars, PassFrame, ReadySeen, WithinBudget, PinnedTimeout, LastAnswerStands,
     Ask, Answer, AskFails, AskEnds, OtherStores, Tick, OperatorRestarts, deployment_ready_timeout
<1>3. faults' \in 0..MaxFaults /\ faults <= faults'
  <2>1. faults' = faults \/ Fault
    BY DEF Next, Database, Reconcile, ServerUp, Move, Finish, ProbePasses, ServerDown, ReadySeen,
       WithinBudget, PinnedTimeout, LastAnswerStands, Ask, Answer, AskFails, OtherStores, Tick,
       OperatorRestarts
  <2>2. QED
    BY <2>1, WaitAssumption DEF Fault, TypeOK
<1>4. \/ backend' = backend
      \/ backend' = backend + 1 /\ faults' = faults + 1
  BY DEF Next, Database, Reconcile, ServerUp, Move, Finish, ProbePasses, ServerDown, Fault,
     dbVars, PassFrame, ReadySeen, WithinBudget, PinnedTimeout, LastAnswerStands, Ask, Answer,
     AskFails, AskEnds, OtherStores, Tick, OperatorRestarts
<1>5. backend' \in 0..MaxFaults /\ Lost'
  BY <1>3, <1>4, WaitAssumption DEF TypeOK, Lost
<1>6. done' \in 0..Steps
  BY WaitAssumption DEF Next, Database, Reconcile, ServerUp, Move, Finish, ProbePasses, ServerDown,
     dbVars, PassFrame, ReadySeen, WithinBudget, PinnedTimeout, LastAnswerStands, Ask, Answer,
     AskFails, AskEnds, OtherStores, Tick, OperatorRestarts, TypeOK, Steps
<1>7. waited' \in 0..(deployment_ready_timeout + 1)
  BY BudgetType, OlderType DEF Next, Database, Reconcile, ServerUp, Move, Finish, ProbePasses,
     ServerDown, OperatorFrame, PassFrame, ReadySeen, WithinBudget, PinnedTimeout,
     LastAnswerStands, Ask, Answer, AskFails, AskEnds, OtherStores, Tick, OperatorRestarts, TypeOK
<1>8. idle' \in 0..(Stall + 1) /\ still' \in 0..(Stall + 1)
  <2>1. idle' \in {idle, 0, Older(idle, Stall)} /\ still' \in {still, idle}
    BY DEF Next, Database, Reconcile, ServerUp, Move, Finish, ProbePasses, ServerDown,
       OperatorFrame, dbVars, PassFrame, ghosts, ReadySeen, WithinBudget, PinnedTimeout,
       LastAnswerStands, Ask, Answer, AskFails, AskEnds, OtherStores, Tick, OperatorRestarts
  <2>2. QED
    <3>1. Older(idle, Stall) \in 0..(Stall + 1) /\ 0 \in 0..(Stall + 1)
      BY WaitAssumption DEF Older, TypeOK
    <3>2. QED
      BY <2>1, <3>1 DEF TypeOK
<1>9. life' \in {"waiting", "passed", "failed"}
  BY DEF Next, Database, Reconcile, ServerUp, Move, Finish, ProbePasses, ServerDown,
     OperatorFrame, ReadySeen, WithinBudget, PinnedTimeout, LastAnswerStands, Ask, Answer,
     AskFails, Conclude, Leave, OtherStores, Tick, OperatorRestarts, TypeOK
<1>10. /\ pending' \in BOOLEAN /\ up' \in BOOLEAN /\ ready' \in BOOLEAN
       /\ asking' \in BOOLEAN /\ seen' \in BOOLEAN /\ unasked' \in BOOLEAN
  BY Zenon DEF Next, Database, Reconcile, ServerUp, Move, Finish, ProbePasses, ServerDown,
     OperatorFrame, watchVars, dbVars, PassFrame, ghosts, ReadySeen, WithinBudget, PinnedTimeout,
     LastAnswerStands, Ask, Answer, AskFails, AskEnds, OtherStores, Tick, OperatorRestarts, TypeOK
<1>11. QED
  BY <1>1, <1>2, <1>3, <1>5, <1>6, <1>7, <1>8, <1>9, <1>10 DEF TypeOK

(* What the database and the clock do to the reindex, as a watch sees it:  *)
(* nothing, or it gets to the next place, or its server is lost, or time   *)
(* passes.                                                                 *)
LEMMA ReindexSteps ==
    ASSUME Next
    PROVE  \/ UNCHANGED <<backend, done, idle>>
           \/ done' = done + 1 /\ UNCHANGED backend
           \/ backend' = backend + 1
           \/ Tick /\ idle' = Older(idle, Stall) /\ UNCHANGED <<backend, done>>
  BY DEF Next, Database, Reconcile, ServerUp, Move, Finish, ProbePasses, ServerDown, dbVars,
     PassFrame, ReadySeen, WithinBudget, PinnedTimeout, LastAnswerStands, Ask, Answer, AskFails,
     AskEnds, OtherStores, Tick, OperatorRestarts

(* A watch that follows the reindex goes on to: the reindex moves to a     *)
(* place the watch has not seen, or starts over in another server.         *)
LEMMA FollowsOn ==
    ASSUME NEW w \in WatchType,
           NEW server \in Nat, NEW place \in 0..Steps, NEW age \in Nat,
           NEW server2 \in Nat, NEW place2 \in 0..Steps, NEW age2 \in Nat,
           Follows(w, server, place, age),
           \/ server2 = server /\ place2 = place /\ age <= age2
           \/ server2 = server /\ place2 = place + 1
           \/ server2 = server + 1
    PROVE  Follows(w, server2, place2, age2)
  BY WaitAssumption DEF Follows, WatchType, Steps

(* And the clocks of both run on together.                                 *)
LEMMA FollowsAged ==
    ASSUME NEW w \in WatchType, NEW server \in Nat, NEW place \in 0..Steps,
           NEW age \in 0..(Stall + 1), Follows(w, server, place, age)
    PROVE  Follows(Aged(w), server, place, Older(age, Stall))
  BY WaitAssumption DEF Follows, WatchType, Steps, Aged, Older

(* What an answer makes of a watch follows the reindex: the clock starts   *)
(* over unless the answer is the one before.                               *)
LEMMA AnswerFollows ==
    ASSUME TypeOK, NEW w \in WatchType, Follows(w, backend, done, idle),
           verdict(record(w, read_locale_reindex_progress)) = "Wait"
    PROVE  Follows(record(w, read_locale_reindex_progress), backend, done, idle)
  BY WaitAssumption, NullApart DEF TypeOK, Follows, WatchType, record, verdict,
     read_locale_reindex_progress

(* Both watches go on following the reindex.                               *)
LEMMA FollowingStep ==
    ASSUME WaitInv, Next
    PROVE  Following'
<1>. USE DEF WaitInv
<1>1. /\ watch \in WatchType /\ prev \in WatchType /\ NoWatch \in WatchType
      /\ watch' \in WatchType /\ prev' \in WatchType
      /\ backend \in Nat /\ done \in 0..Steps /\ idle \in 0..(Stall + 1)
      /\ backend' \in Nat /\ done' \in 0..Steps /\ idle' \in 0..(Stall + 1)
  <2>1. TypeOK /\ TypeOK'
    BY TypeStep
  <2>2. NoWatch \in WatchType
    BY <2>1, AnswerType, WatchTypes DEF TypeOK
  <2>3. backend \in Nat /\ backend' \in Nat
    BY <2>1, WaitAssumption DEF TypeOK
  <2>4. QED
    BY <2>1, <2>2, <2>3 DEF TypeOK
<1>2. ASSUME NEW w \in WatchType, Follows(w, backend, done, idle)
      PROVE  Follows(w, backend', done', idle')
  <2>1. \/ backend' = backend /\ done' = done /\ idle <= idle'
        \/ backend' = backend /\ done' = done + 1
        \/ backend' = backend + 1
    BY <1>1, WaitAssumption, ReindexSteps DEF Older
  <2>2. idle \in Nat /\ idle' \in Nat
    BY <1>1, WaitAssumption
  <2>3. QED
    BY <1>1, <1>2, <2>1, <2>2, FollowsOn
<1>3. \A s, p, a : Follows(NoWatch, s, p, a)
  BY DEF Follows, NoWatch
<1>4. Follows(watch', backend', done', idle')
  <2>1. CASE watch' \in {watch, NoWatch}
    BY <1>1, <1>2, <1>3, <2>1 DEF Following
  <2>2. CASE Tick /\ watch' = Aged(watch)
    <3>1. backend' = backend /\ done' = done /\ idle' = Older(idle, Stall)
      BY <2>2 DEF Tick
    <3>2. QED
      BY <1>1, <2>2, <3>1, FollowsAged DEF Following
  <2>3. CASE /\ Answer /\ watch' = record(prev, read_locale_reindex_progress)
             /\ verdict(watch') = "Wait"
    <3>1. UNCHANGED <<backend, done, idle>>
      BY <2>3 DEF Answer, AskEnds, PassFrame, dbVars
    <3>2. QED
      BY <1>1, <2>3, <3>1, AnswerFollows DEF Following
  <2>4. CASE AskFails /\ watch' = unobserved(prev)
    <3>1. watch'.held = prev.held /\ watch'.progress = prev.progress /\ watch'.changed = prev.changed
      BY <1>1, <2>4 DEF unobserved, WatchType
    <3>2. Follows(prev, backend', done', idle')
      BY <1>1, <1>2 DEF Following
    <3>3. QED
      BY <3>1, <3>2 DEF Follows
  <2>5. QED
    BY <2>1, <2>2, <2>3, <2>4, WatchSteps
<1>5. Follows(prev', backend', done', idle')
  <2>1. prev' \in {prev, watch, NoWatch}
    BY DEF Next, Database, Reconcile, ServerUp, Move, Finish, ProbePasses, ServerDown,
       OperatorFrame, watchVars, ReadySeen, WithinBudget, PinnedTimeout, LastAnswerStands, Ask,
       Answer, AskFails, AskEnds, OtherStores, Tick, OperatorRestarts
  <2>2. QED
    BY <1>1, <1>2, <1>3, <2>1 DEF Following
<1>6. QED
  BY <1>4, <1>5 DEF Following

(* The answer a watch was made from stays dated: what changes the watch    *)
(* without an answer ages it by as much as its clock, drops it, or is an   *)
(* ask that failed.                                                        *)
LEMMA DatedStep ==
    ASSUME WaitInv, Next
    PROVE  Dated'
<1>. USE DEF WaitInv
<1>1. /\ watch \in WatchType /\ prev \in WatchType
      /\ backend \in Nat /\ done \in 0..Steps /\ idle \in 0..(Stall + 1)
      /\ still \in 0..(Stall + 1)
  BY DEF TypeOK
<1>2. CASE Answer /\ watch' = record(prev, read_locale_reindex_progress)
  <2>. DEFINE p == read_locale_reindex_progress
  <2>1. still' = idle
    BY <1>2 DEF Answer
  <2>2. CASE prev.held /\ prev.progress = p /\ p # Blank
    <3>1. p = <<backend, done>>
      BY <2>2 DEF read_locale_reindex_progress, Following, Follows
    <3>2. prev.changed <= idle
      BY <1>1, <2>2, <3>1 DEF Following, Follows
    <3>3. watch'.changed = prev.changed /\ watch'.observed = 0
      BY <1>2, <2>2 DEF record
    <3>4. QED
      BY <1>1, <2>1, <3>2, <3>3 DEF Dated
  <2>3. CASE ~(prev.held /\ prev.progress = p) \/ p = Blank
    <3>1. (watch'.changed = 0 \/ watch'.progress = Blank) /\ watch'.observed = 0
      BY <1>2, <2>3 DEF record
    <3>2. QED
      BY <1>1, <2>1, <3>1, WaitAssumption DEF Dated
  <2>4. QED
    BY <2>2, <2>3
<1>3. CASE AskFails
  BY <1>3 DEF AskFails, Dated
<1>4. CASE watch' = NoWatch
  BY <1>4 DEF NoWatch, Dated
<1>5. CASE Tick /\ watch' = Aged(watch)
  <2>1. UNCHANGED <<unasked, still>>
    BY <1>5 DEF Tick, ghosts
  <2>2. QED
    BY <1>1, <1>5, <2>1, WaitAssumption DEF Dated, Aged, Older, WatchType
<1>6. CASE watch' = watch /\ ~Answer /\ ~AskFails
  <2>1. UNCHANGED <<unasked, still>>
    BY <1>6 DEF Next, Database, Reconcile, ServerUp, Move, Finish, ProbePasses, ServerDown,
       OperatorFrame, ghosts, ReadySeen, WithinBudget, PinnedTimeout, LastAnswerStands, Ask,
       OtherStores, Tick, OperatorRestarts
  <2>2. QED
    BY <1>6, <2>1 DEF Dated
<1>7. Answer => watch' \in {NoWatch, record(prev, read_locale_reindex_progress)}
  BY DEF Answer, Conclude, Leave
<1>8. QED
  BY <1>2, <1>3, <1>4, <1>5, <1>6, <1>7, WatchSteps

(* The inductive invariant holds of every reachable state.                 *)
THEOREM WaitInvariance == Spec => []WaitInv
<1>1. WaitInv /\ UNCHANGED vars => WaitInv'
  BY DEF WaitInv, TypeOK, Lost, Following, Follows, Dated, vars, dbVars, watchVars, ghosts,
     deployment_ready_timeout
<1>2. WaitInv /\ Next => WaitInv'
  BY TypeStep, FollowingStep, DatedStep DEF WaitInv
<1>3. QED
  BY <1>1, <1>2, InitWait, PTL DEF Spec

(* The ages stay within the bounds they are compared with, and a watch     *)
(* only ever holds a progress postgres can have told.                      *)
THEOREM TypeCorrect == Spec => []TypeOK
  BY WaitInvariance, PTL DEF WaitInv

(* A reindex that still moves is not given up, for any timeouts, any number*)
(* of indexes, and whatever watches are lost to restarts and to other      *)
(* restores (verdict, past_budget, Watch::record).                         *)
THEOREM MovingIsNotFailed == Spec => MovingNotFailed
<1>. DEFINE Good == Waiting /\ life' = "failed" /\ pending /\ ~explicit /\ ~silent /\ ~unasked' =>
                      \/ still' > Stall - Observe
                      \/ Blank \in {watch.progress, prev.progress}
<1>1. ASSUME WaitInv, Next PROVE Good
  <2>. USE DEF WaitInv
  <2>1. SUFFICES ASSUME Waiting, life' = "failed", pending, ~explicit, ~silent, ~unasked',
                        watch.progress # Blank, prev.progress # Blank
                 PROVE  still' > Stall - Observe
    OBVIOUS
  <2>2. LastAnswerStands \/ Answer
    BY <1>1, <2>1 DEF Next, Database, Reconcile, ServerUp, Move, Finish, ProbePasses, ServerDown,
       OperatorFrame, ReadySeen, Leave, WithinBudget, PinnedTimeout, Ask, AskFails, OtherStores,
       Tick, OperatorRestarts, Waiting
  <2>3. /\ watch \in WatchType /\ prev \in WatchType
        /\ backend \in Nat /\ done \in 0..Steps /\ idle \in 0..(Stall + 1)
        /\ still \in 0..(Stall + 1)
    BY <1>1 DEF TypeOK
  <2>4. CASE LastAnswerStands
    <3>1. /\ watch.held /\ ~(watch.observed >= Observe) /\ verdict(watch) # "Wait"
          /\ still' = still /\ ~unasked
      BY <2>1, <2>4 DEF LastAnswerStands, needs_observation, ghosts, Waiting
    <3>2. watch.changed > Stall
      BY <1>1, <3>1 DEF verdict, Following, Follows
    <3>3. watch.changed <= still + watch.observed
      BY <1>1, <2>1, <2>3, <3>1, WaitAssumption DEF Dated, WatchType
    <3>4. QED
      BY <2>3, <3>1, <3>2, <3>3, WaitAssumption DEF WatchType
  <2>5. CASE Answer
    <3>. DEFINE p == read_locale_reindex_progress
    <3>1. verdict(record(prev, p)) # "Wait" /\ still' = idle
      BY <2>1, <2>5 DEF Answer, Conclude, Waiting
    <3>2. p \in {Blank, <<backend, done>>} /\ p # Null
      BY <2>1, NullApart DEF read_locale_reindex_progress
    <3>3. prev.held /\ prev.progress = p /\ prev.changed > Stall
      BY <3>1, <3>2, WaitAssumption DEF verdict, record
    <3>4. prev.changed <= idle
      BY <1>1, <2>1, <2>3, <3>2, <3>3 DEF Following, Follows
    <3>5. QED
      BY <2>3, <3>1, <3>3, <3>4, WaitAssumption DEF WatchType
  <2>6. QED
    BY <2>2, <2>4, <2>5
<1>2. WaitInv /\ [Next]_vars => [Good]_vars
  BY <1>1
<1>3. QED
  BY <1>2, WaitInvariance, PTL DEF Spec, MovingNotFailed

=============================================================================
