------------------------- MODULE ToolSchedulerProofs -------------------------
(***************************************************************************)
(* Theorems about the tool-call scheduler, for any number of calls, any    *)
(* bound of the pool and any number of changes of class.                   *)
(***************************************************************************)
EXTENDS ToolScheduler, SequenceTheorems, FiniteSetTheorems, TLAPS

Event == [type : {"call", "result"}, call : Calls, cites : Nat]

\* Between groups nothing is in flight and nothing waits to be committed.
Resting == {"classify", "skip", "skipResult", "returned"}
Preparing == IF pc = "prepare" THEN {started} ELSE {}

\* What was started and not committed is prepared, runs, or waits in a slot;
\* the next result in model order waits only while its body is in the pool.
ProgressInv ==
  /\ committed <= started
  /\ pc \in Resting \cup {"open"} =>
       committed = started /\ InFlight = {} /\ slots = {} /\ ~failure
  /\ pc = "open" => started < last
  /\ pc = "skipResult" => started < N
  /\ pc = "returned" => started = N
  /\ pc = "prepare" => committed < started /\ started \notin slots \cup InFlight
  /\ slots \cup Running \subseteq committed + 1 .. started
  /\ InFlight \subseteq 1 .. started
  /\ Running \cap slots = {}
  /\ ~failure => committed + 1 .. started \subseteq slots \cup Running \cup Preparing
  /\ pc \in {"prepare", "refill", "race"} /\ committed + 1 \in slots => committed + 1 \in InFlight
  /\ pc \in {"recover", "closed"} => Running = {}

\* An exclusive call that runs is the last of its group and the only one in it.
ExclusiveInv ==
  /\ exclusives \subseteq 1 .. started
  /\ \A i \in exclusives \cap InFlight : InFlight = {i} /\ last = i /\ started = i
  /\ pc = "prepare" /\ started \in exclusives => InFlight = {} /\ last = started
  /\ pc = "open" /\ ~parallel[started + 1] => last = started + 1

RoomInv ==
  /\ IsFiniteSet(InFlight) /\ Cardinality(InFlight) <= MaxParallel
  /\ pc = "prepare" => Cardinality(InFlight) < MaxParallel

\* What the log shows of the calls that were started and committed.
LogInv ==
  /\ \A k \in DOMAIN log : log[k].type = "call" => log[k].cites = 0
  /\ pc = "skipResult" => log # <<>> /\ log[Len(log)] = CallEvent(started + 1)
  /\ \A i \in slots \cup Running \cup Preparing :
       callSeqs[i] \in DOMAIN log /\ log[callSeqs[i]] = CallEvent(i)
  /\ pc \notin {"drain", "recover", "closed"} => Answered = 1 .. committed
  /\ pc \notin {"recover", "closed"} =>
       \A k \in DOMAIN log : log[k].type = "result" => log[k].cites # 0

LogParts == LogInv /\ CitesItsCall /\ EveryCallAnsweredInOrder
SchedulerInv ==
  TypeOK /\ ProgressInv /\ ExclusiveInv /\ RoomInv /\ LogParts

-----------------------------------------------------------------------------
(* Types.                                                                  *)

\* The types, in parts.
PlaceOK == pc \in Synchronous \cup Suspended \cup Stopped /\ mode \in {"parallel", "exclusive"}
CountOK == last \in 0 .. N /\ started \in 0 .. N /\ committed \in 0 .. N /\ changes \in Nat
FlagOK == aborted \in BOOLEAN /\ signal \in BOOLEAN /\ failure \in BOOLEAN
PoolOK ==
  /\ flight \in [Calls -> {"none", "running", "settled"}]
  /\ slots \subseteq Calls /\ exclusives \subseteq Calls
  /\ parallel \in [Calls -> BOOLEAN]
RecordOK == log \in Seq(Event) /\ callSeqs \in [Calls -> Nat]
Parts == PlaceOK /\ CountOK /\ FlagOK /\ PoolOK /\ RecordOK

LEMMA TypeParts == (TypeOK <=> Parts) /\ (TypeOK' <=> Parts')
BY Zenon DEF TypeOK, Parts, PlaceOK, CountOK, FlagOK, PoolOK, RecordOK, Event

\* The two outcomes of fillPool's head: a call starts, or the group waits or ends.
Starts ==
  /\ ~failure /\ ~signal /\ ~aborted' /\ started < last /\ HasRoom /\ MayStart(started + 1)
  /\ log' = Append(log, CallEvent(started + 1))
  /\ callSeqs' = [callSeqs EXCEPT ![started + 1] = Len(log) + 1]
  /\ started' = started + 1
  /\ exclusives' \in {exclusives, exclusives \cup {started + 1}}
  /\ exclusives' # exclusives => ~parallel[started + 1]
  /\ pc' = "prepare"
Leaves ==
  /\ UNCHANGED <<started, callSeqs, log, exclusives>>
  /\ \/ pc' = "drain" /\ failure
     \/ pc' = "race" /\ ~failure
     \/ pc' \in {"skip", "classify"} /\ ~failure /\ InFlight = {}
RefillKeeps == UNCHANGED <<mode, last, committed, flight, slots, failure, signal, parallel, changes>>

LEMMA RefillCases ==
  Refill => pc \in {"open", "refill"} /\ RefillKeeps /\ (Starts \/ Leaves)
<1> SUFFICES ASSUME Refill PROVE pc \in {"open", "refill"} /\ RefillKeeps /\ (Starts \/ Leaves)
  OBVIOUS
<1>1. pc \in {"open", "refill"} /\ RefillKeeps
  BY DEF Refill, RefillKeeps, groupVars, worldVars
<1>2. ASSUME failure PROVE Leaves
  BY <1>2, Zenon DEF Refill, Leaves
<1>3. ASSUME ~failure, ~(~aborted' /\ started < last /\ HasRoom /\ MayStart(started + 1))
      PROVE  Leaves
  <2>1. /\ UNCHANGED <<started, callSeqs, log, exclusives>>
        /\ pc' = IF ~GroupDrained THEN "race" ELSE IF aborted' THEN "skip" ELSE "classify"
    BY <1>3, Zenon DEF Refill
  <2> QED
    BY <1>3, <2>1 DEF Leaves, GroupDrained
<1>4. ASSUME ~failure, ~aborted' /\ started < last /\ HasRoom /\ MayStart(started + 1)
      PROVE  Starts
  <2>1. /\ log' = Append(log, CallEvent(started + 1))
        /\ callSeqs' = [callSeqs EXCEPT ![started + 1] = Len(log) + 1]
        /\ started' = started + 1 /\ pc' = "prepare"
        /\ exclusives' = IF parallel[started + 1] THEN exclusives ELSE exclusives \cup {started + 1}
    BY <1>4, Zenon DEF Refill
  <2>2. ~signal
    BY <1>4, Zenon DEF Refill, ObservesAbort
  <2>3. exclusives' \in {exclusives, exclusives \cup {started + 1}}
        /\ (exclusives' # exclusives => ~parallel[started + 1])
    BY <2>1
  <2> QED
    BY <1>4, <2>1, <2>2, <2>3, Zenon DEF Starts
<1> QED
  BY <1>1, <1>2, <1>3, <1>4, Zenon

LEMMA EventTypes ==
  ASSUME NEW i \in Calls, NEW n \in Nat
  PROVE  CallEvent(i) \in Event /\ ResultEvent(i, n) \in Event
BY DEF CallEvent, ResultEvent, Event

LEMMA TypeInit == Init => TypeOK
<1> SUFFICES ASSUME Init PROVE Parts
  BY TypeParts
<1>1. PlaceOK
  BY DEF Init, PlaceOK, Suspended
<1>2. CountOK
  BY SchedulerAssumption DEF Init, CountOK
<1>3. FlagOK
  BY Zenon DEF Init, FlagOK
<1>4. PoolOK
  BY DEF Init, PoolOK
<1>5. RecordOK
  BY DEF Init, RecordOK
<1> QED
  BY <1>1, <1>2, <1>3, <1>4, <1>5 DEF Parts

\* Every action keeps the types.
LEMMA TypeStep == TypeOK /\ ProgressInv /\ [Next]_vars => TypeOK'
<1> SUFFICES ASSUME Parts, ProgressInv, [Next]_vars PROVE Parts'
  BY TypeParts
<1> USE SchedulerAssumption DEF groupVars, progressVars, poolVars, stopVars, worldVars, Parts
<1>1. PlaceOK'
  <2>1. CASE Classify
    BY <2>1 DEF Classify, PlaceOK, Synchronous, Suspended, Stopped
  <2>2. CASE Refill
    BY RefillCases, <2>2 DEF Starts, Leaves, RefillKeeps, PlaceOK, Synchronous, Suspended, Stopped
  <2>3. CASE Prepared
    BY <2>3 DEF Prepared, Dispatches, PlaceOK, Synchronous, Suspended, Stopped
  <2>4. CASE StageFails
    BY <2>4 DEF StageFails, PlaceOK, Synchronous, Suspended, Stopped
  <2>5. CASE Commit
    BY <2>5 DEF Commit, Ready, PlaceOK, Synchronous, Suspended, Stopped
  <2>6. CASE Finalized
    BY <2>6 DEF Finalized, Ready, Cited, PlaceOK, Synchronous, Suspended, Stopped
  <2>7. CASE Race
    BY <2>7 DEF Race, InFlight, PlaceOK, Synchronous, Suspended, Stopped
  <2>8. CASE Drain
    BY <2>8 DEF Drain, Drained, PlaceOK, Synchronous, Suspended, Stopped
  <2>9. CASE SkipCall
    BY <2>9 DEF SkipCall, Skips, PlaceOK, Synchronous, Suspended, Stopped
  <2>10. CASE SkipResult
    BY <2>10 DEF SkipResult, PlaceOK, Synchronous, Suspended, Stopped
  <2>11. CASE Recover
    BY <2>11 DEF Recover, Unanswered, RecordedAt, PlaceOK, Synchronous, Suspended, Stopped
  <2>12. CASE StepEnds
    BY <2>12 DEF StepEnds, PlaceOK, Synchronous, Suspended, Stopped
  <2>13. CASE Abort
    BY <2>13 DEF Abort, PlaceOK, Synchronous, Suspended, Stopped
  <2>14. ASSUME NEW i \in Calls, Settles(i) PROVE PlaceOK'
    BY <2>14 DEF Settles, PlaceOK, Synchronous, Suspended, Stopped
  <2>15. ASSUME NEW i \in Calls, Reclassify(i) PROVE PlaceOK'
    BY <2>15 DEF Reclassify, PlaceOK, Synchronous, Suspended, Stopped
  <2>16. CASE UNCHANGED vars
    BY <2>16 DEF vars, PlaceOK, Synchronous, Suspended, Stopped
  <2> QED
    BY <2>1, <2>2, <2>3, <2>4, <2>5, <2>6, <2>7, <2>8, <2>9, <2>10, <2>11, <2>12, <2>13, <2>14, <2>15, <2>16 DEF Next, Schedule, Close, Bodies
<1>2. CountOK'
  <2>1. CASE Classify
    BY <2>1 DEF Classify, CountOK, PoolOK, Calls, ProgressInv
  <2>2. CASE Refill
    BY RefillCases, <2>2 DEF Starts, Leaves, RefillKeeps, CountOK, PoolOK, Calls, ProgressInv
  <2>3. CASE Prepared
    BY <2>3 DEF Prepared, Dispatches, CountOK, PoolOK, Calls, ProgressInv
  <2>4. CASE StageFails
    BY <2>4 DEF StageFails, CountOK, PoolOK, Calls, ProgressInv
  <2>5. CASE Commit
    BY <2>5 DEF Commit, Ready, CountOK, PoolOK, Calls, ProgressInv
  <2>6. CASE Finalized
    BY <2>6 DEF Finalized, Ready, Cited, CountOK, PoolOK, Calls, ProgressInv
  <2>7. CASE Race
    BY <2>7 DEF Race, InFlight, CountOK, PoolOK, Calls, ProgressInv
  <2>8. CASE Drain
    BY <2>8 DEF Drain, Drained, CountOK, PoolOK, Calls, ProgressInv
  <2>9. CASE SkipCall
    BY <2>9 DEF SkipCall, Skips, CountOK, PoolOK, Calls, ProgressInv
  <2>10. CASE SkipResult
    BY <2>10 DEF SkipResult, CountOK, PoolOK, Calls, ProgressInv
  <2>11. CASE Recover
    BY <2>11 DEF Recover, Unanswered, RecordedAt, CountOK, PoolOK, Calls, ProgressInv
  <2>12. CASE StepEnds
    BY <2>12 DEF StepEnds, CountOK, PoolOK, Calls, ProgressInv
  <2>13. CASE Abort
    BY <2>13 DEF Abort, CountOK, PoolOK, Calls, ProgressInv
  <2>14. ASSUME NEW i \in Calls, Settles(i) PROVE CountOK'
    BY <2>14 DEF Settles, CountOK, PoolOK, Calls, ProgressInv
  <2>15. ASSUME NEW i \in Calls, Reclassify(i) PROVE CountOK'
    BY <2>15 DEF Reclassify, CountOK, PoolOK, Calls, ProgressInv
  <2>16. CASE UNCHANGED vars
    BY <2>16 DEF vars, CountOK, PoolOK, Calls, ProgressInv
  <2> QED
    BY <2>1, <2>2, <2>3, <2>4, <2>5, <2>6, <2>7, <2>8, <2>9, <2>10, <2>11, <2>12, <2>13, <2>14, <2>15, <2>16 DEF Next, Schedule, Close, Bodies
<1>3. FlagOK'
  <2>1. CASE Classify
    BY Zenon, <2>1 DEF Classify, FlagOK
  <2>2. CASE Refill
    BY Zenon, RefillCases, <2>2 DEF Refill, ObservesAbort, FlagOK
  <2>3. CASE Prepared
    BY Zenon, <2>3 DEF Prepared, Dispatches, FlagOK
  <2>4. CASE StageFails
    BY Zenon, <2>4 DEF StageFails, FlagOK
  <2>5. CASE Commit
    BY Zenon, <2>5 DEF Commit, Ready, FlagOK
  <2>6. CASE Finalized
    BY Zenon, <2>6 DEF Finalized, Ready, Cited, FlagOK
  <2>7. CASE Race
    BY Zenon, <2>7 DEF Race, InFlight, FlagOK
  <2>8. CASE Drain
    BY Zenon, <2>8 DEF Drain, Drained, FlagOK
  <2>9. CASE SkipCall
    BY Zenon, <2>9 DEF SkipCall, Skips, FlagOK
  <2>10. CASE SkipResult
    BY Zenon, <2>10 DEF SkipResult, FlagOK
  <2>11. CASE Recover
    BY Zenon, <2>11 DEF Recover, Unanswered, RecordedAt, FlagOK
  <2>12. CASE StepEnds
    BY Zenon, <2>12 DEF StepEnds, FlagOK
  <2>13. CASE Abort
    BY Zenon, <2>13 DEF Abort, FlagOK
  <2>14. ASSUME NEW i \in Calls, Settles(i) PROVE FlagOK'
    BY Zenon, <2>14 DEF Settles, FlagOK
  <2>15. ASSUME NEW i \in Calls, Reclassify(i) PROVE FlagOK'
    BY Zenon, <2>15 DEF Reclassify, FlagOK
  <2>16. CASE UNCHANGED vars
    BY Zenon, <2>16 DEF vars, FlagOK
  <2> QED
    BY <2>1, <2>2, <2>3, <2>4, <2>5, <2>6, <2>7, <2>8, <2>9, <2>10, <2>11, <2>12, <2>13, <2>14, <2>15, <2>16 DEF Next, Schedule, Close, Bodies
<1>4. PoolOK'
  <2>1. CASE Classify
    BY <2>1 DEF Classify, PoolOK, CountOK, Calls, ProgressInv
  <2>2. CASE Refill
    <3>1. RefillKeeps /\ (Starts \/ Leaves)
      BY <2>2, RefillCases
    <3>2. exclusives' \subseteq Calls
      <4>1. CASE Starts
        <5>1. started + 1 \in Calls
          BY <4>1 DEF Starts, CountOK, Calls
        <5> QED
          BY <4>1, <5>1 DEF Starts, PoolOK
      <4> QED
        BY <3>1, <4>1 DEF Leaves, PoolOK
    <3> QED
      BY <3>1, <3>2 DEF RefillKeeps, PoolOK
  <2>3. CASE Prepared
    BY <2>3 DEF Prepared, Dispatches, PoolOK, CountOK, Calls, ProgressInv
  <2>4. CASE StageFails
    BY <2>4 DEF StageFails, PoolOK, CountOK, Calls, ProgressInv
  <2>5. CASE Commit
    BY <2>5 DEF Commit, Ready, PoolOK, CountOK, Calls, ProgressInv
  <2>6. CASE Finalized
    BY <2>6 DEF Finalized, Ready, Cited, PoolOK, CountOK, Calls, ProgressInv
  <2>7. CASE Race
    BY <2>7 DEF Race, InFlight, PoolOK, CountOK, Calls, ProgressInv
  <2>8. CASE Drain
    BY <2>8 DEF Drain, Drained, PoolOK, CountOK, Calls, ProgressInv
  <2>9. CASE SkipCall
    BY <2>9 DEF SkipCall, Skips, PoolOK, CountOK, Calls, ProgressInv
  <2>10. CASE SkipResult
    BY <2>10 DEF SkipResult, PoolOK, CountOK, Calls, ProgressInv
  <2>11. CASE Recover
    BY <2>11 DEF Recover, Unanswered, RecordedAt, PoolOK, CountOK, Calls, ProgressInv
  <2>12. CASE StepEnds
    BY <2>12 DEF StepEnds, PoolOK, CountOK, Calls, ProgressInv
  <2>13. CASE Abort
    BY <2>13 DEF Abort, PoolOK, CountOK, Calls, ProgressInv
  <2>14. ASSUME NEW i \in Calls, Settles(i) PROVE PoolOK'
    BY <2>14 DEF Settles, PoolOK, CountOK, Calls, ProgressInv
  <2>15. ASSUME NEW i \in Calls, Reclassify(i) PROVE PoolOK'
    BY <2>15 DEF Reclassify, PoolOK, CountOK, Calls, ProgressInv
  <2>16. CASE UNCHANGED vars
    BY <2>16 DEF vars, PoolOK, CountOK, Calls, ProgressInv
  <2> QED
    BY <2>1, <2>2, <2>3, <2>4, <2>5, <2>6, <2>7, <2>8, <2>9, <2>10, <2>11, <2>12, <2>13, <2>14, <2>15, <2>16 DEF Next, Schedule, Close, Bodies
<1>5. RecordOK'
  <2>1. ASSUME NEW e \in Event PROVE Append(log, e) \in Seq(Event) /\ Len(log) \in Nat
    BY <2>1, AppendProperties DEF RecordOK
  <2>2. CASE Classify
    BY <2>1, EventTypes, <2>2 DEF Classify, RecordOK, CountOK, PoolOK, Calls, ProgressInv
  <2>3. CASE Refill
    <3>1. CASE Starts
      <4>1. started + 1 \in Calls /\ CallEvent(started + 1) \in Event
        BY <3>1, EventTypes DEF Starts, CountOK, Calls
      <4> QED
        BY <3>1, <4>1, <2>1 DEF Starts, RecordOK
    <3>2. CASE Leaves
      BY <3>2 DEF Leaves, RecordOK
    <3> QED
      BY <2>3, <3>1, <3>2, RefillCases
  <2>4. CASE Prepared
    BY <2>1, EventTypes, <2>4 DEF Prepared, Dispatches, RecordOK, CountOK, PoolOK, Calls, ProgressInv
  <2>5. CASE StageFails
    BY <2>1, EventTypes, <2>5 DEF StageFails, RecordOK, CountOK, PoolOK, Calls, ProgressInv
  <2>6. CASE Commit
    BY <2>1, EventTypes, <2>6 DEF Commit, Ready, RecordOK, CountOK, PoolOK, Calls, ProgressInv
  <2>7. CASE Finalized
    BY <2>1, EventTypes, <2>7 DEF Finalized, Ready, Cited, RecordOK, CountOK, PoolOK, Calls, ProgressInv
  <2>8. CASE Race
    BY <2>1, EventTypes, <2>8 DEF Race, InFlight, RecordOK, CountOK, PoolOK, Calls, ProgressInv
  <2>9. CASE Drain
    BY <2>1, EventTypes, <2>9 DEF Drain, Drained, RecordOK, CountOK, PoolOK, Calls, ProgressInv
  <2>10. CASE SkipCall
    <3>1. CASE started < N
      <4>1. CallEvent(started + 1) \in Event
        BY <3>1, EventTypes DEF CountOK, Calls
      <4> QED
        BY <2>10, <3>1, <4>1, <2>1 DEF SkipCall, Skips, RecordOK
    <3> QED
      BY <2>10, <3>1 DEF SkipCall, Skips, RecordOK
  <2>11. CASE SkipResult
    BY <2>1, EventTypes, <2>11 DEF SkipResult, RecordOK, CountOK, PoolOK, Calls, ProgressInv
  <2>12. CASE Recover
    <3>1. PICK i \in Calls : log' = Append(log, ResultEvent(i, 0))
                                \/ \E k \in DOMAIN log : log' = Append(log, ResultEvent(i, k))
      BY <2>12, Zenon DEF Recover, Unanswered, RecordedAt
    <3>2. \A k \in DOMAIN log : k \in Nat
      BY DEF RecordOK
    <3>3. \A n \in Nat : ResultEvent(i, n) \in Event
      BY EventTypes
    <3>4. log' \in Seq(Event)
      BY <3>1, <3>2, <3>3, <2>1
    <3> QED
      BY <2>12, <3>4 DEF Recover, RecordOK
  <2>13. CASE StepEnds
    BY <2>1, EventTypes, <2>13 DEF StepEnds, RecordOK, CountOK, PoolOK, Calls, ProgressInv
  <2>14. CASE Abort
    BY <2>1, EventTypes, <2>14 DEF Abort, RecordOK, CountOK, PoolOK, Calls, ProgressInv
  <2>15. ASSUME NEW i \in Calls, Settles(i) PROVE RecordOK'
    BY <2>1, EventTypes, <2>15 DEF Settles, RecordOK, CountOK, PoolOK, Calls, ProgressInv
  <2>16. ASSUME NEW i \in Calls, Reclassify(i) PROVE RecordOK'
    BY <2>1, EventTypes, <2>16 DEF Reclassify, RecordOK, CountOK, PoolOK, Calls, ProgressInv
  <2>17. CASE UNCHANGED vars
    BY <2>1, EventTypes, <2>17 DEF vars, RecordOK, CountOK, PoolOK, Calls, ProgressInv
  <2> QED
    BY <2>2, <2>3, <2>4, <2>5, <2>6, <2>7, <2>8, <2>9, <2>10, <2>11, <2>12, <2>13, <2>14, <2>15, <2>16, <2>17 DEF Next, Schedule, Close, Bodies
<1> QED
  BY <1>1, <1>2, <1>3, <1>4, <1>5

-----------------------------------------------------------------------------
(* Progress.                                                               *)

\* The pool, the slots and the counters agree at every place of the scheduler.
LEMMA ProgressStep == TypeOK /\ ProgressInv /\ [Next]_vars => ProgressInv'
<1> SUFFICES ASSUME TypeOK, ProgressInv, [Next]_vars PROVE ProgressInv'
  OBVIOUS
<1> USE SchedulerAssumption DEF groupVars, progressVars, poolVars, stopVars, worldVars
<1>1. CASE Classify
  <2>1. pc = "classify" /\ committed = started /\ InFlight = {} /\ ~failure /\ slots = {}
          /\ started \in 0 .. N /\ committed \in 0 .. N
    BY <1>1 DEF Classify, ProgressInv, Resting, TypeOK
  <2>2. UNCHANGED <<started, committed, failure>>
    BY <1>1 DEF Classify
  <2>3. \/ pc' = "open" /\ slots' = {} /\ started < last' /\ flight' = [i \in Calls |-> "none"]
        \/ pc' = "returned" /\ started = N /\ UNCHANGED <<slots, flight>>
    BY <1>1, <2>1 DEF Classify
  <2>4. InFlight' = {} /\ Running' = {} /\ slots' = {}
    BY <2>1, <2>3 DEF InFlight, Running
  <2>5. committed + 1 .. started = {}
    BY <2>1
  <2> QED
    BY <2>1, <2>2, <2>3, <2>4, <2>5 DEF ProgressInv, Resting, Preparing
<1>2. CASE Refill
  <2>1. RefillKeeps /\ pc \in {"open", "refill"} /\ InFlight' = InFlight /\ Running' = Running
    BY <1>2, RefillCases DEF RefillKeeps, InFlight, Running
  <2>2. CASE Starts
    <3>1. started + 1 \notin slots \cup InFlight
      BY DEF ProgressInv, TypeOK
    <3>2. Preparing' = {started + 1} /\ committed + 1 .. started + 1 = (committed + 1 .. started) \cup {started + 1}
      BY <2>2 DEF Starts, Preparing, ProgressInv, TypeOK
    <3>3. Preparing = {}
      BY <2>1 DEF Preparing
    <3> QED
      <4>1. /\ started' = started + 1 /\ pc' = "prepare" /\ UNCHANGED <<committed, slots, failure>>
            /\ started \in 0 .. N /\ committed \in 0 .. N /\ committed <= started
        BY <2>1, <2>2 DEF Starts, RefillKeeps, ProgressInv, TypeOK
      <4>2. committed' + 1 \in slots' => committed' + 1 \in InFlight'
        BY <2>1, <4>1 DEF ProgressInv, Resting
      <4>3. /\ slots \cup Running \subseteq committed + 1 .. started /\ InFlight \subseteq 1 .. started
            /\ Running \cap slots = {}
            /\ ~failure => committed + 1 .. started \subseteq slots \cup Running
        BY <3>3 DEF ProgressInv
      <4> QED
        BY <2>1, <3>1, <3>2, <4>1, <4>2, <4>3 DEF ProgressInv, Resting
  <2>3. CASE Leaves
    <3>1. Preparing = {} /\ Preparing' = {}
      BY <2>1, <2>3 DEF Leaves, Preparing
    <3>2. InFlight = {} => Running = {}
      BY DEF InFlight, Running
    <3>3. CASE pc' \in {"skip", "classify"}
      <4>1. ~failure /\ InFlight = {} /\ Running = {}
        BY <2>3, <3>2, <3>3 DEF Leaves
      <4>2. committed = started
        <5> SUFFICES ASSUME committed < started PROVE FALSE
          BY DEF ProgressInv, TypeOK
        <5>1. committed + 1 \in slots /\ pc = "refill"
          BY <2>1, <3>1, <4>1 DEF ProgressInv, TypeOK
        <5> QED
          BY <4>1, <5>1 DEF ProgressInv
      <4>3. slots = {}
        BY <4>2 DEF ProgressInv, TypeOK
      <4> QED
        BY <2>1, <2>3, <3>1, <3>3, <4>1, <4>2, <4>3 DEF Leaves, RefillKeeps, ProgressInv
    <3>4. CASE pc' \in {"drain", "race"}
      BY <2>1, <2>3, <3>1, <3>4 DEF Leaves, RefillKeeps, ProgressInv, Resting
    <3> QED
      BY <2>3, <3>3, <3>4 DEF Leaves
  <2> QED
    BY <1>2, <2>2, <2>3, RefillCases
<1>3. CASE Prepared
  <2>1. pc = "prepare" /\ Preparing = {started} /\ Preparing' = {} /\ pc' \in {"commit", "drain"}
          /\ UNCHANGED <<started, committed, failure>> /\ committed < started
          /\ started \notin slots \cup InFlight /\ committed \in 0 .. N /\ started \in 0 .. N
    BY <1>3 DEF Prepared, ProgressInv, Preparing, TypeOK
  <2>2. \/ failure /\ UNCHANGED <<flight, slots>>
        \/ flight' = [flight EXCEPT ![started] = "running"] /\ UNCHANGED slots
        \/ slots' = slots \cup {started} /\ UNCHANGED flight
    BY <1>3 DEF Prepared, Dispatches
  <2>3. CASE failure /\ UNCHANGED <<flight, slots>>
    <3>1. InFlight' = InFlight /\ Running' = Running
      BY <2>3 DEF InFlight, Running
    <3> QED
      BY <2>1, <2>3, <3>1 DEF ProgressInv, Resting
  <2>4. CASE flight' = [flight EXCEPT ![started] = "running"] /\ UNCHANGED slots
    <3>1. InFlight' = InFlight \cup {started} /\ Running' = Running \cup {started}
      BY <2>1, <2>4 DEF InFlight, Running, TypeOK, Calls
    <3> QED
      BY <2>1, <2>4, <3>1 DEF ProgressInv, Resting
  <2>5. CASE slots' = slots \cup {started} /\ UNCHANGED flight
    <3>1. InFlight' = InFlight /\ Running' = Running /\ Running \subseteq InFlight
      BY <2>5 DEF InFlight, Running
    <3> QED
      BY <2>1, <2>5, <3>1 DEF ProgressInv, Resting
  <2> QED
    BY <2>2, <2>3, <2>4, <2>5
<1>4. CASE StageFails
  BY <1>4 DEF StageFails, TypeOK, ProgressInv, Resting, Preparing, InFlight, Running, Calls
<1>5. CASE Commit
  BY <1>5 DEF Commit, Ready, TypeOK, ProgressInv, Resting, Preparing, InFlight, Running, Calls
<1>6. CASE Finalized
  <2> DEFINE i == committed + 1
  <2>1. pc = "finalize" /\ i \in slots /\ UNCHANGED <<started, flight>> /\ Preparing = {}
          /\ committed \in 0 .. N /\ started \in 0 .. N
    BY <1>6 DEF Finalized, Ready, TypeOK, Preparing
  <2>2. \/ /\ committed' = i /\ slots' = slots \ {i} /\ UNCHANGED failure
           /\ pc' = IF i + 1 \in slots THEN "finalize" ELSE "refill"
        \/ failure' = TRUE /\ pc' = "drain" /\ UNCHANGED <<committed, slots>>
    BY <1>6, <2>1 DEF Finalized, Ready
  <2>3. InFlight' = InFlight /\ Running' = Running /\ Preparing' = {}
    BY <2>1, <2>2 DEF InFlight, Running, Preparing
  <2>4. i \in 1 .. started /\ i \notin Running
    BY <2>1 DEF ProgressInv
  <2>5. CASE /\ committed' = i /\ slots' = slots \ {i} /\ UNCHANGED failure
             /\ pc' = IF i + 1 \in slots THEN "finalize" ELSE "refill"
    BY <2>1, <2>3, <2>4, <2>5 DEF ProgressInv, Resting
  <2>6. CASE failure' = TRUE /\ pc' = "drain" /\ UNCHANGED <<committed, slots>>
    BY <2>1, <2>3, <2>6 DEF ProgressInv, Resting
  <2> QED
    BY <2>2, <2>5, <2>6
<1>7. CASE Race
  BY <1>7 DEF Race, InFlight, TypeOK, ProgressInv, Resting, Preparing, InFlight, Running, Calls
<1>8. CASE Drain
  BY <1>8 DEF Drain, Drained, TypeOK, ProgressInv, Resting, Preparing, InFlight, Running, Calls
<1>9. CASE SkipCall
  BY <1>9 DEF SkipCall, Skips, TypeOK, ProgressInv, Resting, Preparing, InFlight, Running, Calls
<1>10. CASE SkipResult
  BY <1>10 DEF SkipResult, TypeOK, ProgressInv, Resting, Preparing, InFlight, Running, Calls
<1>11. CASE Recover
  BY <1>11 DEF Recover, Unanswered, RecordedAt, TypeOK, ProgressInv, Resting, Preparing, InFlight, Running, Calls
<1>12. CASE StepEnds
  BY <1>12 DEF StepEnds, TypeOK, ProgressInv, Resting, Preparing, InFlight, Running, Calls
<1>13. CASE Abort
  BY <1>13 DEF Abort, TypeOK, ProgressInv, Resting, Preparing, InFlight, Running, Calls
<1>14. ASSUME NEW i \in Calls, Settles(i) PROVE ProgressInv'
  <2>1. InFlight' = InFlight /\ Running' = Running \ {i} /\ i \in Running
    BY <1>14 DEF Settles, TypeOK, InFlight, Running
  <2>2. pc' = pc /\ UNCHANGED <<started, committed, last>> /\ Preparing' = Preparing /\ pc \notin Resting \cup {"open"}
    BY <1>14, <2>1 DEF Settles, Suspended, ProgressInv, Resting, Preparing, InFlight, Running
  <2>3. CASE slots' = slots \cup {i} /\ UNCHANGED failure
    BY <2>1, <2>2, <2>3 DEF ProgressInv, InFlight, Running
  <2>4. CASE failure' = TRUE /\ UNCHANGED slots
    BY <2>1, <2>2, <2>4 DEF ProgressInv
  <2> QED
    BY <1>14, <2>3, <2>4 DEF Settles
<1>15. ASSUME NEW i \in Calls, Reclassify(i) PROVE ProgressInv'
  BY <1>15 DEF Reclassify, TypeOK, ProgressInv, Resting, Preparing, InFlight, Running, Calls
<1>16. CASE UNCHANGED vars
  BY <1>16 DEF vars, TypeOK, ProgressInv, Resting, Preparing, InFlight, Running, Calls
<1> QED
  BY <1>1, <1>2, <1>3, <1>4, <1>5, <1>6, <1>7, <1>8, <1>9, <1>10, <1>11, <1>12, <1>13, <1>14, <1>15, <1>16 DEF Next, Schedule, Close, Bodies

\* An exclusive call is alone in the pool.
LEMMA ExclusiveStep == TypeOK /\ ProgressInv /\ ExclusiveInv /\ [Next]_vars => ExclusiveInv'
<1> SUFFICES ASSUME TypeOK, ProgressInv, ExclusiveInv, [Next]_vars PROVE ExclusiveInv'
  OBVIOUS
<1> USE SchedulerAssumption DEF groupVars, progressVars, poolVars, stopVars, worldVars
<1>1. CASE Classify
  BY <1>1 DEF Classify, TypeOK, ExclusiveInv, ProgressInv, Resting, InFlight, Suspended, Calls
<1>2. CASE Refill
  <2>1. RefillKeeps /\ pc \in {"open", "refill"} /\ InFlight' = InFlight /\ (pc = "open" => InFlight = {})
    BY <1>2, RefillCases DEF RefillKeeps, InFlight, ProgressInv
  <2>2. CASE Starts
    <3>1. pc = "refill" => exclusives' = exclusives
      BY <2>2 DEF Starts, MayStart
    <3>2. started + 1 \in exclusives' => pc = "open" /\ ~parallel[started + 1]
      BY <2>1, <2>2, <3>1 DEF Starts, ExclusiveInv, TypeOK
    <3>3. exclusives \cap InFlight = {}
      <4> SUFFICES ASSUME NEW i \in exclusives \cap InFlight PROVE FALSE
        OBVIOUS
      <4>1. last = i /\ started = i
        BY DEF ExclusiveInv
      <4> QED
        BY <2>2, <4>1 DEF Starts, TypeOK
    <3>4. exclusives' \subseteq 1 .. started' /\ exclusives' \cap InFlight' = {}
      BY <2>1, <2>2, <3>3 DEF Starts, ExclusiveInv, ProgressInv, TypeOK
    <3> QED
      BY <2>1, <2>2, <3>2, <3>4 DEF Starts, RefillKeeps, ExclusiveInv
  <2>3. CASE Leaves
    BY <2>1, <2>3 DEF Leaves, RefillKeeps, ExclusiveInv
  <2> QED
    BY <1>2, <2>2, <2>3, RefillCases
<1>3. CASE Prepared
  BY <1>3 DEF Prepared, Dispatches, TypeOK, ExclusiveInv, ProgressInv, Resting, InFlight, Suspended, Calls
<1>4. CASE StageFails
  BY <1>4 DEF StageFails, TypeOK, ExclusiveInv, ProgressInv, Resting, InFlight, Suspended, Calls
<1>5. CASE Commit
  BY <1>5 DEF Commit, Ready, TypeOK, ExclusiveInv, ProgressInv, Resting, InFlight, Suspended, Calls
<1>6. CASE Finalized
  BY <1>6 DEF Finalized, Ready, Cited, TypeOK, ExclusiveInv, ProgressInv, Resting, InFlight, Suspended, Calls
<1>7. CASE Race
  BY <1>7 DEF Race, InFlight, TypeOK, ExclusiveInv, ProgressInv, Resting, InFlight, Suspended, Calls
<1>8. CASE Drain
  BY <1>8 DEF Drain, Drained, TypeOK, ExclusiveInv, ProgressInv, Resting, InFlight, Suspended, Calls
<1>9. CASE SkipCall
  BY <1>9 DEF SkipCall, Skips, TypeOK, ExclusiveInv, ProgressInv, Resting, InFlight, Suspended, Calls
<1>10. CASE SkipResult
  BY <1>10 DEF SkipResult, TypeOK, ExclusiveInv, ProgressInv, Resting, InFlight, Suspended, Calls
<1>11. CASE Recover
  BY <1>11 DEF Recover, Unanswered, RecordedAt, TypeOK, ExclusiveInv, ProgressInv, Resting, InFlight, Suspended, Calls
<1>12. CASE StepEnds
  BY <1>12 DEF StepEnds, TypeOK, ExclusiveInv, ProgressInv, Resting, InFlight, Suspended, Calls
<1>13. CASE Abort
  BY <1>13 DEF Abort, TypeOK, ExclusiveInv, ProgressInv, Resting, InFlight, Suspended, Calls
<1>14. ASSUME NEW i \in Calls, Settles(i) PROVE ExclusiveInv'
  BY <1>14 DEF Settles, TypeOK, ExclusiveInv, ProgressInv, Resting, InFlight, Suspended, Calls
<1>15. ASSUME NEW i \in Calls, Reclassify(i) PROVE ExclusiveInv'
  BY <1>15 DEF Reclassify, TypeOK, ExclusiveInv, ProgressInv, Resting, InFlight, Suspended, Calls
<1>16. CASE UNCHANGED vars
  BY <1>16 DEF vars, TypeOK, ExclusiveInv, ProgressInv, Resting, InFlight, Suspended, Calls
<1> QED
  BY <1>1, <1>2, <1>3, <1>4, <1>5, <1>6, <1>7, <1>8, <1>9, <1>10, <1>11, <1>12, <1>13, <1>14, <1>15, <1>16 DEF Next, Schedule, Close, Bodies

\* The pool keeps to its bound.
LEMMA RoomStep == TypeOK /\ ProgressInv /\ RoomInv /\ [Next]_vars => RoomInv'
<1> SUFFICES ASSUME TypeOK, ProgressInv, RoomInv, [Next]_vars PROVE RoomInv'
  OBVIOUS
<1> USE SchedulerAssumption DEF groupVars, progressVars, poolVars, stopVars, worldVars
<1>1. CASE Classify
  <2>1. InFlight' = InFlight \/ InFlight' = {}
    BY <1>1 DEF Classify, InFlight
  <2>2. pc' # "prepare"
    BY <1>1 DEF Classify
  <2> QED
    BY <2>1, <2>2, FS_EmptySet DEF RoomInv
<1>2. CASE Refill
  <2>1. InFlight' = InFlight /\ (pc' = "prepare" => HasRoom)
    BY <1>2, RefillCases DEF RefillKeeps, Starts, Leaves, InFlight
  <2> QED
    BY <2>1 DEF RoomInv, HasRoom
<1>3. CASE Prepared
  <2>1. InFlight' = InFlight \/ InFlight' = InFlight \cup {started}
    BY <1>3 DEF Prepared, InFlight, TypeOK
  <2>2. started \notin InFlight /\ Cardinality(InFlight) < MaxParallel /\ pc' # "prepare"
    BY <1>3 DEF Prepared, ProgressInv, RoomInv
  <2>3. Cardinality(InFlight) \in Nat /\ IsFiniteSet(InFlight)
    BY FS_CardinalityType DEF RoomInv
  <2> QED
    BY <2>1, <2>2, <2>3, FS_AddElement DEF RoomInv
<1>4. CASE StageFails
  BY <1>4 DEF StageFails, TypeOK, RoomInv, InFlight
<1>5. CASE Commit
  BY <1>5 DEF Commit, Ready, TypeOK, RoomInv, InFlight
<1>6. CASE Finalized
  BY <1>6 DEF Finalized, Ready, Cited, TypeOK, RoomInv, InFlight
<1>7. CASE Race
  <2>1. PICK i \in InFlight : InFlight' = InFlight \ {i}
    BY <1>7 DEF Race, InFlight, Running, TypeOK
  <2>2. Cardinality(InFlight) \in Nat /\ IsFiniteSet(InFlight) /\ pc' # "prepare"
    BY <1>7, FS_CardinalityType DEF RoomInv, Race
  <2> QED
    BY <2>1, <2>2, FS_RemoveElement DEF RoomInv
<1>8. CASE Drain
  BY <1>8 DEF Drain, Drained, TypeOK, RoomInv, InFlight
<1>9. CASE SkipCall
  BY <1>9 DEF SkipCall, Skips, TypeOK, RoomInv, InFlight
<1>10. CASE SkipResult
  BY <1>10 DEF SkipResult, TypeOK, RoomInv, InFlight
<1>11. CASE Recover
  BY <1>11 DEF Recover, Unanswered, RecordedAt, TypeOK, RoomInv, InFlight
<1>12. CASE StepEnds
  BY <1>12 DEF StepEnds, TypeOK, RoomInv, InFlight
<1>13. CASE Abort
  BY <1>13 DEF Abort, TypeOK, RoomInv, InFlight
<1>14. ASSUME NEW i \in Calls, Settles(i) PROVE RoomInv'
  BY <1>14 DEF Settles, TypeOK, RoomInv, InFlight
<1>15. ASSUME NEW i \in Calls, Reclassify(i) PROVE RoomInv'
  BY <1>15 DEF Reclassify, TypeOK, RoomInv, InFlight
<1>16. CASE UNCHANGED vars
  BY <1>16 DEF vars, TypeOK, RoomInv, InFlight
<1> QED
  BY <1>1, <1>2, <1>3, <1>4, <1>5, <1>6, <1>7, <1>8, <1>9, <1>10, <1>11, <1>12, <1>13, <1>14, <1>15, <1>16 DEF Next, Schedule, Close, Bodies

-----------------------------------------------------------------------------
(* The log.                                                                *)

LEMMA Appended ==
  ASSUME log \in Seq(Event), NEW e \in Event, log' = Append(log, e)
  PROVE  /\ Len(log) \in Nat /\ Len(log') = Len(log) + 1 /\ log' # log
         /\ DOMAIN log = 1 .. Len(log) /\ DOMAIN log' = 1 .. Len(log) + 1
         /\ \A k \in DOMAIN log : log'[k] = log[k] /\ log[k] \in Event
         /\ log'[Len(log) + 1] = e
         /\ Answered' = IF e.type = "result" THEN Answered \cup {e.call} ELSE Answered
         /\ Recorded' = IF e.type = "call" THEN Recorded \cup {e.call} ELSE Recorded
<1>1. /\ Len(log) \in Nat /\ Len(log') = Len(log) + 1
      /\ DOMAIN log = 1 .. Len(log) /\ DOMAIN log' = 1 .. Len(log) + 1
      /\ \A k \in DOMAIN log : log'[k] = log[k] /\ log[k] \in Event
      /\ log'[Len(log) + 1] = e
  BY AppendProperties
<1>2. \A k \in DOMAIN log' : k \in DOMAIN log \/ k = Len(log) + 1
  BY <1>1
<1>3. Answered' = IF e.type = "result" THEN Answered \cup {e.call} ELSE Answered
  BY <1>1, <1>2 DEF Answered
<1>4. Recorded' = IF e.type = "call" THEN Recorded \cup {e.call} ELSE Recorded
  BY <1>1, <1>2 DEF Recorded
<1>5. log' # log
  <2>1. Len(log) + 1 \in DOMAIN log' /\ Len(log) + 1 \notin DOMAIN log
    BY <1>1
  <2> QED
    BY <2>1, Zenon
<1> QED
  BY <1>1, <1>3, <1>4, <1>5

\* Recording a call disturbs no result.
LEMMA CallAppended ==
  ASSUME log \in Seq(Event), LogInv, CitesItsCall, EveryCallAnsweredInOrder,
         pc \notin {"recover", "closed"}, pc' # "closed",
         NEW i \in Calls, log' = Append(log, CallEvent(i))
  PROVE  CitesItsCall' /\ EveryCallAnsweredInOrder' /\ Answered' = Answered
<1>1. CallEvent(i) \in Event /\ CallEvent(i).type = "call" /\ CallEvent(i).call = i /\ CallEvent(i).cites = 0
  BY DEF CallEvent, Event
<1>2. /\ Len(log) \in Nat /\ DOMAIN log = 1 .. Len(log) /\ DOMAIN log' = 1 .. Len(log) + 1
      /\ \A k \in DOMAIN log : log'[k] = log[k] /\ log[k] \in Event
      /\ log'[Len(log) + 1] = CallEvent(i)
      /\ Answered' = Answered
  BY <1>1, Appended
<1>3. \A k \in DOMAIN log' : log'[k].type = "result" => k \in DOMAIN log /\ log'[k] = log[k]
  BY <1>1, <1>2
<1>4. CitesItsCall'
  <2> SUFFICES ASSUME NEW k \in DOMAIN log', log'[k].type = "result"
               PROVE  log'[k].cites # 0
                      /\ log'[k].cites \in {m \in DOMAIN log' : log'[m] = CallEvent(log'[k].call)}
    BY DEF CitesItsCall, RecordedAt
  <2>1. k \in DOMAIN log /\ log'[k] = log[k] /\ log[k].cites # 0
    BY <1>3 DEF LogInv
  <2>2. log[k].cites \in DOMAIN log /\ log[log[k].cites] = CallEvent(log[k].call)
    BY <2>1 DEF CitesItsCall, RecordedAt
  <2> QED
    BY <1>2, <2>1, <2>2
<1>5. EveryCallAnsweredInOrder'
  BY <1>2, <1>3 DEF EveryCallAnsweredInOrder
<1> QED
  BY <1>2, <1>4, <1>5

\* Answering the next call in model order, citing its event or none at all.
LEMMA ResultAppended ==
  ASSUME log \in Seq(Event), LogInv, CitesItsCall, EveryCallAnsweredInOrder, pc' # "closed",
         NEW i \in Calls, NEW n \in Nat, log' = Append(log, ResultEvent(i, n)),
         1 .. i - 1 \subseteq Answered, i \notin Answered, i \in Nat,
         \/ n # 0 /\ n \in RecordedAt(i)
         \/ n = 0 /\ RecordedAt(i) = {}
  PROVE  CitesItsCall' /\ EveryCallAnsweredInOrder' /\ Answered' = Answered \cup {i}
<1>1. ResultEvent(i, n) \in Event /\ ResultEvent(i, n).type = "result"
        /\ ResultEvent(i, n).call = i /\ ResultEvent(i, n).cites = n
  BY DEF ResultEvent, Event
<1>2. /\ Len(log) \in Nat /\ DOMAIN log = 1 .. Len(log) /\ DOMAIN log' = 1 .. Len(log) + 1
      /\ \A k \in DOMAIN log : log'[k] = log[k] /\ log[k] \in Event
      /\ log'[Len(log) + 1] = ResultEvent(i, n)
      /\ Answered' = Answered \cup {i}
      /\ Recorded' = Recorded
  BY <1>1, Appended
<1>3. \A j \in Calls : {m \in DOMAIN log' : log'[m] = CallEvent(j)} = RecordedAt(j)
  <2> SUFFICES ASSUME NEW j \in Calls
               PROVE  {m \in DOMAIN log' : log'[m] = CallEvent(j)} = RecordedAt(j)
    OBVIOUS
  <2>1. ResultEvent(i, n) # CallEvent(j)
    BY DEF ResultEvent, CallEvent
  <2>2. \A k \in DOMAIN log' : k \in DOMAIN log \/ k = Len(log) + 1
    BY <1>2
  <2> QED
    BY <1>2, <2>1, <2>2 DEF RecordedAt
<1>4. RecordedAt(i) = {} => i \notin Recorded
  <2> SUFFICES ASSUME NEW k \in DOMAIN log, log[k].type = "call", log[k].call = i
               PROVE  log[k] = CallEvent(i)
    BY DEF Recorded, RecordedAt
  <2>1. log[k].cites = 0 /\ log[k] \in Event
    BY <1>2 DEF LogInv
  <2> QED
    BY <2>1 DEF Event, CallEvent
<1>5. CitesItsCall'
  <2> SUFFICES ASSUME NEW k \in DOMAIN log', log'[k].type = "result"
               PROVE  IF log'[k].cites = 0 THEN log'[k].call \notin Recorded'
                      ELSE log'[k].cites \in {m \in DOMAIN log' : log'[m] = CallEvent(log'[k].call)}
    BY DEF CitesItsCall, RecordedAt
  <2>1. CASE k \in DOMAIN log
    <3>1. log'[k] = log[k] /\ log[k].call \in Calls
      BY <1>2, <2>1 DEF Event
    <3>2. IF log[k].cites = 0 THEN log[k].call \notin Recorded
          ELSE log[k].cites \in RecordedAt(log[k].call)
      BY <2>1, <3>1 DEF CitesItsCall
    <3>3. {m \in DOMAIN log' : log'[m] = CallEvent(log[k].call)} = RecordedAt(log[k].call)
      BY <1>3, <3>1
    <3> QED
      BY <1>2, <3>1, <3>2, <3>3
  <2>2. CASE k = Len(log) + 1
    BY <1>1, <1>2, <1>3, <1>4, <2>2
  <2> QED
    BY <1>2, <2>1, <2>2
<1>6. EveryCallAnsweredInOrder'
  <2>1. ASSUME NEW j \in DOMAIN log', NEW k \in DOMAIN log',
               j < k, log'[j].type = "result", log'[k].type = "result"
        PROVE  log'[j].call < log'[k].call
    <3>1. j \in DOMAIN log /\ log'[j] = log[j] /\ log[j].call \in Calls
      BY <1>2, <2>1 DEF Event
    <3>2. CASE k \in DOMAIN log
      BY <1>2, <2>1, <3>1, <3>2 DEF EveryCallAnsweredInOrder
    <3>3. CASE k = Len(log) + 1
      <4>1. log[j].call \in Answered
        BY <2>1, <3>1 DEF Answered
      <4>2. 1 .. log[j].call \subseteq Answered /\ log[j].call \in Nat
        BY <3>1, <4>1, SchedulerAssumption DEF EveryCallAnsweredInOrder, Calls
      <4>3. i >= 1
        BY SchedulerAssumption DEF Calls
      <4>4. log[j].call < i
        BY <4>2, <4>3
      <4> QED
        BY <1>1, <1>2, <3>1, <3>3, <4>4
    <3> QED
      BY <1>2, <3>2, <3>3
  <2>2. \A c \in Answered' : 1 .. c \subseteq Answered'
    BY <1>2 DEF EveryCallAnsweredInOrder
  <2> QED
    BY <2>1, <2>2 DEF EveryCallAnsweredInOrder
<1> QED
  BY <1>2, <1>5, <1>6

Waiting == slots \cup Running \cup Preparing

LEMMA LogKept ==
  ASSUME LogParts, UNCHANGED log, pc' = "closed" => pc = "closed" \/ Answered = Calls
  PROVE  CitesItsCall' /\ EveryCallAnsweredInOrder' /\ Answered' = Answered
<1>1. Answered' = Answered /\ Recorded' = Recorded
  BY DEF Answered, Recorded
<1>2. CitesItsCall'
  BY <1>1, Zenon DEF LogParts, CitesItsCall, RecordedAt
<1>3. EveryCallAnsweredInOrder'
  BY <1>1, Zenon DEF LogParts, EveryCallAnsweredInOrder
<1> QED
  BY <1>1, <1>2, <1>3

\* A step that appends nothing and starts nothing.
LEMMA QuietStep ==
  ASSUME LogParts, UNCHANGED <<log, callSeqs>>, Waiting' \subseteq Waiting, pc' # "skipResult",
         pc' = "closed" => pc = "closed" \/ Answered = Calls,
         pc' \notin {"drain", "recover", "closed"} =>
           pc \notin {"drain", "recover", "closed"} /\ committed' = committed,
         pc' \notin {"recover", "closed"} => pc \notin {"recover", "closed"}
  PROVE  LogParts'
<1>1. CitesItsCall' /\ EveryCallAnsweredInOrder' /\ Answered' = Answered
  BY LogKept
<1>2. LogInv'
  BY <1>1 DEF LogParts, LogInv, Waiting
<1> QED
  BY <1>1, <1>2 DEF LogParts

\* A step that appends an event and keeps the other positions.
LEMMA Extended ==
  ASSUME log \in Seq(Event), LogInv, NEW e \in Event, log' = Append(log, e)
  PROVE  \A i \in Waiting : callSeqs[i] \in DOMAIN log' /\ log'[callSeqs[i]] = CallEvent(i)
<1>1. DOMAIN log = 1 .. Len(log) /\ DOMAIN log' = 1 .. Len(log) + 1 /\ Len(log) \in Nat
        /\ \A k \in DOMAIN log : log'[k] = log[k]
  BY Appended
<1> QED
  BY <1>1 DEF LogInv, Waiting

\* What the log shows agrees with the counters, and its results stay in order.
LEMMA LogStep == TypeOK /\ ProgressInv /\ LogParts /\ [Next]_vars => LogParts'
<1> SUFFICES ASSUME TypeOK, ProgressInv, LogParts, [Next]_vars PROVE LogParts'
  OBVIOUS
<1> USE SchedulerAssumption DEF groupVars, progressVars, poolVars, stopVars, worldVars
<1>1. log \in Seq(Event) /\ Len(log) \in Nat /\ DOMAIN log = 1 .. Len(log)
        /\ \A k \in DOMAIN log : log[k] \in Event
  <2>1. log \in Seq(Event)
    BY TypeParts, Zenon DEF Parts, RecordOK
  <2> QED
    BY <2>1
<1>2. CASE Classify
  BY QuietStep, <1>2 DEF Classify, TypeOK, Waiting, Running, Preparing, Resting, Calls
<1>3. CASE Refill
  <2>1. RefillKeeps /\ pc \in {"open", "refill"} /\ Running' = Running
    BY <1>3, RefillCases DEF RefillKeeps, Running
  <2>2. CASE Starts
    <3> DEFINE i == started + 1
    <3>1. i \in Calls /\ CallEvent(i) \in Event /\ i \notin Waiting
      BY <2>1, <2>2, EventTypes DEF Starts, TypeOK, Calls, ProgressInv, Waiting, Preparing
    <3>2. log' = Append(log, CallEvent(i)) /\ pc' = "prepare" /\ callSeqs' = [callSeqs EXCEPT ![i] = Len(log) + 1]
      BY <2>2 DEF Starts
    <3>3. CitesItsCall' /\ EveryCallAnsweredInOrder' /\ Answered' = Answered
      BY <1>1, <2>1, <3>1, <3>2, CallAppended DEF LogParts
    <3>4. \A j \in Waiting : callSeqs[j] \in DOMAIN log' /\ log'[callSeqs[j]] = CallEvent(j)
      BY <1>1, <3>1, <3>2, Extended DEF LogParts
    <3>5. DOMAIN log' = 1 .. Len(log) + 1 /\ log'[Len(log) + 1] = CallEvent(i)
            /\ \A k \in DOMAIN log : log'[k] = log[k]
      BY <1>1, <3>1, <3>2, Appended
    <3>6. Waiting' = Waiting \cup {i}
      BY <2>1, <2>2 DEF Waiting, Starts, RefillKeeps, Preparing
    <3>7. Waiting \subseteq Calls
      BY <2>1 DEF Waiting, TypeOK, Running, Preparing
    <3>8. \A j \in Waiting' : callSeqs'[j] \in DOMAIN log' /\ log'[callSeqs'[j]] = CallEvent(j)
      BY <1>1, <3>1, <3>2, <3>4, <3>5, <3>6, <3>7 DEF TypeOK
    <3>9. \A k \in DOMAIN log' : \/ k \in DOMAIN log /\ log'[k] = log[k]
                                 \/ log'[k].type = "call" /\ log'[k].cites = 0
      BY <1>1, <3>5 DEF CallEvent
    <3>10. LogInv'
      BY <2>1, <3>2, <3>3, <3>8, <3>9 DEF LogParts, LogInv, RefillKeeps, Waiting
    <3> QED
      BY <3>3, <3>10 DEF LogParts
  <2>3. CASE Leaves
    BY <2>1, <2>3, QuietStep DEF Leaves, RefillKeeps, Waiting, Preparing
  <2> QED
    BY <1>3, <2>2, <2>3, RefillCases
<1>4. CASE Prepared
  BY QuietStep, <1>4 DEF Prepared, Dispatches, TypeOK, Waiting, Running, Preparing, Resting, Calls
<1>5. CASE StageFails
  BY QuietStep, <1>5 DEF StageFails, TypeOK, Waiting, Running, Preparing, Resting, Calls
<1>6. CASE Commit
  BY QuietStep, <1>6 DEF Commit, Ready, TypeOK, Waiting, Running, Preparing, Resting, Calls
<1>7. CASE Finalized
  <2> DEFINE i == committed + 1
  <2>1. i \in slots /\ i \in Calls /\ pc = "finalize" /\ log' = Append(log, ResultEvent(i, callSeqs[i]))
    BY <1>7 DEF Finalized, Ready, Cited, TypeOK
  <2>2. callSeqs[i] \in DOMAIN log /\ log[callSeqs[i]] = CallEvent(i) /\ callSeqs[i] # 0 /\ callSeqs[i] \in Nat
    BY <1>1, <2>1 DEF LogParts, LogInv
  <2>3. ResultEvent(i, callSeqs[i]) \in Event /\ callSeqs[i] \in RecordedAt(i)
    BY <2>1, <2>2, EventTypes DEF RecordedAt
  <2>4. Answered = 1 .. committed /\ 1 .. i - 1 \subseteq Answered /\ i \notin Answered /\ i \in Nat
    BY <2>1 DEF LogParts, LogInv, TypeOK
  <2>5. pc' \in {"finalize", "refill", "drain"} /\ callSeqs' = callSeqs
          /\ (pc' # "drain" => committed' = i)
    BY <1>7 DEF Finalized
  <2>6. CitesItsCall' /\ EveryCallAnsweredInOrder' /\ Answered' = Answered \cup {i}
    BY <1>1, <2>1, <2>2, <2>3, <2>4, <2>5, ResultAppended DEF LogParts
  <2>7. DOMAIN log' = 1 .. Len(log) + 1 /\ log'[Len(log) + 1] = ResultEvent(i, callSeqs[i])
          /\ \A k \in DOMAIN log : log'[k] = log[k]
    BY <1>1, <2>1, <2>3, Appended
  <2>8. \A k \in DOMAIN log' : \/ k \in DOMAIN log /\ log'[k] = log[k]
                               \/ log'[k].type = "result" /\ log'[k].cites # 0
    BY <1>1, <2>2, <2>7 DEF ResultEvent
  <2>9. pc' # "drain" => Answered' = 1 .. committed'
    BY <2>4, <2>5, <2>6 DEF TypeOK
  <2>10. Waiting' \subseteq Waiting
    BY <1>7 DEF Finalized, Waiting, Running, Preparing
  <2>11. \A j \in Waiting' : callSeqs'[j] \in DOMAIN log' /\ log'[callSeqs'[j]] = CallEvent(j)
    BY <1>1, <2>1, <2>3, <2>5, <2>10, Extended DEF LogParts
  <2>12. LogInv'
    BY <2>1, <2>5, <2>8, <2>9, <2>11 DEF LogParts, LogInv, Waiting
  <2> QED
    BY <2>6, <2>12 DEF LogParts
<1>8. CASE Race
  BY QuietStep, <1>8 DEF Race, InFlight, TypeOK, Waiting, Running, Preparing, Resting, Calls
<1>9. CASE Drain
  BY QuietStep, <1>9 DEF Drain, Drained, TypeOK, Waiting, Running, Preparing, Resting, Calls
<1>10. CASE SkipCall
  <2>1. Waiting = {} /\ Waiting' = {} /\ committed' = committed /\ UNCHANGED <<started, callSeqs>>
    BY <1>10 DEF SkipCall, ProgressInv, Resting, Waiting, InFlight, Running, Preparing
  <2>2. CASE started < N
    <3> DEFINE i == started + 1
    <3>1. i \in Calls /\ CallEvent(i) \in Event
      BY <2>2, EventTypes DEF TypeOK, Calls
    <3>2. log' = Append(log, CallEvent(i)) /\ pc = "skip" /\ pc' = "skipResult"
      BY <1>10, <2>2 DEF SkipCall, Skips
    <3>3. CitesItsCall' /\ EveryCallAnsweredInOrder' /\ Answered' = Answered
      BY <1>1, <3>1, <3>2, CallAppended DEF LogParts
    <3>4. DOMAIN log' = 1 .. Len(log) + 1 /\ log'[Len(log) + 1] = CallEvent(i) /\ Len(log') = Len(log) + 1
            /\ \A k \in DOMAIN log : log'[k] = log[k]
      BY <1>1, <3>1, <3>2, Appended
    <3>5. \A k \in DOMAIN log' : \/ k \in DOMAIN log /\ log'[k] = log[k]
                                 \/ log'[k].type = "call" /\ log'[k].cites = 0
      BY <1>1, <3>4 DEF CallEvent
    <3>6. log' # <<>> /\ log'[Len(log')] = CallEvent(started' + 1)
      BY <1>1, <2>1, <3>2, <3>4, AppendProperties
    <3>7. LogInv'
      BY <2>1, <3>2, <3>3, <3>5, <3>6 DEF LogParts, LogInv, Waiting
    <3> QED
      BY <3>3, <3>7 DEF LogParts
  <2>3. CASE ~(started < N)
    BY <1>10, <2>1, <2>3, QuietStep DEF SkipCall, Skips
  <2> QED
    BY <2>2, <2>3
<1>11. CASE SkipResult
  <2> DEFINE i == started + 1
  <2>1. i \in Calls /\ committed = started /\ Waiting = {} /\ Waiting' = {}
    BY <1>11 DEF SkipResult, ProgressInv, Resting, TypeOK, Calls, Waiting, InFlight, Running, Preparing
  <2>2. log # <<>> /\ log[Len(log)] = CallEvent(i) /\ Answered = 1 .. started
    BY <1>11, <2>1 DEF SkipResult, LogParts, LogInv
  <2>3. Len(log) # 0 /\ Len(log) \in DOMAIN log /\ ResultEvent(i, Len(log)) \in Event
    BY <1>1, <2>1, <2>2, EventTypes, EmptySeq
  <2>4. 1 .. i - 1 \subseteq Answered /\ i \notin Answered /\ i \in Nat /\ Len(log) \in RecordedAt(i)
    BY <2>2, <2>3 DEF RecordedAt, TypeOK
  <2>5. log' = Append(log, ResultEvent(i, Len(log))) /\ pc' = "skip" /\ committed' = i
    BY <1>11, <2>1 DEF SkipResult
  <2>6. CitesItsCall' /\ EveryCallAnsweredInOrder' /\ Answered' = Answered \cup {i}
    BY <1>1, <2>1, <2>3, <2>4, <2>5, ResultAppended DEF LogParts
  <2>7. DOMAIN log' = 1 .. Len(log) + 1 /\ log'[Len(log) + 1] = ResultEvent(i, Len(log))
          /\ \A k \in DOMAIN log : log'[k] = log[k]
    BY <1>1, <2>3, <2>5, Appended
  <2>8. \A k \in DOMAIN log' : \/ k \in DOMAIN log /\ log'[k] = log[k]
                               \/ log'[k].type = "result" /\ log'[k].cites # 0
    BY <1>1, <2>3, <2>7 DEF ResultEvent
  <2>9. Answered' = 1 .. committed'
    BY <2>2, <2>5, <2>6 DEF TypeOK
  <2>10. LogInv'
    BY <1>11, <2>1, <2>5, <2>8, <2>9 DEF SkipResult, LogParts, LogInv, Waiting
  <2> QED
    BY <2>6, <2>10 DEF LogParts
<1>12. CASE Recover
  <2>1. PICK i \in Unanswered :
          /\ \A j \in Unanswered : i <= j
          /\ \/ \E k \in RecordedAt(i) : log' = Append(log, ResultEvent(i, k))
             \/ RecordedAt(i) = {} /\ log' = Append(log, ResultEvent(i, 0))
    BY <1>12, Zenon DEF Recover
  <2>2. PICK n \in Nat : /\ log' = Append(log, ResultEvent(i, n))
                         /\ \/ n # 0 /\ n \in RecordedAt(i)
                            \/ n = 0 /\ RecordedAt(i) = {}
    <3>1. \A k \in RecordedAt(i) : k \in Nat /\ k # 0
      BY <1>1 DEF RecordedAt
    <3> QED
      BY <2>1, <3>1, Zenon
  <2>3. i \in Calls /\ i \in Nat /\ i \notin Answered /\ 1 .. i - 1 \subseteq Answered
    BY <2>1 DEF Unanswered, Calls
  <2>4. pc = "recover" /\ pc' = "recover" /\ callSeqs' = callSeqs /\ Waiting' \subseteq Waiting
    BY <1>12 DEF Recover, Waiting, Running, Preparing
  <2>5. ResultEvent(i, n) \in Event
    BY <2>3, EventTypes
  <2>6. CitesItsCall' /\ EveryCallAnsweredInOrder'
    BY <1>1, <2>2, <2>3, <2>4, ResultAppended DEF LogParts
  <2>7. DOMAIN log' = 1 .. Len(log) + 1 /\ log'[Len(log) + 1] = ResultEvent(i, n)
          /\ \A k \in DOMAIN log : log'[k] = log[k]
    BY <1>1, <2>2, <2>5, Appended
  <2>8. \A k \in DOMAIN log' : \/ k \in DOMAIN log /\ log'[k] = log[k]
                               \/ log'[k].type = "result"
    BY <1>1, <2>7 DEF ResultEvent
  <2>9. \A j \in Waiting' : callSeqs'[j] \in DOMAIN log' /\ log'[callSeqs'[j]] = CallEvent(j)
    BY <1>1, <2>2, <2>4, <2>5, Extended DEF LogParts
  <2>10. LogInv'
    BY <2>4, <2>8, <2>9 DEF LogParts, LogInv, Waiting
  <2> QED
    BY <2>6, <2>10 DEF LogParts
<1>13. CASE StepEnds
  <2>1. Answered \subseteq Calls
    BY <1>1 DEF Answered, Event
  <2>2. pc = "returned" => Answered = 1 .. committed /\ committed = N
    BY DEF LogParts, LogInv, ProgressInv, Resting
  <2>3. pc' = "closed" /\ Answered = Calls /\ UNCHANGED <<log, callSeqs>>
    BY <1>13, <2>1, <2>2 DEF StepEnds, Unanswered, Calls
  <2>4. Waiting' \subseteq Waiting
    BY <1>13 DEF StepEnds, Waiting, Running, Preparing
  <2> QED
    BY <2>3, <2>4, QuietStep
<1>14. CASE Abort
  <2>1. Waiting' \subseteq Waiting /\ pc' = pc /\ UNCHANGED <<log, callSeqs, committed>> /\ pc \in Suspended
    BY <1>14 DEF Abort, Waiting, Running, Preparing
  <2> QED
    BY <2>1, QuietStep DEF Suspended
<1>15. ASSUME NEW i \in Calls, Settles(i) PROVE LogParts'
  <2>1. Waiting' \subseteq Waiting /\ pc' = pc /\ UNCHANGED <<log, callSeqs, committed>> /\ pc \in Suspended
    BY <1>15 DEF Settles, Waiting, Running, Preparing, TypeOK
  <2> QED
    BY <2>1, QuietStep DEF Suspended
<1>16. ASSUME NEW i \in Calls, Reclassify(i) PROVE LogParts'
  <2>1. Waiting' \subseteq Waiting /\ pc' = pc /\ UNCHANGED <<log, callSeqs, committed>> /\ pc \in Suspended
    BY <1>16 DEF Reclassify, Waiting, Running, Preparing
  <2> QED
    BY <2>1, QuietStep DEF Suspended
<1>17. CASE UNCHANGED vars
  <2>1. CitesItsCall' /\ EveryCallAnsweredInOrder' /\ Answered' = Answered
    BY <1>17, LogKept DEF vars
  <2>2. LogInv'
    BY <1>17, <2>1, Zenon DEF vars, LogParts, LogInv, Running, Preparing
  <2> QED
    BY <2>1, <2>2 DEF LogParts
<1> QED
  BY <1>2, <1>3, <1>4, <1>5, <1>6, <1>7, <1>8, <1>9, <1>10, <1>11, <1>12, <1>13, <1>14, <1>15, <1>16, <1>17 DEF Next, Schedule, Close, Bodies

-----------------------------------------------------------------------------
(* The theorems.                                                           *)

LEMMA InitInv == Init => SchedulerInv
<1> SUFFICES ASSUME Init PROVE SchedulerInv
  OBVIOUS
<1> USE SchedulerAssumption
<1>1. InFlight = {} /\ Running = {} /\ slots = {} /\ log = <<>> /\ DOMAIN log = {} /\ pc = "classify"
  BY DEF Init, InFlight, Running
<1>2. TypeOK
  BY TypeInit
<1>3. ProgressInv
  BY <1>1 DEF Init, ProgressInv, Resting, Preparing
<1>4. ExclusiveInv
  BY <1>1 DEF Init, ExclusiveInv
<1>5. RoomInv
  BY <1>1, FS_EmptySet DEF RoomInv
<1>6. Answered = {} /\ Recorded = {}
  BY <1>1 DEF Answered, Recorded
<1>7. LogParts
  BY <1>1, <1>6 DEF Init, LogParts, LogInv, CitesItsCall, EveryCallAnsweredInOrder, Preparing
<1> QED
  BY <1>2, <1>3, <1>4, <1>5, <1>7 DEF SchedulerInv

\* The inductive invariant: types, the counters against the pool, exclusive
\* calls, the bound of the pool, and what the log shows of the counters.
THEOREM SchedulerInvariant == Spec => []SchedulerInv
<1>1. SchedulerInv /\ [Next]_vars => SchedulerInv'
  BY TypeStep, ProgressStep, ExclusiveStep, RoomStep, LogStep DEF SchedulerInv
<1> QED
  BY InitInv, <1>1, PTL DEF Spec

\* Every variable of the scheduler keeps its type.
THEOREM SchedulerTypes == Spec => []TypeOK
<1>1. SchedulerInv => TypeOK
  BY DEF SchedulerInv
<1> QED
  BY <1>1, SchedulerInvariant, PTL

\* executeToolCalls records at most one result per call, in model order, and a
\* step that has closed has one for every call.
THEOREM ResultsInOrder == Spec => []EveryCallAnsweredInOrder
<1>1. SchedulerInv => EveryCallAnsweredInOrder
  BY DEF SchedulerInv, LogParts
<1> QED
  BY <1>1, SchedulerInvariant, PTL

\* Every result in the log cites the event of its own call, or says that the
\* call never started.
THEOREM ResultsCiteTheirCalls == Spec => []CitesItsCall
<1>1. SchedulerInv => CitesItsCall
  BY DEF SchedulerInv, LogParts
<1> QED
  BY <1>1, SchedulerInvariant, PTL

\* fillPool keeps the pool within maxParallelToolCalls, and an exclusive call
\* runs alone.
THEOREM PoolBound == Spec => []PoolIsBounded
<1>1. SchedulerInv => PoolIsBounded
  BY DEF SchedulerInv, RoomInv, ExclusiveInv, PoolIsBounded
<1> QED
  BY <1>1, SchedulerInvariant, PTL

\* No tool body runs when executeToolCalls has returned, or has thrown and the
\* recovery answers its calls.
THEOREM NothingRunsBehindTheStep == Spec => []DrainedBeforeClosing
<1>1. SchedulerInv => DrainedBeforeClosing
  BY DEF SchedulerInv, ProgressInv, Resting, InFlight, Running, Stopped, DrainedBeforeClosing
<1> QED
  BY <1>1, SchedulerInvariant, PTL

\* The throw behind runGroup's loop is unreachable: a group that ended without
\* an abort has committed what it started.
THEOREM GroupsAreCommitted == Spec => []GroupsCommitWhatTheyStart
<1>1. SchedulerInv => GroupsCommitWhatTheyStart
  BY DEF SchedulerInv, ProgressInv, Resting, GroupsCommitWhatTheyStart
<1> QED
  BY <1>1, SchedulerInvariant, PTL
\* The body of NothingStartsOnceStopped.
LEMMA StoppedStep ==
  SchedulerInv /\ [Next]_vars =>
    /\ signal \/ failure => pc' # "prepare" \/ pc = "prepare"
    /\ failure => Running' \subseteq Running
<1> SUFFICES ASSUME SchedulerInv, [Next]_vars
             PROVE  /\ signal \/ failure => pc' # "prepare" \/ pc = "prepare"
                    /\ failure => Running' \subseteq Running
  OBVIOUS
<1>1. pc = "classify" => ~failure
  BY DEF SchedulerInv, ProgressInv, Resting
<1>2. flight \in [Calls -> {"none", "running", "settled"}]
  BY DEF SchedulerInv, TypeOK
<1>3. CASE Refill
  BY <1>3, RefillCases DEF RefillKeeps, Starts, Leaves, Running
<1>4. CASE Schedule /\ ~Refill
  BY <1>1, <1>2, <1>4 DEF Schedule, Classify, Prepared, Dispatches, StageFails, Commit, Finalized,
                         Race, Drain, Running, progressVars, poolVars, stopVars
<1>5. CASE Close
  BY <1>5 DEF Close, SkipCall, SkipResult, Recover, StepEnds, Running, poolVars
<1>6. CASE Bodies
  BY <1>2, <1>6 DEF Bodies, Settles, Running
<1>7. CASE Abort \/ \E i \in Calls : Reclassify(i)
  BY <1>7 DEF Abort, Reclassify, Running, poolVars
<1>8. CASE UNCHANGED vars
  BY <1>8 DEF vars, Running
<1> QED
  BY <1>3, <1>4, <1>5, <1>6, <1>7, <1>8 DEF Next

\* fillPool starts nothing behind a fired signal or a recorded failure, and
\* startAt dispatches nothing behind a failure.
THEOREM NothingStarts == Spec => NothingStartsOnceStopped
<1> QED
  BY SchedulerInvariant, StoppedStep, PTL DEF Spec, NothingStartsOnceStopped

\* A call the fold accepts.
LEMMA CallAccepted ==
  ASSUME log \in Seq(Event), pc # "closed", pc' # "closed",
         NEW i \in Calls, i \notin Answered, log' = Append(log, CallEvent(i))
  PROVE  log' # log /\ log' = Append(log, log'[Len(log')]) /\ Accepted(log'[Len(log')])
<1>1. CallEvent(i) \in Event /\ CallEvent(i).type = "call" /\ CallEvent(i).call = i
  BY DEF CallEvent, Event
<1>2. /\ log' # log /\ log'[Len(log')] = CallEvent(i)
      /\ Answered' = Answered /\ Recorded' = Recorded \cup {i}
  BY <1>1, Appended
<1>3. Trace!ToolCall(i)
  BY <1>2 DEF Trace!ToolCall
<1> QED
  BY <1>1, <1>2, <1>3 DEF Accepted

\* A result the fold accepts: its call is pending, or it cites nothing.
LEMMA ResultAccepted ==
  ASSUME log \in Seq(Event), pc # "closed", pc' # "closed",
         NEW i \in Calls, i \notin Answered, NEW n \in Nat, n # 0 => n \in RecordedAt(i),
         log' = Append(log, ResultEvent(i, n))
  PROVE  log' # log /\ log' = Append(log, log'[Len(log')]) /\ Accepted(log'[Len(log')])
<1>1. ResultEvent(i, n) \in Event /\ ResultEvent(i, n).type = "result"
        /\ ResultEvent(i, n).call = i /\ ResultEvent(i, n).cites = n
  BY DEF ResultEvent, Event
<1>2. /\ log' # log /\ log'[Len(log')] = ResultEvent(i, n)
      /\ Answered' = Answered \cup {i} /\ Recorded' = Recorded
  BY <1>1, Appended
<1>3. n # 0 => i \in Recorded
  BY DEF RecordedAt, Recorded, CallEvent
<1>4. Trace!ToolResult(i, n = 0)
  BY <1>2, <1>3 DEF Trace!ToolResult
<1> QED
  BY <1>1, <1>2, <1>4 DEF Accepted

\* The body of LogIsWellFormed.
LEMMA WellFormedStep ==
  SchedulerInv /\ Next =>
    IF log' # log THEN log' = Append(log, log'[Len(log')]) /\ Accepted(log'[Len(log')])
    ELSE pc' = "closed" => Trace!StepEnd
<1> SUFFICES ASSUME SchedulerInv, Next
             PROVE  IF log' # log THEN log' = Append(log, log'[Len(log')]) /\ Accepted(log'[Len(log')])
                    ELSE pc' = "closed" => Trace!StepEnd
  OBVIOUS
<1> USE SchedulerAssumption
<1>1. log \in Seq(Event) /\ Len(log) \in Nat /\ DOMAIN log = 1 .. Len(log)
  <2>1. log \in Seq(Event)
    BY TypeParts, Zenon DEF SchedulerInv, Parts, RecordOK
  <2> QED
    BY <2>1
<1>2. started \in 0 .. N /\ committed \in 0 .. N /\ committed <= started /\ slots \subseteq Calls
        /\ (pc \notin {"drain", "recover", "closed"} => Answered = 1 .. committed)
  BY DEF SchedulerInv, TypeOK, ProgressInv, LogParts, LogInv
<1>3. CASE Refill
  <2>1. CASE Starts
    <3>1. started + 1 \in Calls /\ started + 1 \notin Answered
      BY <1>2, <1>3, <2>1, RefillCases DEF Starts, Calls, SchedulerInv, TypeOK
    <3> QED
      BY <1>1, <1>3, <2>1, <3>1, RefillCases, CallAccepted DEF Starts
  <2>2. CASE Leaves
    BY <2>2 DEF Leaves
  <2> QED
    BY <1>3, <2>1, <2>2, RefillCases
<1>4. CASE SkipCall
  <2>1. CASE Skips
    <3>1. started + 1 \in Calls /\ started + 1 \notin Answered
      BY <1>2, <1>4, <2>1 DEF Skips, Calls, SkipCall
    <3>2. log' = Append(log, CallEvent(started + 1)) /\ pc = "skip" /\ pc' = "skipResult"
      BY <1>4, <2>1 DEF SkipCall
    <3> QED
      BY <1>1, <3>1, <3>2, CallAccepted
  <2>2. CASE ~Skips
    BY <1>4, <2>2 DEF SkipCall
  <2> QED
    BY <2>1, <2>2
<1>5. CASE SkipResult
  <2> DEFINE i == started + 1
  <2>1. i \in Calls /\ i \notin Answered /\ log # <<>> /\ log[Len(log)] = CallEvent(i)
    BY <1>2, <1>5 DEF SkipResult, SchedulerInv, ProgressInv, Resting, LogParts, LogInv, Calls
  <2>2. Len(log) # 0 /\ Len(log) \in RecordedAt(i)
    BY <1>1, <2>1, EmptySeq DEF RecordedAt
  <2>3. log' = Append(log, ResultEvent(i, Len(log))) /\ pc = "skipResult" /\ pc' = "skip"
    BY <1>5 DEF SkipResult
  <2> QED
    BY <1>1, <2>1, <2>2, <2>3, ResultAccepted
<1>6. CASE Finalized
  <2> DEFINE i == committed + 1
  <2>1. i \in Calls /\ i \notin Answered /\ pc = "finalize" /\ pc' # "closed" /\ i \in slots
          /\ log' = Append(log, ResultEvent(i, callSeqs[i]))
    BY <1>2, <1>6 DEF Finalized, Ready, Cited
  <2>2. callSeqs[i] \in Nat /\ callSeqs[i] \in RecordedAt(i)
    BY <1>1, <2>1 DEF SchedulerInv, LogParts, LogInv, RecordedAt
  <2> QED
    BY <1>1, <2>1, <2>2, ResultAccepted
<1>7. CASE Recover
  <2>1. PICK i \in Unanswered :
          \/ \E k \in RecordedAt(i) : log' = Append(log, ResultEvent(i, k))
          \/ log' = Append(log, ResultEvent(i, 0))
    BY <1>7, Zenon DEF Recover
  <2>2. i \in Calls /\ i \notin Answered /\ pc # "closed" /\ pc' # "closed"
    BY <1>7, <2>1 DEF Recover, Unanswered
  <2>3. CASE log' = Append(log, ResultEvent(i, 0))
    BY <1>1, <2>2, <2>3, ResultAccepted
  <2>4. ASSUME NEW k \in RecordedAt(i), log' = Append(log, ResultEvent(i, k))
        PROVE  log' # log /\ log' = Append(log, log'[Len(log')]) /\ Accepted(log'[Len(log')])
    <3>1. k \in Nat
      BY <1>1 DEF RecordedAt
    <3> QED
      BY <1>1, <2>2, <2>4, <3>1, ResultAccepted
  <2> QED
    BY <2>1, <2>3, <2>4
<1>8. CASE StepEnds
  BY <1>8 DEF StepEnds, Trace!StepEnd, Answered, Recorded
<1>9. CASE \/ Classify \/ Prepared \/ StageFails \/ Commit \/ Race \/ Drain \/ Bodies \/ Abort
           \/ \E i \in Calls : Reclassify(i)
  BY <1>9 DEF Classify, Prepared, StageFails, Commit, Race, Drain, Bodies, Settles, Abort, Reclassify, Suspended
<1> QED
  BY <1>3, <1>4, <1>5, <1>6, <1>7, <1>8, <1>9 DEF Next, Schedule, Close

\* Every event that the scheduler and the recovery append is one the invariant
\* companion of the session accepts, and so is the end of the step.
THEOREM ToolLogIsWellFormed == Spec => LogIsWellFormed
<1>1. SchedulerInv /\ [Next]_vars =>
        [IF log' # log THEN log' = Append(log, log'[Len(log')]) /\ Accepted(log'[Len(log')])
         ELSE pc' = "closed" => Trace!StepEnd]_vars
  BY WellFormedStep
<1> QED
  BY SchedulerInvariant, <1>1, PTL DEF Spec, LogIsWellFormed
=============================================================================
