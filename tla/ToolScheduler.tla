---------------------------- MODULE ToolScheduler ----------------------------
(***************************************************************************)
(* The tool calls of one assistant step: exclusive calls are barriers,     *)
(* parallel calls run in a bounded rolling pool, results are committed in  *)
(* model order, and an abort or a failure of the scheduler drains what was *)
(* started before the step closes.                                         *)
(*                                                                         *)
(* The scheduler is suspended at its awaits; between two of them only tool *)
(* bodies settle, the signal fires, and the registry changes a tool's      *)
(* concurrency class.  At the points in Synchronous it does not yield.     *)
(*                                                                         *)
(* Sources: packages/core/agent-loop/src/tool-calls.ts, and the recovery   *)
(* of packages/core/session/src/repair.ts that closes a failed step.       *)
(***************************************************************************)
EXTENDS Naturals, Sequences, FiniteSets

CONSTANTS
  N,              \* number of calls the assistant message requests
  MaxParallel,    \* the configured maxParallelToolCalls
  MaxChanges      \* bound: changes of a call's concurrency class

ASSUME SchedulerAssumption ==
  N \in Nat /\ MaxParallel \in Nat \ {0} /\ MaxChanges \in Nat

Calls == 1 .. N     \* in model order

VARIABLES
  pc,             \* where the scheduler is
  mode,           \* class of the group that runs
  last,           \* last call of the group
  started,        \* calls 1 .. started are recorded as started (or skipped)
  committed,      \* calls 1 .. committed have their result
  callSeqs,       \* position in the log of a started call
  flight,         \* "none", "running" or "settled": the pool holds the last two
  slots,          \* calls whose outcome awaits its turn to be committed
  aborted,        \* the group has observed the abort
  signal,         \* the step's signal has fired
  failure,        \* a scheduler failure is recorded
  parallel,       \* live class of each call
  log,            \* tool/call and tool/result events of the step
  \* --- history and bound
  exclusives,     \* calls that were exclusive when they started
  changes

vars == <<pc, mode, last, started, committed, callSeqs, flight, slots, aborted, signal,
          failure, parallel, log, exclusives, changes>>
groupVars == <<mode, last>>
progressVars == <<started, committed, callSeqs, exclusives>>
poolVars == <<flight, slots>>
stopVars == <<aborted, failure>>
worldVars == <<signal, parallel, changes>>

Synchronous == {"open", "skip", "skipResult", "recover"}
Suspended == {"classify", "prepare", "commit", "finalize", "refill", "race", "drain"}
Stopped == {"returned", "closed"}

InFlight == {i \in Calls : flight[i] # "none"}
Running == {i \in Calls : flight[i] = "running"}

CallEvent(i) == [type |-> "call", call |-> i, cites |-> 0]
ResultEvent(i, seq) == [type |-> "result", call |-> i, cites |-> seq]
Recorded == {log[k].call : k \in {j \in DOMAIN log : log[j].type = "call"}}
Answered == {log[k].call : k \in {j \in DOMAIN log : log[j].type = "result"}}

-----------------------------------------------------------------------------
(* executeToolCalls: groups.                                               *)

\* The next group: the call alone, or it and every later call when it is
\* parallel.  The group starts synchronously.
Classify ==
  /\ pc = "classify"
  /\ IF started < N
     THEN /\ mode' = IF parallel[started + 1] THEN "parallel" ELSE "exclusive"
          /\ last' = IF parallel[started + 1] THEN N ELSE started + 1
          /\ slots' = {} /\ flight' = [i \in Calls |-> "none"] /\ aborted' = signal
          /\ pc' = "open"
     ELSE pc' = "returned" /\ UNCHANGED <<groupVars, slots, flight, aborted>>
  /\ UNCHANGED <<progressVars, failure, log, worldVars>>

Skips == started < N

\* The synthetic pairs of an aborted step.
SkipCall ==
  /\ pc = "skip"
  /\ IF Skips
     THEN log' = Append(log, CallEvent(started + 1)) /\ pc' = "skipResult"
     ELSE pc' = "returned" /\ UNCHANGED log
  /\ UNCHANGED <<groupVars, progressVars, poolVars, stopVars, worldVars>>

SkipResult ==
  /\ pc = "skipResult"
  /\ log' = Append(log, ResultEvent(started + 1, Len(log)))
  /\ started' = started + 1 /\ committed' = committed + 1
  /\ pc' = "skip"
  /\ UNCHANGED <<groupVars, callSeqs, poolVars, stopVars, worldVars, exclusives>>

-----------------------------------------------------------------------------
(* runGroup: start, settle, commit.                                        *)

\* The first call was classified with the group; later ones are classified again.
\* Fault: a pending call keeps the class it was grouped with.
MayStartUnchecked(i) == TRUE
MayStart(i) == pc = "open" \/ parallel[i]

\* Fault: one call too many joins the pool.
HasRoomOffByOne == Cardinality(InFlight) <= MaxParallel
HasRoom == Cardinality(InFlight) < MaxParallel

\* Fault: an abort during an await is not observed before the next start.
ObservesAbortNever == aborted
ObservesAbort == aborted \/ signal

\* Fault: Promise.race is awaited on an empty pool.
GroupDrainedNever == FALSE
GroupDrained == InFlight = {}

\* The head of fillPool: start the next call, or leave for the race, or end the
\* group.  A failure recorded meanwhile is thrown first.
Refill ==
  /\ pc \in {"open", "refill"}
  /\ IF failure
     THEN pc' = "drain" /\ UNCHANGED <<started, callSeqs, aborted, log, exclusives>>
     ELSE /\ aborted' = ObservesAbort
          /\ IF ~aborted' /\ started < last /\ HasRoom /\ MayStart(started + 1)
             THEN /\ log' = Append(log, CallEvent(started + 1))
                  /\ callSeqs' = [callSeqs EXCEPT ![started + 1] = Len(log) + 1]
                  /\ started' = started + 1
                  /\ exclusives' = IF parallel[started + 1] THEN exclusives
                                    ELSE exclusives \cup {started + 1}
                  /\ pc' = "prepare"
             ELSE /\ pc' = IF ~GroupDrained THEN "race" ELSE IF aborted' THEN "skip" ELSE "classify"
                  /\ UNCHANGED <<started, callSeqs, log, exclusives>>
  /\ UNCHANGED <<groupVars, committed, flight, slots, failure, worldVars>>

\* prepare settles: the call is dispatched, or has an outcome already.
\* Fault: a failure recorded while prepare was awaited does not stop the dispatch.
DispatchesAlways == TRUE
Dispatches == ~failure

Prepared ==
  /\ pc = "prepare"
  /\ IF Dispatches
     THEN /\ pc' = "commit"
          /\ \/ flight' = [flight EXCEPT ![started] = "running"] /\ UNCHANGED slots
             \/ slots' = slots \cup {started} /\ UNCHANGED flight
     ELSE pc' = "drain" /\ UNCHANGED <<flight, slots>>
  /\ UNCHANGED <<groupVars, progressVars, stopVars, log, worldVars>>

\* A pipeline stage rejects: prepare, or finalize/finish.
StageFails ==
  /\ pc \in {"prepare", "finalize"}
  /\ failure' = TRUE /\ pc' = "drain"
  /\ UNCHANGED <<groupVars, progressVars, poolVars, aborted, log, worldVars>>

\* commitReady: only the next result in model order may be finalized.
\* Fault: any settled outcome is committed.
ReadyAny == slots
\* Fault: results are committed only behind a settled dispatch.
ReadyAfterRace == IF InFlight = {} THEN {} ELSE slots \cap {committed + 1}
Ready == slots \cap {committed + 1}

Commit ==
  /\ pc = "commit"
  /\ pc' = IF failure THEN "drain" ELSE IF Ready # {} THEN "finalize" ELSE "refill"
  /\ UNCHANGED <<groupVars, progressVars, poolVars, stopVars, log, worldVars>>

\* Fault: the result cites the latest event instead of its own call.
CitedLatest(i) == Len(log)
Cited(i) == callSeqs[i]

\* The result is appended; its context is accepted, or that throws.
Finalized ==
  /\ pc = "finalize"
  /\ \E i \in Ready :
       /\ log' = Append(log, ResultEvent(i, Cited(i)))
       /\ \/ /\ committed' = committed + 1 /\ slots' = slots \ {i}
             /\ pc' = IF committed + 2 \in slots THEN "finalize" ELSE "refill"
             /\ UNCHANGED failure
          \/ failure' = TRUE /\ pc' = "drain" /\ UNCHANGED <<committed, slots>>
  /\ UNCHANGED <<groupVars, started, callSeqs, flight, aborted, worldVars, exclusives>>

\* One settled dispatch leaves the pool.
Race ==
  /\ pc = "race"
  /\ \E i \in InFlight \ Running : flight' = [flight EXCEPT ![i] = "none"]
  /\ pc' = "commit"
  /\ UNCHANGED <<groupVars, progressVars, slots, stopVars, log, worldVars>>

\* The catch: every dispatch settles before the failure is thrown.
\* Fault: the failure is thrown at once.
DrainedUnawaited == TRUE
Drained == Running = {}

Drain ==
  /\ pc = "drain" /\ Drained
  /\ pc' = "recover"
  /\ UNCHANGED <<groupVars, progressVars, poolVars, stopVars, log, worldVars>>

\* A dispatch settles, or rejects: a rejection fills no slot.
Settles(i) ==
  /\ pc \in Suspended /\ flight[i] = "running"
  /\ flight' = [flight EXCEPT ![i] = "settled"]
  /\ \/ slots' = slots \cup {i} /\ UNCHANGED failure
     \/ failure' = TRUE /\ UNCHANGED slots
  /\ UNCHANGED <<pc, groupVars, progressVars, aborted, log, worldVars>>

-----------------------------------------------------------------------------
(* ToolCallRecovery, and the end of the step.                              *)

\* Fault: a call is answered whether or not it has its result.
OwedResults == {i \in Calls : i > committed}
Unanswered == Calls \ Answered

RecordedAt(i) == {k \in DOMAIN log : log[k] = CallEvent(i)}

\* Every request without a result is answered, in assistant order; the answer
\* of a started call cites it.
Recover ==
  /\ pc = "recover" /\ Unanswered # {}
  /\ \E i \in Unanswered :
       /\ \A j \in Unanswered : i <= j
       /\ \/ \E k \in RecordedAt(i) : log' = Append(log, ResultEvent(i, k))
          \/ RecordedAt(i) = {} /\ log' = Append(log, ResultEvent(i, 0))
  /\ UNCHANGED <<pc, groupVars, progressVars, poolVars, stopVars, worldVars>>

StepEnds ==
  /\ pc = "returned" \/ (pc = "recover" /\ Unanswered = {})
  /\ pc' = "closed"
  /\ UNCHANGED <<groupVars, progressVars, poolVars, stopVars, log, worldVars>>

\* The signal fires.
Abort ==
  /\ pc \in Suspended /\ ~signal /\ signal' = TRUE
  /\ UNCHANGED <<pc, groupVars, progressVars, poolVars, stopVars, parallel, log, changes>>

\* A registration changes the class of a call.
Reclassify(i) ==
  /\ pc \in Suspended
  /\ changes < MaxChanges /\ changes' = changes + 1
  /\ parallel' = [parallel EXCEPT ![i] = ~@]
  /\ UNCHANGED <<pc, groupVars, progressVars, poolVars, stopVars, signal, log>>

-----------------------------------------------------------------------------
Init ==
  /\ pc = "classify" /\ mode = "exclusive" /\ last = 0 /\ started = 0 /\ committed = 0
  /\ callSeqs = [i \in Calls |-> 0] /\ flight = [i \in Calls |-> "none"] /\ slots = {}
  /\ aborted = FALSE /\ signal \in BOOLEAN /\ failure = FALSE
  /\ parallel \in [Calls -> BOOLEAN] /\ log = <<>> /\ exclusives = {} /\ changes = 0

Schedule == Classify \/ Refill \/ Prepared \/ StageFails \/ Commit \/ Finalized
              \/ Race \/ Drain
Close == SkipCall \/ SkipResult \/ Recover \/ StepEnds
Bodies == \E i \in Calls : Settles(i)

Next == Schedule \/ Close \/ Bodies \/ Abort \/ \E i \in Calls : Reclassify(i)

Spec == Init /\ [][Next]_vars

\* Stages of the pipeline settle, and so does every tool body.
Fairness == WF_vars(Schedule) /\ WF_vars(Close) /\ \A i \in Calls : WF_vars(Settles(i))
FairSpec == Spec /\ Fairness

-----------------------------------------------------------------------------
(* Properties.                                                             *)

TypeOK ==
  /\ pc \in Synchronous \cup Suspended \cup Stopped
  /\ mode \in {"parallel", "exclusive"} /\ last \in 0 .. N
  /\ started \in 0 .. N /\ committed \in 0 .. N
  /\ callSeqs \in [Calls -> Nat] /\ flight \in [Calls -> {"none", "running", "settled"}]
  /\ slots \subseteq Calls /\ parallel \in [Calls -> BOOLEAN]
  /\ aborted \in BOOLEAN /\ signal \in BOOLEAN /\ failure \in BOOLEAN
  /\ log \in Seq([type : {"call", "result"}, call : Calls, cites : Nat])
  /\ exclusives \subseteq Calls /\ changes \in Nat

\* Replay validity: the results in the log are those of a prefix of the calls,
\* one each, in model order, whatever order their bodies settled in, and when
\* the step has closed those of every call, whatever was skipped or failed.
EveryCallAnsweredInOrder ==
  /\ \A j, k \in DOMAIN log :
       j < k /\ log[j].type = "result" /\ log[k].type = "result" => log[j].call < log[k].call
  /\ \A i \in Answered : 1 .. i \subseteq Answered
  /\ pc = "closed" => Answered = Calls

\* The pool never exceeds its bound, and a call that was exclusive when it
\* started has the pool to itself, though classes change while calls wait.
PoolIsBounded ==
  /\ Cardinality(InFlight) <= MaxParallel
  /\ \A i \in exclusives \cap InFlight : InFlight = {i}

\* Once the signal has fired or a failure is recorded no call is started, and
\* behind a failure nothing is dispatched.
NothingStartsOnceStopped ==
  [][/\ signal \/ failure => pc' # "prepare" \/ pc = "prepare"
     /\ failure => Running' \subseteq Running]_vars

\* The step never closes over a running tool body.
DrainedBeforeClosing == pc \in Stopped \cup {"recover"} => Running = {}

\* A result cites the event of its own call; only one that answers a call that
\* never started cites nothing.
CitesItsCall ==
  \A k \in DOMAIN log : log[k].type = "result" =>
    IF log[k].cites = 0 THEN log[k].call \notin Recorded
    ELSE log[k].cites \in RecordedAt(log[k].call)

\* The comment on the unreachable throw: a group that was not aborted has
\* committed every call it started.
GroupsCommitWhatTheyStart == pc \in {"classify", "skip", "returned"} => committed = started

\* Every event appended, and the step's end, is one the session's invariant
\* companion accepts: a result answers a pending call, or says it never started.
Trace == INSTANCE SessionTrace WITH
           openTurn <- 1, nextTurn <- 1,
           openStep <- IF pc = "closed" THEN 0 ELSE 1,
           nextStep <- IF pc = "closed" THEN 2 ELSE 1,
           pendingCalls <- IF pc = "closed" THEN {} ELSE Recorded \ Answered
Accepted(e) == IF e.type = "call" THEN Trace!ToolCall(e.call) ELSE Trace!ToolResult(e.call, e.cites = 0)
LogIsWellFormed ==
  [][IF log' # log THEN log' = Append(log, log'[Len(log')]) /\ Accepted(log'[Len(log')])
     ELSE pc' = "closed" => Trace!StepEnd]_vars

\* The step closes, with its results recorded.
StepCloses == <>(pc = "closed")
=============================================================================
