---------------------------- MODULE AgentDriver ----------------------------
(***************************************************************************)
(* The turn driver of one agent (ReactLoopAgent) and its inbox.            *)
(*                                                                         *)
(* JavaScript runs to completion, so concurrency has two sources here:     *)
(*   - an `await` suspends the driver; anything may run before it resumes; *)
(*   - a notification calls its listeners synchronously, in the middle of  *)
(*     the operation that emits it, and a listener may call the API.       *)
(* The variable stack holds the operations suspended inside a              *)
(* notification, innermost first.  A continuation of an await only runs on *)
(* an empty stack.  An API call runs on an empty stack (a task of its own) *)
(* or on top of a suspended operation (a listener), up to MaxDepth deep.   *)
(* An observer of a session append cannot append again, so at these points *)
(* only an abort gets through.                                             *)
(*                                                                         *)
(* Sources: packages/core/agent-loop/src/agent.ts and                      *)
(* packages/core/agent/src/inbox.ts.                                       *)
(***************************************************************************)
EXTENDS Integers, Sequences, FiniteSets

CONSTANTS
  Messages,         \* identities of the messages that may ever be sent
  Causes,           \* causes a caller may cancel with
  Parked,           \* next-turn messages restored from the log, a sequence
  FirstTurn,        \* number of the last turn in the restored log
  MaxStep,          \* bound: steps of one turn that may end owing a request
  MaxMaintenance,   \* bound: maintenance tasks
  MaxCancels,       \* bound: cancels that are not the disposal
  MaxDepth          \* bound: operations suspended inside notifications

ASSUME DriverAssumption ==
  /\ Causes \cap {"none", "disposed"} = {}
  /\ FirstTurn \in Nat /\ MaxStep \in Nat /\ MaxMaintenance \in Nat
  /\ MaxCancels \in Nat /\ MaxDepth \in Nat
  /\ Parked \in Seq(Messages)
  /\ \A i, j \in DOMAIN Parked : Parked[i] = Parked[j] => i = j

VARIABLES
  \* --- the driver's own state
  phase,            \* "idle", "maintenance" or "running"
  turn,             \* lastTurn of an idle agent, turn of a running one
  step,             \* last step entered in the turn
  abort,            \* cause the activity's signal is aborted with, or "none"
  wakeRequested,    \* a wake is latched for replay at convergence
  accepting,        \* no disposal has closed admission
  nextStep,         \* inbox: input awaiting the next step boundary
  nextTurn,         \* inbox: prompts awaiting turns of their own
  \* --- control
  pc,               \* where kick/turn/preStep/step is, "none" when no driver is
  turnEnds,         \* the turn's ending so far
  continues,        \* the turn returns whether input is pending
  stack,            \* operations suspended inside a notification
  settled,          \* the promise in activityDone has settled
  waiter,           \* the disposal's whenIdle()
  \* --- the durable log, folded as SessionTrace folds it
  trace,
  \* --- history
  owed,             \* messages sent as a wake the activity could not deliver
  dropped,          \* those of them whose latch a clearing cancel dropped
  landed,           \* turn a message arrived in as a wake after its abort, or -1
  parked,           \* pending when a running activity was aborted, no wake since
  claimedBy,        \* turn that claimed a message, 0 when none
  prompts,          \* messages claimed from the next-turn list
  canceled,         \* messages removed as canceled
  cut,              \* a step of the open turn hit the token ceiling
  owes,             \* the last step's tools owe the model another request
  maintenances, cancels

driverVars == <<phase, turn, step, abort, wakeRequested>>
inboxVars == <<nextStep, nextTurn>>
turnVars == <<turnEnds, continues, cut, owes>>
waitVars == <<settled, waiter>>
historyVars == <<owed, dropped, landed, parked, claimedBy, prompts, canceled>>
boundVars == <<maintenances, cancels>>
vars == <<driverVars, accepting, inboxVars, pc, turnVars, stack, waitVars, trace,
          historyVars, boundVars>>

AbortCauses == Causes \cup {"none", "disposed"}
Endings == {"none", "completed", "max-tokens", "blocked", "error", "aborted"}
SyncPoints == {"start", "opened", "claimingSteps", "claimingPrompt", "claimed", "context",
               "stepEnded", "stepFailed", "failing", "turnEnded"}
AwaitPoints == {"preStep", "rejected", "emptied", "entered", "request", "requestError",
                "tools", "stopping", "nextTurn", "exiting"}
\* Notifications of a session append: observers cannot append in turn.
ClaimPoints == {"claimingSteps", "claimingPrompt"}
AppendPoints == {"opened", "stepEnded", "stepFailed", "turnEnded"} \cup ClaimPoints

Elements(s) == {s[i] : i \in DOMAIN s}
Without(s, i) == SubSeq(s, 1, i - 1) \o SubSeq(s, i + 1, Len(s))
Pending == Elements(nextStep) \cup Elements(nextTurn)
HasPending == nextStep # <<>> \/ nextTurn # <<>>
Fresh == Messages \ (Pending \cup canceled \cup {m \in Messages : claimedBy[m] # 0})
Aborted == abort # "none"

\* preStep claims the first prompt at its turn's start, none at a later boundary.
\* Fault: a prompt is claimed at every step boundary.
TakesPromptAlways == nextTurn # <<>>
TakesPrompt == step = 0 /\ nextTurn # <<>>
FirstPrompt == IF nextTurn = <<>> THEN {} ELSE {Head(nextTurn)}
\* Fault: the prompt is proposed but stays queued.
PromptsKept == nextTurn
\* Fault: the whole queue is spliced out for the one prompt it proposes.
PromptsDropped == <<>>
OtherPrompts == IF nextTurn = <<>> THEN <<>> ELSE Tail(nextTurn)

\* What a claim that has begun goes on to take.
BeingClaimed ==
  (IF pc = "claimingSteps" THEN Elements(nextStep) ELSE {})
    \cup (IF pc \in ClaimPoints /\ TakesPrompt THEN FirstPrompt ELSE {})

-----------------------------------------------------------------------------
(* The stack of suspended operations.                                      *)

Ops == {"driver", "send", "clear", "abort", "other", "replay"}
Frame(op, flag, after, cause) == [op |-> op, flag |-> flag, after |-> after, cause |-> cause]
Frames == [op : Ops, flag : BOOLEAN, after : BOOLEAN, cause : AbortCauses]
DriverFrame == Frame("driver", FALSE, FALSE, "none")

Top(op) == stack # <<>> /\ Head(stack).op = op
Appending == Top("driver") /\ pc \in AppendPoints
MayCall == Len(stack) < MaxDepth /\ ~Appending      \* the API may be called now

Resumed(p) == stack = <<>> /\ pc = p      \* the await at p has settled
Running(p) == Top("driver") /\ pc = p     \* the notification at p has returned

BelowDriver == IF Top("driver") THEN Tail(stack) ELSE stack
Emit(p) == pc' = p /\ stack' = <<DriverFrame>> \o BelowDriver
Await(p) == pc' = p /\ stack' = BelowDriver

-----------------------------------------------------------------------------
(* Appends to the session log.                                             *)

AppendTurnStart(n) == trace' = [trace EXCEPT !.openTurn = n, !.nextStep = 1]
AppendTurnEnd == trace' = [trace EXCEPT !.openTurn = 0, !.nextTurn = @ + 1]
AppendStepStart(n) == trace' = [trace EXCEPT !.openStep = n]
AppendStepEnd == trace' = [trace EXCEPT !.openStep = 0, !.nextStep = @ + 1]

-----------------------------------------------------------------------------
(* wakeDriver: start a driver over the suspended operations rest, or latch *)
(* the wake behind maintenance or an aborted activity.                     *)

ReplaceActivity ==
  /\ settled' = FALSE
  /\ waiter' = IF waiter = "current" THEN "replaced" ELSE waiter

StartDriver(rest) ==
  /\ phase' = "running" /\ step' = 0 /\ abort' = "none" /\ wakeRequested' = FALSE
  /\ UNCHANGED turn
  /\ pc' = "start" /\ stack' = <<DriverFrame>> \o rest
  /\ ReplaceActivity

\* Fault: every wake of a busy agent is latched, a pre-abort one included.
LatchesAlways(after) == abort # "disposed"
Latches(after) == abort # "disposed" /\ (phase = "maintenance" \/ after)

WakeDriver(after, rest) ==
  IF phase = "idle" THEN StartDriver(rest)
  ELSE /\ wakeRequested' = (wakeRequested \/ Latches(after))
       /\ stack' = rest
       /\ UNCHANGED <<phase, turn, step, abort, pc, waitVars>>

-----------------------------------------------------------------------------
(* The public operations.                                                  *)

\* Fault: post-abort steering is not redirected to a turn of its own.
WakingAfterAbortNever(wakeup) == FALSE
WakingAfterAbort(wakeup) == wakeup /\ phase # "idle" /\ Aborted

\* send: classify, insert, and notify the insertion.  A duplicate identity and
\* a closing agent throw before any effect.
Send(m, target, wakeup) ==
  LET after == WakingAfterAbort(wakeup)
  IN /\ MayCall /\ accepting /\ m \in Fresh
     /\ IF after \/ target = "next-turn"
        THEN nextTurn' = Append(nextTurn, m) /\ UNCHANGED nextStep
        ELSE nextStep' = Append(nextStep, m) /\ UNCHANGED nextTurn
     /\ stack' = <<Frame("send", wakeup, after, "none")>> \o stack
     /\ owed' = IF wakeup /\ phase # "idle" /\ Latches(after) THEN owed \cup {m} ELSE owed
     /\ landed' = IF wakeup /\ phase # "idle" /\ Aborted
                  THEN [landed EXCEPT ![m] = turn] ELSE landed
     /\ parked' = IF wakeup THEN {} ELSE parked
     /\ UNCHANGED <<driverVars, accepting, pc, turnVars, waitVars, trace,
                    dropped, claimedBy, prompts, canceled, boundVars>>

\* The rest of send, once the insertion has been notified.
SendReturns ==
  /\ Top("send")
  /\ IF Head(stack).flag
     THEN WakeDriver(Head(stack).after, Tail(stack))
     ELSE stack' = Tail(stack) /\ UNCHANGED <<driverVars, pc, waitVars>>
  /\ UNCHANGED <<accepting, inboxVars, turnVars, trace, historyVars, boundVars>>

\* The tail of cancel: drop the latch unless the inbox is kept, fire the signal
\* of an activity that is not aborted yet.  Disposal goes on to whenIdle().
\* A live driver that is aborted with its inbox kept parks what is pending, what it
\* was started for included; a latch that is dropped leaves its wake owed for good.
FireAbort(cause, keepInbox, rest) ==
  /\ wakeRequested' = (wakeRequested /\ keepInbox)
  /\ abort' = IF phase # "idle" /\ ~Aborted THEN cause ELSE abort
  /\ owed' = IF keepInbox /\ phase = "running" /\ ~Aborted THEN {} ELSE owed
  /\ dropped' = IF wakeRequested /\ ~keepInbox THEN owed ELSE dropped \cap owed'
  /\ parked' = IF phase = "running" /\ ~Aborted THEN Pending \ BeingClaimed ELSE parked
  /\ stack' = rest
  /\ waiter' = IF cause = "disposed" THEN "current" ELSE waiter
  /\ UNCHANGED <<phase, turn, step, settled>>

\* A message that is removed is owed nothing.
Discard(gone) ==
  /\ canceled' = canceled \cup gone
  /\ owed' = owed \ gone /\ dropped' = dropped \ gone

ClearTurns(cause, rest) ==
  /\ Discard(Elements(nextTurn)) /\ nextTurn' = <<>>
  /\ stack' = <<Frame("abort", FALSE, FALSE, cause)>> \o rest
  /\ UNCHANGED <<driverVars, waitVars, nextStep, parked>>

\* cancel without keepInbox clears next-step, then next-turn, then aborts; each
\* non-empty removal is notified before the next part runs.
CancelFrom(cause, rest) ==
  IF nextStep # <<>>
  THEN /\ Discard(Elements(nextStep)) /\ nextStep' = <<>>
       /\ stack' = <<Frame("clear", FALSE, FALSE, cause)>> \o rest
       /\ UNCHANGED <<driverVars, waitVars, nextTurn, parked>>
  ELSE IF nextTurn # <<>> THEN ClearTurns(cause, rest)
  ELSE FireAbort(cause, FALSE, rest) /\ UNCHANGED <<inboxVars, canceled>>

CancelClearing(cause) ==
  /\ cancels < MaxCancels /\ cancels' = cancels + 1
  /\ MayCall \/ (Appending /\ ~HasPending)
  /\ CancelFrom(cause, stack)
  /\ UNCHANGED <<accepting, pc, turnVars, trace, landed, claimedBy, prompts, maintenances>>

CancelKeeping(cause) ==
  /\ cancels < MaxCancels /\ cancels' = cancels + 1
  /\ MayCall \/ Appending
  /\ FireAbort(cause, TRUE, stack)
  /\ UNCHANGED <<accepting, inboxVars, pc, turnVars, trace, landed, claimedBy, prompts,
                 canceled, maintenances>>

CancelCleared ==
  /\ Top("clear")
  /\ IF nextTurn # <<>>
     THEN ClearTurns(Head(stack).cause, Tail(stack))
     ELSE FireAbort(Head(stack).cause, FALSE, Tail(stack)) /\ UNCHANGED <<inboxVars, canceled>>
  /\ UNCHANGED <<accepting, pc, turnVars, trace, landed, claimedBy, prompts, boundVars>>

CancelAborts ==
  /\ Top("abort")
  /\ FireAbort(Head(stack).cause, FALSE, Tail(stack))
  /\ UNCHANGED <<accepting, inboxVars, pc, turnVars, trace, landed, claimedBy, prompts,
                 canceled, boundVars>>

\* dispose: close admission, cancel with cause disposed, wait for quiescence.
Dispose ==
  /\ MayCall /\ accepting
  /\ accepting' = FALSE
  /\ CancelFrom("disposed", stack)
  /\ UNCHANGED <<pc, turnVars, trace, landed, claimedBy, prompts, boundVars>>

\* Inbox.remove: one pending message is canceled, wherever it is.
Remove(m) ==
  /\ MayCall
  /\ \/ /\ \E i \in DOMAIN nextTurn : nextTurn[i] = m /\ nextTurn' = Without(nextTurn, i)
        /\ UNCHANGED nextStep
     \/ /\ \E i \in DOMAIN nextStep : nextStep[i] = m /\ nextStep' = Without(nextStep, i)
        /\ UNCHANGED nextTurn
  /\ Discard({m})
  /\ stack' = <<Frame("other", FALSE, FALSE, "none")>> \o stack
  /\ UNCHANGED <<driverVars, accepting, pc, turnVars, waitVars, trace, landed, parked,
                 claimedBy, prompts, boundVars>>

RemoveReturns ==
  /\ Top("other") /\ stack' = Tail(stack)
  /\ UNCHANGED <<driverVars, accepting, inboxVars, pc, turnVars, waitVars, trace,
                 historyVars, boundVars>>

\* Inbox.prepend, as plugins call it: no wake, and not gated by accepting.
Prepend(m) ==
  /\ MayCall /\ m \in Fresh
  /\ nextStep' = <<m>> \o nextStep
  /\ stack' = <<Frame("other", FALSE, FALSE, "none")>> \o stack
  /\ UNCHANGED <<driverVars, accepting, nextTurn, pc, turnVars, waitVars, trace,
                 historyVars, boundVars>>

\* runMaintenance: only from true idle; the status stays "idle", nothing is emitted.
RunMaintenance ==
  /\ Len(stack) < MaxDepth /\ accepting /\ phase = "idle"
  /\ maintenances < MaxMaintenance /\ maintenances' = maintenances + 1
  /\ phase' = "maintenance" /\ abort' = "none" /\ wakeRequested' = FALSE
  /\ ReplaceActivity
  /\ UNCHANGED <<turn, step, accepting, inboxVars, pc, turnVars, stack, trace,
                 historyVars, cancels>>

\* The job settles: idle again, then the latch is replayed before the
\* maintenance promise resolves.
\* Fault: the maintenance promise resolves only behind a replayed wake.
MaintenanceEndsUnsettled ==
  /\ stack = <<>> /\ phase = "maintenance"
  /\ IF wakeRequested /\ HasPending
     THEN StartDriver(<<>>)
     ELSE /\ phase' = "idle" /\ abort' = "none" /\ wakeRequested' = FALSE
          /\ UNCHANGED <<turn, step, pc, stack, waitVars>>
  /\ UNCHANGED <<accepting, inboxVars, turnVars, trace, historyVars, boundVars>>

MaintenanceEnds ==
  /\ stack = <<>> /\ phase = "maintenance"
  /\ IF wakeRequested /\ HasPending
     THEN StartDriver(<<>>)
     ELSE /\ phase' = "idle" /\ abort' = "none" /\ wakeRequested' = FALSE
          /\ settled' = TRUE
          /\ UNCHANGED <<turn, step, pc, stack, waiter>>
  /\ UNCHANGED <<accepting, inboxVars, turnVars, trace, historyVars, boundVars>>

\* whenIdle: await the activity, and again while it has been replaced.
\* Fault: whenIdle awaits the activity it first saw and no replacement.
WaiterForgetsReplacement ==
  /\ stack = <<>> /\ waiter = "replaced"
  /\ waiter' = "returned"
  /\ UNCHANGED <<driverVars, accepting, inboxVars, pc, turnVars, stack, settled, trace,
                 historyVars, boundVars>>

WaiterLoops ==
  /\ stack = <<>> /\ waiter = "replaced"
  /\ waiter' = "current"
  /\ UNCHANGED <<driverVars, accepting, inboxVars, pc, turnVars, stack, settled, trace,
                 historyVars, boundVars>>

WaiterReturns ==
  /\ stack = <<>> /\ waiter = "current" /\ settled
  /\ waiter' = "returned"
  /\ UNCHANGED <<driverVars, accepting, inboxVars, pc, turnVars, stack, settled, trace,
                 historyVars, boundVars>>

-----------------------------------------------------------------------------
(* The driver: kick, turn, preStep and step, cut at their awaits and at the *)
(* notifications they emit.                                                *)

\* The catch of turn(): an aborted signal makes the ending aborted, anything
\* else is an error that is first reported on agent/error, the turn still open.
CloseTurn(reason, evaluates) ==
  /\ turnEnds' = reason /\ continues' = evaluates
  /\ AppendTurnEnd /\ Emit("turnEnded")

\* Fault: an aborted turn leaves without its turn/end.
FailTurnUnclosed ==
  IF Aborted THEN Await("exiting") /\ UNCHANGED <<turnEnds, continues, trace>>
  ELSE turnEnds' = "error" /\ continues' = FALSE /\ Emit("failing") /\ UNCHANGED trace

FailTurn ==
  IF Aborted THEN CloseTurn("aborted", FALSE)
  ELSE turnEnds' = "error" /\ continues' = FALSE /\ Emit("failing") /\ UNCHANGED trace

\* inbox.claim: every next-step message, and one prompt at a turn's start, by a
\* splice each.  Observers of a splice's append run before the list changes, and an
\* empty splice appends nothing.  An empty claim notifies nothing and goes straight
\* to the assembly's await.
ClaimPromptOr(claimed) ==
  IF TakesPrompt THEN Emit("claimingPrompt")
  ELSE IF claimed THEN Emit("claimed")
  ELSE Await("preStep")
Claim == IF nextStep # <<>> THEN Emit("claimingSteps") ELSE ClaimPromptOr(FALSE)

ClaimedInto(batch) ==
  claimedBy' = [m \in Messages |-> IF m \in batch THEN turn ELSE claimedBy[m]]

ClaimsSteps ==
  /\ Running("claimingSteps")
  /\ ClaimedInto(Elements(nextStep)) /\ nextStep' = <<>>
  /\ ClaimPromptOr(TRUE)
  /\ UNCHANGED <<driverVars, accepting, nextTurn, turnVars, waitVars, trace, owed, dropped,
                 landed, parked, prompts, canceled, boundVars>>

ClaimsPrompt ==
  /\ Running("claimingPrompt")
  /\ ClaimedInto(FirstPrompt) /\ prompts' = prompts \cup FirstPrompt /\ nextTurn' = OtherPrompts
  /\ Emit("claimed")
  /\ UNCHANGED <<driverVars, accepting, nextStep, turnVars, waitVars, trace, owed, dropped,
                 landed, parked, canceled, boundVars>>

\* kick enters turn(): the signal is checked, then the turn is opened.
TurnStarts ==
  /\ Running("start") \/ Resumed("nextTurn")
  /\ IF Aborted
     THEN Await("exiting") /\ UNCHANGED <<turn, turnVars, trace, owed, dropped>>
     ELSE /\ AppendTurnStart(turn + 1) /\ turn' = turn + 1
          /\ turnEnds' = "none" /\ cut' = FALSE /\ owes' = FALSE
          /\ owed' = {} /\ dropped' = {}
          /\ Emit("opened")
          /\ UNCHANGED continues
  /\ UNCHANGED <<phase, step, abort, wakeRequested, accepting, inboxVars, waitVars,
                 landed, parked, claimedBy, prompts, canceled, boundVars>>

\* A step of the driver that touches its control state only.
ControlOnly == UNCHANGED <<driverVars, accepting, inboxVars, turnVars, waitVars, trace,
                           historyVars, boundVars>>
\* A step that ends or fails the turn, or moves within it.
TurnOnly == UNCHANGED <<driverVars, accepting, inboxVars, cut, owes, waitVars,
                        historyVars, boundVars>>

FirstClaim ==
  /\ Running("opened")
  /\ IF Aborted THEN FailTurn ELSE Claim /\ UNCHANGED <<trace, turnEnds, continues>>
  /\ TurnOnly

ClaimNotified == Running("claimed") /\ Await("preStep") /\ ControlOnly

\* Assembly and the pre-step waterfall settle; the decision reaches turn() a
\* microtask later.
PreStepDecides ==
  /\ Resumed("preStep") /\ ~Aborted
  /\ \E decision \in {"rejected", "emptied", "entered"} : Await(decision)
  /\ ControlOnly

PreStepFails == Resumed("preStep") /\ FailTurn /\ TurnOnly

StepRejected == Resumed("rejected") /\ CloseTurn("blocked", FALSE) /\ TurnOnly

\* An empty batch spends no model call at a turn's start and ends a turn whose
\* ending is known; otherwise it enters the step like any other batch.
StepNotNeeded ==
  /\ Resumed("emptied")
  /\ \/ turnEnds # "none" /\ CloseTurn(turnEnds, TRUE)
     \/ turnEnds = "none" /\ step = 0 /\ CloseTurn("completed", FALSE)
  /\ TurnOnly

\* Fault: the signal is not checked again before step/start.
StepEntersUnchecked ==
  /\ Resumed("entered") \/ (Resumed("emptied") /\ turnEnds = "none" /\ step # 0)
  /\ AppendStepStart(step + 1) /\ step' = step + 1
  /\ owes' = FALSE
  /\ Await("request")
  /\ UNCHANGED <<phase, turn, abort, wakeRequested, accepting, inboxVars, turnEnds, continues,
                 cut, waitVars, historyVars, boundVars>>

StepEnters ==
  /\ Resumed("entered") \/ (Resumed("emptied") /\ turnEnds = "none" /\ step # 0)
  /\ IF Aborted
     THEN FailTurn /\ UNCHANGED <<step, owes>>
     ELSE /\ AppendStepStart(step + 1) /\ step' = step + 1
          /\ owes' = FALSE
          /\ Await("request")
          /\ UNCHANGED <<turnEnds, continues>>
  /\ UNCHANGED <<phase, turn, abort, wakeRequested, accepting, inboxVars, cut, waitVars,
                 historyVars, boundVars>>

\* step() returns "none" when its tools owe the model another request.  The
\* ceiling is sticky, and step/end is appended.
\* Fault: a later step downgrades the ceiling.
StepReturnsDowngraded(result) ==
  /\ turnEnds' = result
  /\ cut' = (cut \/ result = "max-tokens")
  /\ owes' = (result = "none")
  /\ AppendStepEnd /\ Emit("stepEnded")
  /\ UNCHANGED <<driverVars, accepting, inboxVars, continues, waitVars, historyVars, boundVars>>

StepReturns(result) ==
  /\ turnEnds' = IF turnEnds = "max-tokens" THEN turnEnds ELSE result
  /\ cut' = (cut \/ result = "max-tokens")
  /\ owes' = (result = "none")
  /\ AppendStepEnd /\ Emit("stepEnded")
  /\ UNCHANGED <<driverVars, accepting, inboxVars, continues, waitVars, historyVars, boundVars>>

ModelStops == Resumed("request") /\ \E r \in {"completed", "max-tokens"} : StepReturns(r)
ModelCallsTools == Resumed("request") /\ Await("tools") /\ ControlOnly
RequestFails == Resumed("request") /\ Await("requestError") /\ ControlOnly
\* A recovery listener retries the request inside the step that is still open.
RequestRetries == Resumed("requestError") /\ ~Aborted /\ Await("request") /\ ControlOnly

ToolsReturn ==
  /\ Resumed("tools")
  /\ StepReturns("completed") \/ (step < MaxStep /\ StepReturns("none"))

\* A committed result's context joins the next-step list, whatever the signal.
ToolContext(m) ==
  /\ Resumed("tools") /\ m \in Fresh
  /\ nextStep' = Append(nextStep, m)
  /\ Emit("context")
  /\ UNCHANGED <<driverVars, accepting, nextTurn, turnVars, waitVars, trace,
                 historyVars, boundVars>>

ContextNotified == Running("context") /\ Await("tools") /\ ControlOnly

\* An abort, a terminal request failure or any other exception of the step: the
\* unanswered calls are answered and step/end is appended on the way out.
StepThrows ==
  /\ \E p \in {"request", "requestError", "tools"} : Resumed(p)
  /\ AppendStepEnd /\ Emit("stepFailed")
  /\ UNCHANGED <<turnEnds, continues>> /\ TurnOnly

StepFailed == Running("stepFailed") /\ FailTurn /\ TurnOnly

\* After step/end: another step is claimed unless the turn has an ending and no
\* input waits, in which case the turn-stopping checkpoint is awaited.
StepEnded ==
  /\ Running("stepEnded")
  /\ IF Aborted THEN FailTurn
     ELSE /\ IF turnEnds # "none" /\ nextStep = <<>> THEN Await("stopping") ELSE Claim
          /\ UNCHANGED <<trace, turnEnds, continues>>
  /\ TurnOnly

StoppingSettles ==
  /\ Resumed("stopping") /\ ~Aborted
  /\ IF nextStep = <<>>
     THEN CloseTurn(turnEnds, TRUE)
     ELSE Claim /\ UNCHANGED <<trace, turnEnds, continues>>
  /\ TurnOnly

StoppingFails == Resumed("stopping") /\ FailTurn /\ TurnOnly

ErrorReported == Running("failing") /\ CloseTurn("error", FALSE) /\ TurnOnly

\* turn() returns after turn/end; a live driver with pending input takes a
\* fresh controller and opens the next turn.
\* Fault: the step counter survives into the next turn.
TurnReturnsKeepingStep ==
  /\ Running("turnEnded")
  /\ IF continues /\ HasPending
     THEN abort' = "none" /\ wakeRequested' = FALSE /\ Await("nextTurn")
     ELSE Await("exiting") /\ UNCHANGED <<abort, wakeRequested>>
  /\ UNCHANGED <<phase, turn, step, accepting, inboxVars, turnVars, waitVars, trace,
                 historyVars, boundVars>>

TurnReturns ==
  /\ Running("turnEnded")
  /\ IF continues /\ HasPending
     THEN /\ abort' = "none" /\ wakeRequested' = FALSE /\ step' = 0
          /\ Await("nextTurn")
     ELSE Await("exiting") /\ UNCHANGED <<abort, wakeRequested, step>>
  /\ UNCHANGED <<phase, turn, accepting, inboxVars, turnVars, waitVars, trace,
                 historyVars, boundVars>>

\* kick's finally: idle is published, then the latch is replayed.
KickExits ==
  /\ Resumed("exiting")
  /\ phase' = "idle" /\ step' = 0 /\ abort' = "none" /\ wakeRequested' = FALSE
  /\ pc' = "none"
  /\ stack' = <<Frame("replay", wakeRequested, FALSE, "none")>>
  /\ UNCHANGED <<turn, accepting, inboxVars, turnVars, waitVars, trace, historyVars, boundVars>>

\* Fault: the exiting driver does not replay the latch.
ReplaysNever == FALSE
Replays == Head(stack).flag /\ HasPending

KickReplays ==
  /\ Top("replay")
  /\ IF Replays
     THEN WakeDriver(FALSE, Tail(stack))
     ELSE /\ stack' = Tail(stack)
          /\ settled' = (settled \/ phase = "idle")
          /\ UNCHANGED <<driverVars, pc, waiter>>
  /\ UNCHANGED <<accepting, inboxVars, turnVars, trace, historyVars, boundVars>>

-----------------------------------------------------------------------------
Init ==
  /\ phase = "idle" /\ turn = FirstTurn /\ step = 0 /\ abort = "none"
  /\ wakeRequested = FALSE /\ accepting = TRUE
  /\ nextStep = <<>> /\ nextTurn = Parked
  /\ pc = "none" /\ turnEnds = "none" /\ continues = FALSE /\ cut = FALSE /\ owes = FALSE
  /\ stack = <<>> /\ settled = TRUE /\ waiter = "none"
  /\ trace = [openTurn |-> 0, openStep |-> 0, nextTurn |-> FirstTurn + 1, nextStep |-> 1]
  /\ owed = {} /\ dropped = {} /\ landed = [m \in Messages |-> -1]
  /\ claimedBy = [m \in Messages |-> 0] /\ prompts = {} /\ canceled = {} /\ parked = {}
  /\ maintenances = 0 /\ cancels = 0

\* Calls that callers and listeners make.
Call ==
  \/ \E m \in Messages, t \in {"next-turn", "next-step"}, w \in BOOLEAN : Send(m, t, w)
  \/ \E c \in Causes : CancelClearing(c) \/ CancelKeeping(c)
  \/ \E m \in Messages : Remove(m) \/ Prepend(m)
  \/ Dispose \/ RunMaintenance

\* The rest of an operation whose notification has returned.
Unwind == SendReturns \/ CancelCleared \/ CancelAborts \/ RemoveReturns \/ KickReplays

TurnBoundary == TurnStarts \/ TurnReturns \/ KickExits \/ ErrorReported
PreStep == \/ FirstClaim \/ ClaimsSteps \/ ClaimsPrompt
           \/ ClaimNotified \/ PreStepDecides \/ PreStepFails
EnterStep == StepRejected \/ StepNotNeeded \/ StepEnters
ModelStep == ModelStops \/ ModelCallsTools \/ RequestFails \/ RequestRetries \/ StepThrows
ToolStep == ToolsReturn \/ ContextNotified \/ \E m \in Messages : ToolContext(m)
EndStep == StepEnded \/ StepFailed \/ StoppingSettles \/ StoppingFails
Driver == TurnBoundary \/ PreStep \/ EnterStep \/ ModelStep \/ ToolStep \/ EndStep

Waiter == WaiterLoops \/ WaiterReturns

Next == Call \/ Unwind \/ Driver \/ MaintenanceEnds \/ Waiter

Spec == Init /\ [][Next]_vars

\* Nothing is asked of the callers.  Notifications return, microtasks run, and
\* whatever the driver awaits (assembly, listeners, the model, tools, a
\* maintenance job) settles; a model that is asked again and again answers.
Fairness ==
  /\ WF_vars(Unwind) /\ WF_vars(Driver) /\ WF_vars(MaintenanceEnds) /\ WF_vars(Waiter)
  /\ SF_vars(ModelStops)

FairSpec == Spec /\ Fairness

-----------------------------------------------------------------------------
(* Properties.                                                             *)

TypeOK ==
  /\ phase \in {"idle", "maintenance", "running"} /\ turn \in Nat /\ step \in Nat
  /\ abort \in AbortCauses /\ wakeRequested \in BOOLEAN /\ accepting \in BOOLEAN
  /\ nextStep \in Seq(Messages) /\ nextTurn \in Seq(Messages)
  /\ pc \in SyncPoints \cup AwaitPoints \cup {"none"}
  /\ turnEnds \in Endings /\ continues \in BOOLEAN /\ cut \in BOOLEAN /\ owes \in BOOLEAN
  /\ stack \in Seq(Frames) /\ settled \in BOOLEAN
  /\ waiter \in {"none", "current", "replaced", "returned"}
  /\ trace \in [openTurn : Nat, openStep : Nat, nextTurn : Nat, nextStep : Nat]
  /\ owed \subseteq Messages /\ dropped \subseteq Messages
  /\ landed \in [Messages -> Nat \cup {-1}] /\ parked \subseteq Messages
  /\ claimedBy \in [Messages -> Nat] /\ prompts \subseteq Messages
  /\ canceled \subseteq Messages
  /\ maintenances \in Nat /\ cancels \in Nat

\* What the driver appends is what the session's invariant companion accepts:
\* consecutive turns and steps, never nested, closed in order on every path.
Log == INSTANCE SessionTrace WITH
         Calls <- {}, openTurn <- trace.openTurn, openStep <- trace.openStep,
         nextTurn <- trace.nextTurn, nextStep <- trace.nextStep, pendingCalls <- {}
LogIsWellFormed == Log!TraceSpec

\* An agent outside a running driver has closed its turn, and the number it
\* resumes from is the one the log ends with.
IdleLogIsClosed ==
  phase # "running" =>
    trace.openTurn = 0 /\ trace.openStep = 0 /\ trace.nextTurn = turn + 1

\* "every exit assigns a turn ending": turn/end never carries null, and a
\* token-limited step decides its turn, which never ends completed.
EveryExitHasItsEnding ==
  pc = "turnEnded" => turnEnds # "none" /\ (cut => turnEnds # "completed")

\* No message is lost or duplicated between the two lists, the claims and the
\* cancellations, whatever interrupts an operation.
Places(m) == <<m \in Elements(nextStep), m \in Elements(nextTurn), claimedBy[m] # 0, m \in canceled>>
EveryMessageInOnePlace ==
  /\ \A i, j \in DOMAIN nextStep : nextStep[i] = nextStep[j] => i = j
  /\ \A i, j \in DOMAIN nextTurn : nextTurn[i] = nextTurn[j] => i = j
  /\ \A m \in Messages : \A i, j \in 1..4 : Places(m)[i] /\ Places(m)[j] => i = j
NothingVanishes == [][\A m \in Messages : m \notin Fresh => m \notin Fresh']_vars

\* A prompt is the sole prompt of its turn.
SolePromptOfItsTurn ==
  \A m, n \in prompts : claimedBy[m] = claimedBy[n] => m = n

\* Waking input sent after an abort, steering included, never joins the aborted
\* turn: it is the prompt of a later one.
WakeAfterAbortStartsAnotherTurn ==
  \A m \in Messages : landed[m] # -1 /\ claimedBy[m] # 0 =>
    claimedBy[m] > landed[m] /\ m \in prompts

\* A running driver holds a latch only for a wake behind its own abort, and an
\* idle agent holds none: queued work that was there before stays parked.
LatchOnlyBehindAbort ==
  wakeRequested => \/ phase = "maintenance"
                   \/ phase = "running" /\ Aborted

\* Under a fired signal the driver opens no turn, enters no step, begins no claim,
\* and claims nothing but the rest of a claim that had begun when the signal fired.
NothingBeginsAborted ==
  [][Aborted => /\ trace'.openTurn \in {0, trace.openTurn}
                /\ trace'.openStep \in {0, trace.openStep}
                /\ pc' \in ClaimPoints => pc \in ClaimPoints
                /\ \A m \in Messages : claimedBy'[m] # claimedBy[m] => m \in BeingClaimed]_vars

\* Once a disposal's whenIdle() has returned, the driver is gone, its turn is
\* closed and no suspended wake can start another.
DrainedForGood ==
  waiter = "returned" =>
    /\ phase = "idle" /\ pc = "none" /\ trace.openTurn = 0
    /\ \A i \in DOMAIN stack : stack[i].op \in {"clear", "abort", "other"}

\* A wake that could not be delivered opens a turn, unless its message is removed,
\* a keepInbox abort of the driver it started parks it again, or a clearing cancel
\* drops its latch while the message stays.
OwedWakeIsDelivered == \A m \in Messages : (m \in owed) ~> (m \notin owed \/ m \in dropped)

\* Waking input sent behind a cancel "runs when the aborted activity converges to
\* idle": an agent at rest owes no wake whose message still waits.
AtRestOwesNoWake == phase = "idle" /\ stack = <<>> => owed = {}

\* A disposal reaches quiescence, whatever was running or latched.
DisposalQuiesces == ~accepting ~> waiter = "returned"

\* The comment on wakeDriver: a latched replay is suppressed when the queue no
\* longer holds the wake.
ReplayHoldsItsWake ==
  [][KickReplays /\ phase = "idle" /\ phase' = "running" => owed # {}]_vars

\* agent/turn-stopping runs when a turn has no tool continuation left.
StoppingOwesNothing == pc = "stopping" => ~owes

\* Work queued before an abort that keeps the inbox waits for a later wake.
ParkedAwaitsAWake ==
  [][\A m \in parked : claimedBy'[m] = claimedBy[m]]_vars
=============================================================================
