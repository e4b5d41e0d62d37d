---------------------------- MODULE SessionTrace ----------------------------
(***************************************************************************)
(* The well-formedness contract of a session log: the fold that the        *)
(* invariant companion of the session package runs over every appended     *)
(* event.  `validateEvent` accepts or rejects one candidate event and      *)
(* `applyTransition` commits it.  A behaviour of this specification is a   *)
(* sequence of accepted execution events; the agent loop and the tool      *)
(* scheduler are shown to produce nothing else.                            *)
(*                                                                         *)
(* An event that the fold leaves unconstrained is a stuttering step.  The  *)
(* number 0 stands for the `null` of openTurn and openStep.                *)
(***************************************************************************)
EXTENDS Naturals

CONSTANT Calls      \* identities of the tool calls of one session

VARIABLES
  openTurn,         \* the turn that is open, 0 when none is
  openStep,         \* the step that is open, 0 when none is
  nextTurn,         \* the number the next turn/start must carry
  nextStep,         \* the number the next step/start must carry
  pendingCalls      \* calls recorded in the open step and not answered yet

traceVars == <<openTurn, openStep, nextTurn, nextStep, pendingCalls>>

\* A log is loaded balanced (an interrupted tail is closed first), at any turn.
TraceInit ==
  /\ openTurn = 0 /\ openStep = 0
  /\ nextTurn \in Nat \ {0} /\ nextStep \in Nat \ {0}
  /\ pendingCalls = {}

TurnStart ==
  /\ openTurn = 0
  /\ openTurn' = nextTurn /\ nextStep' = 1
  /\ UNCHANGED <<openStep, nextTurn, pendingCalls>>

TurnEnd ==
  /\ openTurn # 0 /\ openStep = 0
  /\ openTurn' = 0 /\ nextTurn' = nextTurn + 1
  /\ UNCHANGED <<openStep, nextStep, pendingCalls>>

StepStart ==
  /\ openTurn # 0 /\ openStep = 0
  /\ openStep' = nextStep
  /\ UNCHANGED <<openTurn, nextTurn, nextStep, pendingCalls>>

StepEnd ==
  /\ openTurn # 0 /\ openStep # 0
  /\ openStep' = 0 /\ nextStep' = nextStep + 1 /\ pendingCalls' = {}
  /\ UNCHANGED <<openTurn, nextTurn>>

ToolCall(c) ==
  /\ openTurn # 0 /\ openStep # 0
  /\ pendingCalls' = pendingCalls \cup {c}
  /\ UNCHANGED <<openTurn, openStep, nextTurn, nextStep>>

\* A result answers a recorded call, unless it says the call never started.
ToolResult(c, notStarted) ==
  /\ openTurn # 0 /\ openStep # 0
  /\ c \in pendingCalls \/ notStarted
  /\ pendingCalls' = pendingCalls \ {c}
  /\ UNCHANGED <<openTurn, openStep, nextTurn, nextStep>>

TraceNext ==
  \/ TurnStart \/ TurnEnd \/ StepStart \/ StepEnd
  \/ \E c \in Calls : ToolCall(c) \/ \E ns \in BOOLEAN : ToolResult(c, ns)

TraceSpec == TraceInit /\ [][TraceNext]_traceVars
=============================================================================
