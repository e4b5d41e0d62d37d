----------------------------- MODULE WriteBehind -----------------------------
(***************************************************************************)
(* The write controller of one live session: events are queued as they are *)
(* appended, written in batches when a fixed window ends, retained when a  *)
(* write fails, and drained by a flush that several callers share.         *)
(*                                                                         *)
(* The settlement of a write is three jobs: the batch is put back or not,  *)
(* the active write is cleared, then whoever waited for it continues.      *)
(* Appends and flushes may come between any two of them; timers and I/O    *)
(* come between macrotasks only.  An event is its number.                  *)
(*                                                                         *)
(* Sources: packages/session/session-persistence/src/write-behind.ts, and  *)
(* flush of src/coordinator.ts, which waits for the session's              *)
(* initialization between its two calls of the controller.  Initialization *)
(* succeeds here.                                                          *)
(***************************************************************************)
EXTENDS Naturals, Sequences

CONSTANTS
  MaxEvents,      \* bound: events enqueued
  MaxFlushes,     \* bound: calls of flush
  MaxFailures     \* bound: writes that fail

ASSUME WriteBehindAssumption ==
  MaxEvents \in Nat /\ MaxFlushes \in Nat /\ MaxFailures \in Nat

VARIABLES
  pending,            \* queued events, in order
  timer,              \* the window's deadline is armed
  deadlineExpired,    \* it passed during the active write
  automaticPaused,    \* a write failed: nothing is retried by itself
  active,             \* whose write is active: "none", "background" or "barrier"
  batch,              \* what it writes
  settling,           \* "none", or how it settled: the job that clears it is queued
  continuation,       \* the job behind a background write that succeeded is queued
  barrier,            \* "none", "overlapping": it awaits a write it did not start,
                      \* "own": a write it started; otherwise its next job is queued
  arriving,           \* flushes between cancelAutomaticWait and the controller's flush
  \* --- history and bounds
  enqueued,           \* events enqueued so far
  stored,             \* what has been written
  verdict,            \* how the latest flush settled
  flushes, failures

queueVars == <<pending, timer, deadlineExpired, automaticPaused>>
writeVars == <<active, batch, settling, continuation>>
history == <<enqueued, stored, verdict>>
vars == <<queueVars, writeVars, barrier, arriving, history, flushes, failures>>

\* Jobs run before the next timer or I/O callback.
JobsQueued == settling # "none" \/ continuation \/ barrier \in {"resumes", "drains", "rejects"}

-----------------------------------------------------------------------------
(* startWrite.                                                             *)

\* One stable prefix: everything that is pending.
StartWrite(owner) ==
  /\ batch' = pending /\ pending' = <<>> /\ active' = owner
  /\ timer' = FALSE /\ deadlineExpired' = FALSE

\* enqueue: what arms the window.
\* Fault: an event behind a failure waits for a flush.
ArmsWhenEmpty == barrier = "none" /\ pending = <<>>
Arms == barrier = "none" /\ (automaticPaused \/ pending = <<>>)

Enqueue ==
  /\ enqueued < MaxEvents /\ enqueued' = enqueued + 1
  /\ pending' = Append(pending, enqueued + 1)
  /\ timer' = (timer \/ Arms)
  /\ IF barrier = "none" /\ automaticPaused
     THEN automaticPaused' = FALSE /\ deadlineExpired' = FALSE
     ELSE UNCHANGED <<automaticPaused, deadlineExpired>>
  /\ UNCHANGED <<writeVars, barrier, arriving, stored, verdict, flushes, failures>>

\* onDeadline: write now, or remember that the active write used the window.
\* Fault: the active write is not looked for.
OverlapsIgnored == FALSE
Overlaps == active # "none"

Deadline ==
  /\ timer /\ ~JobsQueued
  /\ IF Overlaps
     THEN timer' = FALSE /\ deadlineExpired' = TRUE /\ UNCHANGED <<pending, batch, active>>
     ELSE StartWrite("background")
  /\ UNCHANGED <<automaticPaused, settling, continuation, barrier, arriving, history, flushes, failures>>

-----------------------------------------------------------------------------
(* The settlement of the active write.                                     *)

WriteSucceeds ==
  /\ active # "none" /\ ~JobsQueued
  /\ stored' = stored \o batch /\ batch' = <<>> /\ settling' = "succeeded"
  /\ UNCHANGED <<queueVars, active, continuation, barrier, arriving, enqueued, verdict, flushes, failures>>

\* Fault: the batch goes behind what was queued meanwhile.
RetainedLast == pending \o batch
Retained == batch \o pending

WriteFails ==
  /\ active # "none" /\ ~JobsQueued
  /\ failures < MaxFailures /\ failures' = failures + 1
  /\ pending' = Retained /\ batch' = <<>> /\ settling' = "failed"
  /\ timer' = FALSE /\ deadlineExpired' = FALSE /\ automaticPaused' = TRUE
  /\ UNCHANGED <<active, continuation, barrier, arriving, history, flushes>>

\* Whoever awaited the write is resumed.
Resumed ==
  CASE barrier = "overlapping" -> "resumes"
    [] barrier = "own" -> IF settling = "succeeded" THEN "drains" ELSE "rejects"
    [] OTHER -> barrier

Cleared ==
  /\ settling # "none"
  /\ active' = "none" /\ settling' = "none"
  /\ continuation' = (active = "background" /\ settling = "succeeded")
  /\ barrier' = Resumed
  /\ UNCHANGED <<queueVars, batch, arriving, history, flushes, failures>>

\* Fault: the window that passed during the write is forgotten.
StartsNextNever == FALSE
StartsNext == barrier = "none" /\ pending # <<>> /\ deadlineExpired

ContinueAutomatic ==
  /\ continuation /\ continuation' = FALSE
  /\ IF StartsNext THEN StartWrite("background")
     ELSE UNCHANGED <<pending, timer, deadlineExpired, batch, active>>
  /\ UNCHANGED <<automaticPaused, settling, barrier, arriving, history, flushes, failures>>

-----------------------------------------------------------------------------
(* flush and its barrier.                                                  *)

\* The coordinator cancels the wait, then awaits initialization.
CancelAutomaticWait ==
  /\ flushes < MaxFlushes /\ flushes' = flushes + 1
  /\ arriving' = arriving + 1 /\ timer' = FALSE /\ deadlineExpired' = FALSE
  /\ UNCHANGED <<pending, automaticPaused, writeVars, barrier, history, failures>>

\* The loop of drainBarrier: another write, or the end.
\* Fault: the barrier writes once.
DrainedAfterOne == barrier = "drains" \/ pending = <<>>
Drained == pending = <<>>

Drain ==
  IF Drained
  THEN /\ barrier' = "none" /\ verdict' = "resolved"
       /\ timer' = FALSE /\ deadlineExpired' = FALSE /\ UNCHANGED <<pending, batch, active>>
  ELSE StartWrite("barrier") /\ barrier' = "own" /\ UNCHANGED verdict

\* Callers join the barrier; the first one starts it, synchronously up to its
\* first await.
AwaitsOverlap == active # "none"

Flush ==
  /\ arriving > 0 /\ arriving' = arriving - 1
  /\ IF barrier # "none" THEN UNCHANGED <<queueVars, active, batch, barrier, verdict>>
     ELSE /\ automaticPaused' = FALSE
          /\ IF AwaitsOverlap
             THEN /\ barrier' = "overlapping" /\ timer' = FALSE /\ deadlineExpired' = FALSE
                  /\ UNCHANGED <<pending, active, batch, verdict>>
             ELSE Drain
  /\ UNCHANGED <<settling, continuation, enqueued, stored, flushes, failures>>

\* The job behind the continuation of the same write.
BarrierResumes ==
  /\ barrier \in {"resumes", "drains"} /\ ~continuation
  /\ automaticPaused' = (automaticPaused /\ barrier # "resumes")
  /\ Drain
  /\ UNCHANGED <<settling, continuation, arriving, enqueued, stored, flushes, failures>>

BarrierRejects ==
  /\ barrier = "rejects" /\ ~continuation
  /\ barrier' = "none" /\ verdict' = "rejected"
  /\ UNCHANGED <<queueVars, writeVars, arriving, enqueued, stored, flushes, failures>>

-----------------------------------------------------------------------------
Init ==
  /\ pending = <<>> /\ timer = FALSE /\ deadlineExpired = FALSE /\ automaticPaused = FALSE
  /\ active = "none" /\ batch = <<>> /\ settling = "none" /\ continuation = FALSE
  /\ barrier = "none" /\ arriving = 0
  /\ enqueued = 0 /\ stored = <<>> /\ verdict = "none" /\ flushes = 0 /\ failures = 0

Jobs == Cleared \/ ContinueAutomatic \/ BarrierResumes \/ BarrierRejects \/ Flush
Writes == WriteSucceeds \/ WriteFails
Next == Enqueue \/ CancelAutomaticWait \/ Deadline \/ Writes \/ Jobs

Spec == Init /\ [][Next]_vars

\* Jobs run, an armed timer fires, a write settles.
Fairness == WF_vars(Jobs) /\ WF_vars(Deadline) /\ WF_vars(Writes)
FairSpec == Spec /\ Fairness

-----------------------------------------------------------------------------
(* Properties.                                                             *)

TypeOK ==
  /\ pending \in Seq(Nat) /\ batch \in Seq(Nat) /\ stored \in Seq(Nat)
  /\ timer \in BOOLEAN /\ deadlineExpired \in BOOLEAN /\ automaticPaused \in BOOLEAN
  /\ active \in {"none", "background", "barrier"} /\ continuation \in BOOLEAN
  /\ settling \in {"none", "succeeded", "failed"}
  /\ active = "none" => batch = <<>> /\ settling = "none"
  /\ barrier \in {"none", "overlapping", "own", "resumes", "drains", "rejects"}
  /\ verdict \in {"none", "resolved", "rejected"}
  /\ arriving \in Nat /\ enqueued \in Nat /\ flushes \in Nat /\ failures \in Nat

\* Nothing is lost, duplicated or reordered, whatever fails: what is stored, in
\* flight and pending are the events in the order they were appended.
Conservation == stored \o batch \o pending = [k \in 1 .. enqueued |-> k]

\* One write at a time: none is started, by the timer, by a continuation or by a
\* flush, before the previous one has been cleared.
OneWriteAtATime ==
  [][batch' \notin {<<>>, batch} => active = "none"]_vars

\* A flush that resolves found everything stored, what was appended while it ran
\* included.
Resolves == verdict' = "resolved" /\ barrier' = "none" /\ (barrier # "none" \/ arriving' < arriving)
FlushMeansStored == [][Resolves => stored' = [k \in 1 .. enqueued' |-> k]]_vars

\* Queued events always have someone who will write them: an armed window, an
\* active write that looks again, a barrier or a flush on its way.  Only a
\* failure leaves them to the next append or flush.
NeverStranded ==
  pending # <<>> =>
    \/ timer \/ barrier # "none" \/ arriving > 0 \/ automaticPaused
    \/ deadlineExpired /\ (continuation \/ (active = "background" /\ settling # "failed"))

\* An event is in the end stored, or retained behind a failure, and every flush
\* settles, joined or not.
EventIsStored(e) == e <= enqueued ~> (e <= Len(stored) \/ automaticPaused)
EverythingSettles ==
  /\ \A e \in 1 .. MaxEvents : EventIsStored(e)
  /\ (arriving > 0 \/ barrier # "none") ~> (arriving = 0 /\ barrier = "none")
=============================================================================
