-------------------------- MODULE WriteBehindProofs --------------------------
(***************************************************************************)
(* Theorems about the write controller, for any number of events, flushes  *)
(* and failures.                                                           *)
(***************************************************************************)
EXTENDS WriteBehind, SequenceTheorems, TLAPS

\* How the barrier, the active write and the window exclude each other.
BarrierInv ==
  /\ active = "barrier" <=> barrier = "own"
  /\ barrier = "overlapping" => active # "none"
  /\ barrier \in {"resumes", "drains", "rejects"} => active = "none"
  /\ barrier # "none" => ~timer /\ ~deadlineExpired
  /\ continuation /\ active # "none" => barrier # "none"
  /\ settling # "none" => batch = <<>>
  /\ settling = "failed" /\ barrier = "own" => automaticPaused
  /\ barrier = "rejects" => automaticPaused

ControlInv == TypeOK /\ BarrierInv /\ NeverStranded
WriteInv == ControlInv /\ Conservation

-----------------------------------------------------------------------------
LEMMA ControlInit == Init => ControlInv
<1> SUFFICES ASSUME Init PROVE ControlInv
  OBVIOUS
<1>1. TypeOK
  <2>1. <<>> \in Seq(Nat)
    OBVIOUS
  <2> QED
    BY <2>1 DEF Init, TypeOK
<1>2. BarrierInv /\ NeverStranded
  BY DEF Init, BarrierInv, NeverStranded
<1> QED
  BY <1>1, <1>2 DEF ControlInv

\* Every action keeps the types and the exclusion, and leaves someone to write
\* what is pending.
LEMMA ControlStep == ControlInv /\ [Next]_vars => ControlInv'
<1> SUFFICES ASSUME ControlInv, [Next]_vars PROVE ControlInv'
  OBVIOUS
<1> USE DEF ControlInv, TypeOK, queueVars, writeVars, history
<1>1. CASE Enqueue
  <2>1. TypeOK'
    <3>1. enqueued + 1 \in Nat /\ Append(pending, enqueued + 1) \in Seq(Nat)
      BY AppendProperties
    <3> QED
      BY <1>1, <3>1 DEF Enqueue, Arms
  <2>2. BarrierInv'
    BY <1>1, AppendProperties DEF Enqueue, Arms, BarrierInv
  <2>3. NeverStranded'
    BY <1>1, AppendProperties DEF Enqueue, Arms, BarrierInv, NeverStranded
  <2> QED
    BY <2>1, <2>2, <2>3
<1>2. CASE CancelAutomaticWait
  <2>1. TypeOK'
    <3>1. arriving + 1 \in Nat /\ flushes + 1 \in Nat
      OBVIOUS
    <3> QED
      BY <1>2, <3>1 DEF CancelAutomaticWait
  <2>2. BarrierInv'
    BY <1>2 DEF CancelAutomaticWait, BarrierInv
  <2>3. NeverStranded'
    BY <1>2 DEF CancelAutomaticWait, BarrierInv, NeverStranded
  <2> QED
    BY <2>1, <2>2, <2>3
<1>3. CASE Deadline
  <2>1. TypeOK'
    BY <1>3 DEF Deadline, Overlaps, StartWrite, JobsQueued, BarrierInv
  <2>2. BarrierInv'
    BY <1>3 DEF Deadline, Overlaps, StartWrite, JobsQueued, BarrierInv
  <2>3. NeverStranded'
    BY <1>3 DEF Deadline, Overlaps, StartWrite, JobsQueued, BarrierInv, NeverStranded
  <2> QED
    BY <2>1, <2>2, <2>3
<1>4. CASE WriteSucceeds
  <2>1. TypeOK'
    BY <1>4, ConcatProperties DEF WriteSucceeds, JobsQueued, BarrierInv
  <2>2. BarrierInv'
    BY <1>4, ConcatProperties DEF WriteSucceeds, JobsQueued, BarrierInv
  <2>3. NeverStranded'
    BY <1>4, ConcatProperties DEF WriteSucceeds, JobsQueued, BarrierInv, NeverStranded
  <2> QED
    BY <2>1, <2>2, <2>3
<1>5. CASE WriteFails
  <2>1. TypeOK'
    <3>1. failures + 1 \in Nat /\ batch \o pending \in Seq(Nat) /\ <<>> \in Seq(Nat)
      BY ConcatProperties
    <3> QED
      BY <1>5, <3>1 DEF WriteFails, Retained, JobsQueued
  <2>2. BarrierInv'
    BY <1>5, ConcatProperties DEF WriteFails, Retained, JobsQueued, BarrierInv
  <2>3. NeverStranded'
    BY <1>5, ConcatProperties DEF WriteFails, Retained, JobsQueued, BarrierInv, NeverStranded
  <2> QED
    BY <2>1, <2>2, <2>3
<1>6. CASE Cleared
  <2>1. TypeOK'
    BY <1>6 DEF Cleared, Resumed, BarrierInv
  <2>2. BarrierInv'
    BY <1>6 DEF Cleared, Resumed, BarrierInv
  <2>3. NeverStranded'
    BY <1>6 DEF Cleared, Resumed, BarrierInv, NeverStranded
  <2> QED
    BY <2>1, <2>2, <2>3
<1>7. CASE ContinueAutomatic
  <2>1. TypeOK'
    BY <1>7 DEF ContinueAutomatic, StartsNext, StartWrite, BarrierInv
  <2>2. BarrierInv'
    BY <1>7 DEF ContinueAutomatic, StartsNext, StartWrite, BarrierInv
  <2>3. NeverStranded'
    BY <1>7 DEF ContinueAutomatic, StartsNext, StartWrite, BarrierInv, NeverStranded
  <2> QED
    BY <2>1, <2>2, <2>3
<1>8. CASE BarrierResumes
  <2>1. TypeOK'
    BY <1>8 DEF BarrierResumes, Drain, Drained, StartWrite, BarrierInv
  <2>2. BarrierInv'
    BY <1>8 DEF BarrierResumes, Drain, Drained, StartWrite, BarrierInv
  <2>3. NeverStranded'
    BY <1>8 DEF BarrierResumes, Drain, Drained, StartWrite, BarrierInv, NeverStranded
  <2> QED
    BY <2>1, <2>2, <2>3
<1>9. CASE BarrierRejects
  <2>1. TypeOK'
    BY <1>9 DEF BarrierRejects, BarrierInv
  <2>2. BarrierInv'
    BY <1>9 DEF BarrierRejects, BarrierInv
  <2>3. NeverStranded'
    BY <1>9 DEF BarrierRejects, BarrierInv, NeverStranded
  <2> QED
    BY <2>1, <2>2, <2>3
<1>10. CASE Flush
  <2>1. TypeOK'
    <3>1. (arriving > 0 => arriving - 1 \in Nat) /\ <<>> \in Seq(Nat)
      OBVIOUS
    <3> QED
      BY <1>10, <3>1 DEF Flush, AwaitsOverlap, Drain, Drained, StartWrite, BarrierInv
  <2>2. BarrierInv'
    BY <1>10 DEF Flush, AwaitsOverlap, Drain, Drained, StartWrite, BarrierInv
  <2>3. NeverStranded'
    BY <1>10 DEF Flush, AwaitsOverlap, Drain, Drained, StartWrite, BarrierInv, NeverStranded
  <2> QED
    BY <2>1, <2>2, <2>3
<1>11. CASE UNCHANGED vars
  <2>1. TypeOK'
    BY <1>11 DEF vars, BarrierInv
  <2>2. BarrierInv'
    BY <1>11 DEF vars, BarrierInv
  <2>3. NeverStranded'
    BY <1>11 DEF vars, BarrierInv, NeverStranded
  <2> QED
    BY <2>1, <2>2, <2>3
<1> QED
  BY <1>1, <1>2, <1>3, <1>4, <1>5, <1>6, <1>7, <1>8, <1>9, <1>10, <1>11 DEF Next, Writes, Jobs

-----------------------------------------------------------------------------
\* A write takes the whole queue, and only when no other batch is in flight.
LEMMA BatchStep ==
  ASSUME ControlInv, [Next]_vars
  PROVE  \/ UNCHANGED <<stored, batch, pending, enqueued>>
         \/ Enqueue
         \/ WriteSucceeds
         \/ WriteFails
         \/ batch = <<>> /\ batch' = pending /\ pending' = <<>> /\ UNCHANGED <<stored, enqueued>>
<1> USE DEF ControlInv, TypeOK, BarrierInv, queueVars, writeVars, history
<1>1. CASE CancelAutomaticWait \/ Cleared \/ BarrierRejects \/ UNCHANGED vars
  BY <1>1 DEF CancelAutomaticWait, Cleared, BarrierRejects, vars
<1>2. CASE Deadline
  BY <1>2 DEF Deadline, Overlaps, StartWrite
<1>3. CASE ContinueAutomatic
  BY <1>3 DEF ContinueAutomatic, StartsNext, StartWrite
<1>4. CASE BarrierResumes
  BY <1>4 DEF BarrierResumes, Drain, Drained, StartWrite
<1>5. CASE Flush
  BY <1>5 DEF Flush, AwaitsOverlap, Drain, Drained, StartWrite
<1> QED
  BY <1>1, <1>2, <1>3, <1>4, <1>5 DEF Next, Writes, Jobs

LEMMA CountUp ==
  ASSUME NEW n \in Nat
  PROVE  /\ [k \in 1 .. n |-> k] \in Seq(Nat)
         /\ Append([k \in 1 .. n |-> k], n + 1) = [k \in 1 .. n + 1 |-> k]
<1>1. [k \in 1 .. n |-> k] \in Seq(Nat) /\ Len([k \in 1 .. n |-> k]) = n
  OBVIOUS
<1> QED
  BY <1>1

LEMMA AppendOne ==
  ASSUME NEW s \in Seq(Nat), NEW n \in Nat
  PROVE  Append(s, n) = s \o <<n>>
BY AppendIsConcat

LEMMA Regroup ==
  ASSUME NEW s \in Seq(Nat), NEW t \in Seq(Nat), NEW u \in Seq(Nat)
  PROVE  (s \o t) \o u = s \o (t \o u)
  BY ConcatAssociative, Z3T(30)

LEMMA ConservationStep == WriteInv /\ [Next]_vars => Conservation'
<1> SUFFICES ASSUME WriteInv, [Next]_vars PROVE Conservation'
  OBVIOUS
<1>1. /\ stored \in Seq(Nat) /\ batch \in Seq(Nat) /\ pending \in Seq(Nat) /\ enqueued \in Nat
      /\ (stored \o batch) \o pending = [k \in 1 .. enqueued |-> k]
  BY DEF WriteInv, ControlInv, TypeOK, Conservation
<1>2. stored \o batch \in Seq(Nat) /\ batch \o pending \in Seq(Nat) /\ <<>> \in Seq(Nat)
  BY <1>1, ConcatProperties
<1>3. CASE UNCHANGED <<stored, batch, pending, enqueued>>
  BY <1>1, <1>3 DEF Conservation
<1>4. CASE Enqueue
  <2>1. stored' = stored /\ batch' = batch /\ pending' = Append(pending, enqueued + 1) /\ enqueued' = enqueued + 1
    BY <1>4 DEF Enqueue, writeVars
  <2>2. enqueued + 1 \in Nat /\ <<enqueued + 1>> \in Seq(Nat)
    BY <1>1
  <2>3. (stored \o batch) \o pending' = ((stored \o batch) \o pending) \o <<enqueued + 1>>
    <3>1. pending' = pending \o <<enqueued + 1>>
      BY <1>1, <2>1, <2>2, AppendOne
    <3>2. ((stored \o batch) \o pending) \o <<enqueued + 1>> = (stored \o batch) \o (pending \o <<enqueued + 1>>)
      <4> DEFINE held == stored \o batch
      <4>1. held \in Seq(Nat)
        BY <1>2
      <4> HIDE DEF held
      <4>2. (held \o pending) \o <<enqueued + 1>> = held \o (pending \o <<enqueued + 1>>)
        BY <1>1, <2>2, <4>1, Regroup
      <4> QED
        BY <4>2 DEF held
    <3> QED
      BY <3>1, <3>2
  <2>4. (stored \o batch) \o pending' = Append([k \in 1 .. enqueued |-> k], enqueued + 1)
    BY <1>1, <2>2, <2>3, CountUp, AppendIsConcat
  <2> QED
    BY <1>1, <2>1, <2>4, CountUp DEF Conservation
<1>5. CASE WriteSucceeds
  <2>1. stored' = stored \o batch /\ batch' = <<>> /\ pending' = pending /\ enqueued' = enqueued
    BY <1>5 DEF WriteSucceeds, queueVars
  <2>2. stored' \o batch' = stored \o batch
    BY <1>2, <2>1, ConcatEmptySeq
  <2> QED
    BY <1>1, <2>1, <2>2 DEF Conservation
<1>6. CASE WriteFails
  <2>1. stored' = stored /\ batch' = <<>> /\ pending' = batch \o pending /\ enqueued' = enqueued
    BY <1>6 DEF WriteFails, Retained, history
  <2>2. stored' \o batch' = stored
    BY <1>1, <2>1, ConcatEmptySeq
  <2>3. stored \o (batch \o pending) = (stored \o batch) \o pending
    BY <1>1, Regroup
  <2> QED
    BY <1>1, <2>1, <2>2, <2>3 DEF Conservation
<1>7. CASE batch = <<>> /\ batch' = pending /\ pending' = <<>> /\ UNCHANGED <<stored, enqueued>>
  <2>1. stored \o batch = stored
    BY <1>1, <1>7, ConcatEmptySeq
  <2>2. stored \o pending \in Seq(Nat)
    BY <1>1, ConcatProperties
  <2>3. (stored' \o batch') \o pending' = stored \o pending
    BY <1>7, <2>2, ConcatEmptySeq
  <2> QED
    BY <1>1, <1>7, <2>1, <2>3 DEF Conservation
<1> QED
  BY <1>3, <1>4, <1>5, <1>6, <1>7, BatchStep DEF WriteInv

LEMMA WriteInvariant == Spec => []WriteInv
<1>1. Init => WriteInv
  <2>1. Init => ControlInv
    BY ControlInit
  <2>2. Init => Conservation
    <3> SUFFICES ASSUME Init PROVE Conservation
      OBVIOUS
    <3>1. <<>> \o <<>> = <<>>
      BY ConcatEmptySeq
    <3>2. <<>> = [k \in 1 .. 0 |-> k]
      OBVIOUS
    <3> QED
      BY <3>1, <3>2 DEF Init, Conservation
  <2> QED
    BY <2>1, <2>2 DEF WriteInv
<1>2. WriteInv /\ [Next]_vars => WriteInv'
  BY ControlStep, ConservationStep DEF WriteInv
<1> QED
  BY <1>1, <1>2, PTL DEF Spec

-----------------------------------------------------------------------------
\* Nothing is lost, duplicated or reordered between append and storage.
THEOREM NothingLost == Spec => []Conservation
<1>1. WriteInv => Conservation
  BY DEF WriteInv
<1> QED
  BY <1>1, WriteInvariant, PTL

\* The controller's queue, write, window and barrier stay in their domains, and
\* without an active write nothing is in flight.
THEOREM WellTyped == Spec => []TypeOK
<1>1. WriteInv => TypeOK
  BY DEF WriteInv, ControlInv
<1> QED
  BY <1>1, WriteInvariant, PTL

\* Pending events always have someone who will write them, or wait behind a failure.
THEOREM SomeoneWrites == Spec => []NeverStranded
<1>1. WriteInv => NeverStranded
  BY DEF WriteInv, ControlInv
<1> QED
  BY <1>1, WriteInvariant, PTL

\* No write starts while another one is active.
THEOREM SingleWriter == Spec => OneWriteAtATime
<1>1. WriteInv /\ [Next]_vars => [batch' \notin {<<>>, batch} => active = "none"]_vars
  <2> SUFFICES ASSUME WriteInv, [Next]_vars, batch' \notin {<<>>, batch} PROVE active = "none"
    OBVIOUS
  <2> USE DEF WriteInv, ControlInv, TypeOK, BarrierInv, queueVars, writeVars, history
  <2>1. CASE Deadline
    BY <2>1 DEF Deadline, Overlaps, StartWrite
  <2>2. CASE ContinueAutomatic
    BY <2>2 DEF ContinueAutomatic, StartsNext, StartWrite
  <2>3. CASE BarrierResumes
    BY <2>3 DEF BarrierResumes, Drain, Drained, StartWrite
  <2>4. CASE Flush
    BY <2>4 DEF Flush, AwaitsOverlap, Drain, Drained, StartWrite
  <2>5. CASE Enqueue \/ CancelAutomaticWait \/ Writes \/ Cleared \/ BarrierRejects \/ UNCHANGED vars
    BY <2>5 DEF Enqueue, CancelAutomaticWait, Writes, WriteSucceeds, WriteFails, Cleared, BarrierRejects, vars
  <2> QED
    BY <2>1, <2>2, <2>3, <2>4, <2>5 DEF Next, Jobs
<1> QED
  BY <1>1, WriteInvariant, PTL DEF Spec, OneWriteAtATime

\* A flush resolves only when every event appended so far, also while it ran, is
\* stored.
THEOREM FlushIsABarrier == Spec => FlushMeansStored
<1>1. WriteInv /\ WriteInv' /\ [Next]_vars => [Resolves => stored' = [k \in 1 .. enqueued' |-> k]]_vars
  <2> SUFFICES ASSUME WriteInv, WriteInv', [Next]_vars, Resolves
               PROVE  stored' = [k \in 1 .. enqueued' |-> k]
    OBVIOUS
  <2>1. pending' = <<>> /\ active' = "none"
    <3> USE DEF WriteInv, ControlInv, TypeOK, BarrierInv, Resolves, queueVars, writeVars, history
    <3>1. CASE BarrierResumes
      BY <3>1 DEF BarrierResumes, Drain, Drained, StartWrite
    <3>2. CASE Flush
      BY <3>2 DEF Flush, AwaitsOverlap, Drain, Drained, StartWrite
    <3>3. CASE Cleared \/ ContinueAutomatic \/ Deadline
      BY <3>3 DEF Cleared, Resumed, ContinueAutomatic, Deadline
    <3>4. CASE Enqueue \/ CancelAutomaticWait \/ Writes \/ BarrierRejects \/ UNCHANGED vars
      BY <3>4 DEF Enqueue, CancelAutomaticWait, Writes, WriteSucceeds, WriteFails, BarrierRejects, vars
    <3> QED
      BY <3>1, <3>2, <3>3, <3>4 DEF Next, Jobs
  <2>2. batch' = <<>> /\ stored' \in Seq(Nat) /\ (stored' \o batch') \o pending' = [k \in 1 .. enqueued' |-> k]
    BY <2>1 DEF WriteInv, ControlInv, TypeOK, Conservation
  <2> QED
    BY <2>1, <2>2, ConcatEmptySeq
<1> QED
  BY <1>1, WriteInvariant, PTL DEF Spec, FlushMeansStored
=============================================================================
