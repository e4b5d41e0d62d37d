------------------------ MODULE SessionRecoveryProofs ------------------------
(***************************************************************************)
(* The durability of a session's log, for any number of events, calls,     *)
(* crashes and failures, and whichever of the two encodings the store has. *)
(*                                                                         *)
(* Nothing here depends on what an event is, nor on which closers the scan *)
(* of a log computes: only on the closers being a sequence of events.      *)
(***************************************************************************)
EXTENDS SessionRecovery, SequenceTheorems, FiniteSetTheorems, TLAPS

-----------------------------------------------------------------------------
(* Prefixes.                                                               *)

LEMMA PrefixOfConcat ==
  ASSUME NEW U, NEW s \in Seq(U), NEW t \in Seq(U), NEW u \in Seq(U), IsPrefix(s, t)
  PROVE  IsPrefix(s, t \o u)
<1>1. /\ Len(s) \in Nat /\ Len(t) \in Nat /\ Len(u) \in Nat /\ Len(s) <= Len(t)
      /\ t \o u \in Seq(U) /\ Len(t \o u) = Len(t) + Len(u)
      /\ \A i \in 1 .. Len(t) : (t \o u)[i] = t[i]
  BY LenProperties, ConcatProperties DEF IsPrefix
<1>2. /\ \A i \in 1 .. Len(s) : i \in 1 .. Len(t) /\ i \in 1 .. Len(t \o u)
      /\ Len(s) <= Len(t \o u)
  BY <1>1
<1>3. \A i \in 1 .. Len(s) : t[i] \in U /\ (t \o u)[i] \in U
  BY <1>1, <1>2, ElementOfSeq
<1>4. /\ SubSeq(t, 1, Len(s)) \in Seq(U) /\ SubSeq(t \o u, 1, Len(s)) \in Seq(U)
      /\ Len(SubSeq(t, 1, Len(s))) = Len(s) /\ Len(SubSeq(t \o u, 1, Len(s))) = Len(s)
      /\ \A i \in 1 .. Len(s) : SubSeq(t, 1, Len(s))[i] = t[i]
      /\ \A i \in 1 .. Len(s) : SubSeq(t \o u, 1, Len(s))[i] = (t \o u)[i]
  BY <1>1, <1>3, SubSeqProperties
<1>5. SubSeq(t, 1, Len(s)) = SubSeq(t \o u, 1, Len(s))
  BY <1>1, <1>2, <1>4, SeqEqual
<1> QED
  BY <1>2, <1>5 DEF IsPrefix

LEMMA PrefixOfItself ==
  ASSUME NEW U, NEW s \in Seq(U)
  PROVE  IsPrefix(s, s)
  BY LenProperties DEF IsPrefix

LEMMA EmptyPrefix ==
  ASSUME NEW U, NEW s \in Seq(U)
  PROVE  SubSeq(s, 1, 0) = <<>> /\ IsPrefix(<<>>, s)
<1>1. SubSeq(s, 1, 0) = <<>>
  BY SubSeqEmpty
<1>2. Len(<<>>) = 0 /\ Len(s) \in Nat
  BY EmptySeq, LenProperties
<1> QED
  BY <1>1, <1>2 DEF IsPrefix

\* The beginning of a log does not change when the log grows.
LEMMA BeginningOfConcat ==
  ASSUME NEW U, NEW s \in Seq(U), NEW t \in Seq(U), NEW m \in 1 .. Len(s) + 1, NEW n \in 0 .. Len(s)
  PROVE  SubSeq(s \o t, m, n) = SubSeq(s, m, n)
<1>1. /\ Len(s) \in Nat /\ s \o t \in Seq(U) /\ Len(s \o t) = Len(s) + Len(t) /\ Len(t) \in Nat
      /\ \A i \in 1 .. Len(s) : (s \o t)[i] = s[i]
  BY LenProperties, ConcatProperties
<1>2. CASE n < m
  BY <1>2, SubSeqEmpty
<1>3. CASE m <= n
  <2>1. \A i \in m .. n : i \in 1 .. Len(s) /\ i \in 1 .. Len(s \o t)
    BY <1>1
  <2>2. \A i \in m .. n : s[i] \in U /\ (s \o t)[i] \in U
    BY <1>1, <2>1, ElementOfSeq
  <2>3. /\ SubSeq(s, m, n) \in Seq(U) /\ SubSeq(s \o t, m, n) \in Seq(U)
        /\ Len(SubSeq(s, m, n)) = n - m + 1 /\ Len(SubSeq(s \o t, m, n)) = n - m + 1
        /\ \A i \in 1 .. n - m + 1 : SubSeq(s, m, n)[i] = s[m + i - 1]
        /\ \A i \in 1 .. n - m + 1 : SubSeq(s \o t, m, n)[i] = (s \o t)[m + i - 1]
    BY <1>3, <2>2, SubSeqProperties
  <2>4. \A i \in 1 .. n - m + 1 : m + i - 1 \in m .. n
    OBVIOUS
  <2> QED
    BY <1>1, <2>1, <2>3, <2>4, SeqEqual
<1> QED
  BY <1>2, <1>3

-----------------------------------------------------------------------------
(* The closers of a log are a sequence.                                    *)

LEMMA ResultsAreASequence ==
  ASSUME NEW s
  PROVE  \E V : RecoveryResults(s) \in Seq(V)
<1> DEFINE n == Cardinality(Pending(s))
           r == RecoveryResults(s)
<1>1. n \in Nat
  <2>1. Pending(s) \subseteq 1 .. MaxCalls
    BY DEF Pending, CallIds
  <2>2. IsFiniteSet(1 .. MaxCalls)
    BY RecoveryAssumption, FS_Interval
  <2> QED
    BY <2>1, <2>2, FS_Subset, FS_CardinalityType
<1>2. r = [k \in 1 .. n |-> r[k]]
  BY DEF RecoveryResults
<1> HIDE DEF n, r
<1>3. r \in [1 .. n -> {r[k] : k \in 1 .. n}]
  BY <1>2
<1>4. r \in Seq({r[k] : k \in 1 .. n})
  BY <1>1, <1>3, SeqDef
<1> QED
  BY <1>4 DEF r

LEMMA ClosersAreASequence ==
  ASSUME NEW log
  PROVE  \E V : Closers(log) \in Seq(V)
<1>1. PICK V : RecoveryResults(Scanned(log)) \in Seq(V)
  BY ResultsAreASequence
<1> DEFINE W == V \cup {Boundary("stepEnd"), Boundary("turnEnd")}
           r == RecoveryResults(Scanned(log))
<1>2. r \in Seq(W)
  BY <1>1, SeqMonotonic
<1>3. <<Boundary("stepEnd")>> \in Seq(W) /\ <<Boundary("turnEnd")>> \in Seq(W) /\ <<>> \in Seq(W)
  BY EmptySeq
<1> HIDE DEF W, r
<1>4. \A e \in {<<>>, <<Boundary("stepEnd")>>} : r \o e \o <<Boundary("turnEnd")>> \in Seq(W)
  BY <1>2, <1>3, ConcatProperties
<1>5. Closers(log) \in Seq(W)
  BY <1>3, <1>4 DEF Closers, r
<1> QED
  BY <1>5

-----------------------------------------------------------------------------
(* The inductive invariant.                                                *)

LogsIn(U) ==
  /\ live \in Seq(U) /\ batch \in Seq(U) /\ committed \in Seq(U) /\ frame \in Seq(U)
  /\ history \in Seq(U) /\ source.recovered \in Seq(U) /\ source.closers \in Seq(U)

\* The file is what the cursor says, or what a first publication left that was
\* rejected behind its link.
StoredInv ==
  \/ committed = SubSeq(live, 1, cursor)
  \/ cursor = 0 /\ IsPrefix(committed, live)

\* The batch in flight continues what is acknowledged.
UpInv ==
  /\ cursor \in 0 .. Len(live) /\ StoredInv /\ ~torn
  /\ cursor + Len(batch) <= Len(live)
  /\ batch = SubSeq(live, cursor + 1, cursor + Len(batch))

\* Nothing is in flight, and the file begins with what was acknowledged.
DownInv ==
  /\ batch = <<>>
  /\ acked \in 0 .. Len(history) /\ IsPrefix(SubSeq(history, 1, acked), committed)

\* Only a torn file ends in an unfinished frame.
FrameInv == torn \in BOOLEAN /\ (~torn => frame = <<>>)

RecoveryInv ==
  /\ \E U : LogsIn(U)
  /\ IF phase = "up" THEN UpInv ELSE DownInv
  /\ FrameInv

LEMMA LogsGrow ==
  ASSUME NEW U, NEW V, LogsIn(U)
  PROVE  LogsIn(U \cup V)
  BY SeqMonotonic DEF LogsIn

LEMMA InitRecovery == Init => RecoveryInv
<1> SUFFICES ASSUME Init PROVE RecoveryInv
  OBVIOUS
<1>1. LogsIn({})
  BY EmptySeq DEF Init, LogsIn, NoSource
<1>2. UpInv
  BY EmptySeq, SubSeqEmpty DEF Init, UpInv, StoredInv
<1> QED
  BY <1>1, <1>2 DEF Init, RecoveryInv, FrameInv

\* The live log grows, by an event or by what a failed step answers.
LEMMA LiveGrows ==
  ASSUME RecoveryInv, phase = "up", NEW V, NEW more \in Seq(V), live' = live \o more,
         UNCHANGED <<phase, cursor, batch, file, source, ghosts>>
  PROVE  RecoveryInv'
<1>1. PICK U : LogsIn(U)
  BY DEF RecoveryInv
<1>2. LogsIn(U \cup V) /\ more \in Seq(U \cup V)
  BY <1>1, LogsGrow, SeqMonotonic
<1>3. live' \in Seq(U \cup V) /\ Len(live') = Len(live) + Len(more)
  BY <1>2, ConcatProperties DEF LogsIn
<1>4. LogsIn(U \cup V)'
  BY <1>2, <1>3 DEF LogsIn, file, ghosts
<1>5. UpInv'
  <2>1. /\ UpInv /\ Len(live) \in Nat /\ Len(more) \in Nat /\ Len(batch) \in Nat /\ cursor \in Nat
    BY <1>1, <1>2, LenProperties DEF RecoveryInv, UpInv, LogsIn
  <2>2. StoredInv'
    <3>1. SubSeq(live', 1, cursor) = SubSeq(live, 1, cursor)
      BY <1>2, <2>1, BeginningOfConcat DEF UpInv, LogsIn
    <3>2. IsPrefix(committed, live) => IsPrefix(committed, live')
      BY <1>2, PrefixOfConcat DEF LogsIn
    <3> QED
      BY <2>1, <3>1, <3>2 DEF UpInv, StoredInv, file
  <2>3. cursor + 1 \in 1 .. Len(live) + 1 /\ cursor + Len(batch) \in 0 .. Len(live)
    BY <2>1 DEF UpInv
  <2>4. SubSeq(live', cursor + 1, cursor + Len(batch)) = SubSeq(live, cursor + 1, cursor + Len(batch))
    BY <1>2, <2>3, BeginningOfConcat DEF LogsIn
  <2> QED
    BY <1>3, <2>1, <2>2, <2>4 DEF UpInv, file
<1> QED
  BY <1>4, <1>5 DEF RecoveryInv, FrameInv, file

LEMMA EmitsRecovery == RecoveryInv /\ Emit => RecoveryInv'
<1> SUFFICES ASSUME RecoveryInv, Emit PROVE RecoveryInv'
  OBVIOUS
<1>1. PICK e : live' = Append(live, e)
  BY DEF Emit
<1>2. PICK U : live \in Seq(U)
  BY DEF RecoveryInv, LogsIn
<1>3. live \in Seq(U \cup {e}) /\ e \in U \cup {e}
  BY <1>2, SeqMonotonic
<1>4. live' = live \o <<e>> /\ <<e>> \in Seq({e})
  BY <1>1, <1>3, AppendIsConcat
<1> QED
  BY <1>4, LiveGrows DEF Emit

LEMMA EmitsAnswers == RecoveryInv /\ EmitRecovery => RecoveryInv'
<1> SUFFICES ASSUME RecoveryInv, EmitRecovery PROVE RecoveryInv'
  OBVIOUS
<1> DEFINE r == RecoveryResults(Scanned(live))
           ends == <<Boundary("stepEnd"), Boundary("turnEnd")>>
<1>1. PICK V : r \in Seq(V)
  BY ResultsAreASequence
<1>2. PICK U : live \in Seq(U)
  BY DEF RecoveryInv, LogsIn
<1> DEFINE W == U \cup V \cup {Boundary("stepEnd"), Boundary("turnEnd")}
<1>3. live \in Seq(W) /\ r \in Seq(W) /\ ends \in Seq(W)
  BY <1>1, <1>2, SeqMonotonic
<1>4. live' = live \o r \o ends
  BY DEF EmitRecovery
<1> HIDE DEF W, r, ends
<1>5. live' = live \o (r \o ends)
  <2>1. (live \o r) \o ends = live \o (r \o ends)
    BY <1>3, ConcatAssociative
  <2> QED
    BY <1>4, <2>1
<1>6. r \o ends \in Seq(W)
  BY <1>3, ConcatProperties, Zenon
<1> QED
  BY <1>5, <1>6, LiveGrows DEF EmitRecovery

-----------------------------------------------------------------------------
(* Writes.                                                                 *)

LEMMA WritesRecovery == RecoveryInv /\ Write => RecoveryInv'
<1> SUFFICES ASSUME RecoveryInv, Write PROVE RecoveryInv'
  OBVIOUS
<1>0. phase = "up" /\ UpInv /\ FrameInv
  BY DEF Write, WriteStarts, WriteReturns, WriteFails, WriteIsRefused, RecoveryInv
<1>1. PICK U : LogsIn(U)
  BY DEF RecoveryInv
<1>2. /\ Len(live) \in Nat /\ Len(batch) \in Nat /\ cursor \in Nat
      /\ \A i \in 1 .. Len(live) : live[i] \in U
      /\ <<>> \in Seq(U) /\ Len(<<>>) = 0
  BY <1>0, <1>1, LenProperties, ElementOfSeq, EmptySeq DEF LogsIn, UpInv
<1>3. CASE WriteStarts
  <2>1. batch' = SubSeq(live, cursor + 1, Len(live)) /\ cursor < Len(live)
    BY <1>3 DEF WriteStarts
  <2>2. batch' \in Seq(U) /\ Len(batch') = Len(live) - cursor
    BY <1>2, <2>1, SubSeqProperties
  <2>3. UNCHANGED <<phase, live, cursor, committed, frame, torn, history, acked, source>>
    BY <1>3 DEF WriteStarts, file, ghosts
  <2>4. UpInv'
    BY <1>0, <1>2, <2>1, <2>2, <2>3 DEF UpInv, StoredInv
  <2>5. LogsIn(U)'
    BY <1>1, <2>2, <2>3 DEF LogsIn
  <2> QED
    BY <1>0, <2>3, <2>4, <2>5 DEF RecoveryInv, FrameInv
<1>4. CASE WriteReturns
  <2>1. /\ committed' = committed \o batch /\ cursor' = cursor + Len(batch) /\ batch' = <<>>
        /\ UNCHANGED <<phase, live, frame, torn, history, acked, source>>
    BY <1>4 DEF WriteReturns, Advanced, ghosts
  <2>2. committed' \in Seq(U)
    BY <1>1, <2>1, ConcatProperties DEF LogsIn
  <2>3. LogsIn(U)'
    BY <1>1, <1>2, <2>1, <2>2 DEF LogsIn
  <2>4. committed' = SubSeq(live, 1, cursor')
    <3>1. cursor \in 0 .. Len(live) /\ cursor + Len(batch) \in cursor .. Len(live)
      BY <1>0, <1>2 DEF UpInv
    <3>2. /\ 1 \in 1 .. Len(live) + 1 /\ cursor \in 1 - 1 .. Len(live)
          /\ cursor + Len(batch) \in cursor .. Len(live)
      BY <1>2, <3>1
    <3>3. committed = SubSeq(live, 1, cursor)
      <4>1. CASE cursor = 0
        BY <1>1, <1>4, <4>1, EmptyPrefix DEF WriteReturns, Refused, NoFile, LogsIn
      <4> QED
        BY <1>0, <4>1 DEF UpInv, StoredInv
    <3>4. SubSeq(live, 1, cursor) \o SubSeq(live, cursor + 1, cursor + Len(batch))
            = SubSeq(live, 1, cursor + Len(batch))
      BY <1>1, <3>2, ConcatAdjacentSubSeq, Zenon DEF LogsIn
    <3> QED
      BY <1>0, <2>1, <3>3, <3>4 DEF UpInv
  <2>5. UpInv'
    <3>1. batch' = SubSeq(live, cursor' + 1, cursor' + Len(batch'))
      BY <1>2, <2>1, SubSeqEmpty
    <3> QED
      BY <1>0, <1>2, <2>1, <2>4, <3>1 DEF UpInv, StoredInv
  <2> QED
    BY <1>0, <2>1, <2>3, <2>5 DEF RecoveryInv, FrameInv
<1>5. ASSUME batch' = <<>>, committed' \in Seq(U), StoredInv',
             UNCHANGED <<phase, live, cursor, frame, torn, history, acked, source>>
      PROVE  RecoveryInv'
  <2>1. LogsIn(U)'
    BY <1>1, <1>2, <1>5 DEF LogsIn
  <2>2. batch' = SubSeq(live, cursor' + 1, cursor' + Len(batch'))
    BY <1>2, <1>5, SubSeqEmpty
  <2>3. UpInv'
    BY <1>0, <1>2, <1>5, <2>2 DEF UpInv
  <2> QED
    BY <1>0, <1>5, <2>1, <2>3 DEF RecoveryInv, FrameInv
<1>6. CASE WriteFails
  <2>1. /\ batch' = <<>>
        /\ UNCHANGED <<phase, live, cursor, frame, torn, history, acked, source>>
    BY <1>6 DEF WriteFails, ghosts
  <2>2. PICK rest \in RolledBack(batch) : committed' = committed \o rest
    BY <1>6 DEF WriteFails
  <2>3. CASE rest = <<>>
    <3>1. committed' = committed
      BY <1>1, <2>2, <2>3, ConcatEmptySeq DEF LogsIn
    <3> QED
      BY <1>0, <1>1, <1>5, <2>1, <3>1 DEF LogsIn, UpInv, StoredInv
  <2>4. CASE rest = batch /\ NoFile   \* published, and rejected behind the link
    <3>1. committed' = batch
      BY <1>1, <2>2, <2>4, ConcatEmptySeq DEF LogsIn, NoFile
    <3>2. cursor = 0
      <4>1. CASE committed = SubSeq(live, 1, cursor)
        <5>1. \A i \in 1 .. cursor : live[i] \in U
          BY <1>0, <1>2 DEF UpInv
        <5>2. Len(SubSeq(live, 1, cursor)) = IF 1 <= cursor THEN cursor - 1 + 1 ELSE 0
          BY <1>2, <5>1, SubSeqProperties
        <5> QED
          BY <1>2, <2>4, <4>1, <5>2 DEF NoFile
      <4> QED
        BY <1>0, <4>1 DEF UpInv, StoredInv
    <3>3. Len(batch) <= Len(live) /\ batch = SubSeq(live, 1, Len(batch))
      BY <1>0, <1>2, <3>2 DEF UpInv
    <3>4. IsPrefix(batch, live)
      BY <3>3 DEF IsPrefix
    <3> QED
      BY <1>1, <1>5, <2>1, <3>1, <3>2, <3>4 DEF LogsIn, StoredInv
  <2> QED
    BY <2>3, <2>4 DEF RolledBack
<1>7. CASE WriteIsRefused
  <2>1. /\ batch' = <<>>
        /\ UNCHANGED <<phase, live, cursor, committed, frame, torn, history, acked, source>>
    BY <1>7 DEF WriteIsRefused, file, ghosts
  <2> QED
    BY <1>0, <1>1, <1>5, <2>1 DEF LogsIn, UpInv, StoredInv
<1> QED
  BY <1>3, <1>4, <1>6, <1>7 DEF Write

-----------------------------------------------------------------------------
(* Crashes and repairs.                                                    *)

\* Away from a running process the file only grows.
LEMMA DownGrows ==
  ASSUME NEW U, LogsIn(U), DownInv, NEW more \in Seq(U), committed' = committed \o more,
         batch' = batch, UNCHANGED ghosts
  PROVE  DownInv' /\ committed' \in Seq(U)
<1>1. /\ committed \in Seq(U) /\ history \in Seq(U) /\ acked \in 0 .. Len(history)
      /\ Len(history) \in Nat
  BY LenProperties DEF LogsIn, DownInv
<1>2. SubSeq(history, 1, acked) \in Seq(U)
  <2>1. \A i \in 1 .. acked : history[i] \in U
    BY <1>1, ElementOfSeq
  <2> QED
    BY <1>1, <2>1, SubSeqProperties
<1>3. IsPrefix(SubSeq(history, 1, acked), committed \o more)
  BY <1>1, <1>2, PrefixOfConcat DEF DownInv
<1> QED
  BY <1>1, <1>3, ConcatProperties DEF DownInv, ghosts

LEMMA LeftoversTyped ==
  ASSUME NEW U, NEW bytes \in Seq(U), NEW left \in Leftovers(bytes)
  PROVE  /\ left.records \in Seq(U) /\ left.frame \in Seq(U) /\ left.torn \in BOOLEAN
         /\ ~left.torn => left.frame = <<>>
<1>1. \A k \in 0 .. Len(bytes) : SubSeq(bytes, 1, k) \in Seq(U)
  <2> SUFFICES ASSUME NEW k \in 0 .. Len(bytes) PROVE SubSeq(bytes, 1, k) \in Seq(U)
    OBVIOUS
  <2>1. \A i \in 1 .. k : bytes[i] \in U
    BY LenProperties, ElementOfSeq
  <2> QED
    BY <2>1, SubSeqProperties
<1>2. \A rest \in Remains(bytes) : rest \in Seq(U)
  BY <1>1 DEF Remains
<1>3. <<>> \in Seq(U)
  BY EmptySeq
<1>4. ASSUME NEW records \in Seq(U), NEW inFrame \in Seq(U), NEW fragment \in BOOLEAN,
             fragment \/ inFrame = <<>>, left = Leftover(records, inFrame, fragment)
      PROVE  /\ left.records \in Seq(U) /\ left.frame \in Seq(U) /\ left.torn \in BOOLEAN
             /\ ~left.torn => left.frame = <<>>
  <2>1. left.records = records /\ left.frame = inFrame /\ left.torn = fragment
    BY <1>4 DEF Leftover
  <2> QED
    BY <1>4, <2>1
<1> DEFINE whole == Leftover(bytes, <<>>, FALSE)
           frames == {Leftover(<<>>, rest, TRUE) : rest \in Remains(bytes)}
           plain == {Leftover(rest, <<>>, fragment) :
                       rest \in Remains(bytes) \ {bytes}, fragment \in BOOLEAN}
<1>5. CASE left = whole
  BY <1>3, <1>4, <1>5
<1>6. CASE left \in frames
  BY <1>2, <1>3, <1>4, <1>6
<1>7. CASE left \in plain
  <2>1. PICK rest \in Remains(bytes), fragment \in BOOLEAN : left = Leftover(rest, <<>>, fragment)
    BY <1>7
  <2> QED
    BY <1>2, <1>3, <1>4, <2>1
<1>8. Leftovers(bytes) = {whole} \cup IF NoFile \/ bytes = <<>> THEN {}
                                         ELSE IF compressed THEN frames ELSE plain
  BY DEF Leftovers
<1> HIDE DEF whole, frames, plain
<1>9. left = whole \/ left \in frames \/ left \in plain
  BY <1>8
<1> QED
  BY <1>5, <1>6, <1>7, <1>9

LEMMA CrashRecovery == RecoveryInv /\ Crash => RecoveryInv'
<1> SUFFICES ASSUME RecoveryInv, Crash PROVE RecoveryInv'
  OBVIOUS
<1>1. PICK U : LogsIn(U)
  BY DEF RecoveryInv
<1>2. /\ phase' = "down" /\ batch' = <<>> /\ live' = <<>> /\ source' = NoSource
      /\ IF phase = "up" THEN history' = live /\ acked' = cursor
         ELSE history' = history /\ acked' = acked
  BY DEF Crash, ghosts
<1>3. InFlight \in Seq(U) /\ <<>> \in Seq(U)
  BY <1>1, EmptySeq DEF InFlight, LogsIn
<1>4. ASSUME ~(LosesLink /\ committed' = <<>> /\ UNCHANGED <<frame, torn>>)
      PROVE  \E more \in Seq(U) :
               /\ committed' = committed \o more
               /\ frame' \in Seq(U) /\ torn' \in BOOLEAN /\ (~torn' => frame' = <<>>)
  <2>1. CASE UNCHANGED file
    <3>1. committed' = committed \o <<>>
      BY <1>1, <2>1, ConcatEmptySeq DEF file, LogsIn
    <3> QED
      BY <1>1, <1>3, <2>1, <3>1 DEF file, LogsIn, RecoveryInv, FrameInv
  <2>2. CASE \E left \in Leftovers(InFlight) :
               committed' = committed \o left.records /\ frame' = left.frame /\ torn' = left.torn
    BY <1>3, <2>2, LeftoversTyped
  <2> QED
    BY <1>4, <2>1, <2>2 DEF Crash
<1>5. ASSUME committed' \in Seq(U), frame' \in Seq(U), torn' \in BOOLEAN, ~torn' => frame' = <<>>, DownInv'
      PROVE  RecoveryInv'
  <2>1. LogsIn(U)'
    BY <1>1, <1>2, <1>3, <1>5 DEF LogsIn, NoSource
  <2> QED
    BY <1>2, <1>5, <2>1 DEF RecoveryInv, FrameInv
<1>6. CASE LosesLink /\ committed' = <<>> /\ UNCHANGED <<frame, torn>>
  <2>1. UpInv /\ FrameInv /\ cursor = 0 /\ history' = live /\ acked' = 0
    BY <1>2, <1>6 DEF LosesLink, Refused, RecoveryInv
  <2>2. SubSeq(history', 1, 0) = <<>> /\ 0 \in 0 .. Len(history') /\ IsPrefix(<<>>, committed')
    <3>1. SubSeq(live, 1, 0) = <<>> /\ Len(live) \in Nat
      BY <1>1, EmptyPrefix, LenProperties DEF LogsIn
    <3>2. IsPrefix(<<>>, <<>>)
      BY <1>3, EmptyPrefix
    <3> QED
      BY <1>6, <2>1, <3>1, <3>2
  <2>3. DownInv'
    BY <1>2, <2>1, <2>2 DEF DownInv
  <2> QED
    BY <1>1, <1>3, <1>5, <1>6, <2>1, <2>3 DEF LogsIn, FrameInv
<1>7. CASE phase = "up" /\ ~(LosesLink /\ committed' = <<>> /\ UNCHANGED <<frame, torn>>)
  <2>1. UpInv /\ history' = live /\ acked' = cursor
    BY <1>2, <1>7 DEF RecoveryInv
  <2>2. PICK more \in Seq(U) :
          /\ committed' = committed \o more
          /\ frame' \in Seq(U) /\ torn' \in BOOLEAN /\ (~torn' => frame' = <<>>)
    BY <1>4, <1>7
  <2>3. committed' \in Seq(U)
    BY <1>1, <2>2, ConcatProperties DEF LogsIn
  <2>4. IsPrefix(SubSeq(live, 1, cursor), committed')
    <3>1. CASE committed = SubSeq(live, 1, cursor)
      BY <1>1, <2>2, <3>1, PrefixOfItself, PrefixOfConcat DEF LogsIn
    <3>2. CASE cursor = 0
      BY <1>1, <2>3, <3>2, EmptyPrefix DEF LogsIn
    <3> QED
      BY <2>1, <3>1, <3>2 DEF UpInv, StoredInv
  <2>5. DownInv'
    BY <1>2, <2>1, <2>4 DEF UpInv, DownInv
  <2> QED
    BY <1>5, <2>2, <2>3, <2>5
<1>8. CASE phase # "up"
  <2>1. DownInv /\ batch' = batch /\ UNCHANGED ghosts
    BY <1>2, <1>8 DEF RecoveryInv, DownInv, ghosts
  <2>2. PICK more \in Seq(U) :
          /\ committed' = committed \o more
          /\ frame' \in Seq(U) /\ torn' \in BOOLEAN /\ (~torn' => frame' = <<>>)
    BY <1>4, <1>8 DEF LosesLink
  <2>3. DownInv' /\ committed' \in Seq(U)
    BY <1>1, <2>1, <2>2, DownGrows
  <2> QED
    BY <1>5, <2>2, <2>3
<1> QED
  BY <1>6, <1>7, <1>8

LEMMA PrepareRecovery == RecoveryInv /\ Prepare => RecoveryInv'
<1> SUFFICES ASSUME RecoveryInv, Prepare PROVE RecoveryInv'
  OBVIOUS
<1>1. PICK U : LogsIn(U)
  BY DEF RecoveryInv
<1>2. phase = "down" /\ DownInv /\ FrameInv
  BY DEF Prepare, RecoveryInv
<1>3. UNCHANGED <<batch, committed, frame, torn>>
  BY DEF Prepare, file
<1>4. CASE torn \/ Closers(Readable) # <<>>
  <2>1. /\ phase' \in {"truncate", "close"}
        /\ source' = [recovered |-> frame, closers |-> Closers(Readable)]
        /\ UNCHANGED <<live, cursor, history, acked>>
    BY <1>4 DEF Prepare, ghosts
  <2>2. PICK V : Closers(Readable) \in Seq(V)
    BY ClosersAreASequence
  <2>3. LogsIn(U \cup V) /\ Closers(Readable) \in Seq(U \cup V)
    BY <1>1, <2>2, LogsGrow, SeqMonotonic
  <2>4. LogsIn(U \cup V)'
    BY <1>3, <2>1, <2>3 DEF LogsIn
  <2>5. DownInv' /\ FrameInv'
    BY <1>2, <1>3, <2>1 DEF DownInv, FrameInv
  <2> QED
    BY <2>1, <2>4, <2>5 DEF RecoveryInv
<1>5. CASE ~(torn \/ Closers(Readable) # <<>>)
  <2>1. /\ phase' = "up" /\ live' = Readable /\ cursor' = Len(Readable)
        /\ history' = <<>> /\ acked' = 0 /\ source' = source
    BY <1>5 DEF Prepare
  <2>2. Readable = committed /\ committed \in Seq(U) /\ Len(committed) \in Nat
    BY <1>1, <1>2, <1>5, ConcatEmptySeq, LenProperties DEF Readable, FrameInv, LogsIn
  <2>3. LogsIn(U)'
    BY <1>1, <1>3, <2>1, <2>2, EmptySeq DEF LogsIn
  <2>4. UpInv'
    <3>1. batch' = <<>> /\ Len(batch') = 0
      BY <1>2, <1>3, EmptySeq DEF DownInv
    <3>2. committed = SubSeq(committed, 1, Len(committed))
      BY <2>2, SubSeqFull
    <3>3. SubSeq(live', cursor' + 1, cursor' + Len(batch')) = <<>>
      BY <2>1, <2>2, <3>1, SubSeqEmpty
    <3> QED
      BY <1>3, <1>5, <2>1, <2>2, <3>1, <3>2, <3>3 DEF UpInv, StoredInv
  <2> QED
    BY <1>2, <1>3, <2>1, <2>3, <2>4 DEF RecoveryInv, FrameInv
<1> QED
  BY <1>4, <1>5

\* A step of a repair writes what the load decided, or only gives up.
LEMMA RepairGrows ==
  ASSUME RecoveryInv, phase # "up", phase' # "up", NEW U, LogsIn(U), NEW more \in Seq(U),
         committed' = committed \o more, source' \in {source, NoSource}, FrameInv', frame' \in {frame, <<>>},
         UNCHANGED <<live, batch, ghosts>>
  PROVE  RecoveryInv'
<1>1. DownInv' /\ committed' \in Seq(U)
  BY DownGrows DEF RecoveryInv
<1>2. <<>> \in Seq(U)
  BY EmptySeq
<1>3. source'.recovered \in Seq(U) /\ source'.closers \in Seq(U)
  <2>1. NoSource.recovered \in Seq(U) /\ NoSource.closers \in Seq(U)
    BY <1>2 DEF NoSource
  <2>2. source.recovered \in Seq(U) /\ source.closers \in Seq(U)
    BY DEF LogsIn
  <2> QED
    BY <2>1, <2>2
<1>4. LogsIn(U)'
  BY <1>1, <1>2, <1>3 DEF LogsIn, ghosts
<1> QED
  BY <1>1, <1>4 DEF RecoveryInv

LEMMA RepairRecovery == RecoveryInv /\ (Truncate \/ Restore \/ Close \/ RepairFails) => RecoveryInv'
<1> SUFFICES ASSUME RecoveryInv, Truncate \/ Restore \/ Close \/ RepairFails PROVE RecoveryInv'
  OBVIOUS
<1>1. PICK U : LogsIn(U)
  BY DEF RecoveryInv
<1>2. /\ phase # "up" /\ phase' # "up" /\ source' \in {source, NoSource}
      /\ UNCHANGED <<live, batch, ghosts>>
  BY DEF Truncate, Restore, Close, RepairFails, Repairing, After
<1>3. FrameInv /\ <<>> \in Seq(U) /\ committed = committed \o <<>>
  BY <1>1, EmptySeq, ConcatEmptySeq DEF LogsIn, RecoveryInv
<1>4. CASE committed' = Kept /\ frame' = <<>> /\ torn' = TornAfter
  <2>1. committed' = committed /\ frame' = <<>> /\ torn' = FALSE
    BY <1>4 DEF Kept, TornAfter
  <2>2. FrameInv'
    BY <2>1 DEF FrameInv
  <2>3. committed' = committed \o <<>> /\ frame' \in {frame, <<>>}
    BY <1>3, <2>1
  <2> QED
    BY <1>1, <1>2, <1>3, <2>2, <2>3, RepairGrows
<1>5. CASE Restore \/ Close \/ UNCHANGED file
  <2>1. FrameInv' /\ frame' = frame
    BY <1>3, <1>5 DEF Restore, Close, FrameInv, file
  <2>2. PICK more \in {source.recovered, source.closers, <<>>} : committed' = committed \o more
    BY <1>3, <1>5 DEF Restore, Restored, Close, file
  <2>3. more \in Seq(U)
    BY <1>1, <1>3 DEF LogsIn
  <2> QED
    BY <1>1, <1>2, <2>1, <2>2, <2>3, RepairGrows
<1> QED
  BY <1>4, <1>5 DEF Truncate, RepairFails

-----------------------------------------------------------------------------
(* The theorem.                                                            *)

LEMMA RecoveryInvariant == Spec => []RecoveryInv
<1>1. ASSUME RecoveryInv, Next PROVE RecoveryInv'
  BY <1>1, EmitsRecovery, EmitsAnswers, WritesRecovery, CrashRecovery, PrepareRecovery, RepairRecovery
     DEF Next, Load
<1>2. ASSUME RecoveryInv, UNCHANGED vars PROVE RecoveryInv'
  BY <1>2 DEF vars, file, ghosts, RecoveryInv, LogsIn, UpInv, StoredInv, DownInv, FrameInv
<1> QED
  BY InitRecovery, <1>1, <1>2, PTL DEF Spec

\* What was acknowledged as durable is in the file, under its own sequence
\* numbers, whatever appends fail, crashes leave and repairs are cut short; while a
\* process runs the file is exactly what its cursor says, or the beginning of the log
\* that a first publication left although it was rejected.
THEOREM AcknowledgedIsKept == Spec => []AckedIsKept
<1>1. RecoveryInv => AckedIsKept
  BY DEF RecoveryInv, UpInv, StoredInv, DownInv, AckedIsKept
<1> QED
  BY RecoveryInvariant, <1>1, PTL

=============================================================================
