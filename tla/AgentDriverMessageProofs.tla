---------------------- MODULE AgentDriverMessageProofs ----------------------
(***************************************************************************)
(* Theorems about the turn driver's messages, wakes and disposal: where    *)
(* each message is, which turn may claim it, when a wake is latched, and   *)
(* what remains behind a disposal, for every value of the constants.       *)
(***************************************************************************)
EXTENDS AgentDriverProofs

-----------------------------------------------------------------------------
(* Sequences without repetition.                                           *)

Distinct(s) == \A i, j \in DOMAIN s : s[i] = s[j] => i = j

LEMMA AppendDistinct ==
  ASSUME NEW S, NEW s \in Seq(S), NEW e \in S
  PROVE  /\ Append(s, e) \in Seq(S) /\ Elements(Append(s, e)) = Elements(s) \cup {e}
         /\ Distinct(s) /\ e \notin Elements(s) => Distinct(Append(s, e))
<1>1. /\ Append(s, e) \in Seq(S) /\ Len(s) \in Nat
      /\ DOMAIN s = 1 .. Len(s) /\ DOMAIN Append(s, e) = 1 .. Len(s) + 1
      /\ \A i \in 1 .. Len(s) : Append(s, e)[i] = s[i]
      /\ Append(s, e)[Len(s) + 1] = e
  BY AppendProperties
<1>2. \A i \in 1 .. Len(s) + 1 : i \in 1 .. Len(s) \/ i = Len(s) + 1
  BY <1>1
<1>3. Len(s) + 1 \notin 1 .. Len(s) /\ 1 .. Len(s) \subseteq 1 .. Len(s) + 1
        /\ Len(s) + 1 \in 1 .. Len(s) + 1
  BY <1>1
<1> QED
  BY <1>1, <1>2, <1>3 DEF Elements, Distinct

LEMMA PushDistinct ==
  ASSUME NEW S, NEW s \in Seq(S), NEW e \in S
  PROVE  /\ <<e>> \o s \in Seq(S) /\ Elements(<<e>> \o s) = Elements(s) \cup {e}
         /\ Distinct(s) /\ e \notin Elements(s) => Distinct(<<e>> \o s)
<1> DEFINE t == <<e>> \o s
<1>1. /\ t \in Seq(S) /\ DOMAIN t = 1 .. Len(s) + 1 /\ t[1] = e
      /\ \A i \in 2 .. Len(s) + 1 : t[i] = s[i - 1]
  BY PushProperties
<1>2. DOMAIN s = 1 .. Len(s) /\ Len(s) \in Nat
  BY LenProperties
<1> HIDE DEF t
<1>3. \A i \in DOMAIN t : i = 1 \/ (i \in 2 .. Len(s) + 1 /\ i - 1 \in DOMAIN s)
  BY <1>1, <1>2
<1>4. \A i \in DOMAIN s : i + 1 \in 2 .. Len(s) + 1 /\ t[i + 1] = s[i] /\ i + 1 \in DOMAIN t
  BY <1>1, <1>2
<1>5. Elements(t) = Elements(s) \cup {e}
  <2>1. Elements(t) \subseteq Elements(s) \cup {e}
    BY <1>1, <1>3 DEF Elements
  <2>2. e \in Elements(t)
    BY <1>1, <1>2 DEF Elements
  <2>3. Elements(s) \subseteq Elements(t)
    BY <1>4 DEF Elements
  <2> QED
    BY <2>1, <2>2, <2>3
<1>6. ASSUME Distinct(s), e \notin Elements(s), NEW i \in DOMAIN t, NEW j \in DOMAIN t, t[i] = t[j]
      PROVE  i = j
  <2>1. CASE i = 1 /\ j = 1
    BY <2>1
  <2>2. CASE (i = 1 /\ j # 1) \/ (i # 1 /\ j = 1)
    BY <1>1, <1>3, <1>6, <2>2 DEF Elements
  <2>3. CASE i # 1 /\ j # 1
    <3>1. i - 1 = j - 1
      BY <1>1, <1>3, <1>6, <2>3 DEF Distinct
    <3> QED
      BY <1>2, <1>3, <2>3, <3>1
  <2> QED
    BY <2>1, <2>2, <2>3
<1> QED
  BY <1>1, <1>5, <1>6 DEF t, Distinct

\* Without(s, k) keeps the other elements in their order.
LEMMA WithoutIndexes ==
  ASSUME NEW S, NEW s \in Seq(S), NEW k \in DOMAIN s
  PROVE  /\ Without(s, k) \in Seq(S) /\ DOMAIN Without(s, k) = 1 .. Len(s) - 1
         /\ \A i \in 1 .. Len(s) - 1 : i < k => Without(s, k)[i] = s[i]
         /\ \A i \in 1 .. Len(s) - 1 : ~(i < k) => Without(s, k)[i] = s[i + 1]
<1> DEFINE n == Len(s)
           u == SubSeq(s, 1, k - 1)
           v == SubSeq(s, k + 1, n)
<1>1. n \in Nat /\ DOMAIN s = 1 .. n /\ k \in 1 .. n
  BY LenProperties
<1>2. u \in Seq(S) /\ Len(u) = k - 1 /\ \A i \in 1 .. k - 1 : u[i] = s[i]
  BY <1>1
<1>3. v \in Seq(S) /\ Len(v) = n - k /\ \A i \in 1 .. n - k : v[i] = s[i + k]
  BY <1>1
<1>4. Without(s, k) = u \o v
  BY DEF Without
<1> HIDE DEF u, v
<1>5. /\ u \o v \in Seq(S) /\ Len(u \o v) = Len(u) + Len(v)
      /\ \A i \in 1 .. Len(u) + Len(v) : (u \o v)[i] = IF i <= Len(u) THEN u[i] ELSE v[i - Len(u)]
  BY <1>2, <1>3, ConcatProperties
<1>6. Len(u) + Len(v) = n - 1
  BY <1>1, <1>2, <1>3
<1> HIDE DEF n
<1>7. DOMAIN (u \o v) = 1 .. n - 1
  BY <1>5, <1>6, LenProperties
<1>8. ASSUME NEW i \in 1 .. n - 1, i < k PROVE (u \o v)[i] = s[i]
  BY <1>1, <1>2, <1>5, <1>6, <1>8
<1>9. ASSUME NEW i \in 1 .. n - 1, ~(i < k) PROVE (u \o v)[i] = s[i + 1]
  <2>1. (u \o v)[i] = v[i - (k - 1)]
    BY <1>1, <1>2, <1>5, <1>6, <1>9
  <2>2. i - (k - 1) \in 1 .. n - k /\ i - (k - 1) + k = i + 1
    BY <1>1, <1>9
  <2> QED
    BY <1>3, <2>1, <2>2
<1> QED
  BY <1>4, <1>5, <1>7, <1>8, <1>9 DEF n

LEMMA WithoutDistinct ==
  ASSUME NEW S, NEW s \in Seq(S), NEW k \in DOMAIN s, Distinct(s)
  PROVE  /\ Without(s, k) \in Seq(S) /\ Elements(Without(s, k)) = Elements(s) \ {s[k]}
         /\ Distinct(Without(s, k))
<1> DEFINE n == Len(s)
           t == Without(s, k)
           at(i) == IF i < k THEN i ELSE i + 1
<1>1. n \in Nat /\ DOMAIN s = 1 .. n /\ k \in 1 .. n
  BY LenProperties
<1>2. t \in Seq(S) /\ DOMAIN t = 1 .. n - 1 /\ \A i \in 1 .. n - 1 : t[i] = s[at(i)]
  BY WithoutIndexes
<1> HIDE DEF t, n
<1>3. \A i \in 1 .. n - 1 : at(i) \in 1 .. n /\ at(i) # k
  BY <1>1
<1>4. \A i, j \in 1 .. n - 1 : at(i) = at(j) => i = j
  BY <1>1
<1>5. \A j \in 1 .. n : j # k => \E i \in 1 .. n - 1 : at(i) = j
  <2> SUFFICES ASSUME NEW j \in 1 .. n, j # k PROVE \E i \in 1 .. n - 1 : at(i) = j
    OBVIOUS
  <2>1. CASE j < k
    <3>1. j \in 1 .. n - 1 /\ at(j) = j
      BY <1>1, <2>1
    <3> QED
      BY <3>1
  <2>2. CASE ~(j < k)
    <3>1. j - 1 \in 1 .. n - 1 /\ at(j - 1) = j
      BY <1>1, <2>2
    <3> QED
      BY <3>1
  <2> QED
    BY <2>1, <2>2
<1> HIDE DEF at
<1>6. \A i, j \in 1 .. n : s[i] = s[j] => i = j
  BY <1>1 DEF Distinct
<1>7. Elements(t) = Elements(s) \ {s[k]}
  <2>1. \A i \in 1 .. n - 1 : t[i] \in Elements(s) \ {s[k]}
    BY <1>1, <1>2, <1>3, <1>6 DEF Elements
  <2>2. \A j \in 1 .. n : s[j] # s[k] => s[j] \in Elements(t)
    BY <1>1, <1>2, <1>5 DEF Elements
  <2> QED
    BY <1>1, <1>2, <2>1, <2>2 DEF Elements
<1>8. Distinct(t)
  BY <1>2, <1>3, <1>4, <1>6 DEF Distinct
<1> QED
  BY <1>2, <1>7, <1>8 DEF t

LEMMA TailDistinct ==
  ASSUME NEW S, NEW s \in Seq(S), s # <<>>
  PROVE  /\ Tail(s) \in Seq(S) /\ Head(s) \in Elements(s) /\ Elements(Tail(s)) \subseteq Elements(s)
         /\ Distinct(s) => Distinct(Tail(s)) /\ Elements(Tail(s)) = Elements(s) \ {Head(s)}
<1>1. /\ Len(s) \in Nat /\ DOMAIN s = 1 .. Len(s) /\ 1 \in DOMAIN s /\ Head(s) = s[1]
      /\ Tail(s) \in Seq(S) /\ DOMAIN Tail(s) = 1 .. Len(s) - 1
      /\ \A i \in 1 .. Len(s) - 1 : Tail(s)[i] = s[i + 1]
  BY HeadTailProperties, LenProperties
<1>2. \A i \in DOMAIN Tail(s) : i + 1 \in DOMAIN s /\ i + 1 # 1 /\ Tail(s)[i] = s[i + 1]
  BY <1>1
<1>3. \A j \in DOMAIN s : j = 1 \/ (j - 1 \in DOMAIN Tail(s) /\ Tail(s)[j - 1] = s[j])
  BY <1>1
<1>4. Elements(Tail(s)) \subseteq Elements(s) /\ Head(s) \in Elements(s)
  BY <1>1, <1>2 DEF Elements
<1>5. ASSUME Distinct(s) PROVE Elements(Tail(s)) = Elements(s) \ {Head(s)}
  <2>1. \A i \in DOMAIN Tail(s) : Tail(s)[i] \in Elements(s) /\ Tail(s)[i] # Head(s)
    BY <1>1, <1>2, <1>5 DEF Elements, Distinct
  <2>2. \A j \in DOMAIN s : s[j] # Head(s) => s[j] \in Elements(Tail(s))
    BY <1>1, <1>3 DEF Elements
  <2> QED
    BY <2>1, <2>2 DEF Elements
<1>6. ASSUME Distinct(s) PROVE Distinct(Tail(s))
  <2> SUFFICES ASSUME NEW i \in DOMAIN Tail(s), NEW j \in DOMAIN Tail(s), Tail(s)[i] = Tail(s)[j]
               PROVE  i = j
    BY DEF Distinct
  <2>1. i + 1 = j + 1
    BY <1>2, <1>6 DEF Distinct
  <2> QED
    BY <1>1, <2>1
<1> QED
  BY <1>1, <1>4, <1>5, <1>6

LEMMA EmptyDistinct == Elements(<<>>) = {} /\ Distinct(<<>>)
  BY DEF Elements, Distinct
-----------------------------------------------------------------------------
(* The stack: a wake behind an abort is suspended above no driver.         *)

NoAfter(s) == \A i \in DOMAIN s : ~s[i].after
AfterAbove(s) == \A i, j \in DOMAIN s : i <= j /\ s[i].op = "driver" => ~s[j].after

LEMMA PushedFrame ==
  ASSUME NEW s \in Seq(Frames), NEW f \in Frames
  PROVE  /\ <<f>> \o s \in Seq(Frames)
         /\ NoAfter(s) /\ ~f.after => NoAfter(<<f>> \o s)
         /\ AfterAbove(s) /\ (f.op = "driver" => NoAfter(s) /\ ~f.after) => AfterAbove(<<f>> \o s)
<1> DEFINE t == <<f>> \o s
<1>1. /\ t \in Seq(Frames) /\ DOMAIN t = 1 .. Len(s) + 1 /\ t[1] = f
      /\ \A i \in 2 .. Len(s) + 1 : t[i] = s[i - 1]
  BY PushProperties
<1>2. DOMAIN s = 1 .. Len(s) /\ Len(s) \in Nat
  BY LenProperties
<1> HIDE DEF t
<1>3. \A i \in DOMAIN t : (i = 1 /\ t[i] = f) \/ (i > 1 /\ i - 1 \in DOMAIN s /\ t[i] = s[i - 1])
  BY <1>1, <1>2
<1>4. NoAfter(s) /\ ~f.after => NoAfter(t)
  BY <1>3 DEF NoAfter
<1>5. ASSUME AfterAbove(s), f.op = "driver" => NoAfter(s) /\ ~f.after,
             NEW i \in DOMAIN t, NEW j \in DOMAIN t, i <= j, t[i].op = "driver"
      PROVE  ~t[j].after
  <2>0. i \in Int /\ j \in Int
    BY <1>1, <1>2
  <2>1. CASE i = 1
    BY <1>3, <1>5, <2>1 DEF NoAfter
  <2>2. CASE i > 1
    <3>1. i - 1 \in DOMAIN s /\ j - 1 \in DOMAIN s /\ t[i] = s[i - 1] /\ t[j] = s[j - 1]
      BY <1>3, <1>5, <2>0, <2>2
    <3>2. i - 1 <= j - 1
      BY <1>5, <2>0
    <3> QED
      BY <1>5, <3>1, <3>2 DEF AfterAbove
  <2> QED
    BY <1>3, <2>1, <2>2
<1> QED
  BY <1>1, <1>4, <1>5 DEF t, AfterAbove

LEMMA PoppedFrame ==
  ASSUME NEW s \in Seq(Frames), s # <<>>
  PROVE  /\ Tail(s) \in Seq(Frames) /\ Head(s) \in Frames
         /\ NoAfter(s) => NoAfter(Tail(s)) /\ ~Head(s).after
         /\ AfterAbove(s) => AfterAbove(Tail(s)) /\ (Head(s).op = "driver" => NoAfter(s))
<1>1. /\ Len(s) \in Nat /\ DOMAIN s = 1 .. Len(s) /\ 1 \in DOMAIN s /\ Head(s) = s[1]
      /\ Tail(s) \in Seq(Frames) /\ DOMAIN Tail(s) = 1 .. Len(s) - 1 /\ Head(s) \in Frames
      /\ \A i \in 1 .. Len(s) - 1 : Tail(s)[i] = s[i + 1]
  BY HeadTailProperties, LenProperties, ElementOfSeq
<1>2. \A i \in DOMAIN Tail(s) : i + 1 \in DOMAIN s /\ Tail(s)[i] = s[i + 1]
  BY <1>1
<1>3. \A i, j \in DOMAIN Tail(s) : i <= j => i + 1 <= j + 1
  BY <1>1
<1>4. \A j \in DOMAIN s : 1 <= j
  BY <1>1
<1>5. NoAfter(s) => NoAfter(Tail(s)) /\ ~Head(s).after
  BY <1>1, <1>2 DEF NoAfter
<1>6. AfterAbove(s) => AfterAbove(Tail(s))
  BY <1>2, <1>3 DEF AfterAbove
<1>7. AfterAbove(s) /\ Head(s).op = "driver" => NoAfter(s)
  BY <1>1, <1>4 DEF AfterAbove, NoAfter
<1> QED
  BY <1>1, <1>5, <1>6, <1>7

LEMMA EmptyStack == <<>> \in Seq(Frames) /\ NoAfter(<<>>) /\ AfterAbove(<<>>)
  BY EmptySeq DEF NoAfter, AfterAbove

-----------------------------------------------------------------------------
(* The latch.  A waking send that finds the activity aborted is suspended   *)
(* in its notification until it may latch: meanwhile nothing may give the   *)
(* agent a live activity again.                                             *)

WakeInv ==
  /\ LatchOnlyBehindAbort
  /\ AfterAbove(stack)
  /\ phase = "idle" \/ ~Aborted => NoAfter(stack)

LEMMA InitWake == Init => WakeInv
  BY EmptyStack DEF Init, WakeInv, LatchOnlyBehindAbort

LEMMA KeepsWake ==
  ASSUME WakeInv, UNCHANGED <<phase, abort, wakeRequested, stack>>
  PROVE  WakeInv'
  BY DEF WakeInv, LatchOnlyBehindAbort, Aborted

\* A notification that wakes nothing, or wakes behind an abort, is pushed or popped.
LEMMA PushKeepsWake ==
  ASSUME TypeOK, WakeInv, UNCHANGED <<phase, abort, wakeRequested>>,
         NEW f \in Frames, f.op # "driver", f.after => phase # "idle" /\ Aborted,
         NEW rest, rest = stack \/ (stack # <<>> /\ rest = Tail(stack)),
         stack' = <<f>> \o rest
  PROVE  WakeInv'
<1>1. stack \in Seq(Frames)
  BY DEF TypeOK
<1>2. rest \in Seq(Frames) /\ AfterAbove(rest) /\ (phase = "idle" \/ ~Aborted => NoAfter(rest))
  BY <1>1, PoppedFrame DEF WakeInv
<1>3. AfterAbove(stack') /\ (phase = "idle" \/ ~Aborted => NoAfter(stack'))
  BY <1>2, PushedFrame
<1> QED
  BY <1>3 DEF WakeInv, LatchOnlyBehindAbort, Aborted

LEMMA PopKeepsWake ==
  ASSUME TypeOK, WakeInv, UNCHANGED <<phase, abort, wakeRequested>>,
         stack # <<>>, stack' = Tail(stack)
  PROVE  WakeInv'
<1>1. AfterAbove(stack') /\ (phase = "idle" \/ ~Aborted => NoAfter(stack'))
  BY PoppedFrame DEF TypeOK, WakeInv
<1> QED
  BY <1>1 DEF WakeInv, LatchOnlyBehindAbort, Aborted

LEMMA StartDriverWake ==
  ASSUME NEW rest \in Seq(Frames), NoAfter(rest), AfterAbove(rest), StartDriver(rest)
  PROVE  WakeInv'
<1>1. NoAfter(stack') /\ AfterAbove(stack')
  BY PushedFrame, DriverFrameType DEF StartDriver, DriverFrame, Frame
<1>2. ~wakeRequested'
  BY DEF StartDriver
<1> QED
  BY <1>1, <1>2 DEF WakeInv, LatchOnlyBehindAbort

LEMMA WakeDriverWake ==
  ASSUME TypeOK, WakeInv, stack # <<>>, NEW after \in BOOLEAN, after => Head(stack).after,
         WakeDriver(after, Tail(stack))
  PROVE  WakeInv'
<1>1. /\ Tail(stack) \in Seq(Frames) /\ AfterAbove(Tail(stack))
      /\ phase = "idle" \/ ~Aborted => NoAfter(Tail(stack)) /\ ~after
  BY PoppedFrame DEF TypeOK, WakeInv
<1>2. CASE phase = "idle"
  BY <1>1, <1>2, StartDriverWake DEF WakeDriver
<1>3. CASE phase # "idle"
  <2>1. /\ UNCHANGED <<phase, abort>> /\ stack' = Tail(stack)
        /\ wakeRequested' => wakeRequested \/ phase = "maintenance" \/ after
    BY <1>3 DEF WakeDriver, Latches
  <2>2. phase \in {"maintenance", "running"}
    BY <1>3 DEF TypeOK
  <2> QED
    BY <1>1, <1>3, <2>1, <2>2 DEF WakeInv, LatchOnlyBehindAbort, Aborted
<1> QED
  BY <1>2, <1>3

LEMMA FireAbortWake ==
  ASSUME TypeOK, WakeInv, NEW cause, NEW keep \in BOOLEAN, NEW rest,
         rest = stack \/ (stack # <<>> /\ rest = Tail(stack)), FireAbort(cause, keep, rest)
  PROVE  WakeInv'
<1>1. /\ phase' = phase /\ stack' = rest /\ (wakeRequested' => wakeRequested)
      /\ (Aborted => abort' = abort) /\ (phase = "idle" => abort' = abort)
  BY DEF FireAbort
<1>2. AfterAbove(rest) /\ (phase = "idle" \/ ~Aborted => NoAfter(rest))
  BY PoppedFrame DEF TypeOK, WakeInv
<1>3. Aborted => Aborted'
  BY <1>1 DEF Aborted
<1> QED
  BY <1>1, <1>2, <1>3 DEF WakeInv, LatchOnlyBehindAbort

LEMMA ClearTurnsWake ==
  ASSUME TypeOK, WakeInv, NEW cause \in AbortCauses, NEW rest,
         rest = stack \/ (stack # <<>> /\ rest = Tail(stack)), ClearTurns(cause, rest)
  PROVE  WakeInv'
<1> DEFINE f == Frame("abort", FALSE, FALSE, cause)
<1>1. f \in Frames /\ f.op # "driver" /\ ~f.after
  BY FrameType DEF Frame, Ops
<1>2. stack' = <<f>> \o rest /\ UNCHANGED <<phase, abort, wakeRequested>>
  BY DEF ClearTurns, driverVars
<1> QED
  BY <1>1, <1>2, PushKeepsWake

LEMMA CancelFromWake ==
  ASSUME TypeOK, WakeInv, NEW cause \in AbortCauses, CancelFrom(cause, stack)
  PROVE  WakeInv'
<1>1. CASE nextStep # <<>>
  <2> DEFINE f == Frame("clear", FALSE, FALSE, cause)
  <2>1. f \in Frames /\ f.op # "driver" /\ ~f.after
    BY FrameType DEF Frame, Ops
  <2>2. stack' = <<f>> \o stack /\ UNCHANGED <<phase, abort, wakeRequested>>
    BY <1>1 DEF CancelFrom, driverVars
  <2> QED
    BY <2>1, <2>2, PushKeepsWake
<1>2. CASE nextStep = <<>> /\ nextTurn # <<>>
  BY <1>2, ClearTurnsWake DEF CancelFrom
<1>3. CASE nextStep = <<>> /\ nextTurn = <<>>
  BY <1>3, FireAbortWake DEF CancelFrom
<1> QED
  BY <1>1, <1>2, <1>3

LEMMA CallWake ==
  ASSUME LogInv, WakeInv, Call
  PROVE  WakeInv'
<1> USE DEF LogInv
<1>1. CASE \E m \in Messages, t \in {"next-turn", "next-step"}, w \in BOOLEAN : Send(m, t, w)
  <2>1. PICK m \in Messages, t \in {"next-turn", "next-step"}, w \in BOOLEAN : Send(m, t, w)
    BY <1>1
  <2> DEFINE f == Frame("send", w, WakingAfterAbort(w), "none")
  <2>2. WakingAfterAbort(w) \in BOOLEAN /\ (WakingAfterAbort(w) => phase # "idle" /\ Aborted)
    BY DEF WakingAfterAbort
  <2>3. f \in Frames /\ f.op # "driver" /\ (f.after => phase # "idle" /\ Aborted)
    BY <2>2, FrameType DEF Frame, Ops, AbortCauses
  <2>4. stack' = <<f>> \o stack /\ UNCHANGED <<phase, abort, wakeRequested>>
    BY <2>1 DEF Send, driverVars
  <2> HIDE DEF f
  <2> QED
    BY <2>3, <2>4, PushKeepsWake
<1>2. CASE \E c \in Causes : CancelClearing(c) \/ CancelKeeping(c)
  BY <1>2, CancelFromWake, FireAbortWake DEF CancelClearing, CancelKeeping, AbortCauses
<1>3. CASE \E m \in Messages : Remove(m) \/ Prepend(m)
  <2> DEFINE f == Frame("other", FALSE, FALSE, "none")
  <2>1. f \in Frames /\ f.op # "driver" /\ ~f.after
    BY FrameType DEF Frame, Ops, AbortCauses
  <2>2. stack' = <<f>> \o stack /\ UNCHANGED <<phase, abort, wakeRequested>>
    BY <1>3 DEF Remove, Prepend, driverVars
  <2> HIDE DEF f
  <2> QED
    BY <2>1, <2>2, PushKeepsWake
<1>4. CASE Dispose
  BY <1>4, CancelFromWake DEF Dispose, AbortCauses
<1>5. CASE RunMaintenance
  <2>1. phase = "idle" /\ ~wakeRequested' /\ stack' = stack
    BY <1>5 DEF RunMaintenance
  <2> QED
    BY <2>1 DEF WakeInv, LatchOnlyBehindAbort
<1> QED
  BY <1>1, <1>2, <1>3, <1>4, <1>5 DEF Call

LEMMA UnwindWake ==
  ASSUME LogInv, WakeInv, Unwind
  PROVE  WakeInv'
<1> USE DEF LogInv
<1>0. stack # <<>> /\ Head(stack) \in Frames
  BY PoppedFrame DEF Unwind, SendReturns, CancelCleared, CancelAborts, RemoveReturns, KickReplays,
     Top, TypeOK
<1>1. CASE SendReturns
  <2>1. CASE Head(stack).flag
    BY <1>0, <1>1, <2>1, WakeDriverWake DEF SendReturns, Frames
  <2>2. CASE ~Head(stack).flag
    BY <1>0, <1>1, <2>2, PopKeepsWake DEF SendReturns, driverVars
  <2> QED
    BY <2>1, <2>2
<1>2. CASE CancelCleared
  <2>1. CASE nextTurn # <<>>
    BY <1>0, <1>2, <2>1, ClearTurnsWake DEF CancelCleared, Frames
  <2>2. CASE nextTurn = <<>>
    BY <1>0, <1>2, <2>2, FireAbortWake DEF CancelCleared
  <2> QED
    BY <2>1, <2>2
<1>3. CASE CancelAborts
  BY <1>0, <1>3, FireAbortWake DEF CancelAborts
<1>4. CASE RemoveReturns
  BY <1>0, <1>4, PopKeepsWake DEF RemoveReturns, driverVars
<1>5. CASE KickReplays
  <2>1. CASE Replays
    BY <1>0, <1>5, <2>1, WakeDriverWake DEF KickReplays
  <2>2. CASE ~Replays
    BY <1>0, <1>5, <2>2, PopKeepsWake DEF KickReplays, driverVars
  <2> QED
    BY <2>1, <2>2
<1> QED
  BY <1>1, <1>2, <1>3, <1>4, <1>5 DEF Unwind

LEMMA MaintenanceEndsWake ==
  ASSUME WakeInv, MaintenanceEnds
  PROVE  WakeInv'
<1>1. stack = <<>>
  BY DEF MaintenanceEnds
<1>2. CASE wakeRequested /\ HasPending
  BY <1>2, EmptyStack, StartDriverWake DEF MaintenanceEnds
<1>3. CASE ~(wakeRequested /\ HasPending)
  BY <1>1, <1>3, EmptyStack DEF MaintenanceEnds, WakeInv, LatchOnlyBehindAbort
<1> QED
  BY <1>2, <1>3

\* The driver goes on from an await, on an empty stack, or from a notification
\* of its own, with nothing suspended above it.
DriverTurn == \E p \in SyncPoints \cup AwaitPoints : pc = p /\ (Resumed(p) \/ Running(p))
Moves == \/ \E p \in SyncPoints : Emit(p)
         \/ \E p \in AwaitPoints : Await(p)

LEMMA FailTurnMoves == FailTurn => Moves
  BY DEF FailTurn, CloseTurn, Moves, SyncPoints, AwaitPoints

LEMMA ClaimIsMove ==
  ASSUME Claim \/ \E claimed \in BOOLEAN : ClaimPromptOr(claimed)
  PROVE  Moves
  BY ClaimMovesTo DEF Moves, SyncPoints, AwaitPoints

LEMMA DriverGoesOn ==
  ASSUME Driver
  PROVE  DriverTurn /\ (KickExits \/ Moves)
<1> USE DEF SyncPoints, AwaitPoints
<1>1. CASE TurnBoundary
  <2>1. DriverTurn
    BY <1>1 DEF TurnBoundary, TurnStarts, TurnReturns, KickExits, ErrorReported, DriverTurn,
       Running, Resumed
  <2>2. KickExits \/ Moves
    BY <1>1 DEF TurnBoundary, TurnStarts, TurnReturns, ErrorReported, CloseTurn, Moves
  <2> QED
    BY <2>1, <2>2
<1>2. CASE PreStep
  <2>1. DriverTurn
    BY <1>2 DEF PreStep, FirstClaim, ClaimsSteps, ClaimsPrompt, ClaimNotified, PreStepDecides,
       PreStepFails, DriverTurn, Running, Resumed
  <2>2. Moves
    BY <1>2, FailTurnMoves, ClaimIsMove DEF PreStep, FirstClaim, ClaimsSteps, ClaimsPrompt,
       ClaimNotified, PreStepDecides, PreStepFails, Moves
  <2> QED
    BY <2>1, <2>2
<1>3. CASE EnterStep
  <2>1. DriverTurn
    BY <1>3 DEF EnterStep, StepRejected, StepNotNeeded, StepEnters, DriverTurn, Running, Resumed
  <2>2. Moves
    BY <1>3, FailTurnMoves DEF EnterStep, StepRejected, StepNotNeeded, StepEnters, CloseTurn, Moves
  <2> QED
    BY <2>1, <2>2
<1>4. CASE ModelStep \/ ToolStep
  <2>1. DriverTurn
    BY <1>4 DEF ModelStep, ToolStep, ModelStops, ModelCallsTools, RequestFails, RequestRetries,
       StepThrows, ToolsReturn, ContextNotified, ToolContext, DriverTurn, Running, Resumed
  <2>2. Moves
    BY <1>4 DEF ModelStep, ToolStep, ModelStops, ModelCallsTools, RequestFails, RequestRetries,
       StepThrows, ToolsReturn, ContextNotified, ToolContext, StepReturns, Moves
  <2> QED
    BY <2>1, <2>2
<1>5. CASE EndStep
  <2>1. DriverTurn
    BY <1>5 DEF EndStep, StepEnded, StepFailed, StoppingSettles, StoppingFails, DriverTurn,
       Running, Resumed
  <2>2. Moves
    BY <1>5, FailTurnMoves, ClaimIsMove DEF EndStep, StepEnded, StepFailed, StoppingSettles,
       StoppingFails, CloseTurn, Moves
  <2> QED
    BY <2>1, <2>2
<1> QED
  BY <1>1, <1>2, <1>3, <1>4, <1>5 DEF Driver

\* What the driver may change of the agent's state.
LEMMA DriverState ==
  ASSUME Driver
  PROVE  /\ KickExits \/ TurnReturns \/ UNCHANGED <<phase, abort, wakeRequested>>
         /\ UNCHANGED <<accepting, waitVars, landed, canceled>>
<1>1. CASE TurnBoundary
  BY <1>1 DEF TurnBoundary, TurnStarts, TurnReturns, KickExits, ErrorReported, TurnOnly, driverVars,
     historyVars
<1>2. CASE PreStep
  BY <1>2 DEF PreStep, FirstClaim, ClaimsSteps, ClaimsPrompt, ClaimNotified, PreStepDecides,
     PreStepFails, TurnOnly, ControlOnly, driverVars, historyVars
<1>3. CASE EnterStep
  BY <1>3 DEF EnterStep, StepRejected, StepNotNeeded, StepEnters, TurnOnly, driverVars, historyVars
<1>4. CASE ModelStep \/ ToolStep
  BY <1>4 DEF ModelStep, ToolStep, ModelStops, ModelCallsTools, RequestFails, RequestRetries,
     StepThrows, ToolsReturn, ContextNotified, ToolContext, StepReturns, ControlOnly, TurnOnly,
     driverVars, historyVars
<1>5. CASE EndStep
  BY <1>5 DEF EndStep, StepEnded, StepFailed, StoppingSettles, StoppingFails, TurnOnly, driverVars,
     historyVars
<1> QED
  BY <1>1, <1>2, <1>3, <1>4, <1>5 DEF Driver

LEMMA DriverWake ==
  ASSUME LogInv, WakeInv, Driver
  PROVE  WakeInv'
<1>0. stack \in Seq(Frames)
  BY DEF LogInv, TypeOK
<1>1. stack = <<>> \/ Top("driver")
  BY DriverGoesOn DEF DriverTurn, Resumed, Running
<1>2. NoAfter(BelowDriver) /\ AfterAbove(BelowDriver) /\ BelowDriver \in Seq(Frames)
  <2>1. CASE stack = <<>>
    BY <2>1, EmptyStack DEF BelowDriver, Top
  <2>2. CASE Top("driver")
    BY <1>0, <2>2, PoppedFrame DEF BelowDriver, Top, WakeInv
  <2> QED
    BY <1>1, <2>1, <2>2
<1>3. CASE Moves
  <2>1. NoAfter(stack') /\ AfterAbove(stack')
    BY <1>2, <1>3, PushedFrame, DriverFrameType DEF Moves, Emit, Await, DriverFrame, Frame
  <2>2. UNCHANGED <<phase, abort, wakeRequested>> \/ ~wakeRequested'
    BY DriverState DEF KickExits, TurnReturns
  <2> QED
    BY <2>1, <2>2 DEF WakeInv, LatchOnlyBehindAbort, Aborted
<1>4. CASE KickExits
  <2>1. ~wakeRequested' /\ stack' = <<Frame("replay", wakeRequested, FALSE, "none")>>
    BY <1>4 DEF KickExits
  <2>2. NoAfter(stack') /\ AfterAbove(stack')
    BY <2>1 DEF NoAfter, AfterAbove, Frame
  <2> QED
    BY <2>1, <2>2 DEF WakeInv, LatchOnlyBehindAbort
<1> QED
  BY <1>3, <1>4, DriverGoesOn

LEMMA NextWake ==
  ASSUME LogInv, WakeInv, [Next]_vars
  PROVE  WakeInv'
<1>1. CASE Waiter \/ UNCHANGED vars
  BY <1>1, KeepsWake DEF Waiter, WaiterLoops, WaiterReturns, vars, driverVars
<1> QED
  BY <1>1, CallWake, UnwindWake, MaintenanceEndsWake, DriverWake DEF Next

\* A running driver holds a latched wake only behind its own abort, and an idle
\* agent holds none: work queued earlier stays parked when nobody woke it.
THEOREM LatchBehindAbort == Spec => []LatchOnlyBehindAbort
<1>1. LogInv /\ WakeInv /\ [Next]_vars => WakeInv'
  BY NextWake
<1>2. WakeInv => LatchOnlyBehindAbort
  BY DEF WakeInv
<1> QED
  BY <1>1, <1>2, InitWake, LogInvariant, PTL DEF Spec

-----------------------------------------------------------------------------
(* Disposal.  Its whenIdle() returns on an empty stack, when the activity  *)
(* has settled; what may be suspended later belongs to callers that can no *)
(* longer wake the agent, because admission has been closed for good.      *)

Harmless(s) == \A i \in DOMAIN s : s[i].op \in {"clear", "abort", "other"}
Marked(s) == \E i \in DOMAIN s : s[i].cause = "disposed"

DisposalInv ==
  /\ settled => phase = "idle"
  /\ waiter # "none" => ~accepting
  /\ Marked(stack) => ~accepting
  /\ waiter = "returned" => phase = "idle" /\ Harmless(stack)

LEMMA PushedMark ==
  ASSUME NEW s \in Seq(Frames), NEW f \in Frames
  PROVE  /\ Harmless(s) /\ f.op \in {"clear", "abort", "other"} => Harmless(<<f>> \o s)
         /\ Marked(<<f>> \o s) => Marked(s) \/ f.cause = "disposed"
<1> DEFINE t == <<f>> \o s
<1>1. /\ DOMAIN t = 1 .. Len(s) + 1 /\ t[1] = f
      /\ \A i \in 2 .. Len(s) + 1 : t[i] = s[i - 1]
  BY PushProperties
<1>2. DOMAIN s = 1 .. Len(s) /\ Len(s) \in Nat
  BY LenProperties
<1> HIDE DEF t
<1>3. \A i \in DOMAIN t : t[i] = f \/ (i - 1 \in DOMAIN s /\ t[i] = s[i - 1])
  BY <1>1, <1>2
<1>4. Harmless(s) /\ f.op \in {"clear", "abort", "other"} => Harmless(t)
  BY <1>3 DEF Harmless
<1>5. Marked(t) => Marked(s) \/ f.cause = "disposed"
  BY <1>3 DEF Marked
<1> QED
  BY <1>4, <1>5 DEF t

LEMMA PoppedMark ==
  ASSUME NEW s \in Seq(Frames), s # <<>>
  PROVE  /\ Tail(s) \in Seq(Frames)
         /\ Harmless(s) => Harmless(Tail(s)) /\ Head(s).op \in {"clear", "abort", "other"}
         /\ Marked(Tail(s)) \/ Head(s).cause = "disposed" => Marked(s)
<1>1. /\ Len(s) \in Nat /\ DOMAIN s = 1 .. Len(s) /\ 1 \in DOMAIN s /\ Head(s) = s[1]
      /\ Tail(s) \in Seq(Frames) /\ DOMAIN Tail(s) = 1 .. Len(s) - 1
      /\ \A i \in 1 .. Len(s) - 1 : Tail(s)[i] = s[i + 1]
  BY HeadTailProperties, LenProperties
<1>2. \A i \in DOMAIN Tail(s) : i + 1 \in DOMAIN s /\ Tail(s)[i] = s[i + 1]
  BY <1>1
<1>3. Harmless(s) => Harmless(Tail(s)) /\ Head(s).op \in {"clear", "abort", "other"}
  BY <1>1, <1>2 DEF Harmless
<1>4. Marked(Tail(s)) \/ Head(s).cause = "disposed" => Marked(s)
  BY <1>1, <1>2 DEF Marked
<1> QED
  BY <1>1, <1>3, <1>4

LEMMA EmptyMark == Harmless(<<>>) /\ ~Marked(<<>>)
  BY DEF Harmless, Marked

LEMMA InitDisposal == Init => DisposalInv
  BY EmptyMark DEF Init, DisposalInv

\* What disposal has done is never undone: a step that pushes no wake leaves it.
LEMMA PushKeepsDisposal ==
  ASSUME TypeOK, DisposalInv, UNCHANGED <<phase, settled, waiter>>, accepting' => accepting,
         NEW f \in Frames, f.op \in {"clear", "abort", "other"} \/ accepting,
         f.cause = "disposed" => ~accepting',
         NEW rest, rest = stack \/ (stack # <<>> /\ rest = Tail(stack)),
         stack' = <<f>> \o rest
  PROVE  DisposalInv'
<1>1. stack \in Seq(Frames)
  BY DEF TypeOK
<1>2. rest \in Seq(Frames) /\ (Harmless(stack) => Harmless(rest)) /\ (Marked(rest) => Marked(stack))
  BY <1>1, PoppedMark
<1>3. waiter' = "returned" => phase' = "idle" /\ Harmless(stack')
  BY <1>2, PushedMark DEF DisposalInv
<1>4. Marked(stack') => ~accepting'
  BY <1>2, PushedMark DEF DisposalInv
<1> QED
  BY <1>3, <1>4 DEF DisposalInv

LEMMA PopKeepsDisposal ==
  ASSUME TypeOK, DisposalInv, UNCHANGED <<phase, waiter, accepting>>, settled' => phase = "idle",
         stack # <<>>, stack' = Tail(stack)
  PROVE  DisposalInv'
<1>1. (Harmless(stack) => Harmless(stack')) /\ (Marked(stack') => Marked(stack))
  BY PoppedMark DEF TypeOK
<1> QED
  BY <1>1 DEF DisposalInv

LEMMA FireAbortDisposal ==
  ASSUME TypeOK, DisposalInv, NEW cause, NEW keep \in BOOLEAN, NEW rest, accepting' => accepting,
         rest = stack \/ (stack # <<>> /\ rest = Tail(stack)), FireAbort(cause, keep, rest),
         cause = "disposed" => ~accepting'
  PROVE  DisposalInv'
<1>1. (Harmless(stack) => Harmless(rest)) /\ (Marked(rest) => Marked(stack))
  <2>1. stack \in Seq(Frames)
    BY DEF TypeOK
  <2> QED
    BY <2>1, PoppedMark
<1>2. /\ stack' = rest /\ UNCHANGED <<phase, settled>>
      /\ waiter' = IF cause = "disposed" THEN "current" ELSE waiter
  BY DEF FireAbort
<1> QED
  BY <1>1, <1>2 DEF DisposalInv

LEMMA ClearTurnsDisposal ==
  ASSUME TypeOK, DisposalInv, NEW cause \in AbortCauses, NEW rest, accepting' => accepting,
         rest = stack \/ (stack # <<>> /\ rest = Tail(stack)), ClearTurns(cause, rest),
         cause = "disposed" => ~accepting'
  PROVE  DisposalInv'
<1> DEFINE f == Frame("abort", FALSE, FALSE, cause)
<1>1. f \in Frames /\ f.op = "abort" /\ f.cause = cause
  BY FrameType DEF Frame, Ops
<1>2. stack' = <<f>> \o rest /\ UNCHANGED <<phase, settled, waiter>>
  BY DEF ClearTurns, driverVars, waitVars
<1>3. f.op \in {"clear", "abort", "other"} /\ (f.cause = "disposed" => ~accepting')
  BY <1>1
<1> HIDE DEF f
<1> QED
  BY <1>1, <1>2, <1>3, PushKeepsDisposal

LEMMA CancelFromDisposal ==
  ASSUME TypeOK, DisposalInv, NEW cause \in AbortCauses, CancelFrom(cause, stack),
         accepting' => accepting, cause = "disposed" => ~accepting'
  PROVE  DisposalInv'
<1>1. CASE nextStep # <<>>
  <2> DEFINE f == Frame("clear", FALSE, FALSE, cause)
  <2>1. f \in Frames /\ f.op = "clear" /\ f.cause = cause
    BY FrameType DEF Frame, Ops
  <2>2. stack' = <<f>> \o stack /\ UNCHANGED <<phase, settled, waiter>>
    BY <1>1 DEF CancelFrom, driverVars, waitVars
  <2> HIDE DEF f
  <2> QED
    BY <2>1, <2>2, PushKeepsDisposal
<1>2. CASE nextStep = <<>> /\ nextTurn # <<>>
  BY <1>2, ClearTurnsDisposal DEF CancelFrom
<1>3. CASE nextStep = <<>> /\ nextTurn = <<>>
  BY <1>3, FireAbortDisposal DEF CancelFrom
<1> QED
  BY <1>1, <1>2, <1>3

LEMMA CallDisposal ==
  ASSUME LogInv, DisposalInv, Call
  PROVE  DisposalInv'
<1> USE DEF LogInv
<1>1. CASE \E m \in Messages, t \in {"next-turn", "next-step"}, w \in BOOLEAN : Send(m, t, w)
  <2>1. PICK m \in Messages, t \in {"next-turn", "next-step"}, w \in BOOLEAN : Send(m, t, w)
    BY <1>1
  <2> DEFINE f == Frame("send", w, WakingAfterAbort(w), "none")
  <2>2. f \in Frames /\ f.cause = "none"
    BY FrameType DEF Frame, Ops, AbortCauses, WakingAfterAbort
  <2>3. stack' = <<f>> \o stack /\ UNCHANGED <<phase, settled, waiter, accepting>> /\ accepting
    BY <2>1 DEF Send, driverVars, waitVars
  <2> HIDE DEF f
  <2> QED
    BY <2>2, <2>3, PushKeepsDisposal
<1>2. CASE \E c \in Causes : CancelClearing(c) \/ CancelKeeping(c)
  <2>1. PICK c \in Causes : CancelClearing(c) \/ CancelKeeping(c)
    BY <1>2
  <2>2. c # "disposed" /\ c \in AbortCauses /\ accepting' = accepting
    BY <2>1, DriverAssumption DEF CancelClearing, CancelKeeping, AbortCauses
  <2>3. CASE CancelFrom(c, stack)
    BY <2>2, <2>3, CancelFromDisposal
  <2>4. CASE FireAbort(c, TRUE, stack)
    BY <2>2, <2>4, FireAbortDisposal
  <2> QED
    BY <2>1, <2>3, <2>4 DEF CancelClearing, CancelKeeping
<1>3. CASE \E m \in Messages : Remove(m) \/ Prepend(m)
  <2> DEFINE f == Frame("other", FALSE, FALSE, "none")
  <2>1. f \in Frames /\ f.op = "other" /\ f.cause = "none"
    BY FrameType DEF Frame, Ops, AbortCauses
  <2>2. stack' = <<f>> \o stack /\ UNCHANGED <<phase, settled, waiter, accepting>>
    BY <1>3 DEF Remove, Prepend, driverVars, waitVars
  <2> HIDE DEF f
  <2> QED
    BY <2>1, <2>2, PushKeepsDisposal
<1>4. CASE Dispose
  BY <1>4, CancelFromDisposal DEF Dispose, AbortCauses
<1>5. CASE RunMaintenance
  <2>1. /\ accepting /\ accepting' = accepting /\ settled' = FALSE /\ stack' = stack
        /\ (waiter' # "none" => waiter # "none")
    BY <1>5 DEF RunMaintenance, ReplaceActivity
  <2> QED
    BY <2>1 DEF DisposalInv
<1> QED
  BY <1>1, <1>2, <1>3, <1>4, <1>5 DEF Call

\* The operation whose notification has returned is not one that wakes, once
\* the disposal's wait is over.
LEMMA WakeDriverDisposal ==
  ASSUME TypeOK, DisposalInv, stack # <<>>, Head(stack).op \in {"send", "replay"}, NEW after,
         WakeDriver(after, Tail(stack)), accepting' = accepting
  PROVE  DisposalInv'
<1>1. waiter # "returned"
  BY PoppedMark DEF DisposalInv, TypeOK
<1>2. CASE phase = "idle"
  <2>1. /\ settled' = FALSE /\ stack' = <<DriverFrame>> \o Tail(stack)
        /\ waiter' # "returned" /\ (waiter' # "none" => waiter # "none")
    BY <1>1, <1>2 DEF WakeDriver, StartDriver, ReplaceActivity
  <2>2. Tail(stack) \in Seq(Frames) /\ (Marked(Tail(stack)) => Marked(stack))
    BY PoppedMark DEF TypeOK
  <2>3. Marked(stack') => Marked(stack)
    BY <2>1, <2>2, PushedMark, DriverFrameType DEF DriverFrame, Frame
  <2> QED
    BY <2>1, <2>3 DEF DisposalInv
<1>3. CASE phase # "idle"
  <2>1. UNCHANGED <<phase, waiter, settled>> /\ stack' = Tail(stack)
    BY <1>3 DEF WakeDriver, waitVars
  <2> QED
    BY <2>1, PopKeepsDisposal DEF DisposalInv
<1> QED
  BY <1>2, <1>3

LEMMA UnwindDisposal ==
  ASSUME LogInv, DisposalInv, Unwind
  PROVE  DisposalInv'
<1> USE DEF LogInv
<1>0. stack # <<>> /\ Head(stack) \in Frames /\ UNCHANGED accepting
  BY PoppedFrame DEF Unwind, SendReturns, CancelCleared, CancelAborts, RemoveReturns, KickReplays,
     Top, TypeOK
<1>1. Head(stack).cause = "disposed" => ~accepting'
  BY <1>0, PoppedMark DEF DisposalInv, TypeOK
<1>2. ASSUME ClearTurns(Head(stack).cause, Tail(stack)) PROVE DisposalInv'
  <2>1. Head(stack).cause \in AbortCauses /\ (accepting' => accepting)
    BY <1>0 DEF Frames
  <2> QED
    BY <1>0, <1>1, <1>2, <2>1, ClearTurnsDisposal
<1>3. ASSUME FireAbort(Head(stack).cause, FALSE, Tail(stack)) PROVE DisposalInv'
  <2>1. accepting' => accepting
    BY <1>0
  <2> QED
    BY <1>0, <1>1, <1>3, <2>1, FireAbortDisposal
<1>4. CASE SendReturns
  <2>1. CASE Head(stack).flag
    BY <1>0, <1>4, <2>1, WakeDriverDisposal DEF SendReturns, Top
  <2>2. CASE ~Head(stack).flag
    BY <1>0, <1>4, <2>2, PopKeepsDisposal DEF SendReturns, driverVars, waitVars, DisposalInv
  <2> QED
    BY <2>1, <2>2
<1>5. CASE CancelCleared
  <2>1. CASE nextTurn # <<>>
    BY <1>5, <2>1, <1>2 DEF CancelCleared
  <2>2. CASE nextTurn = <<>>
    BY <1>5, <2>2, <1>3 DEF CancelCleared
  <2> QED
    BY <2>1, <2>2
<1>6. CASE CancelAborts
  BY <1>6, <1>3 DEF CancelAborts
<1>7. CASE RemoveReturns
  BY <1>0, <1>7, PopKeepsDisposal DEF RemoveReturns, driverVars, waitVars, DisposalInv
<1>8. CASE KickReplays
  <2>1. CASE Replays
    BY <1>0, <1>8, <2>1, WakeDriverDisposal DEF KickReplays, Top
  <2>2. CASE ~Replays
    BY <1>0, <1>8, <2>2, PopKeepsDisposal DEF KickReplays, driverVars, DisposalInv
  <2> QED
    BY <2>1, <2>2
<1> QED
  BY <1>4, <1>5, <1>6, <1>7, <1>8 DEF Unwind

LEMMA MaintenanceEndsDisposal ==
  ASSUME DisposalInv, MaintenanceEnds
  PROVE  DisposalInv'
<1>1. waiter # "returned" /\ accepting' = accepting /\ stack = <<>>
  BY DEF MaintenanceEnds, DisposalInv
<1>2. CASE wakeRequested /\ HasPending
  <2>1. /\ settled' = FALSE /\ stack' = <<DriverFrame>> \o <<>>
        /\ waiter' # "returned" /\ (waiter' # "none" => waiter # "none")
    BY <1>1, <1>2 DEF MaintenanceEnds, StartDriver, ReplaceActivity
  <2>2. ~Marked(stack')
    BY <2>1, EmptyStack, EmptyMark, PushedMark, DriverFrameType DEF DriverFrame, Frame
  <2> QED
    BY <2>1, <2>2, <1>1 DEF DisposalInv
<1>3. CASE ~(wakeRequested /\ HasPending)
  BY <1>1, <1>3 DEF MaintenanceEnds, DisposalInv
<1> QED
  BY <1>2, <1>3

LEMMA WaiterDisposal ==
  ASSUME DisposalInv, Waiter
  PROVE  DisposalInv'
<1>1. /\ stack = <<>> /\ waiter # "none" /\ (waiter' = "returned" => settled)
      /\ UNCHANGED <<phase, settled, stack, accepting>>
  BY DEF Waiter, WaiterLoops, WaiterReturns, driverVars
<1> QED
  BY <1>1, EmptyMark DEF DisposalInv

LEMMA DriverDisposal ==
  ASSUME LogInv, DisposalInv, Driver
  PROVE  DisposalInv'
<1>1. DriverTurn /\ UNCHANGED <<accepting, settled, waiter>>
  BY DriverGoesOn, DriverState DEF waitVars
<1>2. phase = "running" /\ waiter # "returned" /\ ~settled
  BY <1>1 DEF LogInv, DriverInLog, DisposalInv, DriverTurn, SyncPoints, AwaitPoints
<1>3. Marked(stack') => Marked(stack)
  <2>1. CASE KickExits
    BY <2>1 DEF KickExits, Marked, Frame
  <2>2. CASE Moves
    <3>1. BelowDriver \in Seq(Frames) /\ (Marked(BelowDriver) => Marked(stack))
      BY PoppedMark DEF BelowDriver, Top, LogInv, TypeOK
    <3> QED
      BY <2>2, <3>1, PushedMark, DriverFrameType DEF Moves, Emit, Await, DriverFrame, Frame
  <2> QED
    BY <2>1, <2>2, DriverGoesOn
<1> QED
  BY <1>1, <1>2, <1>3 DEF DisposalInv

LEMMA NextDisposal ==
  ASSUME LogInv, DisposalInv, [Next]_vars
  PROVE  DisposalInv'
<1>1. CASE UNCHANGED vars
  BY <1>1 DEF vars, driverVars, waitVars, DisposalInv
<1> QED
  BY <1>1, CallDisposal, UnwindDisposal, MaintenanceEndsDisposal, DriverDisposal, WaiterDisposal
  DEF Next

\* When a disposal's wait for quiescence has returned, the driver is gone, its
\* turn is closed in the log, and none of the operations that may still be
\* suspended in a notification can start another.
THEOREM DisposalDrains == Spec => []DrainedForGood
<1>1. LogInv /\ DisposalInv /\ [Next]_vars => DisposalInv'
  BY NextDisposal
<1>2. LogInv /\ DisposalInv => DrainedForGood
  BY DEF LogInv, DriverInLog, TurnOpen, OpenPoints, DisposalInv, DrainedForGood, Harmless
<1> QED
  BY <1>1, <1>2, InitDisposal, LogInvariant, PTL DEF Spec

-----------------------------------------------------------------------------
(* Messages.  Whatever a step does elsewhere, the inbox sees one of four   *)
(* things: nothing, an arrival, a withdrawal or a claim.                   *)

placeVars == <<nextStep, nextTurn, claimedBy, canceled>>

Arrives(m) ==
  /\ m \in Fresh /\ UNCHANGED <<claimedBy, canceled>>
  /\ \/ nextTurn' = Append(nextTurn, m) /\ nextStep' = nextStep
     \/ nextTurn' = nextTurn /\ nextStep' = Append(nextStep, m)
     \/ nextTurn' = nextTurn /\ nextStep' = <<m>> \o nextStep

Withdrawn ==
  /\ UNCHANGED claimedBy
  /\ \/ nextStep' = <<>> /\ nextTurn' = nextTurn /\ canceled' = canceled \cup Elements(nextStep)
     \/ nextTurn' = <<>> /\ nextStep' = nextStep /\ canceled' = canceled \cup Elements(nextTurn)
     \/ \E i \in DOMAIN nextTurn :
          /\ nextTurn' = Without(nextTurn, i) /\ nextStep' = nextStep
          /\ canceled' = canceled \cup {nextTurn[i]}
     \/ \E i \in DOMAIN nextStep :
          /\ nextStep' = Without(nextStep, i) /\ nextTurn' = nextTurn
          /\ canceled' = canceled \cup {nextStep[i]}

Claimed(batch) ==
  /\ turn >= 1 /\ UNCHANGED <<turn, canceled>>
  /\ \/ batch = Elements(nextStep) /\ nextStep' = <<>> /\ nextTurn' = nextTurn
     \/ batch = FirstPrompt /\ nextStep' = nextStep /\ nextTurn' = OtherPrompts
  /\ ClaimedInto(batch)

InboxStep ==
  \/ UNCHANGED placeVars
  \/ \E m \in Messages : Arrives(m)
  \/ Withdrawn
  \/ \E batch : Claimed(batch)

LEMMA CancelInbox ==
  ASSUME NEW cause, NEW rest, UNCHANGED claimedBy, CancelFrom(cause, rest) \/ ClearTurns(cause, rest)
  PROVE  InboxStep
  BY DEF CancelFrom, ClearTurns, Discard, inboxVars, InboxStep, Withdrawn, placeVars

LEMMA CallInbox == Call => InboxStep
<1>1. ASSUME NEW m \in Messages, NEW t, NEW w, Send(m, t, w) PROVE InboxStep
  BY <1>1 DEF Send, InboxStep, Arrives
<1>2. ASSUME NEW c \in Causes, CancelClearing(c) \/ CancelKeeping(c) PROVE InboxStep
  BY <1>2, CancelInbox DEF CancelClearing, CancelKeeping, InboxStep, inboxVars, placeVars
<1>3. ASSUME NEW m \in Messages, Remove(m) PROVE InboxStep
  BY <1>3 DEF Remove, Discard, InboxStep, Withdrawn
<1>4. ASSUME NEW m \in Messages, Prepend(m) PROVE InboxStep
  BY <1>4 DEF Prepend, InboxStep, Arrives, historyVars
<1>5. CASE Dispose
  BY <1>5, CancelInbox DEF Dispose
<1>6. CASE RunMaintenance
  BY <1>6 DEF RunMaintenance, InboxStep, placeVars, inboxVars, historyVars
<1> QED
  BY <1>1, <1>2, <1>3, <1>4, <1>5, <1>6 DEF Call

LEMMA UnwindInbox == Unwind => InboxStep
<1>1. CASE SendReturns \/ RemoveReturns \/ KickReplays
  BY <1>1 DEF SendReturns, RemoveReturns, KickReplays, InboxStep, placeVars, inboxVars, historyVars
<1>2. CASE CancelCleared
  BY <1>2, CancelInbox DEF CancelCleared, InboxStep, placeVars, inboxVars
<1>3. CASE CancelAborts
  BY <1>3 DEF CancelAborts, InboxStep, placeVars, inboxVars
<1> QED
  BY <1>1, <1>2, <1>3 DEF Unwind

\* The driver claims by two splices in an open turn and lets a tool's context arrive;
\* it leaves the inbox alone everywhere else.
LEMMA DriverInbox ==
  ASSUME LogInv, Driver
  PROVE  InboxStep
<1>0. UNCHANGED canceled
  BY DriverState
<1>1. CASE TurnBoundary \/ EnterStep \/ ModelStep
  BY <1>1 DEF TurnBoundary, TurnStarts, TurnReturns, KickExits, ErrorReported, TurnOnly, EnterStep,
     StepRejected, StepNotNeeded, StepEnters, ModelStep, ModelStops, ModelCallsTools, RequestFails,
     RequestRetries, StepThrows, StepReturns, ControlOnly, InboxStep, placeVars, inboxVars,
     historyVars
<1>2. CASE ClaimsSteps \/ ClaimsPrompt
  <2>1. turn' = turn /\ turn >= 1
    BY <1>2 DEF ClaimsSteps, ClaimsPrompt, Running, driverVars, LogInv, DriverInLog, TurnOpen,
       OpenPoints
  <2>2. Claimed(Elements(nextStep)) \/ Claimed(FirstPrompt)
    BY <1>0, <1>2, <2>1 DEF ClaimsSteps, ClaimsPrompt, Claimed
  <2> QED
    BY <2>2 DEF InboxStep
<1>3. CASE FirstClaim \/ StepEnded \/ StoppingSettles
  BY <1>3 DEF FirstClaim, StepEnded, StoppingSettles, TurnOnly, InboxStep, placeVars, inboxVars,
     historyVars
<1>4. CASE ClaimNotified \/ PreStepDecides \/ PreStepFails \/ StepFailed \/ StoppingFails
  BY <1>4 DEF ClaimNotified, PreStepDecides, PreStepFails, StepFailed, StoppingFails, ControlOnly,
     TurnOnly, InboxStep, placeVars, inboxVars, historyVars
<1>5. CASE ToolStep
  BY <1>5 DEF ToolStep, ToolsReturn, StepReturns, ContextNotified, ToolContext, ControlOnly,
     InboxStep, Arrives, placeVars, inboxVars, historyVars
<1> QED
  BY <1>1, <1>2, <1>3, <1>4, <1>5 DEF Driver, PreStep, EndStep

LEMMA NextInbox ==
  ASSUME LogInv, [Next]_vars
  PROVE  InboxStep
<1>1. CASE MaintenanceEnds \/ Waiter \/ UNCHANGED vars
  BY <1>1 DEF MaintenanceEnds, Waiter, WaiterLoops, WaiterReturns, vars, InboxStep, placeVars,
     inboxVars, historyVars
<1> QED
  BY <1>1, CallInbox, UnwindInbox, DriverInbox DEF Next

-----------------------------------------------------------------------------
(* Where a message is.                                                     *)

PlaceInv ==
  /\ Distinct(nextStep) /\ Distinct(nextTurn)
  /\ Elements(nextStep) \cap Elements(nextTurn) = {}
  /\ Pending \cap canceled = {}
  /\ \A m \in Pending \cup canceled : claimedBy[m] = 0

\* What no step takes back of a message that has been sent.
Settles(m) ==
  /\ m \notin Fresh'
  /\ m \notin Elements(nextStep) => m \notin Elements(nextStep')
  /\ claimedBy[m] # 0 => claimedBy'[m] = claimedBy[m]

PlaceEffect == PlaceInv' /\ \A m \in Messages : m \notin Fresh => Settles(m)

LEMMA InitPlace == Init => PlaceInv
<1> SUFFICES ASSUME Init PROVE PlaceInv
  OBVIOUS
<1>1. nextStep = <<>> /\ nextTurn = Parked /\ canceled = {} /\ claimedBy = [m \in Messages |-> 0]
  BY DEF Init
<1>2. Distinct(Parked) /\ Elements(Parked) \subseteq Messages
  BY DriverAssumption, ElementsType DEF Distinct
<1> QED
  BY <1>1, <1>2, EmptyDistinct DEF PlaceInv, Pending

LEMMA ArrivesPlace ==
  ASSUME TypeOK, PlaceInv, NEW m \in Messages, Arrives(m)
  PROVE  PlaceEffect
<1>1. nextStep \in Seq(Messages) /\ nextTurn \in Seq(Messages)
  BY DEF TypeOK
<1>2. /\ m \notin Elements(nextStep) /\ m \notin Elements(nextTurn) /\ m \notin canceled
      /\ claimedBy[m] = 0
  BY DEF Arrives, Fresh, Pending
<1>3. /\ Distinct(nextStep') /\ Distinct(nextTurn')
      /\ \/ Elements(nextStep') = Elements(nextStep)
            /\ Elements(nextTurn') = Elements(nextTurn) \cup {m}
         \/ Elements(nextStep') = Elements(nextStep) \cup {m}
            /\ Elements(nextTurn') = Elements(nextTurn)
  <2>1. \A s \in {nextStep, nextTurn} :
          /\ Distinct(Append(s, m)) /\ Elements(Append(s, m)) = Elements(s) \cup {m}
          /\ Distinct(<<m>> \o s) /\ Elements(<<m>> \o s) = Elements(s) \cup {m}
    BY <1>1, <1>2, AppendDistinct, PushDistinct DEF PlaceInv
  <2> QED
    BY <2>1 DEF Arrives, PlaceInv
<1>4. claimedBy' = claimedBy /\ canceled' = canceled
  BY DEF Arrives
<1>5. PlaceInv'
  BY <1>2, <1>3, <1>4 DEF PlaceInv, Pending
<1>6. ASSUME NEW n \in Messages, n \notin Fresh PROVE Settles(n)
  BY <1>2, <1>3, <1>4, <1>6 DEF Settles, Fresh, Pending
<1> QED
  BY <1>5, <1>6 DEF PlaceEffect

LEMMA WithdrawnPlace ==
  ASSUME TypeOK, PlaceInv, Withdrawn
  PROVE  PlaceEffect
<1>1. nextStep \in Seq(Messages) /\ nextTurn \in Seq(Messages)
  BY DEF TypeOK
<1>2. PICK gone :
        /\ gone \subseteq Elements(nextStep) \/ gone \subseteq Elements(nextTurn)
        /\ Distinct(nextStep') /\ Distinct(nextTurn')
        /\ Elements(nextStep') = Elements(nextStep) \ gone
        /\ Elements(nextTurn') = Elements(nextTurn) \ gone
        /\ canceled' = canceled \cup gone
  <2>1. CASE nextStep' = <<>> /\ nextTurn' = nextTurn /\ canceled' = canceled \cup Elements(nextStep)
    BY <2>1, EmptyDistinct DEF PlaceInv
  <2>2. CASE nextTurn' = <<>> /\ nextStep' = nextStep /\ canceled' = canceled \cup Elements(nextTurn)
    BY <2>2, EmptyDistinct DEF PlaceInv
  <2>3. CASE \E i \in DOMAIN nextTurn :
               /\ nextTurn' = Without(nextTurn, i) /\ nextStep' = nextStep
               /\ canceled' = canceled \cup {nextTurn[i]}
    <3>1. PICK i \in DOMAIN nextTurn :
            /\ nextTurn' = Without(nextTurn, i) /\ nextStep' = nextStep
            /\ canceled' = canceled \cup {nextTurn[i]}
      BY <2>3
    <3>2. Distinct(nextTurn') /\ Elements(nextTurn') = Elements(nextTurn) \ {nextTurn[i]}
      BY <1>1, <3>1, WithoutDistinct DEF PlaceInv
    <3>3. nextTurn[i] \in Elements(nextTurn)
      BY DEF Elements
    <3>4. Elements(nextStep') = Elements(nextStep) \ {nextTurn[i]}
      BY <3>1, <3>3 DEF PlaceInv
    <3> QED
      BY <3>1, <3>2, <3>3, <3>4 DEF PlaceInv
  <2>4. CASE \E i \in DOMAIN nextStep :
               /\ nextStep' = Without(nextStep, i) /\ nextTurn' = nextTurn
               /\ canceled' = canceled \cup {nextStep[i]}
    <3>1. PICK i \in DOMAIN nextStep :
            /\ nextStep' = Without(nextStep, i) /\ nextTurn' = nextTurn
            /\ canceled' = canceled \cup {nextStep[i]}
      BY <2>4
    <3>2. Distinct(nextStep') /\ Elements(nextStep') = Elements(nextStep) \ {nextStep[i]}
      BY <1>1, <3>1, WithoutDistinct DEF PlaceInv
    <3>3. nextStep[i] \in Elements(nextStep)
      BY DEF Elements
    <3>4. Elements(nextTurn') = Elements(nextTurn) \ {nextStep[i]}
      BY <3>1, <3>3 DEF PlaceInv
    <3> QED
      BY <3>1, <3>2, <3>3, <3>4 DEF PlaceInv
  <2> QED
    BY <2>1, <2>2, <2>3, <2>4 DEF Withdrawn
<1>3. claimedBy' = claimedBy
  BY DEF Withdrawn
<1>4. PlaceInv'
  BY <1>2, <1>3 DEF PlaceInv, Pending
<1>5. ASSUME NEW n \in Messages, n \notin Fresh PROVE Settles(n)
  BY <1>2, <1>3, <1>5 DEF Settles, Fresh, Pending
<1> QED
  BY <1>4, <1>5 DEF PlaceEffect

\* The first splice takes the whole next-step list, the second at most one prompt.
LEMMA OnePrompt ==
  ASSUME TypeOK, PlaceInv
  PROVE  /\ FirstPrompt \subseteq Elements(nextTurn) /\ \A m, n \in FirstPrompt : m = n
         /\ Distinct(OtherPrompts) /\ Elements(OtherPrompts) = Elements(nextTurn) \ FirstPrompt
<1>1. nextTurn \in Seq(Messages) /\ Distinct(nextTurn)
  BY DEF TypeOK, PlaceInv
<1> QED
  BY <1>1, TailDistinct, EmptyDistinct DEF FirstPrompt, OtherPrompts

LEMMA ClaimedPlace ==
  ASSUME TypeOK, PlaceInv, NEW batch, Claimed(batch)
  PROVE  PlaceEffect
<1>1. /\ turn # 0 /\ canceled' = canceled /\ canceled \subseteq Messages
      /\ Elements(nextStep) \subseteq Messages /\ Elements(nextTurn) \subseteq Messages
  BY ElementsType DEF Claimed, TypeOK
<1>2. /\ Distinct(nextStep') /\ Distinct(nextTurn')
      /\ batch \subseteq Elements(nextStep) \/ batch \subseteq Elements(nextTurn)
      /\ Elements(nextStep') = Elements(nextStep) \ batch
      /\ Elements(nextTurn') = Elements(nextTurn) \ batch
  <2>1. CASE batch = Elements(nextStep) /\ nextStep' = <<>> /\ nextTurn' = nextTurn
    BY <2>1, EmptyDistinct DEF PlaceInv
  <2>2. CASE batch = FirstPrompt /\ nextStep' = nextStep /\ nextTurn' = OtherPrompts
    BY <2>2, OnePrompt DEF PlaceInv
  <2> QED
    BY <2>1, <2>2 DEF Claimed
<1>3. batch \subseteq Pending /\ Pending' = Pending \ batch
  BY <1>2 DEF Pending, PlaceInv
<1>4. \A m \in Messages : claimedBy'[m] = IF m \in batch THEN turn ELSE claimedBy[m]
  BY DEF Claimed, ClaimedInto
<1>5. PlaceInv'
  <2>1. ASSUME NEW m \in Pending' \cup canceled PROVE m \in Messages /\ m \notin batch
    BY <1>1, <1>3 DEF Pending, PlaceInv
  <2>2. ASSUME NEW m \in Pending' \cup canceled PROVE claimedBy'[m] = 0
    BY <1>3, <1>4, <2>1, <2>2 DEF PlaceInv
  <2>3. Pending' \cap canceled = {}
    BY <1>3 DEF PlaceInv
  <2> QED
    BY <1>1, <1>2, <2>2, <2>3 DEF PlaceInv
<1>6. ASSUME NEW n \in Messages, n \notin Fresh PROVE Settles(n)
  <2>1. n \in batch => claimedBy[n] = 0
    BY <1>3 DEF PlaceInv
  <2> QED
    BY <1>1, <1>2, <1>3, <1>4, <1>6, <2>1 DEF Settles, Fresh
<1> QED
  BY <1>5, <1>6 DEF PlaceEffect

LEMMA NextPlace ==
  ASSUME LogInv, PlaceInv, [Next]_vars
  PROVE  PlaceEffect
<1>1. CASE UNCHANGED placeVars
  BY <1>1 DEF PlaceEffect, PlaceInv, Settles, Fresh, Pending, placeVars
<1> QED
  BY <1>1, NextInbox, ArrivesPlace, WithdrawnPlace, ClaimedPlace DEF InboxStep, LogInv

LEMMA PlaceInvariant == Spec => []PlaceInv
<1>1. LogInv /\ PlaceInv /\ [Next]_vars => PlaceInv'
  BY NextPlace DEF PlaceEffect
<1> QED
  BY <1>1, InitPlace, LogInvariant, PTL DEF Spec

\* Whatever interrupts an operation, a message is in at most one of the two
\* lists, once, or it has been claimed, or it has been canceled.
THEOREM OnePlace == Spec => []EveryMessageInOnePlace
<1>1. ASSUME PlaceInv PROVE EveryMessageInOnePlace
  <2>1. ASSUME NEW m \in Messages, NEW i \in 1 .. 4, NEW j \in 1 .. 4, Places(m)[i], Places(m)[j]
        PROVE  i = j
    <3>1. /\ Places(m)[1] <=> m \in Elements(nextStep)
          /\ Places(m)[2] <=> m \in Elements(nextTurn)
          /\ Places(m)[3] <=> claimedBy[m] # 0
          /\ Places(m)[4] <=> m \in canceled
      BY DEF Places
    <3>2. i \in {1, 2, 3, 4} /\ j \in {1, 2, 3, 4}
      OBVIOUS
    <3> QED
      BY <1>1, <2>1, <3>1, <3>2 DEF PlaceInv, Pending
  <2> QED
    BY <1>1, <2>1 DEF PlaceInv, Distinct, EveryMessageInOnePlace
<1> QED
  BY <1>1, PlaceInvariant, PTL

\* No step makes the agent forget a message: once sent it is pending, claimed or
\* canceled for good.
THEOREM NothingLost == Spec => NothingVanishes
<1>1. LogInv /\ PlaceInv /\ [Next]_vars => [\A m \in Messages : m \notin Fresh => m \notin Fresh']_vars
  BY NextPlace DEF PlaceEffect, Settles
<1> QED
  BY <1>1, LogInvariant, PlaceInvariant, PTL DEF Spec, NothingVanishes

-----------------------------------------------------------------------------
(* Which turn takes a message.  While turn/start and the splices of a claim *)
(* are appended their observers can only abort, so the prompt the turn is   *)
(* about to claim finds no other prompt, and no wake behind an abort, that  *)
(* already carries its number.                                              *)

PointInv == pc \in AppendPoints => Top("driver")

\* The turn may still claim its prompt.
AwaitsPrompt == pc \in ClaimPoints \cup {"opened"} /\ step = 0

PromptInv ==
  /\ \A m \in prompts : /\ claimedBy[m] # 0 /\ claimedBy[m] <= turn
                        /\ AwaitsPrompt => claimedBy[m] # turn
  /\ SolePromptOfItsTurn

LandedInv ==
  \A m \in Messages : landed[m] # -1 =>
    /\ landed[m] <= turn /\ (AwaitsPrompt => landed[m] # turn)
    /\ m \notin Elements(nextStep) /\ m \notin Fresh
    /\ claimedBy[m] # 0 => claimedBy[m] > landed[m] /\ m \in prompts

\* A step that neither opens a turn, nor claims a prompt, nor sends.
Quiet ==
  /\ UNCHANGED <<turn, prompts, landed>>
  /\ AwaitsPrompt' => AwaitsPrompt
  /\ \A m \in Messages : claimedBy'[m] # claimedBy[m] => m \in Elements(nextStep)

Opens == turn' = turn + 1 /\ UNCHANGED <<prompts, landed, claimedBy, inboxVars, canceled>>
Sends == \E m \in Messages, t \in {"next-turn", "next-step"}, w \in BOOLEAN : Send(m, t, w)

\* The agent's callers leave the turn alone, and may call while a session append
\* is observed only to abort.
LEMMA CallTurn ==
  ASSUME PointInv, Call
  PROVE  PointInv' /\ (Sends \/ Quiet)
<1>1. CASE Sends
  BY <1>1 DEF Sends, Send, MayCall, Appending, PointInv
<1>2. CASE \E c \in Causes : CancelClearing(c) \/ CancelKeeping(c)
  <2>1. PICK c \in Causes : CancelClearing(c) \/ CancelKeeping(c)
    BY <1>2
  <2>2. UNCHANGED <<turn, step, prompts, landed, claimedBy, pc>>
    BY <2>1, CancelFromLog DEF CancelClearing, CancelKeeping, FireAbort
  <2>3. Appending => stack' = stack
    BY <2>1 DEF CancelClearing, CancelKeeping, MayCall, CancelFrom, FireAbort, HasPending
  <2> QED
    BY <2>1, <2>2, <2>3 DEF CancelClearing, CancelKeeping, MayCall, Appending, PointInv, Top, Quiet,
                            AwaitsPrompt
<1>3. CASE \E m \in Messages : Remove(m) \/ Prepend(m)
  BY <1>3 DEF Remove, Prepend, MayCall, Appending, PointInv, Quiet, AwaitsPrompt, driverVars,
              historyVars
<1>4. CASE Dispose
  <2>1. UNCHANGED <<turn, step, prompts, landed, claimedBy, pc>>
    BY <1>4, CancelFromLog DEF Dispose
  <2> QED
    BY <1>4, <2>1 DEF Dispose, MayCall, Appending, PointInv, Quiet, AwaitsPrompt
<1>5. CASE RunMaintenance
  BY <1>5 DEF RunMaintenance, PointInv, Top, Quiet, AwaitsPrompt, historyVars
<1> QED
  BY <1>1, <1>2, <1>3, <1>4, <1>5 DEF Call, Sends

LEMMA UnwindTurn ==
  ASSUME PointInv, Unwind
  PROVE  PointInv' /\ Quiet
<1>1. pc \notin AppendPoints
  BY DEF PointInv, Unwind, SendReturns, CancelCleared, CancelAborts, RemoveReturns, KickReplays, Top
<1>2. UNCHANGED <<turn, prompts, landed, claimedBy>> /\ pc' \in {pc, "start"}
  BY DEF Unwind, SendReturns, CancelCleared, CancelAborts, RemoveReturns, KickReplays, WakeDriver,
     StartDriver, ClearTurns, FireAbort, driverVars, historyVars
<1> QED
  BY <1>1, <1>2 DEF PointInv, Quiet, AwaitsPrompt, AppendPoints, ClaimPoints

LEMMA IdleTurn ==
  ASSUME PointInv, MaintenanceEnds \/ Waiter \/ UNCHANGED vars
  PROVE  PointInv' /\ Quiet
<1>1. CASE MaintenanceEnds
  <2>1. pc \notin AppendPoints
    BY <1>1 DEF PointInv, MaintenanceEnds, Top
  <2>2. UNCHANGED <<turn, prompts, landed, claimedBy>> /\ pc' \in {pc, "start"}
    BY <1>1 DEF MaintenanceEnds, StartDriver, historyVars
  <2> QED
    BY <2>1, <2>2 DEF PointInv, Quiet, AwaitsPrompt, AppendPoints, ClaimPoints
<1>2. CASE Waiter \/ UNCHANGED vars
  BY <1>2 DEF Waiter, WaiterLoops, WaiterReturns, vars, driverVars, historyVars, PointInv, Top, Quiet,
              AwaitsPrompt
<1> QED
  BY <1>1, <1>2

\* A notification of an append is on top of the stack while it runs.
LEMMA DriverPoint ==
  ASSUME TypeOK, Driver
  PROVE  PointInv'
<1>1. AppendPoints \subseteq SyncPoints /\ AppendPoints \cap (AwaitPoints \cup {"none"}) = {}
  BY DEF AppendPoints, ClaimPoints, SyncPoints, AwaitPoints
<1>2. CASE KickExits
  BY <1>1, <1>2 DEF KickExits, PointInv
<1>3. CASE Moves
  <2>1. CASE \E p \in SyncPoints : Emit(p)
    <3>1. stack' = <<DriverFrame>> \o BelowDriver
      BY <2>1 DEF Emit
    <3>2. BelowDriver \in Seq(Frames)
      BY PoppedFrame DEF BelowDriver, Top, TypeOK
    <3>3. stack' # <<>> /\ Head(stack') = DriverFrame
      BY <3>1, <3>2, PushProperties, DriverFrameType
    <3> QED
      BY <3>3 DEF PointInv, Top, DriverFrame, Frame
  <2>2. CASE \E p \in AwaitPoints : Await(p)
    BY <1>1, <2>2 DEF Await, PointInv
  <2> QED
    BY <1>3, <2>1, <2>2 DEF Moves
<1> QED
  BY <1>2, <1>3, DriverGoesOn

\* Of the driver's steps, one opens a turn and one claims a prompt.
LEMMA FailTurnPoint == FailTurn => pc' \in {"turnEnded", "failing"}
  BY DEF FailTurn, CloseTurn, Emit

LEMMA DriverTurnStep ==
  ASSUME LogInv, PlaceInv, Driver
  PROVE  Opens \/ ClaimsPrompt \/ Quiet
<1>0. landed' = landed /\ TypeOK
  BY DriverState DEF LogInv
<1> USE DEF AwaitsPrompt, ClaimPoints
<1>1. CASE TurnStarts
  BY <1>1 DEF TurnStarts, Opens, Quiet, Await, turnVars
<1>2. CASE FirstClaim \/ StepEnded \/ StoppingSettles
  <2>1. /\ pc \in {"opened", "stepEnded", "stopping"}
        /\ UNCHANGED <<turn, step, prompts, landed, claimedBy>>
    BY <1>2 DEF FirstClaim, StepEnded, StoppingSettles, Running, Resumed, TurnOnly, driverVars,
                historyVars
  <2>2. pc' # "opened"
    BY <1>2, FailTurnPoint, ClaimMoves DEF FirstClaim, StepEnded, StoppingSettles, CloseTurn, Emit,
                                           Await
  <2>3. AwaitsPrompt' => AwaitsPrompt
    BY <1>0, <2>1, <2>2 DEF LogInv, DriverInLog
  <2> QED
    BY <2>1, <2>3 DEF Quiet
<1>3. CASE ClaimsSteps
  <2>1. pc = "claimingSteps" /\ pc' # "opened" /\ UNCHANGED <<turn, step, prompts, landed>>
    BY <1>3, ClaimMoves DEF ClaimsSteps, Running, driverVars
  <2>2. \A m \in Messages : claimedBy'[m] # claimedBy[m] => m \in Elements(nextStep)
    BY <1>3 DEF ClaimsSteps, ClaimedInto
  <2> QED
    BY <2>1, <2>2 DEF Quiet
<1>4. CASE TurnReturns \/ KickExits \/ ErrorReported \/ StepFailed \/ StoppingFails
  BY <1>0, <1>4, FailTurnPoint DEF TurnReturns, KickExits, ErrorReported, StepFailed,
     StoppingFails, CloseTurn, Emit, Await, TurnOnly, Quiet, driverVars, historyVars
<1>5. CASE ClaimNotified \/ PreStepDecides \/ PreStepFails \/ EnterStep
  BY <1>0, <1>5, FailTurnPoint DEF ClaimNotified, PreStepDecides, PreStepFails, EnterStep,
     StepRejected, StepNotNeeded, StepEnters, CloseTurn, Emit, Await, TurnOnly, ControlOnly, Quiet,
     driverVars, historyVars
<1>6. CASE ModelStep \/ ToolStep
  BY <1>0, <1>6 DEF ModelStep, ToolStep, ModelStops, ModelCallsTools, RequestFails,
     RequestRetries, StepThrows, ToolsReturn, ContextNotified, ToolContext, StepReturns, Emit,
     Await, TurnOnly, ControlOnly, Quiet, driverVars, historyVars
<1> QED
  BY <1>1, <1>2, <1>3, <1>4, <1>5, <1>6 DEF Driver, TurnBoundary, PreStep, EndStep

TurnInv == PointInv /\ PromptInv /\ LandedInv

LEMMA InitTurn == Init => TurnInv
<1> SUFFICES ASSUME Init PROVE TurnInv
  OBVIOUS
<1>1. pc = "none" /\ prompts = {} /\ landed = [m \in Messages |-> -1]
  BY DEF Init
<1> QED
  BY <1>1 DEF TurnInv, PointInv, PromptInv, LandedInv, SolePromptOfItsTurn, AppendPoints,
              ClaimPoints

LEMMA QuietTurn ==
  ASSUME TypeOK, PlaceInv, PlaceEffect, PromptInv, LandedInv, Quiet
  PROVE  PromptInv' /\ LandedInv'
<1>1. /\ turn' = turn /\ prompts' = prompts /\ landed' = landed /\ prompts \subseteq Messages
      /\ AwaitsPrompt' => AwaitsPrompt
  BY DEF Quiet, TypeOK
<1>2. \A m \in prompts : claimedBy'[m] = claimedBy[m]
  <2> SUFFICES ASSUME NEW m \in prompts PROVE claimedBy'[m] = claimedBy[m]
    OBVIOUS
  <2>1. m \in Messages /\ claimedBy[m] # 0
    BY <1>1 DEF PromptInv
  <2> QED
    BY <2>1 DEF Quiet, PlaceInv, Pending
<1>3. PromptInv'
  BY <1>1, <1>2 DEF PromptInv, SolePromptOfItsTurn
<1>4. ASSUME NEW m \in Messages, landed[m] # -1
      PROVE  /\ m \notin Elements(nextStep') /\ m \notin Fresh' /\ claimedBy'[m] = claimedBy[m]
  <2>1. m \notin Elements(nextStep) /\ m \notin Fresh
    BY <1>4 DEF LandedInv
  <2> QED
    BY <2>1 DEF PlaceEffect, Settles, Quiet
<1>5. LandedInv'
  BY <1>1, <1>4 DEF LandedInv
<1> QED
  BY <1>3, <1>5

LEMMA OpensTurn ==
  ASSUME TypeOK, PromptInv, LandedInv, Opens
  PROVE  PromptInv' /\ LandedInv'
<1>1. /\ turn' = turn + 1 /\ prompts' = prompts /\ landed' = landed /\ claimedBy' = claimedBy
      /\ nextStep' = nextStep /\ nextTurn' = nextTurn /\ canceled' = canceled
      /\ turn \in Nat /\ prompts \subseteq Messages
  BY DEF Opens, inboxVars, TypeOK
<1>2. \A m \in Messages : claimedBy[m] \in Nat /\ landed[m] \in Nat \cup {-1}
  BY DEF TypeOK
<1>3. \A n \in Nat \cup {-1} : n <= turn => n <= turn + 1 /\ n # turn + 1
  BY <1>1
<1>4. PromptInv'
  BY <1>1, <1>2, <1>3 DEF PromptInv, SolePromptOfItsTurn
<1>5. Fresh' = Fresh
  BY <1>1 DEF Fresh, Pending
<1>6. LandedInv'
  BY <1>1, <1>2, <1>3, <1>5 DEF LandedInv
<1> QED
  BY <1>4, <1>6

LEMMA ClaimsPromptTurn ==
  ASSUME LogInv, PlaceInv, PlaceEffect, PromptInv, LandedInv, ClaimsPrompt
  PROVE  PromptInv' /\ LandedInv'
<1> DEFINE taken == FirstPrompt
<1>1. /\ AwaitsPrompt /\ ~AwaitsPrompt' /\ turn' = turn /\ landed' = landed /\ turn \in Nat
      /\ turn >= 1 /\ prompts \subseteq Messages
  <2>1. pc = "claimingPrompt" /\ pc' = "claimed" /\ turn' = turn /\ landed' = landed
    BY DEF ClaimsPrompt, Running, Emit, driverVars
  <2>2. step = 0 /\ turn >= 1
    BY <2>1 DEF LogInv, DriverInLog, TurnOpen, OpenPoints
  <2> QED
    BY <2>1, <2>2 DEF AwaitsPrompt, ClaimPoints, TypeOK, LogInv
<1>2. taken \subseteq Elements(nextTurn) /\ \A m, n \in taken : m = n
  BY OnePrompt DEF LogInv
<1>3. /\ prompts' = prompts \cup taken /\ nextStep' = nextStep
      /\ \A m \in Messages : claimedBy'[m] = IF m \in taken THEN turn ELSE claimedBy[m]
  BY DEF ClaimsPrompt, ClaimedInto
<1> HIDE DEF taken
<1>4. /\ Elements(nextTurn) \subseteq Messages
      /\ \A m \in Messages : claimedBy[m] \in Nat /\ landed[m] \in Nat \cup {-1}
  BY ElementsType DEF LogInv, TypeOK
<1>5. \A m \in taken : claimedBy[m] = 0
  BY <1>2 DEF PlaceInv, Pending
<1>6. ASSUME NEW m \in prompts
      PROVE  m \notin taken /\ claimedBy'[m] = claimedBy[m] /\ claimedBy[m] # turn
               /\ claimedBy[m] # 0 /\ claimedBy[m] <= turn
  BY <1>1, <1>3, <1>5 DEF PromptInv
<1>7. ASSUME NEW m \in taken PROVE m \in Messages /\ claimedBy'[m] = turn
  BY <1>2, <1>3, <1>4
<1>8. PromptInv'
  <2>1. \A m \in prompts' : claimedBy'[m] # 0 /\ claimedBy'[m] <= turn
    BY <1>1, <1>3, <1>6, <1>7
  <2>2. \A m, n \in prompts' : claimedBy'[m] = claimedBy'[n] => m = n
    BY <1>2, <1>3, <1>6, <1>7 DEF PromptInv, SolePromptOfItsTurn
  <2> QED
    BY <1>1, <2>1, <2>2 DEF PromptInv, SolePromptOfItsTurn
<1>9. ASSUME NEW m \in Messages, landed[m] # -1
      PROVE  /\ landed[m] <= turn /\ m \notin Elements(nextStep') /\ m \notin Fresh'
             /\ claimedBy'[m] # 0 => claimedBy'[m] > landed[m] /\ m \in prompts'
  <2>1. /\ landed[m] <= turn /\ landed[m] # turn /\ m \notin Elements(nextStep) /\ m \notin Fresh
        /\ claimedBy[m] # 0 => claimedBy[m] > landed[m] /\ m \in prompts
    BY <1>1, <1>9 DEF LandedInv
  <2>2. landed[m] < turn
    BY <1>1, <1>4, <1>9, <2>1
  <2>3. m \notin Fresh'
    BY <2>1 DEF PlaceEffect, Settles
  <2>4. CASE m \in taken
    BY <1>3, <1>7, <2>1, <2>2, <2>3, <2>4
  <2>5. CASE m \notin taken
    BY <1>3, <2>1, <2>3, <2>5
  <2> QED
    BY <2>4, <2>5
<1>10. LandedInv'
  BY <1>1, <1>9 DEF LandedInv
<1> QED
  BY <1>8, <1>10

LEMMA SendsTurn ==
  ASSUME TypeOK, PointInv, PlaceInv, PlaceEffect, PromptInv, LandedInv, Sends
  PROVE  PromptInv' /\ LandedInv'
<1>1. PICK k \in Messages, t \in {"next-turn", "next-step"}, w \in BOOLEAN : Send(k, t, w)
  BY DEF Sends
<1>2. /\ turn' = turn /\ prompts' = prompts /\ claimedBy' = claimedBy /\ pc' = pc
      /\ canceled' = canceled /\ ~AwaitsPrompt' /\ k \in Fresh /\ turn \in Nat
  BY <1>1 DEF Send, MayCall, Appending, PointInv, AwaitsPrompt, driverVars, AppendPoints, TypeOK
<1>3. PromptInv'
  BY <1>2 DEF PromptInv, SolePromptOfItsTurn
<1>4. \/ landed' = landed
      \/ landed' = [landed EXCEPT ![k] = turn] /\ nextTurn' = Append(nextTurn, k)
           /\ nextStep' = nextStep
  BY <1>1 DEF Send, WakingAfterAbort
<1>5. ASSUME NEW m \in Messages, landed[m] # -1
      PROVE  /\ landed[m] <= turn /\ m \notin Elements(nextStep') /\ m \notin Fresh'
             /\ landed'[m] = landed[m]
             /\ claimedBy[m] # 0 => claimedBy[m] > landed[m] /\ m \in prompts
  <2>1. /\ landed[m] <= turn /\ m \notin Elements(nextStep) /\ m \notin Fresh
        /\ claimedBy[m] # 0 => claimedBy[m] > landed[m] /\ m \in prompts
    BY <1>5 DEF LandedInv
  <2>2. m # k
    BY <1>2, <2>1
  <2> QED
    BY <1>4, <2>1, <2>2 DEF PlaceEffect, Settles, TypeOK
<1>6. ASSUME NEW m \in Messages, landed[m] = -1, landed'[m] # -1
      PROVE  /\ landed'[m] = turn /\ m \notin Elements(nextStep') /\ m \notin Fresh'
             /\ claimedBy[m] = 0
  <2>1. /\ m = k /\ landed'[m] = turn /\ nextTurn' = Append(nextTurn, k) /\ nextStep' = nextStep
    BY <1>4, <1>6 DEF TypeOK
  <2>2. m \notin Elements(nextStep) /\ claimedBy[m] = 0
    BY <1>2, <2>1 DEF Fresh, Pending
  <2>3. m \in Elements(nextTurn')
    BY <2>1, AppendDistinct DEF TypeOK
  <2> QED
    BY <2>1, <2>2, <2>3 DEF Fresh, Pending
<1>7. LandedInv'
  <2> SUFFICES ASSUME NEW m \in Messages, landed'[m] # -1
               PROVE  /\ landed'[m] <= turn /\ m \notin Elements(nextStep') /\ m \notin Fresh'
                      /\ claimedBy[m] # 0 => claimedBy[m] > landed'[m] /\ m \in prompts
    BY <1>2 DEF LandedInv
  <2>1. CASE landed[m] # -1
    BY <1>5, <2>1
  <2>2. CASE landed[m] = -1
    BY <1>2, <1>6, <2>2
  <2> QED
    BY <2>1, <2>2
<1> QED
  BY <1>3, <1>7

LEMMA NextTurnInv ==
  ASSUME LogInv, PlaceInv, TurnInv, [Next]_vars
  PROVE  TurnInv'
<1>1. PlaceEffect /\ TypeOK
  BY NextPlace DEF LogInv
<1>2. PointInv' /\ (Quiet \/ Opens \/ ClaimsPrompt \/ Sends)
  BY <1>1, CallTurn, UnwindTurn, IdleTurn, DriverPoint, DriverTurnStep DEF Next, TurnInv
<1>3. PromptInv' /\ LandedInv'
  BY <1>1, <1>2, QuietTurn, OpensTurn, ClaimsPromptTurn, SendsTurn DEF TurnInv
<1> QED
  BY <1>2, <1>3 DEF TurnInv

LEMMA TurnInvariant == Spec => []TurnInv
<1>1. LogInv /\ PlaceInv /\ TurnInv /\ [Next]_vars => TurnInv'
  BY NextTurnInv
<1> QED
  BY <1>1, InitTurn, LogInvariant, PlaceInvariant, PTL DEF Spec

\* A turn claims at most one prompt, and later steps of it claim none.
THEOREM SolePrompt == Spec => []SolePromptOfItsTurn
<1>1. TurnInv => SolePromptOfItsTurn
  BY DEF TurnInv, PromptInv
<1> QED
  BY <1>1, TurnInvariant, PTL

\* Waking input that finds its activity aborted is never claimed by the turn it
\* arrived in: it becomes the prompt of a later one.
THEOREM WakeStartsAnotherTurn == Spec => []WakeAfterAbortStartsAnotherTurn
<1>1. TurnInv => WakeAfterAbortStartsAnotherTurn
  BY DEF TurnInv, LandedInv, WakeAfterAbortStartsAnotherTurn
<1> QED
  BY <1>1, TurnInvariant, PTL

-----------------------------------------------------------------------------
(* Under a fired signal.                                                   *)

BeginsNothing ==
  /\ trace'.openTurn \in {0, trace.openTurn}
  /\ trace'.openStep \in {0, trace.openStep}
  /\ pc' \in ClaimPoints => pc \in ClaimPoints
  /\ \A m \in Messages : claimedBy'[m] # claimedBy[m] => m \in BeingClaimed

LEMMA EndsBeginNothing ==
  ASSUME TypeOK, UNCHANGED claimedBy, pc' \notin ClaimPoints,
         \/ UNCHANGED trace
         \/ FailTurn
         \/ AppendStepEnd
         \/ \E reason, e : CloseTurn(reason, e)
  PROVE  BeginsNothing
<1>1. \/ UNCHANGED trace
      \/ AppendTurnEnd
      \/ AppendStepEnd
  BY DEF FailTurn, CloseTurn
<1> QED
  BY <1>1, AppendFields DEF BeginsNothing

LEMMA OutsideBeginsNothing ==
  ASSUME TypeOK, Call \/ Unwind \/ MaintenanceEnds \/ Waiter \/ UNCHANGED vars
  PROVE  BeginsNothing
<1>1. UNCHANGED <<trace, claimedBy>>
  <2>1. CASE Call
    BY <2>1 DEF Call, Send, CancelClearing, CancelKeeping, Remove, Prepend, Dispose, RunMaintenance,
       historyVars
  <2>2. CASE Unwind
    BY <2>2 DEF Unwind, SendReturns, CancelCleared, CancelAborts, RemoveReturns, KickReplays,
       historyVars
  <2>3. CASE MaintenanceEnds \/ Waiter \/ UNCHANGED vars
    BY <2>3 DEF MaintenanceEnds, Waiter, WaiterLoops, WaiterReturns, vars, historyVars
  <2> QED
    BY <2>1, <2>2, <2>3
<1>2. pc' \in {pc, "start"}
  <2>1. CASE Call
    BY <2>1 DEF Call, Send, CancelClearing, CancelKeeping, Remove, Prepend, Dispose, RunMaintenance
  <2>2. CASE Unwind
    BY <2>2 DEF Unwind, SendReturns, CancelCleared, CancelAborts, RemoveReturns, KickReplays,
       WakeDriver, StartDriver
  <2>3. CASE MaintenanceEnds \/ Waiter \/ UNCHANGED vars
    BY <2>3 DEF MaintenanceEnds, StartDriver, Waiter, WaiterLoops, WaiterReturns, vars
  <2> QED
    BY <2>1, <2>2, <2>3
<1> QED
  BY <1>1, <1>2 DEF BeginsNothing, ClaimPoints, TypeOK

\* The splices of a claim take what the claim was about to take.
LEMMA ClaimBeginsNothing ==
  ASSUME LogInv, ClaimsSteps \/ ClaimsPrompt
  PROVE  BeginsNothing
<1>1. pc \in ClaimPoints /\ UNCHANGED trace
  BY DEF ClaimsSteps, ClaimsPrompt, Running, ClaimPoints
<1>2. ASSUME NEW m \in Messages, claimedBy'[m] # claimedBy[m] PROVE m \in BeingClaimed
  <2>1. CASE ClaimsSteps
    <3>1. pc = "claimingSteps" /\ m \in Elements(nextStep)
      BY <1>2, <2>1 DEF ClaimsSteps, ClaimedInto, Running
    <3> QED
      BY <3>1 DEF BeingClaimed
  <2>2. CASE ClaimsPrompt
    <3>1. pc = "claimingPrompt" /\ m \in FirstPrompt
      BY <1>2, <2>2 DEF ClaimsPrompt, ClaimedInto, Running
    <3>2. TakesPrompt
      BY <3>1 DEF TakesPrompt, FirstPrompt, LogInv, DriverInLog
    <3> QED
      BY <3>1, <3>2 DEF BeingClaimed, ClaimPoints
  <2> QED
    BY <2>1, <2>2
<1> QED
  BY <1>1, <1>2 DEF BeginsNothing, LogInv, TypeOK

LEMMA DriverBeginsNothing ==
  ASSUME LogInv, Aborted, Driver
  PROVE  BeginsNothing
<1> USE DEF LogInv, ClaimPoints
<1>1. CASE TurnBoundary
  BY <1>1, EndsBeginNothing DEF TurnBoundary, TurnStarts, TurnReturns, KickExits, ErrorReported,
     CloseTurn, Emit, Await, TurnOnly, historyVars
<1>2. CASE PreStep
  BY <1>2, EndsBeginNothing, ClaimBeginsNothing, FailTurnPoint DEF PreStep, FirstClaim,
     ClaimNotified, PreStepDecides, PreStepFails, Await, ControlOnly, TurnOnly, historyVars
<1>3. CASE EnterStep
  BY <1>3, EndsBeginNothing, FailTurnPoint DEF EnterStep, StepRejected, StepNotNeeded, StepEnters,
     CloseTurn, Emit, TurnOnly, historyVars
<1>4. CASE ModelStep \/ ToolStep
  BY <1>4, EndsBeginNothing DEF ModelStep, ToolStep, ModelStops, ModelCallsTools, RequestFails,
     RequestRetries, StepThrows, ToolsReturn, ContextNotified, ToolContext, StepReturns, Emit,
     Await, ControlOnly, TurnOnly, historyVars
<1>5. CASE EndStep
  BY <1>5, EndsBeginNothing, FailTurnPoint DEF EndStep, StepEnded, StepFailed, StoppingSettles,
     StoppingFails, TurnOnly, historyVars
<1> QED
  BY <1>1, <1>2, <1>3, <1>4, <1>5 DEF Driver

\* Once its signal has fired the driver opens no turn, enters no step and begins no
\* claim.  What it still writes closes what is open, or is the rest of a claim that
\* had begun when the signal fired in one of the claim's own appends.
THEOREM AbortedBeginsNothing == Spec => NothingBeginsAborted
<1>1. LogInv /\ [Next]_vars =>
        [Aborted => /\ trace'.openTurn \in {0, trace.openTurn}
                    /\ trace'.openStep \in {0, trace.openStep}
                    /\ pc' \in ClaimPoints => pc \in ClaimPoints
                    /\ \A m \in Messages : claimedBy'[m] # claimedBy[m] => m \in BeingClaimed]_vars
  BY OutsideBeginsNothing, DriverBeginsNothing DEF Next, BeginsNothing, LogInv
<1> QED
  BY <1>1, LogInvariant, PTL DEF Spec, NothingBeginsAborted
=============================================================================
