------------------------- MODULE AgentDriverProofs -------------------------
(***************************************************************************)
(* Theorems about the turn driver, for every value of the constants: any   *)
(* set of messages, any nesting of listeners, any restored queue and turn  *)
(* number.                                                                 *)
(***************************************************************************)
EXTENDS AgentDriver, TLAPS, SequenceTheorems

-----------------------------------------------------------------------------
(* Sequences and the stack of suspended operations.                        *)

LEMMA PushProperties ==
  ASSUME NEW S, NEW s \in Seq(S), NEW e \in S
  PROVE  /\ <<e>> \o s \in Seq(S)
         /\ <<e>> \o s # <<>>
         /\ Head(<<e>> \o s) = e
         /\ DOMAIN (<<e>> \o s) = 1 .. Len(s) + 1
         /\ (<<e>> \o s)[1] = e
         /\ \A i \in 2 .. Len(s) + 1 : (<<e>> \o s)[i] = s[i - 1]
<1>1. <<e>> \in Seq(S) /\ Len(<<e>>) = 1 /\ <<e>>[1] = e
  OBVIOUS
<1>2. <<e>> \o s \in Seq(S) /\ Len(<<e>> \o s) = Len(s) + 1
  BY <1>1, ConcatProperties
<1>3. \A i \in 1 .. Len(s) + 1 :
        (<<e>> \o s)[i] = IF i <= 1 THEN <<e>>[i] ELSE s[i - 1]
  BY <1>1, <1>2, ConcatProperties
<1>4. (<<e>> \o s)[1] = e /\ DOMAIN (<<e>> \o s) = 1 .. Len(s) + 1
  BY <1>1, <1>2, <1>3, LenProperties
<1>5. Head(<<e>> \o s) = e /\ <<e>> \o s # <<>>
  BY <1>2, <1>4
<1> QED
  BY <1>2, <1>3, <1>4, <1>5

LEMMA WithoutType ==
  ASSUME NEW S, NEW s \in Seq(S), NEW i \in DOMAIN s
  PROVE  Without(s, i) \in Seq(S)
<1>1. i \in 1 .. Len(s) /\ Len(s) \in Nat /\ \A j \in 1 .. Len(s) : s[j] \in S
  BY LenProperties, ElementOfSeq
<1>2. SubSeq(s, 1, i - 1) \in Seq(S)
  BY <1>1, SubSeqProperties
<1>3. SubSeq(s, i + 1, Len(s)) \in Seq(S)
  BY <1>1, SubSeqProperties
<1> QED
  BY <1>2, <1>3, ConcatProperties DEF Without

LEMMA ElementsType ==
  ASSUME NEW S, NEW s \in Seq(S)
  PROVE  Elements(s) \subseteq S
  BY LenProperties, ElementOfSeq DEF Elements

LEMMA FrameType ==
  ASSUME NEW op \in Ops, NEW flag \in BOOLEAN, NEW after \in BOOLEAN, NEW cause \in AbortCauses
  PROVE  Frame(op, flag, after, cause) \in Frames
  BY DEF Frame, Frames

LEMMA DriverFrameType == DriverFrame \in Frames
  BY FrameType DEF DriverFrame, Ops, AbortCauses

-----------------------------------------------------------------------------
(* Type correctness, one conjunct for each group of variables.             *)

DriverType ==
  /\ phase \in {"idle", "maintenance", "running"} /\ turn \in Nat /\ step \in Nat
  /\ abort \in AbortCauses /\ wakeRequested \in BOOLEAN
InboxType == nextStep \in Seq(Messages) /\ nextTurn \in Seq(Messages)
PcType == pc \in SyncPoints \cup AwaitPoints \cup {"none"}
StackType == stack \in Seq(Frames)
TurnType == turnEnds \in Endings /\ continues \in BOOLEAN /\ cut \in BOOLEAN /\ owes \in BOOLEAN
WaitType == settled \in BOOLEAN /\ waiter \in {"none", "current", "replaced", "returned"}
TraceType == trace \in [openTurn : Nat, openStep : Nat, nextTurn : Nat, nextStep : Nat]
HistoryType ==
  /\ owed \subseteq Messages /\ dropped \subseteq Messages
  /\ landed \in [Messages -> Nat \cup {-1}] /\ parked \subseteq Messages
  /\ claimedBy \in [Messages -> Nat] /\ prompts \subseteq Messages
  /\ canceled \subseteq Messages
BoundType == maintenances \in Nat /\ cancels \in Nat

LEMMA TypeParts ==
  TypeOK <=> /\ DriverType /\ accepting \in BOOLEAN /\ InboxType /\ PcType /\ StackType
             /\ TurnType /\ WaitType /\ TraceType /\ HistoryType /\ BoundType
  BY DEF TypeOK, DriverType, InboxType, PcType, StackType, TurnType, WaitType, TraceType,
         HistoryType, BoundType

LEMMA TypePartsNext ==
  ASSUME DriverType', accepting' \in BOOLEAN, InboxType', PcType', StackType', TurnType',
         WaitType', TraceType', HistoryType', BoundType'
  PROVE  TypeOK'
  BY DEF TypeOK, DriverType, InboxType, PcType, StackType, TurnType, WaitType, TraceType,
         HistoryType, BoundType

\* What a step leaves alone stays well typed.
LEMMA KeepsType ==
  ASSUME TypeOK
  PROVE  /\ driverVars' = driverVars => DriverType'
         /\ inboxVars' = inboxVars => InboxType'
         /\ turnVars' = turnVars => TurnType'
         /\ waitVars' = waitVars => WaitType'
         /\ historyVars' = historyVars => HistoryType'
         /\ boundVars' = boundVars => BoundType'
         /\ pc' = pc => PcType'
         /\ trace' = trace => TraceType'
         /\ stack' = stack => StackType'
         /\ accepting' = accepting => accepting' \in BOOLEAN
<1>1. driverVars' = driverVars => DriverType'
  BY TypeParts DEF DriverType, driverVars
<1>2. inboxVars' = inboxVars => InboxType'
  BY TypeParts DEF InboxType, inboxVars
<1>3. turnVars' = turnVars => TurnType'
  BY TypeParts DEF TurnType, turnVars
<1>4. waitVars' = waitVars => WaitType'
  BY TypeParts DEF WaitType, waitVars
<1>5. historyVars' = historyVars => HistoryType'
  BY TypeParts DEF HistoryType, historyVars
<1>6. boundVars' = boundVars => BoundType'
  BY TypeParts DEF BoundType, boundVars
<1>7. /\ pc' = pc => PcType'
      /\ trace' = trace => TraceType'
      /\ stack' = stack => StackType'
      /\ accepting' = accepting => accepting' \in BOOLEAN
  BY TypeParts DEF PcType, TraceType, StackType
<1> QED
  BY <1>1, <1>2, <1>3, <1>4, <1>5, <1>6, <1>7

LEMMA InitType == Init => TypeOK
<1> SUFFICES ASSUME Init PROVE TypeOK
  OBVIOUS
<1>1. DriverType /\ accepting \in BOOLEAN /\ PcType
  BY DriverAssumption DEF Init, DriverType, PcType, AbortCauses, SyncPoints
<1>2. InboxType
  BY DriverAssumption, EmptySeq DEF Init, InboxType
<1>3. StackType
  BY EmptySeq DEF Init, StackType
<1>4. TurnType /\ WaitType /\ BoundType
  BY DEF Init, TurnType, WaitType, BoundType, Endings
<1>5. TraceType
  BY DriverAssumption DEF Init, TraceType
<1>6. HistoryType
  BY DEF Init, HistoryType
<1> QED
  BY <1>1, <1>2, <1>3, <1>4, <1>5, <1>6, TypeParts

LEMMA PushType ==
  ASSUME NEW op \in Ops, NEW flag \in BOOLEAN, NEW after \in BOOLEAN, NEW cause \in AbortCauses,
         NEW rest \in Seq(Frames)
  PROVE  <<Frame(op, flag, after, cause)>> \o rest \in Seq(Frames)
  BY FrameType, PushProperties

\* A next message of the history only needs the types of what changed.
LEMMA CancelHistoryType ==
  ASSUME TypeOK, owed' \subseteq Messages, dropped' \subseteq Messages,
         parked' \subseteq Messages, canceled' \subseteq Messages,
         UNCHANGED <<landed, claimedBy, prompts>>
  PROVE  HistoryType'
  BY TypeParts DEF HistoryType

\* Cancel's parts keep the types, whatever they were called over.
CancelTypes ==
  DriverType /\ InboxType /\ StackType /\ WaitType /\ owed \subseteq Messages
    /\ dropped \subseteq Messages /\ parked \subseteq Messages /\ canceled \subseteq Messages

LEMMA FireAbortType ==
  ASSUME TypeOK, NEW cause \in AbortCauses, NEW keep \in BOOLEAN, NEW rest \in Seq(Frames),
         FireAbort(cause, keep, rest), UNCHANGED <<inboxVars, canceled>>
  PROVE  CancelTypes'
<1>1. Pending \subseteq Messages
  BY ElementsType DEF TypeOK, Pending
<1>2. DriverType'
  BY TypeParts DEF FireAbort, DriverType
<1>3. InboxType' /\ canceled' \subseteq Messages
  BY KeepsType, TypeParts DEF HistoryType
<1>4. StackType'
  BY DEF FireAbort, StackType
<1>5. WaitType'
  BY TypeParts DEF FireAbort, WaitType
<1>6. owed' \subseteq Messages /\ dropped' \subseteq Messages /\ parked' \subseteq Messages
  BY <1>1, TypeParts DEF FireAbort, HistoryType
<1> QED
  BY <1>2, <1>3, <1>4, <1>5, <1>6 DEF CancelTypes

LEMMA ClearTurnsType ==
  ASSUME TypeOK, NEW cause \in AbortCauses, NEW rest \in Seq(Frames), ClearTurns(cause, rest)
  PROVE  CancelTypes'
<1>1. DriverType' /\ WaitType'
  BY KeepsType DEF ClearTurns
<1>2. InboxType'
  BY TypeParts, EmptySeq DEF ClearTurns, InboxType
<1>3. StackType'
  BY PushType DEF ClearTurns, StackType, Ops
<1>4. /\ owed' \subseteq Messages /\ dropped' \subseteq Messages /\ parked' \subseteq Messages
      /\ canceled' \subseteq Messages
  BY TypeParts, ElementsType DEF ClearTurns, Discard, HistoryType, InboxType
<1> QED
  BY <1>1, <1>2, <1>3, <1>4 DEF CancelTypes

LEMMA CancelFromType ==
  ASSUME TypeOK, NEW cause \in AbortCauses, CancelFrom(cause, stack)
  PROVE  CancelTypes'
<1> USE TypeParts DEF StackType
<1>1. CASE nextStep # <<>>
  <2>1. DriverType' /\ WaitType'
    BY <1>1, KeepsType DEF CancelFrom
  <2>2. InboxType'
    BY <1>1, EmptySeq DEF CancelFrom, InboxType
  <2>3. StackType'
    BY <1>1, PushType DEF CancelFrom, Ops
  <2>4. /\ owed' \subseteq Messages /\ dropped' \subseteq Messages /\ parked' \subseteq Messages
        /\ canceled' \subseteq Messages
    BY <1>1, ElementsType DEF CancelFrom, Discard, HistoryType, InboxType
  <2> QED
    BY <2>1, <2>2, <2>3, <2>4 DEF CancelTypes
<1>2. CASE nextStep = <<>> /\ nextTurn # <<>>
  BY <1>2, ClearTurnsType DEF CancelFrom
<1>3. CASE nextStep = <<>> /\ nextTurn = <<>>
  BY <1>3, FireAbortType DEF CancelFrom
<1> QED
  BY <1>1, <1>2, <1>3

\* wakeDriver, called with the operations rest still suspended.
WakeTypes == DriverType /\ PcType /\ StackType /\ WaitType

LEMMA WaitReplacedType ==
  ASSUME TypeOK, ReplaceActivity
  PROVE  WaitType'
  BY TypeParts DEF ReplaceActivity, WaitType

LEMMA StartDriverType ==
  ASSUME TypeOK, NEW rest \in Seq(Frames), StartDriver(rest)
  PROVE  WakeTypes'
<1>1. DriverType'
  BY TypeParts DEF StartDriver, DriverType, AbortCauses
<1>2. PcType'
  BY DEF StartDriver, PcType, SyncPoints
<1>3. StackType'
  BY PushProperties, DriverFrameType DEF StartDriver, StackType
<1>4. WaitType'
  BY WaitReplacedType DEF StartDriver
<1> QED
  BY <1>1, <1>2, <1>3, <1>4 DEF WakeTypes

LEMMA WakeDriverType ==
  ASSUME TypeOK, NEW after \in BOOLEAN, NEW rest \in Seq(Frames), WakeDriver(after, rest)
  PROVE  WakeTypes'
<1>1. CASE phase = "idle"
  BY <1>1, StartDriverType DEF WakeDriver
<1>2. CASE phase # "idle"
  <2>1. DriverType'
    BY <1>2, TypeParts DEF WakeDriver, DriverType, Latches
  <2>2. PcType' /\ WaitType'
    BY <1>2, KeepsType DEF WakeDriver
  <2>3. StackType'
    BY <1>2 DEF WakeDriver, StackType
  <2> QED
    BY <2>1, <2>2, <2>3 DEF WakeTypes
<1> QED
  BY <1>1, <1>2

-----------------------------------------------------------------------------
(* Calls and their unwinding.                                              *)

LEMMA SendType ==
  ASSUME TypeOK, NEW m \in Messages, NEW t \in {"next-turn", "next-step"}, NEW w \in BOOLEAN,
         Send(m, t, w)
  PROVE  TypeOK'
<1>1. WakingAfterAbort(w) \in BOOLEAN
  BY DEF WakingAfterAbort
<1>2. StackType'
  <2>1. <<Frame("send", w, WakingAfterAbort(w), "none")>> \o stack \in Seq(Frames)
    <3>1. "send" \in Ops /\ "none" \in AbortCauses /\ stack \in Seq(Frames)
      BY TypeParts DEF StackType, Ops, AbortCauses
    <3> QED
      BY <1>1, <3>1, PushType
  <2>2. stack' = <<Frame("send", w, WakingAfterAbort(w), "none")>> \o stack
    BY Zenon DEF Send
  <2> QED
    BY <2>1, <2>2 DEF StackType
<1>3. InboxType'
  <2>1. Append(nextTurn, m) \in Seq(Messages) /\ Append(nextStep, m) \in Seq(Messages)
    BY AppendProperties, TypeParts DEF InboxType
  <2>2. \/ nextTurn' = Append(nextTurn, m) /\ nextStep' = nextStep
        \/ nextStep' = Append(nextStep, m) /\ nextTurn' = nextTurn
    BY Zenon DEF Send
  <2> QED
    BY <2>1, <2>2, TypeParts DEF InboxType
<1>4. HistoryType'
  BY TypeParts DEF Send, HistoryType, DriverType
<1>5. /\ DriverType' /\ accepting' \in BOOLEAN /\ PcType' /\ TurnType' /\ WaitType'
      /\ TraceType' /\ BoundType'
  BY KeepsType DEF Send
<1> QED
  BY <1>2, <1>3, <1>4, <1>5, TypePartsNext

LEMMA CancelClearingType ==
  ASSUME TypeOK, NEW c \in Causes, CancelClearing(c)
  PROVE  TypeOK'
<1>1. CancelTypes'
  BY CancelFromType DEF CancelClearing, AbortCauses
<1>2. HistoryType'
  BY <1>1, CancelHistoryType DEF CancelTypes, CancelClearing
<1>3. accepting' \in BOOLEAN /\ PcType' /\ TurnType' /\ TraceType'
  BY KeepsType DEF CancelClearing
<1>4. BoundType'
  BY TypeParts DEF CancelClearing, BoundType
<1> QED
  BY <1>1, <1>2, <1>3, <1>4, TypePartsNext DEF CancelTypes

LEMMA CancelKeepingType ==
  ASSUME TypeOK, NEW c \in Causes, CancelKeeping(c)
  PROVE  TypeOK'
<1>1. FireAbort(c, TRUE, stack) /\ UNCHANGED <<inboxVars, canceled>>
  BY DEF CancelKeeping
<1>2. CancelTypes'
  BY <1>1, FireAbortType, TypeParts DEF AbortCauses, StackType
<1>3. HistoryType'
  BY <1>2, CancelHistoryType DEF CancelTypes, CancelKeeping
<1>4. accepting' \in BOOLEAN /\ PcType' /\ TurnType' /\ TraceType'
  BY KeepsType DEF CancelKeeping
<1>5. BoundType'
  BY TypeParts DEF CancelKeeping, BoundType
<1> QED
  BY <1>2, <1>3, <1>4, <1>5, TypePartsNext DEF CancelTypes

LEMMA DisposeType == TypeOK /\ Dispose => TypeOK'
<1> SUFFICES ASSUME TypeOK, Dispose PROVE TypeOK'
  OBVIOUS
<1>1. CancelTypes'
  BY CancelFromType DEF Dispose, AbortCauses
<1>2. HistoryType'
  BY <1>1, CancelHistoryType DEF CancelTypes, Dispose
<1>3. accepting' \in BOOLEAN /\ PcType' /\ TurnType' /\ TraceType' /\ BoundType'
  BY KeepsType DEF Dispose
<1> QED
  BY <1>1, <1>2, <1>3, TypePartsNext DEF CancelTypes

LEMMA RemoveType ==
  ASSUME TypeOK, NEW m \in Messages, Remove(m)
  PROVE  TypeOK'
<1>1. InboxType'
  BY WithoutType, TypeParts DEF Remove, InboxType
<1>2. StackType'
  BY PushType, TypeParts DEF Remove, StackType, Ops, AbortCauses
<1>3. HistoryType'
  BY CancelHistoryType, TypeParts DEF Remove, Discard, HistoryType
<1>4. /\ DriverType' /\ accepting' \in BOOLEAN /\ PcType' /\ TurnType' /\ WaitType'
      /\ TraceType' /\ BoundType'
  BY KeepsType DEF Remove
<1> QED
  BY <1>1, <1>2, <1>3, <1>4, TypePartsNext

LEMMA PrependType ==
  ASSUME TypeOK, NEW m \in Messages, Prepend(m)
  PROVE  TypeOK'
<1>1. InboxType'
  BY PushProperties, TypeParts DEF Prepend, InboxType
<1>2. StackType'
  BY PushType, TypeParts DEF Prepend, StackType, Ops, AbortCauses
<1>3. /\ DriverType' /\ accepting' \in BOOLEAN /\ PcType' /\ TurnType' /\ WaitType'
      /\ TraceType' /\ HistoryType' /\ BoundType'
  BY KeepsType DEF Prepend
<1> QED
  BY <1>1, <1>2, <1>3, TypePartsNext

LEMMA RunMaintenanceType == TypeOK /\ RunMaintenance => TypeOK'
<1> SUFFICES ASSUME TypeOK, RunMaintenance PROVE TypeOK'
  OBVIOUS
<1>1. DriverType'
  BY TypeParts DEF RunMaintenance, DriverType, AbortCauses
<1>2. WaitType'
  BY WaitReplacedType DEF RunMaintenance
<1>3. BoundType'
  BY TypeParts DEF RunMaintenance, BoundType
<1>4. /\ InboxType' /\ accepting' \in BOOLEAN /\ PcType' /\ StackType' /\ TurnType'
      /\ TraceType' /\ HistoryType'
  BY KeepsType DEF RunMaintenance
<1> QED
  BY <1>1, <1>2, <1>3, <1>4, TypePartsNext

LEMMA CallType == TypeOK /\ Call => TypeOK'
  BY SendType, CancelClearingType, CancelKeepingType, RemoveType, PrependType, DisposeType,
     RunMaintenanceType
  DEF Call

\* The suspended operation that resumes, and those below it.
LEMMA TopType ==
  ASSUME TypeOK, stack # <<>>
  PROVE  /\ Tail(stack) \in Seq(Frames)
         /\ Head(stack).flag \in BOOLEAN /\ Head(stack).after \in BOOLEAN
         /\ Head(stack).cause \in AbortCauses
<1>1. Head(stack) \in Frames /\ Tail(stack) \in Seq(Frames)
  BY TypeParts, HeadTailProperties DEF StackType
<1> QED
  BY <1>1 DEF Frames

LEMMA SendReturnsType == TypeOK /\ SendReturns => TypeOK'
<1> SUFFICES ASSUME TypeOK, SendReturns PROVE TypeOK'
  OBVIOUS
<1>1. WakeTypes'
  <2>1. CASE Head(stack).flag
    BY <2>1, TopType, WakeDriverType DEF SendReturns, Top
  <2>2. CASE ~Head(stack).flag
    <3>1. DriverType' /\ PcType' /\ WaitType'
      BY <2>2, KeepsType DEF SendReturns
    <3>2. StackType'
      BY <2>2, TopType DEF SendReturns, Top, StackType
    <3> QED
      BY <3>1, <3>2 DEF WakeTypes
  <2> QED
    BY <2>1, <2>2
<1>2. accepting' \in BOOLEAN /\ InboxType' /\ TurnType' /\ TraceType' /\ HistoryType' /\ BoundType'
  BY KeepsType DEF SendReturns
<1> QED
  BY <1>1, <1>2, TypePartsNext DEF WakeTypes

LEMMA CancelClearedType == TypeOK /\ CancelCleared => TypeOK'
<1> SUFFICES ASSUME TypeOK, CancelCleared PROVE TypeOK'
  OBVIOUS
<1>1. CancelTypes'
  <2>1. CASE nextTurn # <<>>
    BY <2>1, TopType, ClearTurnsType DEF CancelCleared, Top
  <2>2. CASE nextTurn = <<>>
    BY <2>2, TopType, FireAbortType DEF CancelCleared, Top
  <2> QED
    BY <2>1, <2>2
<1>2. HistoryType'
  BY <1>1, CancelHistoryType DEF CancelTypes, CancelCleared
<1>3. accepting' \in BOOLEAN /\ PcType' /\ TurnType' /\ TraceType' /\ BoundType'
  BY KeepsType DEF CancelCleared
<1> QED
  BY <1>1, <1>2, <1>3, TypePartsNext DEF CancelTypes

LEMMA CancelAbortsType == TypeOK /\ CancelAborts => TypeOK'
<1> SUFFICES ASSUME TypeOK, CancelAborts PROVE TypeOK'
  OBVIOUS
<1>1. CancelTypes'
  BY TopType, FireAbortType DEF CancelAborts, Top
<1>2. HistoryType'
  BY <1>1, CancelHistoryType DEF CancelTypes, CancelAborts
<1>3. accepting' \in BOOLEAN /\ PcType' /\ TurnType' /\ TraceType' /\ BoundType'
  BY KeepsType DEF CancelAborts
<1> QED
  BY <1>1, <1>2, <1>3, TypePartsNext DEF CancelTypes

LEMMA RemoveReturnsType == TypeOK /\ RemoveReturns => TypeOK'
<1> SUFFICES ASSUME TypeOK, RemoveReturns PROVE TypeOK'
  OBVIOUS
<1>1. StackType'
  BY TopType DEF RemoveReturns, Top, StackType
<1>2. /\ DriverType' /\ accepting' \in BOOLEAN /\ InboxType' /\ PcType' /\ TurnType' /\ WaitType'
      /\ TraceType' /\ HistoryType' /\ BoundType'
  BY KeepsType DEF RemoveReturns
<1> QED
  BY <1>1, <1>2, TypePartsNext

LEMMA KickReplaysType == TypeOK /\ KickReplays => TypeOK'
<1> SUFFICES ASSUME TypeOK, KickReplays PROVE TypeOK'
  OBVIOUS
<1>1. WakeTypes'
  <2>1. CASE Replays
    BY <2>1, TopType, WakeDriverType DEF KickReplays, Top
  <2>2. CASE ~Replays
    <3>1. DriverType' /\ PcType'
      BY <2>2, KeepsType DEF KickReplays
    <3>2. WaitType'
      BY <2>2, TypeParts DEF KickReplays, WaitType
    <3>3. StackType'
      BY <2>2, TopType DEF KickReplays, Top, StackType
    <3> QED
      BY <3>1, <3>2, <3>3 DEF WakeTypes
  <2> QED
    BY <2>1, <2>2
<1>2. accepting' \in BOOLEAN /\ InboxType' /\ TurnType' /\ TraceType' /\ HistoryType' /\ BoundType'
  BY KeepsType DEF KickReplays
<1> QED
  BY <1>1, <1>2, TypePartsNext DEF WakeTypes

LEMMA UnwindType == TypeOK /\ Unwind => TypeOK'
  BY SendReturnsType, CancelClearedType, CancelAbortsType, RemoveReturnsType, KickReplaysType
  DEF Unwind

-----------------------------------------------------------------------------
(* The driver.                                                             *)

LEMMA MaintenanceEndsType == TypeOK /\ MaintenanceEnds => TypeOK'
<1> SUFFICES ASSUME TypeOK, MaintenanceEnds PROVE TypeOK'
  OBVIOUS
<1>1. WakeTypes'
  <2>1. CASE wakeRequested /\ HasPending
    BY <2>1, StartDriverType, EmptySeq DEF MaintenanceEnds
  <2>2. CASE ~(wakeRequested /\ HasPending)
    <3>1. DriverType' /\ WaitType'
      BY <2>2, TypeParts DEF MaintenanceEnds, DriverType, WaitType, AbortCauses
    <3>2. PcType' /\ StackType'
      BY <2>2, KeepsType DEF MaintenanceEnds
    <3> QED
      BY <3>1, <3>2 DEF WakeTypes
  <2> QED
    BY <2>1, <2>2
<1>2. accepting' \in BOOLEAN /\ InboxType' /\ TurnType' /\ TraceType' /\ HistoryType' /\ BoundType'
  BY KeepsType DEF MaintenanceEnds
<1> QED
  BY <1>1, <1>2, TypePartsNext DEF WakeTypes

LEMMA WaiterType == TypeOK /\ Waiter => TypeOK'
<1> SUFFICES ASSUME TypeOK, Waiter PROVE TypeOK'
  OBVIOUS
<1>1. WaitType'
  BY TypeParts DEF Waiter, WaiterLoops, WaiterReturns, WaitType
<1>2. /\ DriverType' /\ accepting' \in BOOLEAN /\ InboxType' /\ PcType' /\ StackType'
      /\ TurnType' /\ TraceType' /\ HistoryType' /\ BoundType'
  BY KeepsType DEF Waiter, WaiterLoops, WaiterReturns
<1> QED
  BY <1>1, <1>2, TypePartsNext

\* Wherever the driver goes on, it leaves a well-typed control state.
LEMMA DriverMoves ==
  ASSUME TypeOK, NEW p \in SyncPoints \cup AwaitPoints, Emit(p) \/ Await(p)
  PROVE  PcType' /\ StackType'
<1>1. BelowDriver \in Seq(Frames)
  BY HeadTailProperties, TypeParts DEF BelowDriver, Top, StackType
<1>2. <<DriverFrame>> \o BelowDriver \in Seq(Frames)
  BY <1>1, DriverFrameType, PushProperties
<1>3. stack' \in Seq(Frames)
  BY <1>1, <1>2 DEF Emit, Await
<1>4. pc' = p
  BY DEF Emit, Await
<1> QED
  BY <1>3, <1>4 DEF PcType, StackType

LEMMA AppendTypes ==
  ASSUME TypeOK, NEW n \in Nat,
         AppendTurnStart(n) \/ AppendTurnEnd \/ AppendStepStart(n) \/ AppendStepEnd
  PROVE  TraceType'
<1> USE TypeParts DEF TraceType
<1>0. trace.nextTurn + 1 \in Nat /\ trace.nextStep + 1 \in Nat
  OBVIOUS
<1>1. CASE AppendTurnStart(n)
  BY <1>1 DEF AppendTurnStart
<1>2. CASE AppendTurnEnd
  BY <1>0, <1>2 DEF AppendTurnEnd
<1>3. CASE AppendStepStart(n)
  BY <1>3 DEF AppendStepStart
<1>4. CASE AppendStepEnd
  BY <1>0, <1>4 DEF AppendStepEnd
<1> QED
  BY <1>1, <1>2, <1>3, <1>4

\* What a step of the driver leaves of the turn's state.
EndTypes ==
  turnEnds \in Endings /\ continues \in BOOLEAN /\ TraceType /\ PcType /\ StackType

LEMMA CloseTurnType ==
  ASSUME TypeOK, NEW reason \in Endings, NEW e \in BOOLEAN, CloseTurn(reason, e)
  PROVE  EndTypes'
<1>1. PcType' /\ StackType'
  BY DriverMoves DEF CloseTurn, SyncPoints
<1>2. TraceType'
  BY AppendTypes DEF CloseTurn
<1>3. turnEnds' \in Endings /\ continues' \in BOOLEAN
  BY DEF CloseTurn
<1> QED
  BY <1>1, <1>2, <1>3 DEF EndTypes

LEMMA FailTurnType ==
  ASSUME TypeOK, FailTurn
  PROVE  EndTypes'
<1>1. CASE Aborted
  BY <1>1, CloseTurnType DEF FailTurn, Endings
<1>2. CASE ~Aborted
  <2>1. PcType' /\ StackType'
    BY <1>2, DriverMoves DEF FailTurn, SyncPoints
  <2>2. TraceType'
    BY <1>2, KeepsType DEF FailTurn
  <2>3. turnEnds' \in Endings /\ continues' \in BOOLEAN
    BY <1>2 DEF FailTurn, Endings
  <2> QED
    BY <2>1, <2>2, <2>3 DEF EndTypes
<1> QED
  BY <1>1, <1>2

\* A claim moves to its first splice, or past the splices it has nothing for.
LEMMA ClaimMovesTo ==
  ASSUME Claim \/ \E claimed \in BOOLEAN : ClaimPromptOr(claimed)
  PROVE  Emit("claimingSteps") \/ Emit("claimingPrompt") \/ Emit("claimed") \/ Await("preStep")
  BY DEF Claim, ClaimPromptOr

LEMMA ClaimType ==
  ASSUME TypeOK, Claim \/ \E claimed \in BOOLEAN : ClaimPromptOr(claimed)
  PROVE  PcType' /\ StackType'
  BY ClaimMovesTo, DriverMoves DEF SyncPoints, AwaitPoints

LEMMA ClaimedIntoType ==
  ASSUME TypeOK, NEW batch, ClaimedInto(batch)
  PROVE  claimedBy' \in [Messages -> Nat]
  BY DEF ClaimedInto, TypeOK

\* Steps that move within the turn, end it or fail it.
LEMMA TurnOnlyType ==
  ASSUME TypeOK, TurnOnly, EndTypes'
  PROVE  TypeOK'
<1>1. TurnType'
  BY TypeParts DEF TurnOnly, EndTypes, TurnType
<1>2. /\ DriverType' /\ accepting' \in BOOLEAN /\ InboxType' /\ WaitType' /\ HistoryType'
      /\ BoundType'
  BY KeepsType DEF TurnOnly
<1> QED
  BY <1>1, <1>2, TypePartsNext DEF EndTypes

LEMMA ControlOnlyType ==
  ASSUME TypeOK, ControlOnly, NEW p \in SyncPoints \cup AwaitPoints, Emit(p) \/ Await(p)
  PROVE  TypeOK'
<1>1. PcType' /\ StackType'
  BY DriverMoves
<1>2. /\ DriverType' /\ accepting' \in BOOLEAN /\ InboxType' /\ TurnType' /\ WaitType'
      /\ TraceType' /\ HistoryType' /\ BoundType'
  BY KeepsType DEF ControlOnly
<1> QED
  BY <1>1, <1>2, TypePartsNext

LEMMA SameEndType ==
  ASSUME TypeOK, UNCHANGED <<trace, turnEnds, continues>>, PcType', StackType'
  PROVE  EndTypes'
<1>1. TraceType'
  BY KeepsType
<1> QED
  BY <1>1, TypeParts DEF EndTypes, TurnType

LEMMA TurnStartsType == TypeOK /\ TurnStarts => TypeOK'
<1> SUFFICES ASSUME TypeOK, TurnStarts PROVE TypeOK'
  OBVIOUS
<1>1. /\ PcType' /\ StackType' /\ TurnType' /\ TraceType'
      /\ turn' \in Nat /\ owed' \subseteq Messages /\ dropped' \subseteq Messages
  <2>1. CASE Aborted
    <3>1. PcType' /\ StackType'
      BY <2>1, DriverMoves DEF TurnStarts, AwaitPoints
    <3>2. /\ TurnType' /\ TraceType' /\ turn' \in Nat /\ owed' \subseteq Messages
          /\ dropped' \subseteq Messages
      BY <2>1, KeepsType, TypeParts DEF TurnStarts, DriverType, HistoryType
    <3> QED
      BY <3>1, <3>2
  <2>2. CASE ~Aborted
    <3>1. PcType' /\ StackType'
      BY <2>2, DriverMoves DEF TurnStarts, SyncPoints
    <3>2. turn + 1 \in Nat
      BY TypeParts DEF DriverType
    <3>3. TraceType'
      BY <2>2, <3>2, AppendTypes DEF TurnStarts
    <3>4. TurnType' /\ turn' \in Nat /\ owed' \subseteq Messages /\ dropped' \subseteq Messages
      BY <2>2, <3>2, TypeParts DEF TurnStarts, TurnType, Endings
    <3> QED
      BY <3>1, <3>3, <3>4
  <2> QED
    BY <2>1, <2>2
<1>2. DriverType'
  BY <1>1, TypeParts DEF TurnStarts, DriverType
<1>3. HistoryType'
  BY <1>1, TypeParts DEF TurnStarts, HistoryType
<1>4. accepting' \in BOOLEAN /\ InboxType' /\ WaitType' /\ BoundType'
  BY KeepsType DEF TurnStarts
<1> QED
  BY <1>1, <1>2, <1>3, <1>4, TypePartsNext

LEMMA TurnReturnsType == TypeOK /\ TurnReturns => TypeOK'
<1> SUFFICES ASSUME TypeOK, TurnReturns PROVE TypeOK'
  OBVIOUS
<1>1. PcType' /\ StackType'
  BY DriverMoves DEF TurnReturns, AwaitPoints
<1>2. DriverType'
  <2>1. CASE continues /\ HasPending
    <3>1. /\ phase' = phase /\ turn' = turn /\ step' = 0 /\ abort' = "none"
          /\ wakeRequested' = FALSE
      BY <2>1 DEF TurnReturns
    <3> QED
      BY <3>1, TypeParts DEF DriverType, AbortCauses
  <2>2. CASE ~(continues /\ HasPending)
    <3>1. UNCHANGED driverVars
      BY <2>2 DEF TurnReturns, driverVars
    <3> QED
      BY <3>1, KeepsType
  <2> QED
    BY <2>1, <2>2
<1>3. /\ accepting' \in BOOLEAN /\ InboxType' /\ TurnType' /\ WaitType' /\ TraceType'
      /\ HistoryType' /\ BoundType'
  BY KeepsType DEF TurnReturns
<1> QED
  BY <1>1, <1>2, <1>3, TypePartsNext

LEMMA KickExitsType == TypeOK /\ KickExits => TypeOK'
<1> SUFFICES ASSUME TypeOK, KickExits PROVE TypeOK'
  OBVIOUS
<1>1. DriverType'
  BY TypeParts DEF KickExits, DriverType, AbortCauses
<1>2. PcType'
  BY DEF KickExits, PcType
<1>3. StackType'
  <2>1. Frame("replay", wakeRequested, FALSE, "none") \in Frames
    <3>1. "replay" \in Ops /\ "none" \in AbortCauses /\ wakeRequested \in BOOLEAN
      BY TypeParts DEF DriverType, Ops, AbortCauses
    <3> QED
      BY <3>1, FrameType
  <2> QED
    <3>1. stack' = <<Frame("replay", wakeRequested, FALSE, "none")>>
      BY DEF KickExits
    <3>2. \A f \in Frames : <<f>> \in Seq(Frames)
      OBVIOUS
    <3> QED
      BY <2>1, <3>1, <3>2 DEF StackType
<1>4. /\ accepting' \in BOOLEAN /\ InboxType' /\ TurnType' /\ WaitType' /\ TraceType'
      /\ HistoryType' /\ BoundType'
  BY KeepsType DEF KickExits
<1> QED
  BY <1>1, <1>2, <1>3, <1>4, TypePartsNext

LEMMA FirstClaimType == TypeOK /\ FirstClaim => TypeOK'
<1> SUFFICES ASSUME TypeOK, FirstClaim PROVE TypeOK'
  OBVIOUS
<1>1. EndTypes'
  <2>1. CASE Aborted
    BY <2>1, FailTurnType DEF FirstClaim
  <2>2. CASE ~Aborted
    BY <2>2, ClaimType, SameEndType DEF FirstClaim
  <2> QED
    BY <2>1, <2>2
<1> QED
  BY <1>1, TurnOnlyType DEF FirstClaim

LEMMA ClaimsStepsType == TypeOK /\ ClaimsSteps => TypeOK'
<1> SUFFICES ASSUME TypeOK, ClaimsSteps PROVE TypeOK'
  OBVIOUS
<1>1. PcType' /\ StackType'
  BY ClaimType DEF ClaimsSteps
<1>2. InboxType'
  BY TypeParts, EmptySeq DEF ClaimsSteps, InboxType
<1>3. HistoryType'
  BY ClaimedIntoType, TypeParts DEF ClaimsSteps, HistoryType
<1>4. /\ DriverType' /\ accepting' \in BOOLEAN /\ TurnType' /\ WaitType' /\ TraceType'
      /\ BoundType'
  BY KeepsType DEF ClaimsSteps
<1> QED
  BY <1>1, <1>2, <1>3, <1>4, TypePartsNext

LEMMA ClaimsPromptType == TypeOK /\ ClaimsPrompt => TypeOK'
<1> SUFFICES ASSUME TypeOK, ClaimsPrompt PROVE TypeOK'
  OBVIOUS
<1>1. PcType' /\ StackType'
  BY DriverMoves DEF ClaimsPrompt, SyncPoints
<1>2. FirstPrompt \subseteq Messages /\ OtherPrompts \in Seq(Messages)
  BY HeadTailProperties, EmptySeq DEF FirstPrompt, OtherPrompts, TypeOK
<1>3. InboxType'
  BY <1>2, TypeParts DEF ClaimsPrompt, InboxType
<1>4. HistoryType'
  BY <1>2, ClaimedIntoType, TypeParts DEF ClaimsPrompt, HistoryType
<1>5. /\ DriverType' /\ accepting' \in BOOLEAN /\ TurnType' /\ WaitType' /\ TraceType'
      /\ BoundType'
  BY KeepsType DEF ClaimsPrompt
<1> QED
  BY <1>1, <1>3, <1>4, <1>5, TypePartsNext

LEMMA StepEndedType == TypeOK /\ StepEnded => TypeOK'
<1> SUFFICES ASSUME TypeOK, StepEnded PROVE TypeOK'
  OBVIOUS
<1>1. EndTypes'
  <2>1. CASE Aborted
    BY <2>1, FailTurnType DEF StepEnded
  <2>2. CASE ~Aborted /\ Await("stopping")
    BY <2>2, DriverMoves, SameEndType DEF StepEnded, AwaitPoints
  <2>3. CASE ~Aborted /\ Claim
    BY <2>3, ClaimType, SameEndType DEF StepEnded
  <2> QED
    BY <2>1, <2>2, <2>3 DEF StepEnded
<1> QED
  BY <1>1, TurnOnlyType DEF StepEnded

LEMMA StoppingSettlesType == TypeOK /\ StoppingSettles => TypeOK'
<1> SUFFICES ASSUME TypeOK, StoppingSettles PROVE TypeOK'
  OBVIOUS
<1>1. EndTypes'
  <2>1. CASE nextStep = <<>>
    <3>1. turnEnds \in Endings
      BY TypeParts DEF TurnType
    <3> QED
      BY <2>1, <3>1, CloseTurnType DEF StoppingSettles
  <2>2. CASE nextStep # <<>>
    BY <2>2, ClaimType, SameEndType DEF StoppingSettles
  <2> QED
    BY <2>1, <2>2
<1> QED
  BY <1>1, TurnOnlyType DEF StoppingSettles

LEMMA StepEntersType == TypeOK /\ StepEnters => TypeOK'
<1> SUFFICES ASSUME TypeOK, StepEnters PROVE TypeOK'
  OBVIOUS
<1>1. EndTypes' /\ step' \in Nat /\ owes' \in BOOLEAN
  <2>1. CASE Aborted
    BY <2>1, FailTurnType, TypeParts DEF StepEnters, DriverType, TurnType
  <2>2. CASE ~Aborted
    <3>1. PcType' /\ StackType'
      BY <2>2, DriverMoves DEF StepEnters, AwaitPoints
    <3>2. step + 1 \in Nat
      BY TypeParts DEF DriverType
    <3>3. TraceType'
      BY <2>2, <3>2, AppendTypes DEF StepEnters
    <3>4. step' \in Nat /\ owes' \in BOOLEAN /\ turnEnds' \in Endings /\ continues' \in BOOLEAN
      BY <2>2, <3>2, TypeParts DEF StepEnters, TurnType
    <3> QED
      BY <3>1, <3>3, <3>4 DEF EndTypes
  <2> QED
    BY <2>1, <2>2
<1>2. DriverType'
  BY <1>1, TypeParts DEF StepEnters, DriverType
<1>3. TurnType'
  BY <1>1, TypeParts DEF StepEnters, EndTypes, TurnType
<1>4. accepting' \in BOOLEAN /\ InboxType' /\ WaitType' /\ HistoryType' /\ BoundType'
  BY KeepsType DEF StepEnters
<1> QED
  BY <1>1, <1>2, <1>3, <1>4, TypePartsNext DEF EndTypes

LEMMA StepReturnsType ==
  ASSUME TypeOK, NEW result \in Endings, StepReturns(result)
  PROVE  TypeOK'
<1>1. PcType' /\ StackType'
  BY DriverMoves DEF StepReturns, SyncPoints
<1>2. TraceType'
  BY AppendTypes DEF StepReturns
<1>3. TurnType'
  BY TypeParts DEF StepReturns, TurnType
<1>4. DriverType' /\ accepting' \in BOOLEAN /\ InboxType' /\ WaitType' /\ HistoryType' /\ BoundType'
  BY KeepsType DEF StepReturns
<1> QED
  BY <1>1, <1>2, <1>3, <1>4, TypePartsNext

LEMMA StepThrowsType == TypeOK /\ StepThrows => TypeOK'
<1> SUFFICES ASSUME TypeOK, StepThrows PROVE TypeOK'
  OBVIOUS
<1>1. PcType' /\ StackType'
  BY DriverMoves DEF StepThrows, SyncPoints
<1>2. TraceType'
  BY AppendTypes DEF StepThrows
<1>3. EndTypes'
  BY <1>1, <1>2, TypeParts DEF StepThrows, EndTypes, TurnType
<1> QED
  BY <1>3, TurnOnlyType DEF StepThrows

LEMMA ToolContextType ==
  ASSUME TypeOK, NEW m \in Messages, ToolContext(m)
  PROVE  TypeOK'
<1>1. PcType' /\ StackType'
  BY DriverMoves DEF ToolContext, SyncPoints
<1>2. InboxType'
  BY AppendProperties, TypeParts DEF ToolContext, InboxType
<1>3. /\ DriverType' /\ accepting' \in BOOLEAN /\ TurnType' /\ WaitType' /\ TraceType'
      /\ HistoryType' /\ BoundType'
  BY KeepsType DEF ToolContext
<1> QED
  BY <1>1, <1>2, <1>3, TypePartsNext

LEMMA DriverStepType == TypeOK /\ Driver => TypeOK'
<1> SUFFICES ASSUME TypeOK, Driver PROVE TypeOK'
  OBVIOUS
<1>1. turnEnds \in Endings /\ "blocked" \in Endings /\ "completed" \in Endings
        /\ "error" \in Endings /\ "none" \in Endings /\ "max-tokens" \in Endings
  BY TypeParts DEF TurnType, Endings
<1>2. CASE TurnBoundary
  <2>1. CASE ErrorReported
    BY <1>1, <2>1, CloseTurnType, TurnOnlyType DEF ErrorReported
  <2> QED
    BY <1>2, <2>1, TurnStartsType, TurnReturnsType, KickExitsType DEF TurnBoundary
<1>3. CASE PreStep
  <2>1. CASE ClaimNotified
    BY <2>1, ControlOnlyType DEF ClaimNotified, AwaitPoints
  <2>2. CASE PreStepDecides
    BY <2>2, ControlOnlyType DEF PreStepDecides, AwaitPoints
  <2>3. CASE PreStepFails
    BY <2>3, FailTurnType, TurnOnlyType DEF PreStepFails
  <2> QED
    BY <1>3, <2>1, <2>2, <2>3, FirstClaimType, ClaimsStepsType, ClaimsPromptType DEF PreStep
<1>4. CASE EnterStep
  <2>1. CASE StepRejected
    BY <1>1, <2>1, CloseTurnType, TurnOnlyType DEF StepRejected
  <2>2. CASE StepNotNeeded
    BY <1>1, <2>2, CloseTurnType, TurnOnlyType DEF StepNotNeeded
  <2> QED
    BY <1>4, <2>1, <2>2, StepEntersType DEF EnterStep
<1>5. CASE ModelStep
  <2>1. CASE ModelStops
    BY <1>1, <2>1, StepReturnsType DEF ModelStops
  <2>2. CASE ModelCallsTools \/ RequestFails \/ RequestRetries
    BY <2>2, ControlOnlyType DEF ModelCallsTools, RequestFails, RequestRetries, AwaitPoints
  <2> QED
    BY <1>5, <2>1, <2>2, StepThrowsType DEF ModelStep
<1>6. CASE ToolStep
  <2>1. CASE ToolsReturn
    BY <1>1, <2>1, StepReturnsType DEF ToolsReturn
  <2>2. CASE ContextNotified
    BY <2>2, ControlOnlyType DEF ContextNotified, AwaitPoints
  <2> QED
    BY <1>6, <2>1, <2>2, ToolContextType DEF ToolStep
<1>7. CASE EndStep
  BY <1>7, StepEndedType, StoppingSettlesType, FailTurnType, TurnOnlyType
  DEF EndStep, StepFailed, StoppingFails
<1> QED
  BY <1>2, <1>3, <1>4, <1>5, <1>6, <1>7 DEF Driver

LEMMA StutterType == TypeOK /\ UNCHANGED vars => TypeOK'
<1> SUFFICES ASSUME TypeOK, UNCHANGED vars PROVE TypeOK'
  OBVIOUS
<1>1. /\ DriverType' /\ accepting' \in BOOLEAN /\ InboxType' /\ PcType' /\ StackType'
      /\ TurnType' /\ WaitType' /\ TraceType' /\ HistoryType' /\ BoundType'
  BY KeepsType DEF vars
<1> QED
  BY <1>1, TypePartsNext

LEMMA NextType == TypeOK /\ [Next]_vars => TypeOK'
  BY CallType, UnwindType, DriverStepType, MaintenanceEndsType, WaiterType, StutterType DEF Next

\* Every variable keeps to its type, in every interleaving of the driver with
\* its callers and listeners.
THEOREM TypeCorrect == Spec => []TypeOK
<1>1. Init => TypeOK
  BY InitType
<1>2. TypeOK /\ [Next]_vars => TypeOK'
  BY NextType
<1> QED
  BY <1>1, <1>2, PTL DEF Spec

-----------------------------------------------------------------------------
(* The driver and its log: where the driver is determines what is open in  *)
(* the log and the number the next event must carry.  This is inductive,   *)
(* while the properties it implies are not.                                *)

OpenPoints == {"opened", "claimingSteps", "claimingPrompt", "claimed", "preStep", "rejected",
               "emptied", "entered", "request", "requestError", "tools", "context", "stepEnded",
               "stepFailed", "stopping", "failing"}
StepPoints == {"request", "requestError", "tools", "context"}
TurnOpen == pc \in OpenPoints
StepOpen == pc \in StepPoints

DriverInLog ==
  /\ pc = "none" <=> phase # "running"
  /\ trace.openTurn = IF TurnOpen THEN turn ELSE 0
  /\ trace.nextTurn = IF TurnOpen THEN turn ELSE turn + 1
  /\ trace.openStep = IF StepOpen THEN step ELSE 0
  /\ TurnOpen => turn >= 1 /\ trace.nextStep = IF StepOpen THEN step ELSE step + 1
  /\ StepOpen => step >= 1
  /\ pc \in {"start", "nextTurn", "claimingPrompt"} => step = 0
  /\ pc \in {"stepEnded", "stopping"} => step >= 1

EndingInLog ==
  /\ pc \in {"turnEnded", "stopping"} => turnEnds # "none"
  /\ cut => IF TurnOpen /\ pc # "failing" THEN turnEnds = "max-tokens"
            ELSE turnEnds \notin {"none", "completed"}

LogInv == TypeOK /\ DriverInLog /\ EndingInLog

\* What the abstract log sees of a step.
LogStep == Log!TraceNext \/ UNCHANGED trace

logVars == <<phase, turn, step, pc, turnEnds, cut, trace>>

LEMMA LogKept ==
  ASSUME LogInv, UNCHANGED logVars
  PROVE  DriverInLog' /\ EndingInLog' /\ LogStep
<1>1. /\ phase' = phase /\ turn' = turn /\ step' = step /\ pc' = pc /\ turnEnds' = turnEnds
      /\ cut' = cut /\ trace' = trace
  BY DEF logVars
<1>2. TurnOpen' = TurnOpen /\ StepOpen' = StepOpen
  BY <1>1 DEF TurnOpen, StepOpen
<1>3. DriverInLog'
  BY <1>1, <1>2 DEF LogInv, DriverInLog
<1>4. EndingInLog'
  BY <1>1, <1>2 DEF LogInv, EndingInLog
<1> QED
  BY <1>1, <1>3, <1>4 DEF LogStep

LEMMA InitLog == Init => DriverInLog /\ EndingInLog
<1> SUFFICES ASSUME Init PROVE DriverInLog /\ EndingInLog
  OBVIOUS
<1>1. pc = "none" /\ phase = "idle" /\ turn = FirstTurn /\ step = 0 /\ cut = FALSE
  BY DEF Init
<1>2. trace.openTurn = 0 /\ trace.openStep = 0 /\ trace.nextTurn = FirstTurn + 1
  BY DEF Init
<1>3. ~TurnOpen /\ ~StepOpen
  BY <1>1 DEF TurnOpen, StepOpen, OpenPoints, StepPoints
<1> QED
  BY <1>1, <1>2, <1>3 DEF DriverInLog, EndingInLog

\* The fields an append changes.
LEMMA AppendFields ==
  ASSUME TypeOK, NEW n
  PROVE  /\ AppendTurnStart(n) =>
              trace'.openTurn = n /\ trace'.nextStep = 1 /\ trace'.openStep = trace.openStep
                /\ trace'.nextTurn = trace.nextTurn
         /\ AppendTurnEnd =>
              trace'.openTurn = 0 /\ trace'.nextTurn = trace.nextTurn + 1
                /\ trace'.openStep = trace.openStep /\ trace'.nextStep = trace.nextStep
         /\ AppendStepStart(n) =>
              trace'.openStep = n /\ trace'.openTurn = trace.openTurn
                /\ trace'.nextTurn = trace.nextTurn /\ trace'.nextStep = trace.nextStep
         /\ AppendStepEnd =>
              trace'.openStep = 0 /\ trace'.nextStep = trace.nextStep + 1
                /\ trace'.openTurn = trace.openTurn /\ trace'.nextTurn = trace.nextTurn
  BY DEF TypeOK, AppendTurnStart, AppendTurnEnd, AppendStepStart, AppendStepEnd

\* Where each append is the abstract log's event.
LEMMA AppendSteps ==
  ASSUME TypeOK
  PROVE  /\ AppendTurnStart(trace.nextTurn) /\ trace.openTurn = 0 => LogStep
         /\ AppendTurnEnd /\ trace.openTurn # 0 /\ trace.openStep = 0 => LogStep
         /\ AppendStepStart(trace.nextStep) /\ trace.openTurn # 0 /\ trace.openStep = 0 => LogStep
         /\ AppendStepEnd /\ trace.openTurn # 0 /\ trace.openStep # 0 => LogStep
<1>1. AppendTurnStart(trace.nextTurn) /\ trace.openTurn = 0 => LogStep
  BY AppendFields DEF LogStep, Log!TraceNext, Log!TurnStart
<1>2. AppendTurnEnd /\ trace.openTurn # 0 /\ trace.openStep = 0 => LogStep
  BY AppendFields DEF LogStep, Log!TraceNext, Log!TurnEnd
<1>3. AppendStepStart(trace.nextStep) /\ trace.openTurn # 0 /\ trace.openStep = 0 => LogStep
  BY AppendFields DEF LogStep, Log!TraceNext, Log!StepStart
<1>4. AppendStepEnd /\ trace.openTurn # 0 /\ trace.openStep # 0 => LogStep
  BY AppendFields DEF LogStep, Log!TraceNext, Log!StepEnd
<1> QED
  BY <1>1, <1>2, <1>3, <1>4

-----------------------------------------------------------------------------
(* Calls leave the log alone; a wake may start a driver, outside any turn.  *)

LEMMA StartDriverLog ==
  ASSUME LogInv, phase = "idle", NEW rest, StartDriver(rest), UNCHANGED <<turnVars, trace>>
  PROVE  DriverInLog' /\ EndingInLog' /\ LogStep
<1>1. /\ phase' = "running" /\ turn' = turn /\ step' = 0 /\ pc' = "start"
      /\ turnEnds' = turnEnds /\ cut' = cut /\ trace' = trace
  BY DEF StartDriver, turnVars
<1>2. pc = "none"
  BY DEF LogInv, DriverInLog
<1>3. ~TurnOpen /\ ~StepOpen /\ ~TurnOpen' /\ ~StepOpen'
  BY <1>1, <1>2 DEF TurnOpen, StepOpen, OpenPoints, StepPoints
<1>4. DriverInLog'
  BY <1>1, <1>3 DEF LogInv, DriverInLog
<1>5. EndingInLog'
  BY <1>1, <1>3 DEF LogInv, EndingInLog
<1> QED
  BY <1>1, <1>4, <1>5 DEF LogStep

LEMMA WakeDriverLog ==
  ASSUME LogInv, NEW after, NEW rest, WakeDriver(after, rest), UNCHANGED <<turnVars, trace>>
  PROVE  DriverInLog' /\ EndingInLog' /\ LogStep
<1>1. CASE phase = "idle"
  BY <1>1, StartDriverLog DEF WakeDriver
<1>2. CASE phase # "idle"
  <2>1. UNCHANGED logVars
    BY <1>2 DEF WakeDriver, logVars, turnVars
  <2> QED
    BY <2>1, LogKept
<1> QED
  BY <1>1, <1>2

LEMMA CancelFromLog ==
  ASSUME NEW cause, NEW rest, CancelFrom(cause, rest)
  PROVE  phase' = phase /\ turn' = turn /\ step' = step
  BY DEF CancelFrom, ClearTurns, FireAbort, driverVars

LEMMA CallLog ==
  ASSUME LogInv, Call
  PROVE  DriverInLog' /\ EndingInLog' /\ LogStep
<1>1. CASE RunMaintenance
  <2>1. /\ phase = "idle" /\ phase' = "maintenance" /\ turn' = turn /\ step' = step
        /\ pc' = pc /\ turnEnds' = turnEnds /\ cut' = cut /\ trace' = trace
    BY <1>1 DEF RunMaintenance, turnVars
  <2>2. TurnOpen' = TurnOpen /\ StepOpen' = StepOpen
    BY <2>1 DEF TurnOpen, StepOpen
  <2> QED
    BY <2>1, <2>2 DEF LogInv, DriverInLog, EndingInLog, LogStep
<1>2. CASE Dispose
  <2>1. UNCHANGED logVars
    BY <1>2, CancelFromLog DEF Dispose, turnVars, logVars
  <2> QED
    BY <2>1, LogKept
<1>3. CASE \E c \in Causes : CancelClearing(c) \/ CancelKeeping(c)
  <2>1. UNCHANGED logVars
    BY <1>3, CancelFromLog DEF CancelClearing, CancelKeeping, FireAbort, turnVars, logVars
  <2> QED
    BY <2>1, LogKept
<1>4. CASE \E m \in Messages : Remove(m) \/ Prepend(m)
  <2>1. UNCHANGED logVars
    BY <1>4 DEF Remove, Prepend, driverVars, turnVars, logVars
  <2> QED
    BY <2>1, LogKept
<1>5. CASE \E m \in Messages, t \in {"next-turn", "next-step"}, w \in BOOLEAN : Send(m, t, w)
  <2>1. UNCHANGED logVars
    BY <1>5 DEF Send, driverVars, turnVars, logVars
  <2> QED
    BY <2>1, LogKept
<1> QED
  BY <1>1, <1>2, <1>3, <1>4, <1>5 DEF Call

LEMMA UnwindLog ==
  ASSUME LogInv, Unwind
  PROVE  DriverInLog' /\ EndingInLog' /\ LogStep
<1>1. CASE SendReturns
  <2>1. CASE Head(stack).flag
    BY <1>1, <2>1, WakeDriverLog DEF SendReturns
  <2>2. CASE ~Head(stack).flag
    <3>1. UNCHANGED logVars
      BY <1>1, <2>2 DEF SendReturns, driverVars, turnVars, logVars
    <3> QED
      BY <3>1, LogKept
  <2> QED
    BY <2>1, <2>2
<1>2. CASE KickReplays
  <2>1. CASE Replays
    BY <1>2, <2>1, WakeDriverLog DEF KickReplays
  <2>2. CASE ~Replays
    <3>1. UNCHANGED logVars
      BY <1>2, <2>2 DEF KickReplays, driverVars, turnVars, logVars
    <3> QED
      BY <3>1, LogKept
  <2> QED
    BY <2>1, <2>2
<1>3. CASE CancelCleared \/ CancelAborts \/ RemoveReturns
  <2>1. UNCHANGED logVars
    BY <1>3 DEF CancelCleared, CancelAborts, RemoveReturns, ClearTurns, FireAbort, driverVars,
                turnVars, logVars
  <2> QED
    BY <2>1, LogKept
<1> QED
  BY <1>1, <1>2, <1>3 DEF Unwind

LEMMA MaintenanceEndsLog ==
  ASSUME LogInv, MaintenanceEnds
  PROVE  DriverInLog' /\ EndingInLog' /\ LogStep
<1>1. phase = "maintenance" /\ pc = "none"
  BY DEF MaintenanceEnds, LogInv, DriverInLog
<1>2. /\ phase' \in {"idle", "running"} /\ turn' = turn /\ turnEnds' = turnEnds /\ cut' = cut
      /\ trace' = trace
      /\ IF phase' = "idle" THEN pc' = pc ELSE pc' = "start" /\ step' = 0
  BY DEF MaintenanceEnds, StartDriver, turnVars
<1>3. ~TurnOpen /\ ~StepOpen /\ ~TurnOpen' /\ ~StepOpen'
  BY <1>1, <1>2 DEF TurnOpen, StepOpen, OpenPoints, StepPoints
<1>4. DriverInLog'
  BY <1>1, <1>2, <1>3 DEF LogInv, DriverInLog
<1>5. EndingInLog'
  BY <1>1, <1>2, <1>3 DEF LogInv, EndingInLog
<1> QED
  BY <1>2, <1>4, <1>5 DEF LogStep

LEMMA WaiterLog ==
  ASSUME LogInv, Waiter
  PROVE  DriverInLog' /\ EndingInLog' /\ LogStep
<1>1. UNCHANGED logVars
  BY DEF Waiter, WaiterLoops, WaiterReturns, driverVars, turnVars, logVars
<1> QED
  BY <1>1, LogKept

-----------------------------------------------------------------------------
(* The driver's own steps.                                                 *)

\* Moving between two points of the same turn, in or out of a step.
LEMMA MoveLog ==
  ASSUME LogInv, pc \in OpenPoints \ {"failing"}, pc' \in OpenPoints \ {"failing"},
         pc \in StepPoints <=> pc' \in StepPoints, pc' = "stopping" => turnEnds # "none",
         pc' = "claimingPrompt" => step = 0, pc' \in {"stepEnded", "stopping"} => step >= 1,
         UNCHANGED <<phase, turn, step, turnEnds, cut, trace>>
  PROVE  DriverInLog' /\ EndingInLog' /\ LogStep
<1>1. TurnOpen /\ TurnOpen' /\ (StepOpen <=> StepOpen')
  BY DEF TurnOpen, StepOpen
<1>2. pc # "none" /\ pc' \notin {"none", "start", "nextTurn", "turnEnded"}
  BY DEF OpenPoints
<1>3. DriverInLog'
  BY <1>1, <1>2 DEF LogInv, DriverInLog
<1>4. EndingInLog'
  BY <1>1, <1>2 DEF LogInv, EndingInLog
<1> QED
  BY <1>3, <1>4 DEF LogStep

LEMMA CloseTurnLog ==
  ASSUME LogInv, TurnOpen, ~StepOpen, NEW reason, NEW e, CloseTurn(reason, e),
         reason # "none", cut => reason # "completed", UNCHANGED <<phase, turn, step, cut>>
  PROVE  DriverInLog' /\ EndingInLog' /\ LogStep
<1>1. pc' = "turnEnded" /\ turnEnds' = reason /\ AppendTurnEnd
  BY DEF CloseTurn, Emit
<1>2. ~TurnOpen' /\ ~StepOpen'
  BY <1>1 DEF TurnOpen, StepOpen, OpenPoints, StepPoints
<1>3. trace.openTurn = turn /\ turn >= 1 /\ trace.openStep = 0 /\ trace.nextTurn = turn
  BY DEF LogInv, DriverInLog
<1>4. phase = "running"
  BY DEF LogInv, DriverInLog, TurnOpen, OpenPoints
<1>5. trace'.openTurn = 0 /\ trace'.nextTurn = turn + 1 /\ trace'.openStep = 0
  BY <1>1, <1>3, AppendFields DEF LogInv
<1>6. DriverInLog'
  BY <1>1, <1>2, <1>4, <1>5 DEF DriverInLog
<1>7. EndingInLog'
  BY <1>1, <1>2 DEF EndingInLog
<1>8. trace.openTurn # 0
  BY <1>3, TypeParts DEF LogInv, DriverType
<1> QED
  BY <1>1, <1>3, <1>6, <1>7, <1>8, AppendSteps DEF LogInv

LEMMA FailTurnLog ==
  ASSUME LogInv, TurnOpen, ~StepOpen, FailTurn, UNCHANGED <<phase, turn, step, cut>>
  PROVE  DriverInLog' /\ EndingInLog' /\ LogStep
<1>1. CASE Aborted
  BY <1>1, CloseTurnLog DEF FailTurn
<1>2. CASE ~Aborted
  <2>1. pc' = "failing" /\ turnEnds' = "error" /\ trace' = trace
    BY <1>2 DEF FailTurn, Emit
  <2>2. TurnOpen' /\ ~StepOpen' /\ pc # "none"
    BY <2>1 DEF TurnOpen, StepOpen, OpenPoints, StepPoints
  <2>3. DriverInLog'
    BY <2>1, <2>2 DEF LogInv, DriverInLog
  <2>4. EndingInLog'
    BY <2>1, <2>2 DEF EndingInLog
  <2> QED
    BY <2>1, <2>3, <2>4 DEF LogStep
<1> QED
  BY <1>1, <1>2

\* Leaving a point of a turn outside a step.
LEMMA OutsideStep ==
  ASSUME pc \in OpenPoints \ StepPoints
  PROVE  TurnOpen /\ ~StepOpen
  BY DEF TurnOpen, StepOpen

LEMMA ClaimMoves ==
  ASSUME Claim \/ \E claimed \in BOOLEAN : ClaimPromptOr(claimed)
  PROVE  pc' \in ClaimPoints \cup {"claimed", "preStep"} /\ (pc' = "claimingPrompt" => step = 0)
  BY DEF Claim, ClaimPromptOr, TakesPrompt, ClaimPoints, Await, Emit

LEMMA TurnStartsLog ==
  ASSUME LogInv, TurnStarts
  PROVE  DriverInLog' /\ EndingInLog' /\ LogStep
<1>1. pc \in {"start", "nextTurn"} /\ phase' = phase /\ step' = step
  BY DEF TurnStarts, Running, Resumed
<1>2. ~TurnOpen /\ ~StepOpen
  BY <1>1 DEF TurnOpen, StepOpen, OpenPoints, StepPoints
<1>3. phase = "running" /\ step = 0 /\ trace.openTurn = 0 /\ trace.openStep = 0
        /\ trace.nextTurn = turn + 1
  BY <1>1, <1>2 DEF LogInv, DriverInLog
<1>4. CASE Aborted
  <2>1. pc' = "exiting" /\ turn' = turn /\ turnEnds' = turnEnds /\ cut' = cut /\ trace' = trace
    BY <1>4 DEF TurnStarts, Await, turnVars
  <2>2. ~TurnOpen' /\ ~StepOpen'
    BY <2>1 DEF TurnOpen, StepOpen, OpenPoints, StepPoints
  <2>3. DriverInLog'
    BY <1>1, <1>3, <2>1, <2>2 DEF DriverInLog
  <2>4. EndingInLog'
    BY <1>2, <2>1, <2>2 DEF LogInv, EndingInLog
  <2> QED
    BY <2>1, <2>3, <2>4 DEF LogStep
<1>5. CASE ~Aborted
  <2>1. /\ pc' = "opened" /\ turn' = turn + 1 /\ cut' = FALSE
        /\ AppendTurnStart(turn + 1)
    BY <1>5 DEF TurnStarts, Emit
  <2>2. TurnOpen' /\ ~StepOpen'
    BY <2>1 DEF TurnOpen, StepOpen, OpenPoints, StepPoints
  <2>3. /\ trace'.openTurn = turn + 1 /\ trace'.nextStep = 1 /\ trace'.openStep = 0
        /\ trace'.nextTurn = turn + 1
    BY <1>3, <2>1, AppendFields DEF LogInv
  <2>4. turn + 1 >= 1
    BY TypeParts DEF LogInv, DriverType
  <2>5. DriverInLog'
    BY <1>1, <1>3, <2>1, <2>2, <2>3, <2>4 DEF DriverInLog
  <2>6. EndingInLog'
    BY <2>1 DEF EndingInLog
  <2>7. LogStep
    BY <1>3, <2>1, AppendSteps DEF LogInv
  <2> QED
    BY <2>5, <2>6, <2>7
<1> QED
  BY <1>4, <1>5

LEMMA TurnBoundaryLog ==
  ASSUME LogInv, TurnBoundary
  PROVE  DriverInLog' /\ EndingInLog' /\ LogStep
<1>1. CASE TurnStarts
  BY <1>1, TurnStartsLog
<1>2. CASE TurnReturns \/ KickExits
  <2>1. /\ pc \in {"turnEnded", "exiting"} /\ turn' = turn
        /\ turnEnds' = turnEnds /\ cut' = cut /\ trace' = trace
        /\ \/ pc' \in {"nextTurn", "exiting"} /\ phase' = phase /\ (pc' = "nextTurn" => step' = 0)
           \/ pc' = "none" /\ phase' = "idle"
    BY <1>2 DEF TurnReturns, KickExits, Running, Resumed, Await, turnVars
  <2>2. ~TurnOpen /\ ~StepOpen /\ ~TurnOpen' /\ ~StepOpen'
    BY <2>1 DEF TurnOpen, StepOpen, OpenPoints, StepPoints
  <2>3. DriverInLog'
    BY <2>1, <2>2 DEF LogInv, DriverInLog
  <2>4. EndingInLog'
    BY <2>1, <2>2 DEF LogInv, EndingInLog
  <2> QED
    BY <2>1, <2>3, <2>4 DEF LogStep
<1>3. CASE ErrorReported
  <2>1. pc = "failing" /\ CloseTurn("error", FALSE) /\ UNCHANGED <<phase, turn, step, cut>>
    BY <1>3 DEF ErrorReported, Running, TurnOnly, driverVars
  <2> QED
    BY <2>1, CloseTurnLog, OutsideStep DEF OpenPoints, StepPoints
<1> QED
  BY <1>1, <1>2, <1>3 DEF TurnBoundary

LEMMA PreStepLog ==
  ASSUME LogInv, PreStep
  PROVE  DriverInLog' /\ EndingInLog' /\ LogStep
<1>1. CASE FirstClaim
  <2>1. pc = "opened" /\ UNCHANGED <<phase, turn, step, cut>>
    BY <1>1 DEF FirstClaim, Running, TurnOnly, driverVars
  <2>2. CASE Aborted
    BY <1>1, <2>1, <2>2, FailTurnLog, OutsideStep DEF FirstClaim, OpenPoints, StepPoints
  <2>3. CASE ~Aborted
    <3>1. /\ pc' \in ClaimPoints \cup {"claimed", "preStep"} /\ UNCHANGED <<trace, turnEnds>>
          /\ pc' = "claimingPrompt" => step = 0
      BY <1>1, <2>3, ClaimMoves DEF FirstClaim
    <3> QED
      BY <2>1, <3>1, MoveLog DEF OpenPoints, StepPoints, ClaimPoints
  <2> QED
    BY <2>2, <2>3
<1>2. CASE ClaimNotified \/ PreStepDecides
  <2>1. /\ pc \in {"claimed", "preStep"} /\ pc' \in {"preStep", "rejected", "emptied", "entered"}
        /\ UNCHANGED <<phase, turn, step, turnEnds, cut, trace>>
    BY <1>2 DEF ClaimNotified, PreStepDecides, Running, Resumed, Await, ControlOnly, driverVars,
                turnVars
  <2> QED
    BY <2>1, MoveLog DEF OpenPoints, StepPoints
<1>3. CASE PreStepFails
  <2>1. pc = "preStep" /\ FailTurn /\ UNCHANGED <<phase, turn, step, cut>>
    BY <1>3 DEF PreStepFails, Resumed, TurnOnly, driverVars
  <2> QED
    BY <2>1, FailTurnLog, OutsideStep DEF OpenPoints, StepPoints
<1>4. CASE ClaimsSteps \/ ClaimsPrompt
  <2>1. /\ pc \in ClaimPoints /\ pc' \in ClaimPoints \cup {"claimed", "preStep"}
        /\ pc' = "claimingPrompt" => step = 0
        /\ UNCHANGED <<phase, turn, step, turnEnds, cut, trace>>
    BY <1>4, ClaimMoves DEF ClaimsSteps, ClaimsPrompt, Running, Emit, ClaimPoints, driverVars,
                            turnVars
  <2> QED
    BY <2>1, MoveLog DEF OpenPoints, StepPoints, ClaimPoints
<1> QED
  BY <1>1, <1>2, <1>3, <1>4 DEF PreStep

LEMMA StepEntersLog ==
  ASSUME LogInv, StepEnters
  PROVE  DriverInLog' /\ EndingInLog' /\ LogStep
<1>1. pc \in {"entered", "emptied"} /\ phase' = phase /\ turn' = turn /\ cut' = cut
  BY DEF StepEnters, Resumed
<1>2. TurnOpen /\ ~StepOpen
  BY <1>1, OutsideStep DEF OpenPoints, StepPoints
<1>3. CASE Aborted
  BY <1>1, <1>2, <1>3, FailTurnLog DEF StepEnters
<1>4. CASE ~Aborted
  <2>1. pc' = "request" /\ step' = step + 1 /\ turnEnds' = turnEnds /\ AppendStepStart(step + 1)
    BY <1>4 DEF StepEnters, Await
  <2>2. TurnOpen' /\ StepOpen'
    BY <2>1 DEF TurnOpen, StepOpen, OpenPoints, StepPoints
  <2>3. /\ pc # "none" /\ trace.openTurn = turn /\ turn >= 1 /\ trace.openStep = 0
        /\ trace.nextTurn = turn /\ trace.nextStep = step + 1
    BY <1>1, <1>2 DEF LogInv, DriverInLog
  <2>4. /\ trace'.openStep = step + 1 /\ trace'.openTurn = turn /\ trace'.nextTurn = turn
        /\ trace'.nextStep = step + 1
    BY <2>1, <2>3, AppendFields DEF LogInv
  <2>5. step + 1 >= 1 /\ turn # 0
    BY <2>3, TypeParts DEF LogInv, DriverType
  <2>6. phase = "running"
    BY <2>3 DEF LogInv, DriverInLog
  <2>7. DriverInLog'
    BY <1>1, <2>1, <2>2, <2>3, <2>4, <2>5, <2>6 DEF DriverInLog
  <2>8. EndingInLog'
    BY <1>1, <1>2, <2>1, <2>2 DEF LogInv, EndingInLog
  <2> QED
    BY <2>1, <2>3, <2>5, <2>7, <2>8, AppendSteps DEF LogInv
<1> QED
  BY <1>3, <1>4

LEMMA EnterStepLog ==
  ASSUME LogInv, EnterStep
  PROVE  DriverInLog' /\ EndingInLog' /\ LogStep
<1>1. CASE StepRejected
  <2>1. pc = "rejected" /\ CloseTurn("blocked", FALSE) /\ UNCHANGED <<phase, turn, step, cut>>
    BY <1>1 DEF StepRejected, Resumed, TurnOnly, driverVars
  <2> QED
    BY <2>1, CloseTurnLog, OutsideStep DEF OpenPoints, StepPoints
<1>2. CASE StepNotNeeded
  <2>1. pc = "emptied" /\ UNCHANGED <<phase, turn, step, cut>>
    BY <1>2 DEF StepNotNeeded, Resumed, TurnOnly, driverVars
  <2>2. TurnOpen /\ ~StepOpen
    BY <2>1, OutsideStep DEF OpenPoints, StepPoints
  <2>3. cut => turnEnds = "max-tokens"
    BY <2>1, <2>2 DEF LogInv, EndingInLog
  <2>4. PICK reason, e : CloseTurn(reason, e) /\ reason # "none" /\ (cut => reason # "completed")
    BY <1>2, <2>3 DEF StepNotNeeded
  <2> QED
    BY <2>1, <2>2, <2>4, CloseTurnLog
<1> QED
  BY <1>1, <1>2, StepEntersLog DEF EnterStep

\* step() returns or throws: either way it leaves the step closed.
LEMMA StepClosesLog ==
  ASSUME LogInv, pc \in StepPoints, AppendStepEnd, pc' \in {"stepEnded", "stepFailed"},
         cut' => turnEnds' = "max-tokens", UNCHANGED <<phase, turn, step>>
  PROVE  DriverInLog' /\ EndingInLog' /\ LogStep
<1>1. TurnOpen /\ StepOpen /\ TurnOpen' /\ ~StepOpen'
  BY DEF TurnOpen, StepOpen, OpenPoints, StepPoints
<1>2. /\ pc # "none" /\ trace.openTurn = turn /\ turn >= 1 /\ trace.openStep = step /\ step >= 1
      /\ trace.nextTurn = turn /\ trace.nextStep = step
  BY <1>1 DEF LogInv, DriverInLog, StepPoints
<1>3. /\ trace'.openStep = 0 /\ trace'.nextStep = step + 1 /\ trace'.openTurn = turn
      /\ trace'.nextTurn = turn
  BY <1>2, AppendFields DEF LogInv
<1>4. DriverInLog'
  BY <1>1, <1>2, <1>3 DEF LogInv, DriverInLog
<1>5. EndingInLog'
  BY <1>1 DEF EndingInLog
<1>6. turn # 0 /\ step # 0
  BY <1>2, TypeParts DEF LogInv, DriverType
<1> QED
  BY <1>2, <1>4, <1>5, <1>6, AppendSteps DEF LogInv

LEMMA StepReturnsLog ==
  ASSUME LogInv, pc \in StepPoints, NEW result, StepReturns(result)
  PROVE  DriverInLog' /\ EndingInLog' /\ LogStep
<1>1. pc' = "stepEnded" /\ AppendStepEnd /\ UNCHANGED <<phase, turn, step>>
  BY DEF StepReturns, Emit, driverVars
<1>2. cut => turnEnds = "max-tokens"
  BY DEF LogInv, EndingInLog, TurnOpen, OpenPoints, StepPoints
<1>3. cut' => turnEnds' = "max-tokens"
  BY <1>2 DEF StepReturns
<1> QED
  BY <1>1, <1>3, StepClosesLog

LEMMA ModelAndToolLog ==
  ASSUME LogInv, ModelStep \/ ToolStep
  PROVE  DriverInLog' /\ EndingInLog' /\ LogStep
<1>1. CASE ModelStops
  BY <1>1, StepReturnsLog DEF ModelStops, Resumed, StepPoints
<1>2. CASE ToolsReturn
  BY <1>2, StepReturnsLog DEF ToolsReturn, Resumed, StepPoints
<1>3. CASE StepThrows
  <2>1. /\ pc \in StepPoints /\ pc' = "stepFailed" /\ AppendStepEnd
        /\ UNCHANGED <<phase, turn, step, turnEnds, cut>>
    BY <1>3 DEF StepThrows, Resumed, StepPoints, Emit, TurnOnly, driverVars
  <2>2. cut => turnEnds = "max-tokens"
    BY <2>1 DEF LogInv, EndingInLog, TurnOpen, OpenPoints, StepPoints
  <2> QED
    BY <2>1, <2>2, StepClosesLog
<1>4. CASE ModelCallsTools \/ RequestFails \/ RequestRetries \/ ContextNotified
  <2>1. /\ pc \in StepPoints /\ pc' \in StepPoints
        /\ UNCHANGED <<phase, turn, step, turnEnds, cut, trace>>
    BY <1>4 DEF ModelCallsTools, RequestFails, RequestRetries, ContextNotified, Resumed, Running,
                Await, ControlOnly, StepPoints, driverVars, turnVars
  <2> QED
    BY <2>1, MoveLog DEF OpenPoints, StepPoints
<1>5. CASE \E m \in Messages : ToolContext(m)
  <2>1. /\ pc \in StepPoints /\ pc' \in StepPoints
        /\ UNCHANGED <<phase, turn, step, turnEnds, cut, trace>>
    BY <1>5 DEF ToolContext, Resumed, Emit, StepPoints, driverVars, turnVars
  <2> QED
    BY <2>1, MoveLog DEF OpenPoints, StepPoints
<1> QED
  BY <1>1, <1>2, <1>3, <1>4, <1>5 DEF ModelStep, ToolStep

LEMMA EndStepLog ==
  ASSUME LogInv, EndStep
  PROVE  DriverInLog' /\ EndingInLog' /\ LogStep
<1>1. pc \in {"stepEnded", "stepFailed", "stopping"} /\ UNCHANGED <<phase, turn, step, cut>>
  BY DEF EndStep, StepEnded, StepFailed, StoppingSettles, StoppingFails, Running, Resumed,
         TurnOnly, driverVars
<1>2. TurnOpen /\ ~StepOpen
  BY <1>1, OutsideStep DEF OpenPoints, StepPoints
<1>3. CASE FailTurn
  BY <1>1, <1>2, <1>3, FailTurnLog
<1>4. CASE /\ pc' \in ClaimPoints \cup {"claimed", "preStep"} /\ UNCHANGED <<trace, turnEnds>>
           /\ pc' = "claimingPrompt" => step = 0
  BY <1>1, <1>4, MoveLog DEF OpenPoints, StepPoints, ClaimPoints
<1>5. CASE /\ pc = "stepEnded" /\ pc' = "stopping" /\ turnEnds # "none"
           /\ UNCHANGED <<trace, turnEnds>>
  <2>1. step >= 1
    BY <1>5 DEF LogInv, DriverInLog
  <2> QED
    BY <1>1, <1>5, <2>1, MoveLog DEF OpenPoints, StepPoints
<1>6. CASE pc = "stopping" /\ CloseTurn(turnEnds, TRUE)
  <2>1. turnEnds # "none" /\ (cut => turnEnds = "max-tokens")
    BY <1>2, <1>6 DEF LogInv, EndingInLog
  <2> QED
    BY <1>1, <1>2, <1>6, <2>1, CloseTurnLog
<1>7. CASE StepEnded
  BY <1>3, <1>4, <1>5, <1>7, ClaimMoves DEF StepEnded, Running, Await
<1>8. CASE StoppingSettles
  BY <1>4, <1>6, <1>8, ClaimMoves DEF StoppingSettles, Resumed
<1> QED
  BY <1>3, <1>7, <1>8 DEF EndStep, StepFailed, StoppingFails

LEMMA NextLog ==
  ASSUME LogInv, [Next]_vars
  PROVE  LogInv' /\ LogStep
<1>1. TypeOK'
  BY NextType DEF LogInv
<1>2. DriverInLog' /\ EndingInLog' /\ LogStep
  <2>1. CASE UNCHANGED vars
    <3>1. UNCHANGED logVars
      BY <2>1 DEF vars, driverVars, turnVars, logVars
    <3> QED
      BY <3>1, LogKept
  <2> QED
    BY <2>1, CallLog, UnwindLog, MaintenanceEndsLog, WaiterLog, TurnBoundaryLog, PreStepLog,
       EnterStepLog, ModelAndToolLog, EndStepLog
    DEF Next, Driver
<1> QED
  BY <1>1, <1>2 DEF LogInv

LEMMA LogInvariant == Spec => []LogInv
<1>1. Init => LogInv
  BY InitType, InitLog DEF LogInv
<1>2. LogInv /\ [Next]_vars => LogInv'
  BY NextLog
<1> QED
  BY <1>1, <1>2, PTL DEF Spec

\* Whenever no driver runs, its last turn is closed in the log and the number
\* the agent resumes from is the one the log ends with.
THEOREM IdleLogClosed == Spec => []IdleLogIsClosed
<1>1. LogInv => IdleLogIsClosed
  BY DEF LogInv, DriverInLog, IdleLogIsClosed, TurnOpen, StepOpen, OpenPoints, StepPoints
<1> QED
  BY <1>1, LogInvariant, PTL

\* Every way out of a turn assigns its ending before turn/end is written, and a
\* turn one of whose steps hit the token ceiling never ends as completed.
THEOREM EveryExitEnds == Spec => []EveryExitHasItsEnding
<1>1. LogInv => EveryExitHasItsEnding
  BY DEF LogInv, EndingInLog, EveryExitHasItsEnding, TurnOpen, OpenPoints
<1> QED
  BY <1>1, LogInvariant, PTL

\* The driver implements the log's contract: in every interleaving, its appends
\* are turns and steps that are numbered consecutively and properly nested.
THEOREM LogWellFormed == Spec => LogIsWellFormed
<1>1. Init => Log!TraceInit
  BY DriverAssumption DEF Init, Log!TraceInit
<1>2. LogInv /\ [Next]_vars => [Log!TraceNext]_(Log!traceVars)
  BY NextLog DEF LogStep, Log!traceVars
<1> QED
  BY <1>1, <1>2, LogInvariant, PTL DEF Spec, LogIsWellFormed, Log!TraceSpec
=============================================================================
