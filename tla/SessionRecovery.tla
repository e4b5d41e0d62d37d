--------------------------- MODULE SessionRecovery ---------------------------
(***************************************************************************)
(* One session's log between the process that appends to it and the file   *)
(* that outlives the process: batches are appended and synced, a failed    *)
(* append is rolled back unless it was the first, which is published with  *)
(* the file, a crash leaves any part of what was in flight,                *)
(* and loading truncates a torn tail, restores what it still held, closes  *)
(* the interrupted turn and reads the log again until it is whole.         *)
(*                                                                         *)
(* The live session is a generator of the logs an agent's turns write.     *)
(* Turn and step numbers, message content and times are left out; the      *)
(* sequence number of an event is its position.  When a batch is written   *)
(* is left open here: WriteBehind models the schedule.                     *)
(*                                                                         *)
(* Sources: packages/core/session/src/repair.ts, packages/session/         *)
(* session-persistence/src/coordinator.ts (prepare, commitPrepared,        *)
(* appendCore) and packages/session/session-persistence-jsonl/src/index.ts *)
(* (materialize, appendLines, commitRepair, the two prefix readers).       *)
(***************************************************************************)
EXTENDS Naturals, Sequences, FiniteSets, SequencesExt

CONSTANTS
  MaxCalls,       \* most tool calls of one assistant message
  Encodings,      \* whether a batch may be one Zstandard frame: a set of answers
  MaxEvents,      \* bound: events of the live log
  MaxCrashes,     \* bound: crashes
  MaxFailures     \* bound: appends that fail

ASSUME RecoveryAssumption ==
  /\ MaxCalls \in Nat /\ Encodings \subseteq BOOLEAN
  /\ MaxEvents \in Nat /\ MaxCrashes \in Nat /\ MaxFailures \in Nat

CallIds == 1 .. MaxCalls    \* reused by every message, in assistant order

VARIABLES
  compressed,     \* a batch is one Zstandard frame: fixed when the store is made
  phase,          \* "up": a process appends; "down": the next load starts over
  live,           \* the log of the process that runs
  cursor,         \* events the coordinator knows to be stored
  batch,          \* the append in flight
  committed,      \* complete records, or frames, of the file
  frame,          \* complete records inside a torn final frame
  torn,           \* the file ends in a fragment
  source,         \* what the load in progress has to write: recovered records, closers
  \* --- history and bounds
  history,        \* the log the process had whose crash is being repaired
  acked,          \* how much of it was acknowledged as durable
  crashes, failures

file == <<committed, frame, torn>>
ghosts == <<history, acked>>
vars == <<compressed, phase, live, cursor, batch, file, source, ghosts, crashes, failures>>

Repairing == {"truncate", "restore", "close"}

-----------------------------------------------------------------------------
(* Events.                                                                 *)

Boundary(type) == [type |-> type]
Message(n) == [type |-> "message", calls |-> n]                    \* requests calls 1 .. n
Call(c) == [type |-> "call", call |-> c]
Result(c, code, seq) == [type |-> "result", call |-> c, code |-> code, cites |-> seq]

-----------------------------------------------------------------------------
(* repair.ts: the scan of a log, and what closes its tail.                 *)

NotPending == 0     \* a call nobody waits for
Unrecorded == 1     \* requested, and not recorded as started
Recorded(seq) == seq + 1

Fresh == [turn |-> FALSE, step |-> FALSE, pending |-> [c \in CallIds |-> NotPending]]

Discards == {"turnStart", "turnEnd", "stepEnd"}

\* ToolCallRecovery.observe, and the boundary cursor of interruptedTurnClosers.
Observe(s, e, seq) ==
  [turn    |-> IF e.type \in {"turnStart", "turnEnd"} THEN e.type = "turnStart" ELSE s.turn,
   step    |-> IF e.type = "stepStart" THEN TRUE ELSE s.step /\ e.type \notin Discards,
   pending |->
     CASE e.type \in Discards -> Fresh.pending
       [] e.type = "message" -> [c \in CallIds |-> IF c <= e.calls THEN Unrecorded ELSE s.pending[c]]
       [] e.type = "call" /\ s.pending[e.call] # NotPending -> [s.pending EXCEPT ![e.call] = Recorded(seq)]
       [] e.type = "result" -> [s.pending EXCEPT ![e.call] = NotPending]
       [] OTHER -> s.pending]

Scanned(log) ==
  LET scan[k \in 0 .. Len(log)] == IF k = 0 THEN Fresh ELSE Observe(scan[k - 1], log[k], k)
  IN  scan[Len(log)]

Pending(s) == {c \in CallIds : s.pending[c] # NotPending}

\* ToolCallRecovery.results: one error result for each request, in assistant order.
RecoveryResults(s) ==
  LET answer(c) == IF s.pending[c] = Unrecorded THEN Result(c, "notStarted", 0)
                   ELSE Result(c, "unknown", s.pending[c] - 1)
  IN  [k \in 1 .. Cardinality(Pending(s)) |-> answer(SetToSortSeq(Pending(s), <)[k])]

\* interruptedTurnClosers.
\* Fault: the turn's end is synthesized only behind a step's.
ClosersOfSteps(log) ==
  LET s == Scanned(log)
  IN  IF ~s.step THEN <<>>
      ELSE RecoveryResults(s) \o <<Boundary("stepEnd"), Boundary("turnEnd")>>
\* Fault: the open step is left open.
ClosersWithoutStepEnd(log) ==
  LET s == Scanned(log)
  IN  IF ~s.turn THEN <<>> ELSE RecoveryResults(s) \o <<Boundary("turnEnd")>>
Closers(log) ==
  LET s == Scanned(log)
  IN  IF ~s.turn THEN <<>>
      ELSE RecoveryResults(s) \o (IF s.step THEN <<Boundary("stepEnd")>> ELSE <<>>)
                              \o <<Boundary("turnEnd")>>

-----------------------------------------------------------------------------
(* The live session: the logs of turns.                                    *)

LastType == IF live = <<>> THEN "turnEnd" ELSE live[Len(live)].type

\* Calls start in assistant order; a result follows its call.
Started(s) == {c \in CallIds : s.pending[c] > Unrecorded}
NextEvents(s) ==
  IF ~s.turn THEN {Boundary("turnStart")}
  ELSE IF ~s.step THEN {Boundary("stepStart"), Boundary("turnEnd")}
  ELSE IF LastType = "stepStart" THEN {Boundary("stepEnd")} \cup {Message(n) : n \in 0 .. MaxCalls}
  ELSE IF Pending(s) = {} THEN {Boundary("stepEnd")}
  ELSE {Call(c) : c \in {d \in CallIds : s.pending[d] = Unrecorded
                                       /\ \A b \in 1 .. d - 1 : s.pending[b] # Unrecorded}}
         \cup {Result(c, "done", s.pending[c] - 1) :
                  c \in {d \in Started(s) : \A b \in 1 .. d - 1 : s.pending[b] = NotPending}}

Emit ==
  /\ phase = "up" /\ Len(live) < MaxEvents
  /\ \E e \in NextEvents(Scanned(live)) : live' = Append(live, e)
  /\ UNCHANGED <<phase, cursor, batch, file, source, ghosts, crashes, failures, compressed>>

\* A failed step answers its requests itself, before it ends.
EmitRecovery ==
  /\ phase = "up" /\ Len(live) < MaxEvents
  /\ Pending(Scanned(live)) # {}
  /\ live' = live \o RecoveryResults(Scanned(live)) \o <<Boundary("stepEnd"), Boundary("turnEnd")>>
  /\ UNCHANGED <<phase, cursor, batch, file, source, ghosts, crashes, failures, compressed>>

-----------------------------------------------------------------------------
(* Appending.                                                              *)

\* The controller hands over everything it retains.
WriteStarts ==
  /\ phase = "up" /\ batch = <<>> /\ cursor < Len(live)
  /\ batch' = SubSeq(live, cursor + 1, Len(live))
  /\ UNCHANGED <<phase, live, cursor, file, source, ghosts, crashes, failures, compressed>>

\* The backend decides by the cursor whether the batch comes with its file.
NoFile == committed = <<>>
Refused == cursor = 0 /\ ~NoFile

\* Synced: the durable write is the transaction, then the cursor moves.
Advanced == cursor + Len(batch)

WriteReturns ==
  /\ phase = "up" /\ batch # <<>> /\ ~Refused
  /\ committed' = committed \o batch /\ cursor' = Advanced /\ batch' = <<>>
  /\ UNCHANGED <<phase, live, frame, torn, source, ghosts, crashes, failures, compressed>>

\* What a failed append leaves: the file has its previous size again.  The first
\* batch is published with its file, by a link; the sync of the directory behind
\* the link may be what fails, and nothing takes the link back.
\* Fault: what a failed append wrote stays in the file.
Remains(bytes) == {SubSeq(bytes, 1, k) : k \in 0 .. Len(bytes)}
RolledBackNever(bytes) == Remains(bytes)
RolledBack(bytes) == IF NoFile THEN {<<>>, bytes} ELSE {<<>>}

\* The append fails; the batch is retained.
WriteFails ==
  /\ phase = "up" /\ batch # <<>> /\ ~Refused
  /\ failures < MaxFailures /\ failures' = failures + 1
  /\ \E rest \in RolledBack(batch) : committed' = committed \o rest
  /\ batch' = <<>>
  /\ UNCHANGED <<phase, live, cursor, frame, torn, source, ghosts, crashes, compressed>>

\* A retry behind such a failure: a first batch is not published over a file.
WriteIsRefused ==
  /\ phase = "up" /\ batch # <<>> /\ Refused
  /\ batch' = <<>>
  /\ UNCHANGED <<phase, live, cursor, file, source, ghosts, crashes, failures, compressed>>

-----------------------------------------------------------------------------
(* Crashes.                                                                *)

NoSource == [recovered |-> <<>>, closers |-> <<>>]

\* The bytes an append may be writing.  A retry that is refused writes none.
InFlight ==
  CASE phase = "up" -> IF Refused THEN <<>> ELSE batch
    [] phase = "restore" -> source.recovered
    [] phase = "close" -> source.closers
    [] OTHER -> <<>>

\* What is found of them afterwards: nothing, all, or some complete records and
\* perhaps a fragment; the records of an unfinished frame are not committed.  The
\* first batch of a session is published with its file, all or nothing.
Leftover(records, inFrame, fragment) ==
  [records |-> records, frame |-> inFrame, torn |-> fragment]
Leftovers(bytes) ==
  {Leftover(bytes, <<>>, FALSE)}
    \cup IF NoFile \/ bytes = <<>> THEN {}
         ELSE IF compressed THEN {Leftover(<<>>, rest, TRUE) : rest \in Remains(bytes)}
         ELSE {Leftover(rest, <<>>, fragment) : rest \in Remains(bytes) \ {bytes}, fragment \in BOOLEAN}

\* The directory entry of a publication whose sync failed may be lost as well.
LosesLink == phase = "up" /\ Refused

Crash ==
  /\ phase # "down" /\ crashes < MaxCrashes
  /\ crashes' = crashes + 1
  /\ phase' = "down" /\ batch' = <<>> /\ cursor' = 0 /\ live' = <<>>
  /\ IF phase = "up" THEN history' = live /\ acked' = cursor ELSE UNCHANGED ghosts
  /\ \/ UNCHANGED file
     \/ LosesLink /\ committed' = <<>> /\ UNCHANGED <<frame, torn>>
     \/ \E left \in Leftovers(InFlight) :
          committed' = committed \o left.records /\ frame' = left.frame /\ torn' = left.torn
  /\ source' = NoSource
  /\ UNCHANGED <<failures, compressed>>

-----------------------------------------------------------------------------
(* Loading.                                                                *)

After(step) ==
  CASE step = "truncate" /\ source.recovered # <<>> -> "restore"
    [] step \in {"truncate", "restore"} /\ source.closers # <<>> -> "close"
    [] OTHER -> "down"

Readable == committed \o frame

\* prepareCore: the complete events, with closers for the tail.  A log that
\* needs no repair is published.
Prepare ==
  /\ phase = "down"
  /\ LET closers == Closers(Readable) IN
       IF torn \/ closers # <<>>
       THEN /\ phase' = IF torn THEN "truncate" ELSE "close"
            /\ source' = [recovered |-> frame, closers |-> closers]
            /\ UNCHANGED <<live, cursor, ghosts>>
       ELSE /\ phase' = "up" /\ live' = Readable /\ cursor' = Len(Readable)
            /\ history' = <<>> /\ acked' = 0
            /\ UNCHANGED source
  /\ UNCHANGED <<batch, file, crashes, failures, compressed>>

\* commitRepair: the fragment goes, and an unfinished frame with it.
\* Fault: the last whole record goes too.
KeptOneLess == SubSeq(committed, 1, Len(committed) - 1)
Kept == committed
\* Fault: the fragment stays.
TornStill == torn
TornAfter == FALSE

Truncate ==
  /\ phase = "truncate"
  /\ committed' = Kept /\ frame' = <<>> /\ torn' = TornAfter /\ phase' = After("truncate")
  /\ source' = IF phase' = "down" THEN NoSource ELSE source
  /\ UNCHANGED <<live, cursor, batch, ghosts, crashes, failures, compressed>>

\* Fault: the recovered records are not written again.
RestoredNothing == <<>>
Restored == source.recovered

Restore ==
  /\ phase = "restore"
  /\ committed' = committed \o Restored /\ phase' = After("restore")
  /\ source' = IF phase' = "down" THEN NoSource ELSE source
  /\ UNCHANGED <<live, cursor, batch, frame, torn, ghosts, crashes, failures, compressed>>

\* After a repair the log is read again.
Close ==
  /\ phase = "close"
  /\ committed' = committed \o source.closers /\ phase' = "down" /\ source' = NoSource
  /\ UNCHANGED <<live, cursor, batch, frame, torn, ghosts, crashes, failures, compressed>>

\* A step of the repair fails: the load rejects, and is tried again later.  An
\* append is rolled back; a truncation whose sync fails has truncated the file.
RepairFails ==
  /\ phase \in Repairing
  /\ failures < MaxFailures /\ failures' = failures + 1
  /\ phase' = "down" /\ source' = NoSource
  /\ \/ UNCHANGED file
     \/ phase = "truncate" /\ committed' = Kept /\ frame' = <<>> /\ torn' = TornAfter
  /\ UNCHANGED <<live, cursor, batch, ghosts, crashes, compressed>>

-----------------------------------------------------------------------------
Init ==
  /\ compressed \in Encodings
  /\ phase = "up" /\ live = <<>> /\ cursor = 0 /\ batch = <<>>
  /\ committed = <<>> /\ frame = <<>> /\ torn = FALSE
  /\ source = NoSource /\ history = <<>> /\ acked = 0 /\ crashes = 0 /\ failures = 0

Load == Prepare \/ Truncate \/ Restore \/ Close
Write == WriteStarts \/ WriteReturns \/ WriteFails \/ WriteIsRefused
Next == Emit \/ EmitRecovery \/ Write \/ Crash \/ Load \/ RepairFails

Spec == Init /\ [][Next]_vars

\* A load that rejected is requested again, and its I/O settles.
FairSpec == Spec /\ WF_vars(Load)

-----------------------------------------------------------------------------
(* Properties.                                                             *)

Events == {Boundary(t) : t \in {"turnStart", "turnEnd", "stepStart", "stepEnd"}}
            \cup {Message(n) : n \in 0 .. MaxCalls} \cup {Call(c) : c \in CallIds}
            \cup [type : {"result"}, call : CallIds, code : {"done", "notStarted", "unknown"}, cites : Nat]

TypeOK ==
  /\ compressed \in BOOLEAN /\ phase \in {"up", "down"} \cup Repairing
  /\ live \in Seq(Events) /\ batch \in Seq(Events) /\ committed \in Seq(Events)
  /\ frame \in Seq(Events) /\ torn \in BOOLEAN /\ cursor \in 0 .. Len(live)
  /\ source \in [recovered : Seq(Events), closers : Seq(Events)]
  /\ history \in Seq(Events) /\ acked \in 0 .. Len(history)
  /\ crashes \in Nat /\ failures \in Nat

\* What was acknowledged as durable is in the file, under its own sequence
\* numbers, through failed appends, crashes and interrupted repairs; while a
\* process runs, the file is exactly what the cursor says.  One failure is apart:
\* a first publication that was rejected behind its link.  The cursor then says
\* that nothing is stored, and the file holds the batch, a beginning of the log.
AckedIsKept ==
  IF phase = "up"
  THEN /\ ~torn
       /\ committed = SubSeq(live, 1, cursor) \/ (cursor = 0 /\ IsPrefix(committed, live))
  ELSE IsPrefix(SubSeq(history, 1, acked), committed)

\* A log is whole: turns and steps nest and are closed; every requested call has
\* one result within its step, which cites the call's event, or says that it
\* never started and there is none.
IsBoundary(e) == e.type \in {"turnStart", "turnEnd", "stepStart", "stepEnd"}
MayFollow(type) ==
  CASE type = "turnStart" -> {"none", "turnEnd"}
    [] type \in {"stepStart", "turnEnd"} -> {"turnStart", "stepEnd"}
    [] type = "stepEnd" -> {"stepStart"}

Nested(log) ==
  LET marks == SelectSeq(log, IsBoundary)
      before(k) == IF k = 1 THEN "none" ELSE marks[k - 1].type
  IN  /\ \A k \in DOMAIN marks : before(k) \in MayFollow(marks[k].type)
      /\ marks # <<>> => marks[Len(marks)].type = "turnEnd"

StepOf(log, m) ==
  {k \in m .. Len(log) : \A j \in m .. k : log[j].type # "stepEnd"}

Answered(log, m) ==
  \A c \in 1 .. log[m].calls :
    LET calls == {k \in StepOf(log, m) : log[k] = Call(c)}
        results == {k \in StepOf(log, m) : log[k].type = "result" /\ log[k].call = c}
    IN  \E k \in results :
          /\ results = {k}
          /\ IF calls = {} THEN log[k] = Result(c, "notStarted", 0)
             ELSE log[k].code # "notStarted" /\ calls = {log[k].cites} /\ log[k].cites < k

Whole(log) ==
  /\ Nested(log)
  /\ \A m \in DOMAIN log : log[m].type = "message" => Answered(log, m)
  /\ \A k \in DOMAIN log : log[k].type \in {"call", "result"} =>
       \E m \in 1 .. k : log[m].type = "message" /\ log[k].call <= log[m].calls /\ k \in StepOf(log, m)

\* Whatever a crash left, and wherever repairs of it were interrupted, the log
\* a process resumes from is whole.
Published == phase # "up" /\ phase' = "up"
LoadedLogIsWhole == [][Published => Whole(live')]_vars

\* Interrupted repairs converge: what is resumed is the repair of a prefix of
\* the log the crashed process had, one that holds all it was told is durable.
LoadedRepairsAPrefix ==
  [][Published => \E k \in acked .. Len(history) :
        LET prefix == SubSeq(history, 1, k) IN live' = prefix \o Closers(prefix)]_vars

\* A load that is requested again in the end succeeds.
LoadSucceeds == phase = "down" ~> phase = "up"
=============================================================================
