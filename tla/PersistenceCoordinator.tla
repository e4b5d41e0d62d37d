------------------------ MODULE PersistenceCoordinator ------------------------
(***************************************************************************)
(* The persistence coordinator, for one session identity: the chain that   *)
(* serializes its storage operations, the write cursor and its owner, the  *)
(* live sessions that write behind, the shared preparation that a resume   *)
(* reserves, retirements and deletions.                                    *)
(*                                                                         *)
(* A session is one Session object: built from the stored log for a        *)
(* preparation, or created by a plugin.  A log is the sequence of the      *)
(* authors of its events, so two logs agree at a place iff the same event  *)
(* is there.  Other identities only evict a ready preparation.             *)
(*                                                                         *)
(* Sources: packages/session/session-persistence/src/coordinator.ts and    *)
(* packages/session/session-persistence/src/preparations.ts; write-behind  *)
(* windows are those of WriteBehind, torn tails those of SessionRecovery.  *)
(***************************************************************************)
EXTENDS Integers, Sequences

CONSTANTS
  MaxSessions, \* bound: Session objects alive at once
  Readers,     \* calls of prepare, load and inspect
  Starts,      \* what is stored and live at the start, and the bounds
  Past,        \* author of the events of an earlier process
  Repair,      \* author of the events a repair appends
  Import       \* author of the events appended through the public API

Sessions == 1..MaxSessions
NoOne == 0
Authors == Sessions \cup {Past, Repair, Import}
Log == Seq(Authors)

\* Bounds: sessions published, readers, events appended, failures of the
\* backend, and other calls (deletions, public creates and appends, evictions,
\* aborts), each as many as are still to come.
Bounds == [births : Nat, asks : Nat, events : Nat, failures : Nat, calls : Nat]

ASSUME CoordinatorAssumption ==
  /\ MaxSessions \in Nat \ {0}
  /\ Starts \subseteq [stored : Log, unclean : BOOLEAN, live : Log, left : Bounds]

VARIABLES
  \* --- the backend
  stored,      \* the log, empty when there is no artifact
  unclean,     \* it ends inside a turn
  \* --- states: the write cursor
  known,       \* there is a state
  cursor, owner,
  \* --- the chain of operations, the head running
  chain,
  deletes,     \* the head is deleting the artifact
  batch,       \* events the head is appending
  \* --- preparations: the entry
  prepared,    \* its session
  phase,
  \* --- what a preparation read
  result, base, repair,
  \* --- sessions
  born,        \* sessions that were published
  log,
  live,        \* initialization of the live record, "none" without a record
  seed,        \* length of the log when it was initialized
  written,     \* events the write-behind controller is done with
  writing,     \* end of the batch it is writing, 0 without
  current,     \* the session in the store
  retiring,    \* the final drain
  retirement,  \* the session whose drain is waited for
  \* --- callers
  role, pc,
  hold,        \* the session of the entry a reader waits for or holds
  waits,       \* the retirement a reader found
  deletion, deletionWaits,
  \* --- bounds and history
  left,        \* what the bounds still allow
  overtaken    \* live records a public append or a deletion overtook, NoOne when
               \* a repair overtook a state without an owner

backendVars == <<stored, unclean>>
stateVars == <<known, cursor, owner>>
chainVars == <<chain, deletes, batch>>
entryVars == <<prepared, phase>>
sourceVars == <<result, base, repair>>
sessionVars == <<born, log, seed>>
writeVars == <<live, written, writing>>
storeVars == <<current, retiring, retirement>>
readerVars == <<role, pc, hold, waits>>
deletionVars == <<deletion, deletionWaits>>
boundVars == <<left, overtaken>>
vars == <<backendVars, stateVars, chainVars, entryVars, sourceVars, sessionVars, writeVars,
          storeVars, readerVars, deletionVars, boundVars>>

-----------------------------------------------------------------------------
Covers(long, short) == Len(short) <= Len(long) /\ SubSeq(long, 1, Len(short)) = short

Op(name, of) == <<name, of>>
Serialize(op) == chain' = Append(chain, op)
\* The operation at the head begins, or ends with what it awaited.
Begins(op) == chain # <<>> /\ Head(chain) = op /\ batch = <<>> /\ ~deletes
Awaits(op) == chain # <<>> /\ Head(chain) = op /\ batch # <<>>
OpEnds == chain' = Tail(chain)

\* Session objects nobody refers to any more.
Spares == {x \in Sessions \ born :
  /\ prepared # x /\ \A r \in Readers : hold[r] # x
  /\ \A n \in DOMAIN chain : chain[n] # Op("load", x)}
Spare == CHOOSE x \in Spares : TRUE

\* this.preparations
NoEntry == prepared' = NoOne /\ phase' = "none"
RemoveEntryOf(x) == IF prepared = x THEN NoEntry ELSE UNCHANGED entryVars
MakeReady(x) == phase' = (IF prepared = x THEN "ready" ELSE phase) /\ UNCHANGED prepared
Reserved == phase \in {"committing", "reserved"}

Counted(what) == left[what] > 0 /\ left' = [left EXCEPT ![what] = @ - 1]
Fails == Counted("failures") /\ UNCHANGED overtaken
Calls == Counted("calls") /\ UNCHANGED overtaken

-----------------------------------------------------------------------------
(* Appending: every append of the chain ends in appendCore().              *)

\* The state the append works on; a log of an unknown state is adopted first,
\* which repairs it and takes a ready preparation.
Adoptable == stored # <<>> /\ current = NoOne
AdoptedLog == IF unclean THEN Append(stored, Repair) ELSE stored
Adopt ==
  IF known
  THEN UNCHANGED <<backendVars, stateVars, entryVars>>
  ELSE /\ stored' = AdoptedLog /\ unclean' = FALSE
       /\ known' = TRUE /\ cursor' = Len(AdoptedLog) /\ owner' = NoOne
       /\ IF phase = "ready" THEN NoEntry ELSE UNCHANGED entryVars

Writable(events) == events # <<>> => ~Reserved
At(first) == first = IF known THEN cursor ELSE Len(AdoptedLog)

\* The batch goes to the backend, or is refused before.
Accepts(events, first) == events # <<>> /\ ~Reserved /\ (known \/ Adoptable) /\ At(first)

\* The write of a session's controller, one the final drain started or another.
WriteOp(x) == Op(IF retiring[x] = "flushing" THEN "drain" ELSE "write", x)
WriteOps(x) == {Op("write", x), Op("drain", x)}
\* Events an initialization stored already are left out of the batch.
Fresh(x) == SubSeq(log[x], (IF known /\ cursor > written[x] THEN cursor ELSE written[x]) + 1, writing[x])
FreshAt(x) == IF known /\ cursor > written[x] THEN cursor ELSE written[x]

\* The controller starts a write: the window closed, or a flush waits.  A write
\* that waited for the initialization holds the events pending when it began.
StartWrite(x) ==
  /\ live[x] = "ok" /\ writing[x] = 0 /\ written[x] < Len(log[x])
  /\ current = x \/ retiring[x] = "flushing"
  /\ \E end \in written[x] + 1 .. Len(log[x]) : writing' = [writing EXCEPT ![x] = end]
  /\ Serialize(WriteOp(x))
  /\ UNCHANGED <<backendVars, stateVars, deletes, batch, entryVars, sourceVars, sessionVars, live,
                 written, storeVars, readerVars, deletionVars, boundVars>>

WriteSucceeded(x) ==
  /\ written' = [written EXCEPT ![x] = writing[x]]
  /\ writing' = [writing EXCEPT ![x] = 0]
  /\ UNCHANGED <<live, storeVars>>

Forget(x) == retirement' = (IF retirement = x THEN NoOne ELSE retirement)

\* The drain rejects when its own write fails; an older one is retried, unless
\* it was that of a flush the drain joined.
WriteFailed(x) ==
  /\ writing' = [writing EXCEPT ![x] = 0]
  /\ \/ retiring[x] = "flushing" /\ retiring' = [retiring EXCEPT ![x] = "failed"] /\ Forget(x)
     \/ Head(chain) = Op("write", x) /\ UNCHANGED <<retiring, retirement>>
  /\ UNCHANGED <<live, written, current>>

WriteBegins(x) ==
  /\ \E op \in WriteOps(x) : Begins(op)
  /\ \/ /\ Accepts(Fresh(x), FreshAt(x))
        /\ Adopt /\ batch' = Fresh(x)
        /\ UNCHANGED <<chain, writeVars, storeVars>>
     \/ /\ Fresh(x) = <<>>
        /\ OpEnds /\ WriteSucceeded(x)
        /\ UNCHANGED <<batch, backendVars, stateVars, entryVars>>
     \/ /\ Fresh(x) # <<>> /\ ~Accepts(Fresh(x), FreshAt(x))
        /\ IF ~Reserved /\ ~known /\ Adoptable THEN Adopt
           ELSE UNCHANGED <<backendVars, stateVars, entryVars>>
        /\ OpEnds /\ WriteFailed(x)
        /\ UNCHANGED batch
  /\ UNCHANGED <<deletes, sourceVars, sessionVars, readerVars, deletionVars, boundVars>>

\* append() of the public API, from a sequence number on.
PublicAppend(first) ==
  /\ deletion = "none" /\ Calls
  /\ Serialize(Op("append", first))
  /\ UNCHANGED <<backendVars, stateVars, deletes, batch, entryVars, sourceVars, sessionVars,
                 writeVars, storeVars, readerVars, deletionVars>>

PublicAppendBegins(first) ==
  /\ Begins(Op("append", first))
  /\ IF ~Reserved /\ (known \/ Adoptable)
     THEN /\ Adopt
          /\ IF At(first) THEN batch' = <<Import>> /\ UNCHANGED chain ELSE OpEnds /\ UNCHANGED batch
     ELSE OpEnds /\ UNCHANGED <<batch, backendVars, stateVars, entryVars>>
  /\ UNCHANGED <<deletes, sourceVars, sessionVars, writeVars, storeVars, readerVars, deletionVars,
                 boundVars>>

\* The backend stored the batch: the cursor advances and a preparation made
\* from the former log is dropped.  The batch may end inside a turn.
Stored ==
  /\ stored' = stored \o batch /\ unclean' \in BOOLEAN
  /\ cursor' = cursor + Len(batch)
  /\ NoEntry
  /\ batch' = <<>> /\ OpEnds
  /\ UNCHANGED <<known, owner, deletes, sourceVars, sessionVars, readerVars, deletionVars,
                 left>>

Initialized(x, how) ==
  live' = [live EXCEPT ![x] = how] /\ UNCHANGED <<written, writing, storeVars>>

AppendReturns ==
  /\ batch # <<>> /\ Stored
  /\ \/ \E x \in Sessions : (\E op \in WriteOps(x) : Awaits(op)) /\ WriteSucceeded(x) /\ UNCHANGED overtaken
     \/ \E x \in Sessions, kind \in {"init", "suffix"} :
          Awaits(Op(kind, x)) /\ Initialized(x, "ok") /\ UNCHANGED overtaken
     \/ \E first \in 0..Len(stored) :
          /\ Awaits(Op("append", first))
          /\ overtaken' = overtaken \cup {x \in Sessions : live[x] # "none"}
          /\ UNCHANGED <<writeVars, storeVars>>

AppendFails ==
  /\ batch # <<>> /\ Fails /\ batch' = <<>> /\ OpEnds
  /\ \/ \E x \in Sessions : (\E op \in WriteOps(x) : Awaits(op)) /\ WriteFailed(x)
     \/ \E x \in Sessions, kind \in {"init", "suffix"} :
          Awaits(Op(kind, x)) /\ Initialized(x, "failed")
     \/ \E first \in 0..Len(stored) :
          Awaits(Op("append", first)) /\ UNCHANGED <<writeVars, storeVars>>
  /\ UNCHANGED <<backendVars, stateVars, deletes, entryVars, sourceVars, sessionVars, readerVars,
                 deletionVars>>

-----------------------------------------------------------------------------
(* Sessions of the store.                                                  *)

\* initFor() of a session that no preparation announced.
Enters(x, events) ==
  /\ born' = born \cup {x} /\ current' = x
  /\ log' = [log EXCEPT ![x] = events]
  /\ seed' = [seed EXCEPT ![x] = Len(events)]
  /\ written' = [written EXCEPT ![x] = Len(events)]
  /\ live' = [live EXCEPT ![x] = "pending"]
  /\ Serialize(Op("init", x))

\* A plugin creates a session, alone, forked or with the stored log as its
\* seed.  While a preparation owns the identity the publication is refused.
Seeds(x) == {<<>>, <<x>>, stored}
Create ==
  /\ current = NoOne /\ prepared = NoOne /\ Spares # {}
  /\ Counted("births")
  /\ \E events \in Seeds(Spare) : Enters(Spare, events)
  /\ UNCHANGED <<backendVars, stateVars, deletes, batch, entryVars, sourceVars, writing, retiring,
                 retirement, readerVars, deletionVars, overtaken>>

\* session/event: the live record buffers what the session appended.
SessionAppends(x) ==
  /\ current = x /\ Counted("events")
  /\ log' = [log EXCEPT ![x] = Append(@, x)]
  /\ UNCHANGED <<backendVars, stateVars, chainVars, entryVars, sourceVars, born, seed, writeVars,
                 storeVars, readerVars, deletionVars, overtaken>>

Seed(x) == SubSeq(log[x], 1, seed[x])
HasWork(x) == live[x] # "none" /\ (writing[x] # 0 \/ written[x] < Len(log[x]))

\* onCreated(): an abandoned lazy session gives the identity up, an unowned
\* state and an unknown log are claimed by a session that has them as its
\* beginning, nothing else is.
Abandoned == known /\ owner # NoOne /\ cursor = 0 /\ ~HasWork(owner)
Claimed == IF known /\ owner = NoOne THEN SubSeq(stored, 1, cursor) ELSE stored
Claims(x) ==
  /\ ~known \/ owner = NoOne \/ Abandoned
  /\ Covers(Seed(x), Claimed)
  /\ stored = <<>> /\ ~(known /\ owner = NoOne) => prepared = NoOne

InitBegins(x) ==
  /\ Begins(Op("init", x))
  /\ IF Claims(x)
     THEN LET suffix == SubSeq(Seed(x), Len(Claimed) + 1, seed[x])
          IN /\ known' = TRUE /\ owner' = x /\ cursor' = Len(Claimed)
             /\ IF suffix = <<>> \/ Reserved
                THEN /\ OpEnds /\ UNCHANGED batch
                     /\ Initialized(x, IF suffix = <<>> THEN "ok" ELSE "failed")
                ELSE batch' = suffix /\ UNCHANGED <<chain, writeVars, storeVars>>
     ELSE /\ IF Abandoned THEN known' = FALSE /\ cursor' = 0 /\ owner' = NoOne
             ELSE UNCHANGED stateVars
          /\ OpEnds /\ Initialized(x, "failed")
          /\ UNCHANGED batch
  /\ UNCHANGED <<backendVars, deletes, entryVars, sourceVars, sessionVars, readerVars,
                 deletionVars, boundVars>>

\* session/disposed: the session leaves the store and its final drain starts.
Dispose(x) ==
  /\ current = x /\ current' = NoOne
  /\ retiring' = [retiring EXCEPT ![x] = "flushing"]
  /\ retirement' = x
  /\ UNCHANGED <<backendVars, stateVars, chainVars, entryVars, sourceVars, sessionVars, writeVars,
                 readerVars, deletionVars, boundVars>>

\* Fault: the drain ends with what was pending when it began.
FlushEndsEarly(x) ==
  /\ retiring[x] = "flushing" /\ live[x] = "ok" /\ writing[x] = 0
  /\ retiring' = [retiring EXCEPT ![x] = "queued"]
  /\ Serialize(Op("retire", x))
  /\ UNCHANGED <<backendVars, stateVars, deletes, batch, entryVars, sourceVars, sessionVars,
                 writeVars, current, retirement, readerVars, deletionVars, boundVars>>

FlushEnds(x) ==
  /\ retiring[x] = "flushing" /\ live[x] = "ok" /\ writing[x] = 0 /\ written[x] = Len(log[x])
  /\ retiring' = [retiring EXCEPT ![x] = "queued"]
  /\ Serialize(Op("retire", x))
  /\ UNCHANGED <<backendVars, stateVars, deletes, batch, entryVars, sourceVars, sessionVars,
                 writeVars, current, retirement, readerVars, deletionVars, boundVars>>

FlushFails(x) ==
  /\ retiring[x] = "flushing" /\ live[x] = "failed"
  /\ retiring' = [retiring EXCEPT ![x] = "failed"] /\ Forget(x)
  /\ UNCHANGED <<backendVars, stateVars, chainVars, entryVars, sourceVars, sessionVars, writeVars,
                 current, readerVars, deletionVars, boundVars>>

Retires(x) ==
  /\ Begins(Op("retire", x))
  /\ live' = [live EXCEPT ![x] = "none"]
  /\ IF known /\ owner = x THEN known' = FALSE /\ cursor' = 0 /\ owner' = NoOne
     ELSE UNCHANGED stateVars
  /\ retiring' = [retiring EXCEPT ![x] = "done"] /\ Forget(x)
  /\ OpEnds
  /\ UNCHANGED <<backendVars, deletes, batch, entryVars, sourceVars, sessionVars, written, writing,
                 current, readerVars, deletionVars, boundVars>>

-----------------------------------------------------------------------------
(* prepare(), load() and inspect().                                        *)

Deleting == deletion # "none"
WaitFailed(x) == x \in {y \in Sessions : retiring[y] = "failed"}
WaitOver(x) == x = NoOne \/ x \in {y \in Sessions : retiring[y] \in {"done", "failed"}}

Goes(r, to) == pc' = [pc EXCEPT ![r] = to]
Finishes(r) == Goes(r, "done") /\ hold' = [hold EXCEPT ![r] = NoOne] /\ UNCHANGED <<role, waits>>
\* The beginning of the loop, which a deletion stops.
Loops(r) ==
  /\ Goes(r, IF Deleting THEN "done" ELSE "asked")
  /\ hold' = [hold EXCEPT ![r] = NoOne]
  /\ waits' = [waits EXCEPT ![r] = IF Deleting THEN @ ELSE retirement]
  /\ UNCHANGED role

ReaderFrame == <<backendVars, stateVars, deletes, batch, sessionVars, writeVars, storeVars,
                 deletionVars>>

Ask(r, as) ==
  /\ pc[r] = "idle" /\ ~Deleting /\ Counted("asks")
  /\ role' = [role EXCEPT ![r] = as]
  /\ Goes(r, "asked") /\ waits' = [waits EXCEPT ![r] = retirement]
  /\ UNCHANGED <<ReaderFrame, chain, entryVars, sourceVars, hold, overtaken>>

\* The entry is joined, or made and its load queued at once.
Looks(r) ==
  /\ pc[r] = "asked" /\ WaitOver(waits[r])
  /\ IF WaitFailed(waits[r]) \/ current # NoOne
     THEN Finishes(r) /\ UNCHANGED <<chain, entryVars, result>>
     ELSE /\ Goes(r, "result")
          /\ IF prepared # NoOne
             THEN hold' = [hold EXCEPT ![r] = prepared] /\ UNCHANGED <<chain, entryVars, result>>
             ELSE /\ Spares # {}
                  /\ hold' = [hold EXCEPT ![r] = Spare]
                  /\ prepared' = Spare /\ phase' = "loading"
                  /\ result' = [result EXCEPT ![Spare] = "pending"]
                  /\ Serialize(Op("load", Spare))
          /\ UNCHANGED <<role, waits>>
  /\ UNCHANGED <<ReaderFrame, base, repair, boundVars>>

\* prepareCore(): the session is built, with the events that close the log.
Loads(x) ==
  /\ Begins(Op("load", x)) /\ OpEnds
  /\ IF stored = <<>> \/ current # NoOne
     THEN /\ result' = [result EXCEPT ![x] = "failed"] /\ RemoveEntryOf(x)
          /\ UNCHANGED <<base, repair, log>>
     ELSE /\ result' = [result EXCEPT ![x] = "ok"] /\ MakeReady(x)
          /\ base' = [base EXCEPT ![x] = stored]
          /\ repair' = [repair EXCEPT ![x] = unclean]
          /\ log' = [log EXCEPT ![x] = AdoptedLog]
  /\ UNCHANGED <<backendVars, stateVars, deletes, batch, born, seed, writeVars, storeVars,
                 readerVars, deletionVars, boundVars>>

LoadFailed(r) ==
  /\ pc[r] = "result" /\ result[hold[r]] = "failed"
  /\ Finishes(r)
  /\ UNCHANGED <<ReaderFrame, chain, entryVars, sourceVars, boundVars>>

\* reserve(): one reader at a time takes a ready entry, the others wait.
TakesTurn(r) ==
  /\ pc[r] = "result" /\ role[r] # "inspect" /\ result[hold[r]] = "ok"
  /\ \/ prepared # hold[r] /\ Loops(r) /\ UNCHANGED <<chain, entryVars>>
     \/ /\ prepared = hold[r] /\ phase = "ready"
        /\ phase' = "committing" /\ UNCHANGED prepared
        /\ Goes(r, "commit") /\ UNCHANGED <<role, hold, waits>>
        /\ Serialize(Op("commit", r))
  /\ UNCHANGED <<ReaderFrame, sourceVars, boundVars>>

\* Fault: a prepared source is taken for current without reading the revision.
CurrentAlways(x) == x \in Sessions

\* isPreparedSourceCurrent()
Current(x) == base[x] = stored /\ repair[x] = unclean

\* commitPrepared(): a repair changes the revision, so it is reloaded; the
\* cursor of a state that nobody owns is behind the log until then.
CommitFails(r) ==
  /\ \/ known /\ owner # NoOne /\ UNCHANGED boundVars
     \/ (known => owner = NoOne) /\ Current(hold[r]) /\ repair[hold[r]] /\ Fails
  /\ Goes(r, "refused") /\ UNCHANGED <<backendVars, stateVars>>

CommitReloads(r) ==
  /\ known => owner = NoOne
  /\ \/ ~Current(hold[r]) /\ UNCHANGED <<backendVars, overtaken>>
     \/ /\ Current(hold[r]) /\ repair[hold[r]]
        /\ stored' = AdoptedLog /\ unclean' = FALSE
        /\ overtaken' = IF known THEN overtaken \cup {NoOne} ELSE overtaken
  /\ Goes(r, "uncommitted") /\ UNCHANGED <<stateVars, left>>

CommitSucceeds(r) ==
  /\ known => owner = NoOne
  /\ Current(hold[r]) /\ ~repair[hold[r]]
  /\ known' = TRUE /\ cursor' = Len(base[hold[r]]) /\ UNCHANGED owner
  /\ Goes(r, "committed") /\ UNCHANGED <<backendVars, boundVars>>

Commits(r) ==
  /\ Begins(Op("commit", r)) /\ OpEnds
  /\ \/ pc[r] = "commit" /\ (CommitFails(r) \/ CommitReloads(r) \/ CommitSucceeds(r))
     \/ pc[r] # "commit" /\ UNCHANGED <<pc, backendVars, stateVars, boundVars>>
  /\ UNCHANGED <<deletes, batch, entryVars, sourceVars, sessionVars, writeVars, storeVars, role,
                 hold, waits, deletionVars>>

\* Fault: a commit that failed leaves its entry in the cache.
CommitLeavesEntry(r) ==
  /\ \/ pc[r] = "refused" /\ Finishes(r) /\ UNCHANGED entryVars
     \/ pc[r] = "uncommitted" /\ RemoveEntryOf(hold[r]) /\ Loops(r)
     \/ pc[r] = "committed" /\ prepared # hold[r] /\ Loops(r) /\ UNCHANGED entryVars
     \/ /\ pc[r] = "committed" /\ prepared = hold[r]
        /\ IF role[r] = "load" \/ current # NoOne
           THEN NoEntry /\ Finishes(r)
           ELSE /\ phase' = "reserved" /\ UNCHANGED prepared
                /\ Goes(r, "reserved") /\ UNCHANGED <<role, hold, waits>>
  /\ UNCHANGED <<ReaderFrame, chain, sourceVars, boundVars>>

\* What the caller of commit() finds when it resumes.
CommitReturns(r) ==
  /\ \/ pc[r] = "refused" /\ RemoveEntryOf(hold[r]) /\ Finishes(r)
     \/ pc[r] = "uncommitted" /\ RemoveEntryOf(hold[r]) /\ Loops(r)
     \/ pc[r] = "committed" /\ prepared # hold[r] /\ Loops(r) /\ UNCHANGED entryVars
     \/ /\ pc[r] = "committed" /\ prepared = hold[r]
        /\ IF role[r] = "load" \/ current # NoOne
           THEN NoEntry /\ Finishes(r)
           ELSE /\ phase' = "reserved" /\ UNCHANGED prepared
                /\ Goes(r, "reserved") /\ UNCHANGED <<role, hold, waits>>
  /\ UNCHANGED <<ReaderFrame, chain, sourceVars, boundVars>>

\* An abort is observed before the commit begins and after it ended.
Aborts(r) ==
  /\ Calls
  /\ \/ pc[r] \in {"asked", "result", "check"} /\ UNCHANGED entryVars
     \/ pc[r] = "commit" /\ RemoveEntryOf(hold[r])
     \/ pc[r] = "committed" /\ MakeReady(hold[r])
  /\ Finishes(r)
  /\ UNCHANGED <<ReaderFrame, chain, sourceVars>>

\* The unpublished session is set up.
SetupAppends(r) ==
  /\ pc[r] = "reserved" /\ Counted("events")
  /\ log' = [log EXCEPT ![hold[r]] = Append(@, hold[r])]
  /\ UNCHANGED <<backendVars, stateVars, chainVars, entryVars, sourceVars, born, seed, writeVars,
                 storeVars, readerVars, deletionVars, overtaken>>

\* Fault: a preparation is reused though its setup appended to it.
ReusableUnowned(x) == x \in Sessions /\ ~(known /\ owner # NoOne)

\* The preparation is given back, to be reused if nothing was appended.
Reusable(x) == ~(known /\ owner # NoOne) /\ Len(log[x]) = Len(base[x])
Release(r) ==
  /\ pc[r] = "reserved"
  /\ IF phase = "reserved" /\ Reusable(hold[r]) THEN MakeReady(hold[r]) ELSE RemoveEntryOf(hold[r])
  /\ Finishes(r)
  /\ UNCHANGED <<ReaderFrame, chain, sourceVars, boundVars>>

\* The exact session is published: attachPrepared() binds it to the cursor and
\* stores what its setup appended.
Publish(r) ==
  LET x == hold[r]
      suffix == Len(log[x]) > cursor
  IN /\ pc[r] = "reserved" /\ current = NoOne /\ Counted("births")
     /\ prepared = x /\ phase = "reserved" /\ owner = NoOne /\ cursor = Len(base[x])
     /\ NoEntry /\ owner' = x /\ current' = x /\ born' = born \cup {x}
     /\ seed' = [seed EXCEPT ![x] = Len(log[x])]
     /\ written' = [written EXCEPT ![x] = Len(log[x])]
     /\ live' = [live EXCEPT ![x] = IF suffix THEN "pending" ELSE "ok"]
     /\ IF suffix THEN Serialize(Op("suffix", x)) ELSE UNCHANGED chain
     /\ Finishes(r)
  /\ UNCHANGED <<backendVars, known, cursor, deletes, batch, sourceVars, log, writing, retiring,
                 retirement, deletionVars, overtaken>>

SuffixBegins(x) ==
  /\ Begins(Op("suffix", x))
  /\ LET suffix == SubSeq(log[x], Len(base[x]) + 1, seed[x])
     IN IF Accepts(suffix, Len(base[x]))
        THEN Adopt /\ batch' = suffix /\ UNCHANGED <<chain, writeVars, storeVars>>
        ELSE /\ OpEnds /\ Initialized(x, "failed")
             /\ UNCHANGED <<batch, backendVars, stateVars, entryVars>>
  /\ UNCHANGED <<deletes, sourceVars, sessionVars, readerVars, deletionVars, boundVars>>

\* An inspection checks on the chain that what it read is still stored.
Inspects(r) ==
  /\ pc[r] = "result" /\ role[r] = "inspect" /\ result[hold[r]] = "ok"
  /\ IF current # NoOne
     THEN Finishes(r) /\ UNCHANGED chain
     ELSE /\ Goes(r, "check") /\ UNCHANGED <<role, hold, waits>>
          /\ Serialize(Op("check", r))
  /\ UNCHANGED <<ReaderFrame, entryVars, sourceVars, boundVars>>

Checks(r) ==
  /\ Begins(Op("check", r)) /\ OpEnds
  /\ IF pc[r] = "check" THEN Goes(r, IF Current(hold[r]) THEN "fresh" ELSE "stale")
     ELSE UNCHANGED pc
  /\ UNCHANGED <<ReaderFrame, entryVars, sourceVars, role, hold, waits, boundVars>>

\* A stale view is dropped and read again, unless a reader holds it.
CheckReturns(r) ==
  /\ pc[r] \in {"fresh", "stale"}
  /\ IF pc[r] = "stale" /\ current = NoOne /\ (prepared # hold[r] \/ phase = "ready")
     THEN RemoveEntryOf(hold[r]) /\ Loops(r)
     ELSE Finishes(r) /\ UNCHANGED entryVars
  /\ UNCHANGED <<ReaderFrame, chain, sourceVars, boundVars>>

\* The ready preparations of other identities push this one out.
Evicted ==
  /\ phase = "ready" /\ Calls /\ NoEntry
  /\ UNCHANGED <<backendVars, stateVars, chainVars, sourceVars, sessionVars, writeVars, storeVars,
                 readerVars, deletionVars>>

-----------------------------------------------------------------------------
(* create() and delete() of the public API.                                *)

PublicCreate ==
  /\ ~Deleting /\ Calls
  /\ Serialize(Op("create", NoOne))
  /\ UNCHANGED <<backendVars, stateVars, deletes, batch, entryVars, sourceVars, sessionVars,
                 writeVars, storeVars, readerVars, deletionVars>>

PublicCreates ==
  /\ Begins(Op("create", NoOne)) /\ OpEnds
  /\ IF known \/ prepared # NoOne \/ stored # <<>>
     THEN UNCHANGED stateVars
     ELSE known' = TRUE /\ cursor' = 0 /\ owner' = NoOne
  /\ UNCHANGED <<backendVars, deletes, batch, entryVars, sourceVars, sessionVars, writeVars,
                 storeVars, readerVars, deletionVars, boundVars>>

Delete ==
  /\ ~Deleting /\ Calls
  /\ deletion' = "waiting" /\ deletionWaits' = retirement
  /\ UNCHANGED <<backendVars, stateVars, chainVars, entryVars, sourceVars, sessionVars, writeVars,
                 storeVars, readerVars>>

DeletionOver == deletion' = "none" /\ deletionWaits' = NoOne

DeletionQueues ==
  /\ deletion = "waiting" /\ WaitOver(deletionWaits)
  /\ IF WaitFailed(deletionWaits) \/ current # NoOne
     THEN DeletionOver /\ UNCHANGED chain
     ELSE deletion' = "queued" /\ Serialize(Op("delete", NoOne)) /\ UNCHANGED deletionWaits
  /\ UNCHANGED <<backendVars, stateVars, deletes, batch, entryVars, sourceVars, sessionVars,
                 writeVars, storeVars, readerVars, boundVars>>

\* A live or reserved identity is not deleted.
MayDelete == current = NoOne /\ ~Reserved
DeletionBegins ==
  /\ Begins(Op("delete", NoOne))
  /\ IF MayDelete
     THEN deletes' = TRUE /\ NoEntry /\ UNCHANGED <<chain, deletionVars>>
     ELSE OpEnds /\ DeletionOver /\ UNCHANGED <<deletes, entryVars>>
  /\ UNCHANGED <<backendVars, stateVars, batch, sourceVars, sessionVars, writeVars, storeVars,
                 readerVars, boundVars>>

DeletionReturns ==
  /\ deletes /\ deletes' = FALSE /\ OpEnds /\ DeletionOver
  /\ \/ /\ stored' = <<>> /\ unclean' = FALSE
        /\ known' = FALSE /\ cursor' = 0 /\ owner' = NoOne
        /\ overtaken' = overtaken \cup {x \in Sessions \ {current} : live[x] # "none"}
        /\ UNCHANGED left
     \/ Fails /\ UNCHANGED <<backendVars, stateVars>>
  /\ UNCHANGED <<batch, entryVars, sourceVars, sessionVars, writeVars, storeVars, readerVars>>

-----------------------------------------------------------------------------
Init ==
  /\ \E start \in Starts :
       /\ stored = start.stored /\ unclean = start.unclean /\ left = start.left
       /\ log = [x \in Sessions |-> IF x = 1 THEN start.live ELSE <<>>]
       /\ LET hot == start.live # <<>>   \* a session already in the store
              first(a, b) == [x \in Sessions |-> IF hot /\ x = 1 THEN a ELSE b]
          IN /\ born = (IF hot THEN {1} ELSE {})
             /\ current = (IF hot THEN 1 ELSE NoOne)
             /\ seed = first(Len(start.live), 0) /\ written = first(Len(start.live), 0)
             /\ live = first("pending", "none")
             /\ chain = (IF hot THEN <<Op("init", 1)>> ELSE <<>>)
  /\ known = FALSE /\ cursor = 0 /\ owner = NoOne
  /\ deletes = FALSE /\ batch = <<>>
  /\ prepared = NoOne /\ phase = "none"
  /\ result = [x \in Sessions |-> "none"]
  /\ base = [x \in Sessions |-> <<>>]
  /\ repair = [x \in Sessions |-> FALSE]
  /\ writing = [x \in Sessions |-> 0]
  /\ retiring = [x \in Sessions |-> "none"] /\ retirement = NoOne
  /\ role = [r \in Readers |-> "none"] /\ pc = [r \in Readers |-> "idle"]
  /\ hold = [r \in Readers |-> NoOne] /\ waits = [r \in Readers |-> NoOne]
  /\ deletion = "none" /\ deletionWaits = NoOne
  /\ overtaken = {}

ChainRuns ==
  \/ \E x \in Sessions : WriteBegins(x) \/ InitBegins(x) \/ SuffixBegins(x) \/ Retires(x) \/ Loads(x)
  \/ \E r \in Readers : Commits(r) \/ Checks(r)
  \/ \E first \in 0..Len(stored) : PublicAppendBegins(first)
  \/ PublicCreates \/ DeletionBegins \/ DeletionReturns
  \/ AppendReturns \/ AppendFails

Continues(r) ==
  Looks(r) \/ LoadFailed(r) \/ TakesTurn(r) \/ CommitReturns(r) \/ Inspects(r) \/ CheckReturns(r)

Drains(x) == FlushEnds(x) \/ FlushFails(x)

\* What callers do, at any time or never.
Callers ==
  \/ Create
  \/ \E x \in Sessions : SessionAppends(x) \/ Dispose(x)
  \/ \E r \in Readers :
       \/ \E as \in {"prepare", "load", "inspect"} : Ask(r, as)
       \/ Aborts(r) \/ SetupAppends(r) \/ Publish(r)
  \/ PublicCreate \/ PublicAppend(0) \/ (stored # <<>> /\ PublicAppend(Len(stored)))
  \/ Delete \/ Evicted

Next ==
  \/ Callers \/ ChainRuns \/ DeletionQueues
  \/ \E x \in Sessions : StartWrite(x) \/ Drains(x)
  \/ \E r \in Readers : Continues(r) \/ Release(r)

Spec == Init /\ [][Next]_vars

\* The backend answers, settled awaits resume, a drain writes, and whoever
\* holds a preparation publishes it or gives it back.
FairSpec ==
  /\ Spec
  /\ WF_vars(ChainRuns) /\ WF_vars(DeletionQueues)
  /\ \A x \in Sessions : WF_vars(retiring[x] = "flushing" /\ (StartWrite(x) \/ Drains(x)))
  /\ \A r \in Readers : WF_vars(Continues(r)) /\ WF_vars(Release(r))

-----------------------------------------------------------------------------
(* Properties.                                                             *)

Phases == {"none", "loading", "ready", "committing", "reserved"}

TypeOK ==
  /\ stored \in Log /\ unclean \in BOOLEAN
  /\ known \in BOOLEAN /\ cursor \in Nat /\ owner \in Sessions \cup {NoOne}
  /\ deletes \in BOOLEAN /\ batch \in Log
  /\ prepared \in Sessions \cup {NoOne} /\ phase \in Phases
  /\ result \in [Sessions -> {"none", "pending", "ok", "failed"}]
  /\ base \in [Sessions -> Log] /\ repair \in [Sessions -> BOOLEAN]
  /\ born \subseteq Sessions /\ log \in [Sessions -> Log]
  /\ live \in [Sessions -> {"none", "pending", "ok", "failed"}]
  /\ seed \in [Sessions -> Nat] /\ written \in [Sessions -> Nat] /\ writing \in [Sessions -> Nat]
  /\ current \in Sessions \cup {NoOne}
  /\ retiring \in [Sessions -> {"none", "flushing", "queued", "done", "failed"}]
  /\ retirement \in Sessions \cup {NoOne}
  /\ deletion \in {"none", "waiting", "queued"} /\ deletionWaits \in Sessions \cup {NoOne}
  /\ left \in Bounds /\ overtaken \subseteq Sessions \cup {NoOne}

\* A state names the stored log: its cursor is the log's length, unless a
\* repair overtook it, and the log is the beginning of its owner's, unless a
\* public append or a deletion overtook a session that was still writing.
CursorNamesTheLog == known /\ ~deletes =>
  /\ NoOne \notin overtaken => cursor = Len(stored)
  /\ owner # NoOne /\ overtaken = {} => Covers(log[owner], stored)

\* Whoever holds a preparation holds it alone, and it is the stored log as it
\* is, clean, nobody's and without a session in the store; what waits to be
\* reserved has not been touched since it was read.
ReservedIsCurrent ==
  /\ \A r \in Readers : pc[r] = "reserved" =>
       /\ prepared = hold[r] /\ phase = "reserved"
       /\ \A s \in Readers \ {r} : pc[s] # "reserved"
       /\ stored = base[hold[r]] /\ ~unclean
       /\ known /\ owner = NoOne /\ cursor = Len(stored) /\ current = NoOne
  /\ phase \in {"ready", "committing"} =>
       Len(log[prepared]) = Len(base[prepared]) + (IF repair[prepared] THEN 1 ELSE 0)
  /\ current # NoOne => prepared = NoOne

\* A session whose final drain succeeded is stored, every event of it.
RetiredIsStored == [][\A x \in Sessions :
  retiring[x] # "done" /\ retiring'[x] = "done" /\ overtaken = {}
    => Covers(stored, log[x])]_vars

\* Every reader is answered, every final drain settles and every deletion too.
CallsSettle ==
  /\ \A r \in Readers : pc[r] = "asked" ~> pc[r] = "done"
  /\ \A x \in Sessions : retiring[x] = "flushing" ~> retiring[x] \in {"done", "failed"}
  /\ deletion # "none" ~> deletion = "none"
=============================================================================
