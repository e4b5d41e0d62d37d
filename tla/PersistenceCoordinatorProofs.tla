--------------------- MODULE PersistenceCoordinatorProofs ---------------------
(***************************************************************************)
(* Theorems about the coordinator: for any number of sessions and readers, *)
(* any logs at the start and any order of the calls, a reservation is      *)
(* exclusive and current, the cursor names the stored log, and a session   *)
(* whose final drain succeeded is stored.                                  *)
(***************************************************************************)
EXTENDS PersistenceCoordinator, SequenceTheorems, TLAPS

-----------------------------------------------------------------------------
(* The inductive invariant.                                                *)

SessionKinds == {"load", "init", "suffix", "write", "drain", "retire"}
Ops == (SessionKinds \X Sessions) \cup ({"commit", "check"} \X Readers)
         \cup ({"append"} \X Nat) \cup ({"create", "delete"} \X {NoOne})

Values(seq) == {seq[i] : i \in DOMAIN seq}
Queued == Values(chain)

\* At most one operation of a session is queued or runs.
Twins(o, p) == o[1] \in SessionKinds /\ p[1] \in SessionKinds /\ o[2] = p[2]
Untwinned(seq) == \A i, j \in DOMAIN seq : Twins(seq[i], seq[j]) => i = j

\* An a is queued, and no b before it.
Before(seq, a, b) == \E j \in DOMAIN seq : seq[j] = a /\ \A i \in 1 .. j : seq[i] # b

Places == {"idle", "asked", "result", "commit", "refused", "uncommitted", "committed",
           "reserved", "check", "fresh", "stale", "done"}
Turns == {"commit", "refused", "uncommitted", "committed"}
Holding == Turns \cup {"result", "reserved", "check", "fresh", "stale"}

ReaderTypes ==
  /\ role \in [Readers -> {"none", "prepare", "load", "inspect"}]
  /\ pc \in [Readers -> Places]
  /\ hold \in [Readers -> Sessions \cup {NoOne}] /\ waits \in [Readers -> Sessions \cup {NoOne}]
  /\ \A r \in Readers : pc[r] \in Holding => hold[r] \in Sessions
ChainTypes == chain \in Seq(Ops) /\ Untwinned(chain)
Types == TypeOK /\ ReaderTypes /\ ChainTypes

\* The operation at the head, while it awaits the backend.
HeadInv ==
  /\ batch # <<>> =>
       /\ chain # <<>> /\ Head(chain)[1] \in {"init", "suffix", "write", "drain", "append"}
       /\ known /\ ~deletes
  /\ deletes => chain # <<>> /\ Head(chain) = Op("delete", NoOne)

\* The write cursor.
StateInv ==
  /\ ~known => owner = NoOne /\ cursor = 0
  /\ owner # NoOne => live[owner] # "none"
  /\ known /\ NoOne \notin overtaken => cursor = Len(stored)

\* A session, its live record and its controller.
SessionInv(x) ==
  /\ x \notin born =>
       live[x] = "none" /\ retiring[x] = "none" /\ seed[x] = 0 /\ written[x] = 0 /\ writing[x] = 0
  /\ x = current => x \in born /\ live[x] # "none" /\ retiring[x] = "none"
  /\ live[x] = "pending" => seed[x] = written[x]
  /\ seed[x] <= Len(log[x]) /\ written[x] <= Len(log[x])
  /\ writing[x] # 0 => live[x] = "ok" /\ written[x] < writing[x] /\ writing[x] <= Len(log[x])
  /\ retiring[x] = "queued" => live[x] = "ok" /\ writing[x] = 0 /\ written[x] = Len(log[x])

\* What the operations of a session wait to do.
QueueInv(x) ==
  /\ Op("load", x) \in Queued => x \notin born
  /\ Op("init", x) \in Queued \/ Op("suffix", x) \in Queued => live[x] = "pending"
  /\ Op("write", x) \in Queued \/ Op("drain", x) \in Queued => writing[x] # 0
  /\ Op("retire", x) \in Queued => retiring[x] = "queued"

\* The initialization of a session claims the state when it begins; the
\* session in the store is the last that was created.
ClaimInv(x) == Op("init", x) \in Queued =>
  /\ owner = x => batch # <<>> /\ Head(chain) = Op("init", x)
  /\ current # NoOne /\ x # current =>
       owner # current /\ Before(chain, Op("init", x), Op("init", current))
StoreInv == deletes /\ current # NoOne => Op("init", current) \in Queued

\* The shared preparation.
EntryInv ==
  /\ prepared = NoOne <=> phase = "none"
  /\ prepared # NoOne => prepared \notin born /\ current = NoOne
  /\ Op("load", prepared) \in Queued => phase = "loading"
  /\ deletes => phase \in {"none", "loading"}
  /\ phase \in {"ready", "committing", "reserved"} =>
       base[prepared] # <<>> /\ Covers(log[prepared], base[prepared])
  /\ phase \in {"ready", "committing"} =>
       Len(log[prepared]) = Len(base[prepared]) + (IF repair[prepared] THEN 1 ELSE 0)

\* It is loaded when every initialization queued before has run.
OrderInv(x) == Op("init", x) \in Queued /\ prepared # NoOne =>
  phase = "loading" /\ Before(chain, Op("init", x), Op("load", prepared))

\* The reader whose turn it is.
Owns(r) == prepared = hold[r] /\ pc[r] \in Turns \cup {"reserved"}
TurnInv(r) ==
  /\ pc[r] \in Turns /\ prepared = hold[r] => phase = "committing"
  /\ pc[r] = "reserved" => phase = "reserved" /\ prepared = hold[r]
  /\ \A s \in Readers \ {r} : ~(Owns(r) /\ Owns(s))

\* A commit whose entry was dropped runs before the next entry is loaded.
CommitInv(r) == pc[r] = "commit" =>
  /\ Op("commit", r) \in Queued
  /\ \/ prepared \in {hold[r], NoOne}
     \/ phase = "loading" /\ Before(chain, Op("commit", r), Op("load", prepared))

\* From its commit on, what a reader holds is the stored log and nobody's.
HeldInv(r) == Owns(r) /\ pc[r] \in {"committed", "reserved"} =>
  /\ stored = base[hold[r]] /\ ~unclean /\ ~repair[hold[r]]
  /\ known /\ owner = NoOne /\ cursor = Len(stored) /\ batch = <<>>

\* The log, while nobody overtook it: an owner's, up to the cursor; a session
\* that is not the owner any more had nothing to store.
LogInv(x) ==
  /\ owner = x => Covers(log[x], stored)
  /\ live[x] = "ok" => (owner = x /\ written[x] <= Len(stored)) \/ (log[x] = <<>> /\ x # current)
  /\ Op("suffix", x) \in Queued => owner = x /\ stored # <<>>
  /\ \A kind \in {"init", "suffix", "write", "drain"} :
       batch # <<>> /\ Head(chain) = Op(kind, x) =>
         /\ owner = x /\ Covers(log[x], stored \o batch)
         /\ Len(stored) + Len(batch) = (IF kind \in {"write", "drain"} THEN writing[x] ELSE seed[x])

SessionPart ==
  /\ HeadInv /\ StateInv /\ StoreInv
  /\ \A x \in Sessions : SessionInv(x) /\ QueueInv(x) /\ ClaimInv(x)
  /\ overtaken = {} => \A x \in Sessions : LogInv(x)
EntryPart ==
  /\ EntryInv
  /\ \A x \in Sessions : OrderInv(x)
  /\ \A r \in Readers : TurnInv(r) /\ CommitInv(r) /\ HeldInv(r)
CoordinatorInv == Types /\ SessionPart /\ EntryPart

-----------------------------------------------------------------------------
(* The chain.                                                              *)

\* t is s with o behind it.
PushedTo(S, s, t, o) ==
  /\ t \in Seq(S) /\ Values(t) = Values(s) \cup {o} /\ t # <<>>
  /\ Head(t) = IF s = <<>> THEN o ELSE Head(s)
  /\ \A a, b : Before(s, a, b) => Before(t, a, b)
  /\ \A a : a \in Values(s) /\ o \notin Values(s) => Before(t, a, o)
  /\ Untwinned(s) /\ (\A p \in Values(s) : ~Twins(p, o)) => Untwinned(t)

LEMMA PushFacts ==
  ASSUME NEW S, NEW s \in Seq(S), NEW o \in S
  PROVE  PushedTo(S, s, Append(s, o), o)
<1> DEFINE t == Append(s, o)
           n == Len(s)
<1>1. /\ n \in Nat /\ DOMAIN s = 1 .. n /\ (s = <<>> <=> n = 0) /\ (s # <<>> => Head(s) = s[1])
  BY LenProperties, EmptySeq, HeadTailProperties
<1>2. /\ t \in Seq(S) /\ t # <<>> /\ Head(t) = t[1] /\ Len(t) = n + 1 /\ DOMAIN t = 1 .. n + 1
      /\ \A i \in 1 .. n : t[i] = s[i]
      /\ t[n + 1] = o
  <2>1. t \in Seq(S) /\ t # <<>> /\ Len(t) = n + 1 /\ (\A i \in 1 .. n : t[i] = s[i]) /\ t[n + 1] = o
    BY AppendProperties
  <2> QED
    BY <2>1, LenProperties, HeadTailProperties
<1> HIDE DEF n, t
<1>3. Values(t) = Values(s) \cup {o}
  BY <1>1, <1>2 DEF Values
<1>4. Head(t) = IF s = <<>> THEN o ELSE Head(s)
  BY <1>1, <1>2
<1>5. ASSUME NEW a, NEW b, Before(s, a, b) PROVE Before(t, a, b)
  <2>1. PICK j \in 1 .. n : s[j] = a /\ \A i \in 1 .. j : s[i] # b
    BY <1>1, <1>5 DEF Before
  <2>2. t[j] = a /\ j \in 1 .. n + 1 /\ \A i \in 1 .. j : t[i] # b
    BY <1>1, <1>2, <2>1
  <2> QED
    BY <1>2, <2>2 DEF Before
<1>6. ASSUME NEW a, a \in Values(s), o \notin Values(s) PROVE Before(t, a, o)
  <2>1. PICK j \in 1 .. n : s[j] = a
    BY <1>1, <1>6 DEF Values
  <2>2. t[j] = a /\ j \in 1 .. n + 1 /\ \A i \in 1 .. j : t[i] # o
    BY <1>1, <1>2, <1>6, <2>1 DEF Values
  <2> QED
    BY <1>2, <2>2 DEF Before
<1>7. ASSUME Untwinned(s), \A p \in Values(s) : ~Twins(p, o) PROVE Untwinned(t)
  <2> SUFFICES ASSUME NEW i \in 1 .. n + 1, NEW j \in 1 .. n + 1, Twins(t[i], t[j]) PROVE i = j
    BY <1>2 DEF Untwinned
  <2>1. Twins(t[j], t[i])
    BY DEF Twins
  <2>2. \A k \in 1 .. n : t[k] \in Values(s)
    BY <1>1, <1>2 DEF Values
  <2>3. CASE i = n + 1 \/ j = n + 1
    BY <1>1, <1>2, <1>7, <2>1, <2>2, <2>3
  <2>4. CASE i # n + 1 /\ j # n + 1
    BY <1>1, <1>2, <1>7, <2>4 DEF Untwinned
  <2> QED
    BY <2>3, <2>4
<1>8. PushedTo(S, s, t, o)
  BY <1>2, <1>3, <1>4, <1>5, <1>6, <1>7 DEF PushedTo
<1> QED
  BY <1>8 DEF t

\* t is s without its head.
PoppedTo(S, s, t) ==
  /\ t \in Seq(S) /\ Values(s) = Values(t) \cup {Head(s)} /\ Head(s) \in S
  /\ \A a, b : Before(s, a, b) /\ a # Head(s) => Before(t, a, b)
  /\ \A a : ~Before(s, a, Head(s))
  /\ Untwinned(s) => Untwinned(t) /\ \A p \in Values(t) : ~Twins(Head(s), p)

LEMMA PopFacts ==
  ASSUME NEW S, NEW s \in Seq(S), s # <<>>
  PROVE  PoppedTo(S, s, Tail(s))
<1> DEFINE t == Tail(s)
           n == Len(s)
<1>1. /\ t \in Seq(S) /\ Len(t) = n - 1 /\ Head(s) = s[1] /\ Head(s) \in S
      /\ \A i \in 1 .. n - 1 : t[i] = s[i + 1]
  BY HeadTailProperties, LenProperties
<1>2. DOMAIN s = 1 .. n /\ n \in Nat \ {0} /\ DOMAIN t = 1 .. n - 1
  BY <1>1, LenProperties, EmptySeq
<1> HIDE DEF n, t
<1>3. Values(s) = Values(t) \cup {Head(s)}
  <2>1. \A i \in 1 .. n : i = 1 \/ (i - 1 \in 1 .. n - 1 /\ t[i - 1] = s[i])
    BY <1>1, <1>2
  <2>2. \A i \in 1 .. n - 1 : i + 1 \in 1 .. n /\ 1 \in 1 .. n
    BY <1>2
  <2>3. ASSUME NEW v \in Values(s) PROVE v \in Values(t) \cup {Head(s)}
    <3>1. PICK i \in 1 .. n : v = s[i]
      BY <1>2 DEF Values
    <3>2. CASE i = 1
      BY <1>1, <3>1, <3>2
    <3>3. CASE i - 1 \in 1 .. n - 1 /\ t[i - 1] = s[i]
      BY <1>2, <3>1, <3>3 DEF Values
    <3> QED
      BY <2>1, <3>2, <3>3
  <2>4. ASSUME NEW v \in Values(t) \cup {Head(s)} PROVE v \in Values(s)
    <3>1. CASE v = Head(s)
      BY <1>1, <1>2, <2>2, <3>1 DEF Values
    <3>2. CASE v \in Values(t)
      <4>1. PICK i \in 1 .. n - 1 : v = t[i]
        BY <1>2, <3>2 DEF Values
      <4> QED
        BY <1>1, <1>2, <2>2, <4>1 DEF Values
    <3> QED
      BY <3>1, <3>2
  <2> QED
    BY <2>3, <2>4
<1>4. ASSUME NEW a, NEW b, Before(s, a, b), a # Head(s) PROVE Before(t, a, b)
  <2>1. PICK j \in 1 .. n : s[j] = a /\ \A i \in 1 .. j : s[i] # b
    BY <1>2, <1>4 DEF Before
  <2>2. j # 1
    BY <1>1, <1>4, <2>1
  <2>3. j - 1 \in 1 .. n - 1 /\ t[j - 1] = a
    BY <1>1, <1>2, <2>1, <2>2
  <2>4. \A i \in 1 .. j - 1 : i \in 1 .. n - 1 /\ i + 1 \in 1 .. j
    BY <1>2, <2>1
  <2>5. \A i \in 1 .. j - 1 : t[i] # b
    BY <1>1, <2>1, <2>4
  <2> QED
    BY <1>2, <2>3, <2>5 DEF Before
<1>5. ASSUME NEW a, Before(s, a, Head(s)) PROVE FALSE
  BY <1>1, <1>2, <1>5 DEF Before
<1>6. ASSUME Untwinned(s) PROVE Untwinned(t) /\ \A p \in Values(t) : ~Twins(Head(s), p)
  <2>1. \A i \in 1 .. n - 1 : i + 1 \in 1 .. n /\ t[i] = s[i + 1] /\ 1 \in 1 .. n /\ i + 1 # 1
    BY <1>1, <1>2
  <2>2. \A i, j \in 1 .. n - 1 : i + 1 = j + 1 => i = j
    BY <1>2
  <2>3. Untwinned(t)
    <3> SUFFICES ASSUME NEW i \in 1 .. n - 1, NEW j \in 1 .. n - 1, Twins(t[i], t[j]) PROVE i = j
      BY <1>2 DEF Untwinned
    <3>1. i + 1 \in 1 .. n /\ j + 1 \in 1 .. n /\ Twins(s[i + 1], s[j + 1])
      BY <2>1
    <3>2. i + 1 = j + 1
      BY <1>2, <1>6, <3>1 DEF Untwinned
    <3> QED
      BY <2>2, <3>2
  <2>4. ASSUME NEW i \in 1 .. n - 1, Twins(Head(s), t[i]) PROVE FALSE
    <3>1. 1 \in 1 .. n /\ i + 1 \in 1 .. n /\ Twins(s[1], s[i + 1]) /\ i + 1 # 1
      BY <1>1, <2>1, <2>4
    <3> QED
      BY <1>2, <1>6, <3>1 DEF Untwinned
  <2> QED
    BY <1>2, <2>3, <2>4 DEF Values
<1>7. PoppedTo(S, s, t)
  BY <1>1, <1>3, <1>4, <1>5, <1>6 DEF PoppedTo
<1> QED
  BY <1>7 DEF t

\* An operation is queued behind all others.
Joins(o) ==
  /\ Queued' = Queued \cup {o}
  /\ chain' # <<>> /\ (chain # <<>> => Head(chain)' = Head(chain))
  /\ \A a, b : Before(chain, a, b) => Before(chain', a, b)
  /\ \A a \in Queued : o \notin Queued => Before(chain', a, o)

\* The head has run.
Leaves ==
  /\ Queued = Queued' \cup {Head(chain)} /\ Head(chain) \in Ops
  /\ \A a, b : Before(chain, a, b) /\ a # Head(chain) => Before(chain', a, b)
  /\ \A p \in Queued' : ~Twins(Head(chain), p)

LEMMA SerializeJoins ==
  ASSUME ChainTypes, NEW o \in Ops, Serialize(o), \A p \in Queued : ~Twins(p, o)
  PROVE  ChainTypes' /\ Joins(o)
<1>1. chain \in Seq(Ops) /\ Untwinned(chain) /\ chain' = Append(chain, o)
  BY DEF ChainTypes, Serialize
<1>2. PushedTo(Ops, chain, chain', o)
  BY <1>1, PushFacts
<1> QED
  BY <1>1, <1>2 DEF PushedTo, ChainTypes, Joins, Queued

LEMMA OpEndsLeaves ==
  ASSUME ChainTypes, chain # <<>>, OpEnds
  PROVE  ChainTypes' /\ Leaves /\ \A a : ~Before(chain, a, Head(chain))
<1>1. chain \in Seq(Ops) /\ Untwinned(chain) /\ chain' = Tail(chain)
  BY DEF ChainTypes, OpEnds
<1>2. PoppedTo(Ops, chain, chain')
  BY <1>1, PopFacts
<1> QED
  BY <1>1, <1>2 DEF PoppedTo, ChainTypes, Leaves, Queued

-----------------------------------------------------------------------------
(* Logs that begin alike.                                                  *)

LEMMA CoversIs ==
  ASSUME NEW S, NEW l \in Seq(S), NEW s \in Seq(S)
  PROVE  Covers(l, s) <=> Len(s) <= Len(l) /\ \A i \in 1 .. Len(s) : l[i] = s[i]
<1>1. Len(l) \in Nat /\ Len(s) \in Nat /\ (s = <<>> <=> Len(s) = 0)
  BY LenProperties, EmptySeq
<1>2. ASSUME Len(s) <= Len(l) PROVE SubSeq(l, 1, Len(s)) = s <=> \A i \in 1 .. Len(s) : l[i] = s[i]
  <2> DEFINE t == SubSeq(l, 1, Len(s))
  <2>1. CASE Len(s) = 0
    BY <1>1, <2>1, SubSeqEmpty
  <2>2. CASE Len(s) # 0
    <3>1. t \in Seq(S) /\ Len(t) = Len(s) /\ \A i \in 1 .. Len(s) : t[i] = l[i]
      <4>1. 1 \in 1 .. Len(l) /\ Len(s) \in 1 .. Len(l) /\ 1 <= Len(s)
        BY <1>1, <1>2, <2>2
      <4>2. /\ t \in Seq(S) /\ Len(t) = IF 1 <= Len(s) THEN Len(s) - 1 + 1 ELSE 0
            /\ \A i \in 1 .. Len(s) - 1 + 1 : t[i] = l[1 + i - 1]
        BY <4>1, <1>1, SubSeqProperties
      <4> QED
        BY <4>1, <4>2, <1>1
    <3> HIDE DEF t
    <3>2. t = s <=> \A i \in 1 .. Len(s) : t[i] = s[i]
      BY <3>1, SeqEqual, <1>1
    <3> QED
      BY <3>1, <3>2 DEF t
  <2> QED
    BY <2>1, <2>2
<1> QED
  BY <1>2 DEF Covers

LEMMA CoversItself == ASSUME NEW S, NEW l \in Seq(S) PROVE Covers(l, l) /\ Covers(l, <<>>)
<1> DEFINE e == <<>>
<1>1. e \in Seq(S) /\ Len(l) \in Nat /\ Len(e) = 0
  BY LenProperties, EmptySeq
<1> HIDE DEF e
<1>2. Covers(l, e)
  <2>1. Len(e) <= Len(l) /\ \A i \in 1 .. Len(e) : l[i] = e[i]
    BY <1>1
  <2> QED
    BY <1>1, <2>1, CoversIs
<1>3. Covers(l, l)
  BY <1>1, CoversIs
<1> QED
  BY <1>2, <1>3 DEF e

LEMMA CoversAppend ==
  ASSUME NEW S, NEW l \in Seq(S), NEW s \in Seq(S), NEW e \in S
  PROVE  Covers(Append(l, e), l) /\ (Covers(l, s) => Covers(Append(l, e), s))
<1> DEFINE t == Append(l, e)
<1>1. t \in Seq(S) /\ Len(t) = Len(l) + 1 /\ (\A i \in 1 .. Len(l) : t[i] = l[i]) /\ Len(l) \in Nat /\ Len(s) \in Nat
  BY AppendProperties, LenProperties
<1> HIDE DEF t
<1>2. Covers(t, l)
  BY <1>1, CoversIs
<1>3. ASSUME Covers(l, s) PROVE Covers(t, s)
  <2>1. Len(s) <= Len(l) /\ \A i \in 1 .. Len(s) : l[i] = s[i]
    BY <1>3, CoversIs
  <2>2. \A i \in 1 .. Len(s) : i \in 1 .. Len(l)
    BY <1>1, <2>1
  <2> QED
    BY <1>1, <2>1, <2>2, CoversIs
<1> QED
  BY <1>2, <1>3 DEF t

LEMMA CoversBeginning ==
  ASSUME NEW S, NEW l \in Seq(S), NEW s \in Seq(S), NEW n \in 0 .. Len(l), Covers(SubSeq(l, 1, n), s)
  PROVE  Covers(l, s) /\ Len(s) <= n
<1>1. Len(l) \in Nat /\ Len(s) \in Nat
  BY LenProperties
<1>2. CASE n = 0
  <2> DEFINE e == <<>>
  <2>1. SubSeq(l, 1, n) = e /\ e \in Seq(S) /\ Len(e) = 0
    BY <1>2, SubSeqEmpty, EmptySeq
  <2> HIDE DEF e
  <2>2. Len(s) = 0
    <3>1. Covers(e, s)
      BY <2>1
    <3>2. Len(s) <= Len(e)
      BY <2>1, <3>1, CoversIs
    <3> QED
      BY <1>1, <2>1, <3>2
  <2>3. Len(s) <= Len(l) /\ \A i \in 1 .. Len(s) : l[i] = s[i]
    BY <1>1, <2>2
  <2>4. Covers(l, s)
    BY <2>3, CoversIs
  <2> QED
    BY <1>1, <1>2, <2>2, <2>4
<1>3. CASE n # 0
  <2>1. 1 \in 1 .. Len(l) /\ n \in 1 .. Len(l) /\ 1 <= n
    BY <1>1, <1>3
  <2>2. /\ SubSeq(l, 1, n) \in Seq(S) /\ Len(SubSeq(l, 1, n)) = IF 1 <= n THEN n - 1 + 1 ELSE 0
        /\ \A i \in 1 .. n - 1 + 1 : SubSeq(l, 1, n)[i] = l[1 + i - 1]
    BY <2>1, <1>1, SubSeqProperties
  <2> DEFINE t == SubSeq(l, 1, n)
  <2>3. t \in Seq(S) /\ Len(t) = n /\ \A i \in 1 .. n : t[i] = l[i]
    BY <2>1, <2>2, <1>1
  <2> HIDE DEF t
  <2>4. Len(s) <= n /\ \A i \in 1 .. Len(s) : t[i] = s[i]
    BY <2>3, CoversIs DEF t
  <2>5. \A i \in 1 .. Len(s) : i \in 1 .. n
    BY <1>1, <2>4
  <2> QED
    BY <1>1, <2>3, <2>4, <2>5, CoversIs
<1> QED
  BY <1>2, <1>3

\* A log and the part of a longer one that follows it.
LEMMA CoversNext ==
  ASSUME NEW S, NEW l \in Seq(S), NEW s \in Seq(S), NEW n \in 0 .. Len(l), Covers(l, s),
         Len(s) <= n
  PROVE  LET t == SubSeq(l, Len(s) + 1, n)
         IN t \in Seq(S) /\ Covers(l, s \o t) /\ Len(s) + Len(t) = n
<1> DEFINE t == SubSeq(l, Len(s) + 1, n)
           k == Len(s)
<1>1. Len(l) \in Nat /\ k \in Nat /\ k <= Len(l) /\ \A i \in 1 .. k : l[i] = s[i]
  BY LenProperties, CoversIs
<1>2. t \in Seq(S) /\ Len(t) = n - k /\ \A i \in 1 .. n - k : t[i] = l[k + i]
  <2>1. CASE n = k
    <3>1. k + 1 \in 1 .. Len(l) + 1 /\ n \in 0 .. Len(l) /\ n < k + 1
      BY <1>1, <2>1
    <3>2. t = <<>>
      BY <3>1, SubSeqEmpty, <1>1
    <3> QED
      BY <3>2, <2>1, <1>1, EmptySeq
  <2>2. CASE n # k
    <3>1. k + 1 \in 1 .. Len(l) /\ n \in 1 .. Len(l) /\ k + 1 <= n
      BY <1>1, <2>2
    <3>2. /\ t \in Seq(S) /\ Len(t) = IF k + 1 <= n THEN n - (k + 1) + 1 ELSE 0
          /\ \A i \in 1 .. n - (k + 1) + 1 : t[i] = l[k + 1 + i - 1]
      BY <3>1, <1>1, SubSeqProperties
    <3> HIDE DEF t
    <3> QED
      BY <3>1, <3>2, <1>1
  <2> QED
    BY <2>1, <2>2
<1> HIDE DEF t
<1>3. /\ s \o t \in Seq(S) /\ Len(s \o t) = k + (n - k)
      /\ \A i \in 1 .. k + (n - k) : (s \o t)[i] = IF i <= k THEN s[i] ELSE t[i - k]
  BY <1>2, ConcatProperties
<1> HIDE DEF k
<1>4. ASSUME NEW i \in 1 .. n PROVE (s \o t)[i] = l[i]
  <2>1. CASE i <= k
    BY <1>1, <1>3, <2>1
  <2>2. CASE ~(i <= k)
    <3>1. i - k \in 1 .. n - k /\ k + (i - k) = i
      BY <1>1, <2>2
    <3>2. (s \o t)[i] = t[i - k]
      BY <1>1, <1>3, <2>2
    <3>3. t[i - k] = l[k + (i - k)]
      BY <1>2, <3>1
    <3> QED
      BY <3>1, <3>2, <3>3
  <2> QED
    BY <2>1, <2>2
<1>5. Covers(l, s \o t)
  <2> DEFINE u == s \o t
  <2>1. u \in Seq(S) /\ Len(u) = n /\ \A i \in 1 .. n : u[i] = l[i]
    BY <1>1, <1>3, <1>4
  <2> HIDE DEF u
  <2>2. Covers(l, u)
    BY <1>1, <2>1, CoversIs
  <2> QED
    BY <2>2 DEF u
<1> QED
  BY <1>1, <1>2, <1>5 DEF t, k

LEMMA CoversAll ==
  ASSUME NEW S, NEW l \in Seq(S), NEW s \in Seq(S), Covers(l, s), Len(l) <= Len(s)
  PROVE  l = s
<1>1. Len(l) \in Nat /\ Len(s) \in Nat /\ Len(s) <= Len(l) /\ \A i \in 1 .. Len(s) : l[i] = s[i]
  BY LenProperties, CoversIs
<1>2. Len(l) = Len(s)
  BY <1>1
<1> QED
  BY <1>1, <1>2, SeqEqual

-----------------------------------------------------------------------------
(* Frames.                                                                 *)

\* A session object for a new preparation or a created session.
LEMMA SpareFacts ==
  ASSUME Types, Spares # {}
  PROVE  /\ Spare \in Sessions \ born /\ Spare # prepared /\ Spare # NoOne
         /\ \A r \in Readers : hold[r] # Spare
         /\ Op("load", Spare) \notin Queued
<1>1. Spare \in Spares
  BY DEF Spare
<1> QED
  BY <1>1 DEF Spares, Queued, Values, Sessions, NoOne

LEMMA QueuedSame == ASSUME UNCHANGED chain PROVE Queued' = Queued
  BY DEF Queued, Values

\* TypeOK in groups.
StoreTypes ==
  /\ stored \in Log /\ unclean \in BOOLEAN
  /\ known \in BOOLEAN /\ cursor \in Nat /\ owner \in Sessions \cup {NoOne}
  /\ deletes \in BOOLEAN /\ batch \in Log
EntryTypes ==
  /\ prepared \in Sessions \cup {NoOne} /\ phase \in Phases
  /\ result \in [Sessions -> {"none", "pending", "ok", "failed"}]
  /\ base \in [Sessions -> Log] /\ repair \in [Sessions -> BOOLEAN]
SessionTypes ==
  /\ born \subseteq Sessions /\ log \in [Sessions -> Log]
  /\ live \in [Sessions -> {"none", "pending", "ok", "failed"}]
  /\ seed \in [Sessions -> Nat] /\ written \in [Sessions -> Nat] /\ writing \in [Sessions -> Nat]
  /\ current \in Sessions \cup {NoOne}
  /\ retiring \in [Sessions -> {"none", "flushing", "queued", "done", "failed"}]
  /\ retirement \in Sessions \cup {NoOne}
CallTypes ==
  /\ deletion \in {"none", "waiting", "queued"} /\ deletionWaits \in Sessions \cup {NoOne}
  /\ left \in Bounds /\ overtaken \subseteq Sessions \cup {NoOne}

LEMMA TypeGroups ==
  /\ TypeOK <=> StoreTypes /\ EntryTypes /\ SessionTypes /\ CallTypes
  /\ TypeOK' <=> StoreTypes' /\ EntryTypes' /\ SessionTypes' /\ CallTypes'
<1>1. TypeOK <=> StoreTypes /\ EntryTypes /\ SessionTypes /\ CallTypes
  BY Zenon DEF TypeOK, StoreTypes, EntryTypes, SessionTypes, CallTypes
<1>2. TypeOK' <=> StoreTypes' /\ EntryTypes' /\ SessionTypes' /\ CallTypes'
  BY Zenon DEF TypeOK, StoreTypes, EntryTypes, SessionTypes, CallTypes
<1> QED
  BY <1>1, <1>2

LEMMA TypeFacts ==
  ASSUME CoordinatorInv
  PROVE  /\ TypeOK /\ ReaderTypes /\ ChainTypes /\ NoOne \notin Sessions /\ Queued \subseteq Ops
         /\ chain # <<>> => Head(chain) \in Queued
<1>1. chain \in Seq(Ops)
  BY DEF CoordinatorInv, Types, ChainTypes
<1>2. Queued \subseteq Ops
  BY <1>1, ElementOfSeq, LenProperties DEF Queued, Values
<1>3. ASSUME chain # <<>> PROVE Head(chain) \in Queued
  <2>1. PoppedTo(Ops, chain, Tail(chain))
    BY <1>1, <1>3, PopFacts
  <2> QED
    BY <2>1 DEF PoppedTo, Queued
<1> QED
  BY <1>2, <1>3 DEF CoordinatorInv, Types, Sessions, NoOne

\* The chain keeps its operations and their order, but for o.
Passes(o) ==
  /\ \A p : p # o => (p \in Queued' <=> p \in Queued)
  /\ \A a, b : a # o /\ Before(chain, a, b) => Before(chain', a, b)
\* What is awaited stays at the head.
HeadKept == batch' # <<>> \/ deletes' => chain # <<>> /\ chain' # <<>> /\ Head(chain') = Head(chain)

LEMMA SamePasses == ASSUME UNCHANGED chain, NEW o PROVE Passes(o) /\ Queued' = Queued
  BY QueuedSame DEF Passes
LEMMA JoinPasses == ASSUME NEW o, Joins(o) PROVE Passes(o)
  BY DEF Joins, Passes
LEMMA LeavePasses == ASSUME Leaves PROVE Passes(Head(chain))
  BY DEF Leaves, Passes

LEMMA SamePassesHead ==
  ASSUME CoordinatorInv, UNCHANGED <<chain, batch, deletes>>
  PROVE  HeadKept
  BY DEF HeadKept, CoordinatorInv, SessionPart, HeadInv

LEMMA JoinKeepsHead ==
  ASSUME CoordinatorInv, NEW o, Joins(o), UNCHANGED <<batch, deletes>>
  PROVE  HeadKept
  BY DEF HeadKept, CoordinatorInv, SessionPart, HeadInv, Joins

\* A step of the chain that no session asked for.
LEMMA SessionsStay ==
  ASSUME CoordinatorInv, NEW o, Passes(o), HeadKept, HeadInv', StateInv',
         o[1] \in {"load", "commit", "check", "append", "create", "delete"},
         \A x \in Sessions : o = Op("load", x) => x \notin born,
         \A x \in born : log'[x] = log[x],
         \A x \in Sessions : seed'[x] <= Len(log'[x]) /\ written'[x] <= Len(log'[x]),
         overtaken' = {} => stored' = stored \/ (owner = NoOne /\ (batch = <<>> \/ batch' = <<>>)),
         \/ batch' = batch
         \/ batch = <<>> /\ Head(chain')[1] = "append"
         \/ batch' = <<>> /\ Head(chain) = o,
         deletes' => deletes \/ current = NoOne,
         overtaken \subseteq overtaken',
         UNCHANGED <<owner, born, seed, writeVars, storeVars>>
  PROVE  SessionPart'
<1> USE DEF writeVars, storeVars
<1> DEFINE K == {"init", "suffix", "write", "drain", "retire"}
<1>1. \A k \in K, x \in Sessions : Op(k, x) \in Queued' <=> Op(k, x) \in Queued
  BY DEF Passes, Op
<1>2. StoreInv'
  <2>1. current # NoOne => current \in Sessions
    BY DEF CoordinatorInv, Types, TypeOK
  <2> QED
    BY <1>1, <2>1 DEF CoordinatorInv, SessionPart, StoreInv
<1>3. ASSUME NEW x \in Sessions PROVE SessionInv(x)'
  BY DEF CoordinatorInv, SessionPart, SessionInv
<1>4. ASSUME NEW x \in Sessions PROVE QueueInv(x)'
  BY <1>1 DEF CoordinatorInv, SessionPart, QueueInv, Passes
<1>5. ASSUME NEW x \in Sessions PROVE ClaimInv(x)'
  BY <1>1 DEF CoordinatorInv, SessionPart, ClaimInv, Passes, HeadKept, Op
<1>6. ASSUME overtaken' = {}, NEW x \in Sessions PROVE LogInv(x)'
  <2>1. LogInv(x) /\ SessionInv(x)
    BY <1>6 DEF CoordinatorInv, SessionPart
  <2>2. batch' # <<>> /\ batch' # batch => \A k \in K : Head(chain') # Op(k, x)
    BY DEF Op
  <2>3. owner = x => stored' = stored
    BY <1>6 DEF Sessions, NoOne
  <2>4. CASE x \in born
    <3>1. log'[x] = log[x]
      BY <2>4
    <3>2. CASE stored' = stored
      BY <1>1, <2>1, <2>2, <3>1, <3>2 DEF LogInv, HeadKept
    <3>3. CASE owner = NoOne /\ (batch = <<>> \/ batch' = <<>>)
      BY <1>1, <2>1, <2>2, <3>1, <3>3 DEF LogInv, Sessions, NoOne
    <3> QED
      BY <1>6, <3>2, <3>3
  <2>5. CASE x \notin born
    <3>1. live[x] = "none" /\ writing[x] = 0 /\ owner # x
      BY <2>1, <2>5 DEF SessionInv, CoordinatorInv, SessionPart, StateInv, Sessions, NoOne
    <3>2. \A k \in K : Op(k, x) \notin Queued
      BY <2>5, <3>1, <2>1 DEF QueueInv, CoordinatorInv, SessionPart, SessionInv
    <3>3. batch # <<>> => \A k \in K : Head(chain) # Op(k, x)
      BY <3>2, TypeFacts DEF CoordinatorInv, SessionPart, HeadInv
    <3> QED
      BY <1>1, <2>2, <3>1, <3>2, <3>3 DEF LogInv, HeadKept
  <2> QED
    BY <2>4, <2>5
<1> QED
  BY <1>2, <1>3, <1>4, <1>5, <1>6 DEF SessionPart

\* A step of the preparation leaves the sessions alone.
LEMMA SessionsKept ==
  ASSUME CoordinatorInv, NEW o, Passes(o), HeadKept,
         o[1] \in {"load", "commit", "check", "append", "create", "delete"},
         \A x \in Sessions : o = Op("load", x) => x \notin born,
         \A x \in born : log'[x] = log[x],
         \A x \in Sessions : seed'[x] <= Len(log'[x]) /\ written'[x] <= Len(log'[x]),
         UNCHANGED <<stored, stateVars, batch, deletes, born, seed, writeVars, storeVars, overtaken>>
  PROVE  SessionPart'
<1>1. HeadInv' /\ StateInv'
  BY DEF CoordinatorInv, SessionPart, HeadInv, StateInv, HeadKept, stateVars, writeVars
<1> QED
  BY <1>1, SessionsStay DEF stateVars, writeVars, storeVars

\* A step that leaves the entry alone, and the commits that are to come.
LEMMA EntryStays ==
  ASSUME CoordinatorInv, NEW o, Passes(o), o # Op("load", prepared),
         \A r \in Readers : o = Op("commit", r) => pc[r] # "commit",
         \A x \in Sessions : o = Op("init", x) => prepared = NoOne \/ o \notin Queued',
         prepared # NoOne =>
            /\ prepared \notin born' /\ current' = NoOne
            /\ log'[prepared] = log[prepared] /\ base'[prepared] = base[prepared] /\ repair'[prepared] = repair[prepared],
         deletes' => deletes \/ phase \in {"none", "loading"},
         \A r \in Readers : Owns(r) /\ pc[r] \in {"committed", "reserved"} =>
            prepared # NoOne /\ UNCHANGED <<stored, unclean, known, owner, cursor, batch>>,
         UNCHANGED <<prepared, phase, pc, hold>>
  PROVE  EntryPart'
<1>1. Op("load", prepared) \in Queued' <=> Op("load", prepared) \in Queued
  BY DEF Passes, Op
<1>2. EntryInv'
  <2>1. EntryInv
    BY DEF CoordinatorInv, EntryPart
  <2> QED
    BY <1>1, <2>1 DEF EntryInv
<1>3. ASSUME NEW x \in Sessions PROVE OrderInv(x)'
  BY <1>1 DEF CoordinatorInv, EntryPart, OrderInv, Passes
<1>4. ASSUME NEW r \in Readers PROVE TurnInv(r)' /\ HeldInv(r)'
  BY DEF CoordinatorInv, EntryPart, TurnInv, HeldInv, Owns
<1>5. ASSUME NEW r \in Readers PROVE CommitInv(r)'
  BY DEF CoordinatorInv, EntryPart, CommitInv, Passes, Op
<1> QED
  BY <1>2, <1>3, <1>4, <1>5 DEF EntryPart

\* A step of the sessions that leaves the preparation alone.
LEMMA EntryKept ==
  ASSUME CoordinatorInv, NEW o, Passes(o), o[1] \notin {"load", "commit"},
         \A x \in Sessions : o = Op("init", x) => prepared = NoOne \/ o \notin Queued',
         prepared # NoOne => prepared \notin born' /\ current' = NoOne /\ log'[prepared] = log[prepared],
         deletes' => deletes \/ phase \in {"none", "loading"},
         \A r \in Readers : Owns(r) /\ pc[r] \in {"committed", "reserved"} =>
            UNCHANGED <<stored, unclean, known, owner, cursor, batch>>,
         UNCHANGED <<prepared, phase, pc, hold, base, repair>>
  PROVE  EntryPart'
<1>1. o # Op("load", prepared) /\ \A r \in Readers : o # Op("commit", r)
  BY DEF Op
<1>2. \A r \in Readers : Owns(r) => prepared # NoOne
  BY TypeFacts DEF Owns, ReaderTypes, Holding, Turns
<1> QED
  BY <1>1, <1>2, EntryStays

\* An entry is dropped, and nobody holds it reserved.
LEMMA EntryDropped ==
  ASSUME CoordinatorInv, Types', NEW o, Passes(o), prepared' = NoOne, phase' = "none",
         \A r \in Readers : pc'[r] # "reserved" /\ (pc'[r] = "commit" => pc[r] = "commit" /\ o # Op("commit", r))
  PROVE  EntryPart'
<1>1. \A r \in Readers : pc'[r] \in Turns => hold'[r] # NoOne
  BY TypeFacts DEF Types, ReaderTypes, Holding
<1>2. Op("load", NoOne) \notin Queued'
  <2>1. chain' \in Seq(Ops)
    BY DEF Types, ChainTypes
  <2>2. Queued' \subseteq Ops
    BY <2>1, ElementOfSeq, LenProperties DEF Queued, Values
  <2> QED
    BY <2>2 DEF Ops, SessionKinds, Op, Sessions, NoOne
<1>3. EntryInv'
  BY <1>2 DEF EntryInv
<1>4. ASSUME NEW x \in Sessions PROVE OrderInv(x)'
  BY DEF OrderInv
<1>5. ASSUME NEW r \in Readers PROVE TurnInv(r)' /\ HeldInv(r)'
  BY <1>1 DEF TurnInv, HeldInv, Owns
<1>6. ASSUME NEW r \in Readers PROVE CommitInv(r)'
  BY DEF CommitInv, CoordinatorInv, EntryPart, Passes
<1> QED
  BY <1>3, <1>4, <1>5, <1>6 DEF EntryPart

\* The chain in a step that queues an operation, and in one that ends the head.
LEMMA JoinFacts ==
  ASSUME CoordinatorInv, NEW o \in Ops, Serialize(o), UNCHANGED <<batch, deletes>>,
         o[1] \in SessionKinds => \A kind \in SessionKinds : Op(kind, o[2]) \notin Queued
  PROVE  ChainTypes' /\ Joins(o) /\ Passes(o) /\ HeadKept
<1>1. ASSUME NEW p \in Queued PROVE ~Twins(p, o)
  <2> SUFFICES ASSUME Twins(p, o) PROVE FALSE
    OBVIOUS
  <2>1. p \in Ops
    BY TypeFacts
  <2>2. p = Op(p[1], o[2]) /\ p[1] \in SessionKinds /\ o[1] \in SessionKinds
    BY <2>1 DEF Twins, Ops, Op
  <2> QED
    BY <2>2
<1>2. ChainTypes' /\ Joins(o)
  BY <1>1, TypeFacts, SerializeJoins
<1> QED
  BY <1>2, JoinPasses, JoinKeepsHead

LEMMA LeaveFacts ==
  ASSUME CoordinatorInv, chain # <<>>, OpEnds
  PROVE  /\ ChainTypes' /\ Leaves /\ Passes(Head(chain)) /\ Head(chain) \in Queued
         /\ batch' = <<>> /\ ~deletes' => HeadKept
         /\ \A a : ~Before(chain, a, Head(chain))
         /\ Head(chain)[1] \in SessionKinds => \A kind \in SessionKinds : Op(kind, Head(chain)[2]) \notin Queued'
<1>1. ChainTypes' /\ Leaves /\ \A a : ~Before(chain, a, Head(chain))
  BY TypeFacts, OpEndsLeaves
<1>2. Head(chain)[1] \in SessionKinds => \A kind \in SessionKinds : Op(kind, Head(chain)[2]) \notin Queued'
  BY <1>1 DEF Leaves, Twins, Op
<1> QED
  BY <1>1, <1>2, LeavePasses, TypeFacts DEF HeadKept

\* Fields are counted down.
LEMMA CountedTypes ==
  ASSUME left \in Bounds, NEW what \in {"births", "asks", "events", "failures", "calls"}, Counted(what)
  PROVE  left' \in Bounds
<1>1. /\ left = [births |-> left.births, asks |-> left.asks, events |-> left.events,
                failures |-> left.failures, calls |-> left.calls]
      /\ left.births \in Nat /\ left.asks \in Nat /\ left.events \in Nat /\ left.failures \in Nat
      /\ left.calls \in Nat
  BY DEF Bounds
<1>2. left[what] \in Nat /\ left[what] > 0 /\ left' = [left EXCEPT ![what] = left[what] - 1]
  BY <1>1 DEF Counted
<1> DEFINE n == left[what] - 1
<1>3. n \in Nat /\ left' = [left EXCEPT ![what] = n]
  BY <1>2
<1> HIDE DEF n
<1> QED
  BY <1>1, <1>3 DEF Bounds

\* The parts of the invariant for one session or reader.
LEMMA PartFacts ==
  ASSUME CoordinatorInv
  PROVE  /\ HeadInv /\ StateInv /\ StoreInv /\ EntryInv
         /\ \A x \in Sessions : SessionInv(x) /\ QueueInv(x) /\ ClaimInv(x) /\ OrderInv(x)
         /\ \A r \in Readers : TurnInv(r) /\ CommitInv(r) /\ HeldInv(r)
         /\ overtaken = {} => \A x \in Sessions : LogInv(x)
  BY DEF CoordinatorInv, SessionPart, EntryPart

\* A step that moves neither sessions nor the preparation.
LEMMA BothKept ==
  ASSUME CoordinatorInv, NEW o, Passes(o), HeadKept, o[1] \in {"check", "append", "create", "delete"},
         UNCHANGED <<backendVars, stateVars, batch, deletes, entryVars, sourceVars, sessionVars, writeVars,
                     storeVars, pc, hold, overtaken>>
  PROVE  SessionPart' /\ EntryPart'
<1> USE DEF backendVars, stateVars, entryVars, sourceVars, sessionVars, writeVars, storeVars
<1>1. \A x \in Sessions : seed[x] <= Len(log[x]) /\ written[x] <= Len(log[x]) /\ o # Op("load", x) /\ o # Op("init", x)
  BY PartFacts DEF SessionInv, Op
<1>2. SessionPart'
  BY <1>1, SessionsKept
<1>3. prepared # NoOne => prepared \notin born' /\ current' = NoOne
  BY PartFacts DEF EntryInv
<1> QED
  BY <1>1, <1>2, <1>3, EntryKept

-----------------------------------------------------------------------------
(* Callers and deletions.                                                  *)

LEMMA DeleteStep == ASSUME CoordinatorInv, Delete PROVE CoordinatorInv'
<1> DEFINE o == Op("delete", NoOne)
<1>1. Passes(o) /\ HeadKept
  BY SamePasses, SamePassesHead DEF Delete, chainVars
<1>2. SessionPart' /\ EntryPart'
  BY <1>1, BothKept DEF Delete, Calls, chainVars, readerVars, Op
<1>3. TypeOK'
  BY TypeFacts, CountedTypes DEF TypeOK, Delete, Calls, Deleting, backendVars, stateVars, chainVars,
     entryVars, sourceVars, sessionVars, writeVars, storeVars
<1>4. ReaderTypes' /\ ChainTypes'
  BY TypeFacts DEF ReaderTypes, ChainTypes, Delete, chainVars, readerVars
<1> QED
  BY <1>2, <1>3, <1>4 DEF CoordinatorInv, Types

LEMMA PublicCreateStep == ASSUME CoordinatorInv, PublicCreate PROVE CoordinatorInv'
<1> DEFINE o == Op("create", NoOne)
<1>1. o \in Ops /\ o[1] \notin SessionKinds
  BY DEF Ops, Op, SessionKinds
<1>2. ChainTypes' /\ Passes(o) /\ HeadKept
  BY <1>1, JoinFacts DEF PublicCreate
<1>3. SessionPart' /\ EntryPart'
  BY <1>2, BothKept DEF PublicCreate, Calls, readerVars, Op
<1>4. TypeOK'
  <2>1. left' \in Bounds /\ UNCHANGED overtaken
    BY TypeFacts, CountedTypes DEF TypeOK, PublicCreate, Calls
  <2> QED
    <3>1. StoreTypes /\ EntryTypes /\ SessionTypes /\ CallTypes
      BY TypeFacts, TypeGroups
    <3>2. StoreTypes' /\ EntryTypes'
      BY <3>1 DEF StoreTypes, EntryTypes, PublicCreate, backendVars, stateVars, entryVars, sourceVars
    <3>3. SessionTypes'
      BY <3>1 DEF SessionTypes, PublicCreate, sessionVars, writeVars, storeVars
    <3>4. CallTypes'
      BY <2>1, <3>1 DEF CallTypes, PublicCreate, deletionVars
    <3> QED
      BY <3>2, <3>3, <3>4, TypeGroups
<1>5. ReaderTypes'
  BY TypeFacts DEF ReaderTypes, PublicCreate, readerVars
<1> QED
  BY <1>2, <1>3, <1>4, <1>5 DEF CoordinatorInv, Types

LEMMA PublicAppendStep == ASSUME CoordinatorInv, NEW first \in Nat, PublicAppend(first) PROVE CoordinatorInv'
<1> DEFINE o == Op("append", first)
<1>1. o \in Ops /\ o[1] \notin SessionKinds
  BY DEF Ops, Op, SessionKinds
<1>2. ChainTypes' /\ Passes(o) /\ HeadKept
  BY <1>1, JoinFacts DEF PublicAppend
<1>3. SessionPart' /\ EntryPart'
  BY <1>2, BothKept DEF PublicAppend, Calls, readerVars, Op
<1>4. TypeOK'
  <2>1. left' \in Bounds /\ UNCHANGED overtaken
    BY TypeFacts, CountedTypes DEF TypeOK, PublicAppend, Calls
  <2> QED
    <3>1. StoreTypes /\ EntryTypes /\ SessionTypes /\ CallTypes
      BY TypeFacts, TypeGroups
    <3>2. StoreTypes' /\ EntryTypes'
      BY <3>1 DEF StoreTypes, EntryTypes, PublicAppend, backendVars, stateVars, entryVars, sourceVars
    <3>3. SessionTypes'
      BY <3>1 DEF SessionTypes, PublicAppend, sessionVars, writeVars, storeVars
    <3>4. CallTypes'
      BY <2>1, <3>1 DEF CallTypes, PublicAppend, deletionVars
    <3> QED
      BY <3>2, <3>3, <3>4, TypeGroups
<1>5. ReaderTypes'
  BY TypeFacts DEF ReaderTypes, PublicAppend, readerVars
<1> QED
  BY <1>2, <1>3, <1>4, <1>5 DEF CoordinatorInv, Types

LEMMA DeletionQueuesStep == ASSUME CoordinatorInv, DeletionQueues PROVE CoordinatorInv'
<1> DEFINE o == Op("delete", NoOne)
<1>1. o \in Ops /\ o[1] \notin SessionKinds
  BY DEF Ops, Op, SessionKinds
<1>2. ChainTypes' /\ Passes(o) /\ HeadKept
  <2>1. CASE UNCHANGED chain
    <3>1. ChainTypes'
      BY <2>1, TypeFacts DEF ChainTypes
    <3> QED
      BY <2>1, <3>1, SamePasses, SamePassesHead DEF DeletionQueues
  <2>2. CASE Serialize(o)
    BY <1>1, <2>2, JoinFacts DEF DeletionQueues
  <2> QED
    BY <2>1, <2>2 DEF DeletionQueues
<1>3. SessionPart' /\ EntryPart'
  BY <1>2, BothKept DEF DeletionQueues, readerVars, boundVars, Op
<1>4. TypeOK'
  BY TypeFacts DEF TypeOK, DeletionQueues, DeletionOver, boundVars, backendVars, stateVars,
     entryVars, sourceVars, sessionVars, writeVars, storeVars
<1>5. ReaderTypes'
  BY TypeFacts DEF ReaderTypes, DeletionQueues, readerVars
<1> QED
  BY <1>2, <1>3, <1>4, <1>5 DEF CoordinatorInv, Types

LEMMA AskStep == ASSUME CoordinatorInv, NEW r \in Readers, NEW as \in {"prepare", "load", "inspect"}, Ask(r, as)
                 PROVE  CoordinatorInv'
<1> USE DEF ReaderFrame
<1> DEFINE o == Op("create", NoOne)
<1>1. Passes(o) /\ HeadKept
  BY SamePasses, SamePassesHead DEF Ask
<1>2. /\ pc[r] = "idle" /\ pc' = [pc EXCEPT ![r] = "asked"] /\ UNCHANGED <<ReaderFrame, chain, entryVars, sourceVars, hold, overtaken>>
      /\ role' = [role EXCEPT ![r] = as] /\ waits' = [waits EXCEPT ![r] = retirement]
  BY DEF Ask, Goes
<1>3. \A s \in Readers : pc'[s] = pc[s] \/ (pc[s] = "idle" /\ pc'[s] = "asked")
  BY <1>2, TypeFacts DEF ReaderTypes
<1>4. TypeOK'
  <2>1. left' \in Bounds
    BY TypeFacts, CountedTypes DEF TypeOK, Ask
  <2> QED
    <3>1. StoreTypes /\ EntryTypes /\ SessionTypes /\ CallTypes
      BY TypeFacts, TypeGroups
    <3>2. StoreTypes' /\ EntryTypes'
      BY <1>2, <2>1, <3>1 DEF StoreTypes, EntryTypes, ReaderFrame, backendVars, stateVars, entryVars, sourceVars
    <3>3. SessionTypes'
      BY <1>2, <2>1, <3>1 DEF SessionTypes, ReaderFrame, sessionVars, writeVars, storeVars
    <3>4. CallTypes'
      BY <1>2, <2>1, <3>1 DEF CallTypes, ReaderFrame, deletionVars
    <3> QED
      BY <3>2, <3>3, <3>4, TypeGroups
<1>5. ReaderTypes' /\ ChainTypes'
  BY <1>2, TypeFacts DEF ReaderTypes, ChainTypes, TypeOK, Places, Holding, Turns, storeVars
<1>6. SessionPart'
  <2>1. \A x \in Sessions : seed[x] <= Len(log[x]) /\ written[x] <= Len(log[x]) /\ o # Op("load", x)
    BY PartFacts DEF SessionInv, Op
  <2> QED
    BY <1>1, <1>2, <2>1, SessionsKept DEF backendVars, stateVars, sessionVars, writeVars, storeVars, Op
<1>7. EntryInv' /\ \A x \in Sessions : OrderInv(x)'
  BY <1>2, PartFacts, QueuedSame DEF EntryInv, OrderInv, backendVars, sessionVars, storeVars, entryVars, sourceVars
<1>8. ASSUME NEW s \in Readers PROVE TurnInv(s)' /\ CommitInv(s)' /\ HeldInv(s)'
  BY <1>2, <1>3, PartFacts, QueuedSame DEF TurnInv, CommitInv, HeldInv, Owns, Turns, backendVars, sessionVars, storeVars, entryVars,
     sourceVars, stateVars
<1> QED
  BY <1>4, <1>5, <1>6, <1>7, <1>8 DEF CoordinatorInv, Types, EntryPart

\* Logs are sequences.
LEMMA LogFacts ==
  ASSUME TypeOK
  PROVE  /\ stored \in Seq(Authors) /\ Len(stored) \in Nat /\ (stored = <<>> <=> Len(stored) = 0)
         /\ batch \in Seq(Authors) /\ Len(batch) \in Nat /\ (batch = <<>> <=> Len(batch) = 0)
         /\ \A x \in Sessions : /\ log[x] \in Seq(Authors) /\ Len(log[x]) \in Nat /\ (log[x] = <<>> <=> Len(log[x]) = 0)
                                /\ base[x] \in Seq(Authors) /\ Len(base[x]) \in Nat /\ (base[x] = <<>> <=> Len(base[x]) = 0)
                                /\ x \in Authors
<1>1. /\ stored \in Seq(Authors) /\ batch \in Seq(Authors)
      /\ \A x \in Sessions : log[x] \in Seq(Authors) /\ base[x] \in Seq(Authors) /\ x \in Authors
  BY DEF TypeOK, Log, Authors
<1> QED
  BY <1>1, LenProperties, EmptySeq

LEMMA SessionAppendsStep == ASSUME CoordinatorInv, NEW x \in Sessions, SessionAppends(x) PROVE CoordinatorInv'
<1> DEFINE o == Op("create", NoOne)
           new == Append(log[x], x)
<1>1. Passes(o) /\ HeadKept /\ Queued' = Queued
  BY SamePasses, SamePassesHead DEF SessionAppends, chainVars
<1>2. /\ current = x /\ log' = [log EXCEPT ![x] = new]
      /\ UNCHANGED <<backendVars, stateVars, chainVars, entryVars, sourceVars, born, seed, writeVars,
                     storeVars, readerVars, deletionVars, overtaken>>
  BY DEF SessionAppends
<1>3. new \in Seq(Authors) /\ Len(new) = Len(log[x]) + 1 /\ Len(log[x]) \in Nat
  BY TypeFacts, LogFacts, AppendProperties
<1>4. /\ Covers(log[x], stored) => Covers(new, stored)
      /\ batch # <<>> /\ Covers(log[x], stored \o batch) => Covers(new, stored \o batch)
  BY TypeFacts, LogFacts, CoversAppend, ConcatProperties
<1> HIDE DEF new
<1>5. log' \in [Sessions -> Seq(Authors)] /\ log'[x] = new /\ \A y \in Sessions \ {x} : log'[y] = log[y]
  BY <1>2, <1>3, TypeFacts DEF TypeOK, Log
<1>6. TypeOK'
  <2>1. left' \in Bounds /\ log' \in [Sessions -> Log]
    BY <1>5, TypeFacts, CountedTypes DEF TypeOK, SessionAppends, Log
  <2> QED
    BY <2>1, TypeFacts DEF TypeOK, SessionAppends, backendVars, stateVars, chainVars, entryVars, sourceVars,
       writeVars, storeVars, deletionVars
<1>7. ReaderTypes' /\ ChainTypes'
  BY <1>2, TypeFacts DEF ReaderTypes, ChainTypes, readerVars, chainVars
<1>8. SessionPart'
  <2>1. HeadInv' /\ StateInv' /\ StoreInv'
    BY <1>1, <1>2, PartFacts DEF HeadInv, StateInv, StoreInv, backendVars, stateVars, chainVars, writeVars, storeVars
  <2>2. ASSUME NEW y \in Sessions PROVE SessionInv(y)' /\ QueueInv(y)' /\ ClaimInv(y)'
    <3>1. SessionInv(y)'
      <4>1. SessionInv(y) /\ seed[y] \in Nat /\ written[y] \in Nat /\ writing[y] \in Nat
        BY PartFacts, TypeFacts DEF TypeOK
      <4>2. CASE y = x
        BY <1>2, <1>3, <1>5, <4>1, <4>2 DEF SessionInv, writeVars, storeVars
      <4>3. CASE y # x
        BY <1>2, <1>5, <4>1, <4>3 DEF SessionInv, writeVars, storeVars
      <4> QED
        BY <4>2, <4>3
    <3>2. QueueInv(y)' /\ ClaimInv(y)'
      BY <1>1, <1>2, PartFacts DEF QueueInv, ClaimInv, writeVars, storeVars, stateVars, chainVars
    <3> QED
      BY <3>1, <3>2
  <2>3. ASSUME overtaken' = {}, NEW y \in Sessions PROVE LogInv(y)'
    <3>1. LogInv(y) /\ SessionInv(x)
      BY <1>2, <2>3, PartFacts
    <3>2. CASE y = x
      BY <1>1, <1>2, <1>4, <1>5, <3>1, <3>2 DEF LogInv, SessionInv, backendVars, stateVars, chainVars, writeVars, storeVars
    <3>3. CASE y # x
      BY <1>1, <1>2, <1>5, <3>1, <3>3 DEF LogInv, backendVars, stateVars, chainVars, writeVars, storeVars
    <3> QED
      BY <3>2, <3>3
  <2> QED
    BY <2>1, <2>2, <2>3 DEF SessionPart
<1>9. EntryPart'
  <2>1. prepared = NoOne
    BY <1>2, PartFacts, TypeFacts DEF EntryInv
  <2> QED
    BY <1>1, <1>2, <2>1, EntryKept DEF Op, backendVars, stateVars, chainVars, entryVars, sourceVars, readerVars
<1> QED
  BY <1>6, <1>7, <1>8, <1>9 DEF CoordinatorInv, Types

LEMMA DisposeStep == ASSUME CoordinatorInv, NEW x \in Sessions, Dispose(x) PROVE CoordinatorInv'
<1> USE DEF backendVars, stateVars, chainVars, entryVars, sourceVars, sessionVars, writeVars, readerVars, deletionVars, boundVars
<1> DEFINE o == Op("create", NoOne)
<1>1. Passes(o) /\ Queued' = Queued
  BY SamePasses DEF Dispose
<1>2. /\ current = x /\ current' = NoOne /\ retiring' = [retiring EXCEPT ![x] = "flushing"] /\ retirement' = x
      /\ UNCHANGED <<backendVars, stateVars, chainVars, entryVars, sourceVars, sessionVars, writeVars,
                     readerVars, deletionVars, boundVars>>
  BY DEF Dispose
<1>3. TypeOK'
  BY <1>2, TypeFacts DEF TypeOK
<1>4. ReaderTypes' /\ ChainTypes'
  BY <1>2, TypeFacts DEF ReaderTypes, ChainTypes
<1>5. SessionPart'
  <2>1. HeadInv' /\ StateInv' /\ StoreInv'
    BY <1>1, <1>2, PartFacts DEF HeadInv, StateInv, StoreInv
  <2>2. \A y \in Sessions : retiring'[y] = IF y = x THEN "flushing" ELSE retiring[y]
    BY <1>2, TypeFacts DEF TypeOK
  <2>3. ASSUME NEW y \in Sessions PROVE SessionInv(y)' /\ QueueInv(y)' /\ ClaimInv(y)'
    <3>1. SessionInv(y)'
      BY <1>2, <2>2, PartFacts, TypeFacts DEF SessionInv
    <3>2. QueueInv(y)' /\ ClaimInv(y)'
      BY <1>1, <1>2, <2>2, PartFacts DEF QueueInv, ClaimInv, SessionInv
    <3> QED
      BY <3>1, <3>2
  <2>4. ASSUME overtaken' = {}, NEW y \in Sessions PROVE LogInv(y)'
    BY <1>1, <1>2, <2>4, PartFacts, TypeFacts DEF LogInv
  <2> QED
    BY <2>1, <2>3, <2>4 DEF SessionPart
<1>6. EntryPart'
  <2>1. prepared # NoOne => prepared \notin born' /\ current' = NoOne /\ log'[prepared] = log[prepared]
    BY <1>2, PartFacts DEF EntryInv
  <2> QED
    BY <1>1, <1>2, <2>1, EntryKept DEF Op
<1> QED
  BY <1>3, <1>4, <1>5, <1>6 DEF CoordinatorInv, Types

\* A session object that was never published has nothing queued but a load.
LEMMA UnbornFacts ==
  ASSUME CoordinatorInv, NEW x \in Sessions, x \notin born
  PROVE  /\ live[x] = "none" /\ retiring[x] = "none" /\ writing[x] = 0 /\ owner # x /\ current # x
         /\ \A kind \in SessionKinds \ {"load"} : Op(kind, x) \notin Queued
<1>1. live[x] = "none" /\ retiring[x] = "none" /\ writing[x] = 0 /\ current # x
  BY PartFacts DEF SessionInv
<1>2. owner # x
  BY <1>1, PartFacts, TypeFacts DEF StateInv
<1>3. \A kind \in SessionKinds \ {"load"} : Op(kind, x) \notin Queued
  BY <1>1, PartFacts DEF QueueInv, SessionKinds
<1> QED
  BY <1>1, <1>2, <1>3

\* What the head works for is a session's.
LEMMA HeadFacts ==
  ASSUME CoordinatorInv, NEW kind, NEW x, Op(kind, x) \notin Queued
  PROVE  chain # <<>> => Head(chain) # Op(kind, x)
  BY TypeFacts

LEMMA CreateStep == ASSUME CoordinatorInv, Create PROVE CoordinatorInv'
<1> USE DEF backendVars, stateVars, entryVars, sourceVars, writeVars, readerVars, deletionVars
<1> DEFINE x == Spare
           o == Op("init", x)
<1>1. PICK events \in Seeds(x) : Enters(x, events)
  BY DEF Create
<1>2. /\ current = NoOne /\ prepared = NoOne /\ Spares # {}
      /\ UNCHANGED <<stored, unclean, known, cursor, owner, deletes, batch, prepared, phase, result, base,
                     repair, writing, retiring, retirement, role, pc, hold, waits, deletion, deletionWaits, overtaken>>
  BY DEF Create
<1>3. x \in Sessions /\ x \notin born /\ Op("load", x) \notin Queued
  BY <1>2, SpareFacts DEF CoordinatorInv
<1>4. events \in Seq(Authors) /\ Len(events) \in Nat
  <2>1. x \in Authors /\ <<x>> \in Seq(Authors) /\ <<>> \in Seq(Authors) /\ stored \in Seq(Authors)
    BY <1>3, LogFacts, TypeFacts, EmptySeq DEF Authors
  <2> QED
    BY <2>1, LenProperties DEF Seeds
<1> HIDE DEF x
<1>5. /\ live[x] = "none" /\ retiring[x] = "none" /\ writing[x] = 0 /\ owner # x
      /\ \A kind \in SessionKinds : Op(kind, x) \notin Queued
  BY <1>3, UnbornFacts
<1>6. o \in Ops /\ Serialize(o)
  BY <1>1, <1>3 DEF Ops, SessionKinds, Op, Enters
<1>7. ChainTypes' /\ Joins(o) /\ Passes(o) /\ HeadKept /\ o \notin Queued
  BY <1>2, <1>5, <1>6, JoinFacts DEF Op, SessionKinds
<1>8. /\ born' = born \cup {x} /\ current' = x
      /\ log' \in [Sessions -> Seq(Authors)] /\ live' \in [Sessions -> {"none", "pending", "ok", "failed"}]
      /\ seed' \in [Sessions -> Nat] /\ written' \in [Sessions -> Nat]
      /\ log'[x] = events /\ seed'[x] = Len(events) /\ written'[x] = Len(events) /\ live'[x] = "pending"
      /\ \A y \in Sessions \ {x} : log'[y] = log[y] /\ seed'[y] = seed[y] /\ written'[y] = written[y] /\ live'[y] = live[y]
  BY <1>1, <1>3, <1>4, TypeFacts DEF Enters, TypeOK, Log
<1>9. TypeOK'
  BY <1>2, <1>3, <1>8, TypeFacts, CountedTypes DEF TypeOK, Create, Log
<1>10. ReaderTypes'
  BY <1>2, TypeFacts DEF ReaderTypes
<1>11. \A p : p \in Queued' <=> p \in Queued \/ p = o
  BY <1>7 DEF Joins
<1>12. SessionPart'
  <2>1. HeadInv'
    BY <1>2, <1>7, PartFacts DEF HeadInv, HeadKept
  <2>2. StateInv' /\ StoreInv'
    BY <1>2, <1>5, <1>8, <1>11, PartFacts, TypeFacts DEF StateInv, StoreInv, TypeOK
  <2>3. ASSUME NEW y \in Sessions PROVE SessionInv(y)'
    <3>1. SessionInv(y)
      BY PartFacts
    <3>2. CASE y = x
      BY <1>2, <1>4, <1>5, <1>8, <3>2 DEF SessionInv
    <3>3. CASE y # x
      BY <1>2, <1>8, <3>1, <3>3 DEF SessionInv
    <3> QED
      BY <3>2, <3>3
  <2>4. ASSUME NEW y \in Sessions PROVE QueueInv(y)'
    BY <1>2, <1>3, <1>5, <1>8, <1>11, PartFacts DEF QueueInv, Op, SessionKinds
  <2>5. ASSUME NEW y \in Sessions PROVE ClaimInv(y)'
    <3>1. CASE y = x
      BY <1>2, <1>5, <1>8, <3>1 DEF ClaimInv
    <3>2. CASE y # x
      BY <1>2, <1>5, <1>7, <1>8, <1>11, <3>2, PartFacts DEF ClaimInv, Op, HeadKept, Joins
    <3> QED
      BY <3>1, <3>2
  <2>6. ASSUME overtaken' = {}, NEW y \in Sessions PROVE LogInv(y)'
    <3>1. LogInv(y)
      BY <1>2, <2>6, PartFacts
    <3>2. CASE y = x
      <4>1. \A kind \in SessionKinds : batch # <<>> => Head(chain') # Op(kind, x)
        BY <1>2, <1>5, <1>7, HeadFacts DEF HeadKept
      <4> QED
        BY <1>2, <1>5, <1>8, <1>11, <3>2, <4>1 DEF LogInv, Op, SessionKinds
    <3>3. CASE y # x
      BY <1>2, <1>7, <1>8, <1>11, <3>1, <3>3 DEF LogInv, Op, HeadKept
    <3> QED
      BY <3>2, <3>3
  <2> QED
    BY <2>1, <2>2, <2>3, <2>4, <2>5, <2>6 DEF SessionPart
<1>13. EntryPart'
  BY <1>2, <1>7, EntryKept DEF Op
<1> QED
  BY <1>7, <1>9, <1>10, <1>12, <1>13 DEF CoordinatorInv, Types

LEMMA StartWriteStep == ASSUME CoordinatorInv, NEW x \in Sessions, StartWrite(x) PROVE CoordinatorInv'
<1> USE DEF backendVars, stateVars, entryVars, sourceVars, sessionVars, storeVars, readerVars, deletionVars, boundVars
<1> DEFINE o == WriteOp(x)
<1>1. /\ live[x] = "ok" /\ writing[x] = 0
      /\ current = x \/ retiring[x] = "flushing"
      /\ UNCHANGED <<backendVars, stateVars, deletes, batch, entryVars, sourceVars, sessionVars, live,
                     written, storeVars, readerVars, deletionVars, boundVars>>
  BY DEF StartWrite
<1>2. PICK end \in written[x] + 1 .. Len(log[x]) : writing' = [writing EXCEPT ![x] = end]
  BY DEF StartWrite
<1>3. end \in Nat /\ written[x] < end /\ end <= Len(log[x]) /\ end # 0
  BY TypeFacts, LogFacts DEF TypeOK
<1>4. /\ writing' \in [Sessions -> Nat] /\ writing'[x] = end
      /\ \A y \in Sessions \ {x} : writing'[y] = writing[y]
  BY <1>2, <1>3, TypeFacts DEF TypeOK
<1>5. o \in Ops /\ o \in {Op("write", x), Op("drain", x)}
  BY DEF WriteOp, Ops, SessionKinds, Op
<1>6. \A kind \in SessionKinds : Op(kind, x) \notin Queued
  BY <1>1, PartFacts DEF QueueInv, SessionInv, SessionKinds
<1>7. ChainTypes' /\ Joins(o) /\ Passes(o) /\ HeadKept
  BY <1>1, <1>5, <1>6, JoinFacts DEF Op, StartWrite
<1> HIDE DEF o
<1>8. \A p : p \in Queued' <=> p \in Queued \/ p = o
  BY <1>7 DEF Joins
<1>9. TypeOK' /\ ReaderTypes'
  <2>1. TypeOK'
    <3>1. StoreTypes /\ EntryTypes /\ SessionTypes /\ CallTypes
      BY TypeFacts, TypeGroups
    <3>2. StoreTypes' /\ EntryTypes'
      BY <1>1, <1>4, <3>1 DEF StoreTypes, EntryTypes
    <3>3. SessionTypes'
      BY <1>1, <1>4, <3>1 DEF SessionTypes
    <3>4. CallTypes'
      BY <1>1, <1>4, <3>1 DEF CallTypes
    <3> QED
      BY <3>2, <3>3, <3>4, TypeGroups
  <2>2. ReaderTypes'
    BY <1>1, TypeFacts DEF ReaderTypes
  <2> QED
    BY <2>1, <2>2
<1>10. SessionPart'
  <2>1. HeadInv' /\ StateInv' /\ StoreInv'
    BY <1>1, <1>7, <1>8, PartFacts DEF HeadInv, HeadKept, StateInv, StoreInv
  <2>2. ASSUME NEW y \in Sessions PROVE SessionInv(y)'
    BY <1>1, <1>3, <1>4, PartFacts DEF SessionInv
  <2>3. ASSUME NEW y \in Sessions PROVE QueueInv(y)'
    <3>1. QueueInv(y)
      BY PartFacts
    <3>2. CASE y = x
      BY <1>3, <1>4, <1>5, <1>6, <1>8, <3>2 DEF QueueInv, Op, SessionKinds
    <3>3. CASE y # x
      BY <1>1, <1>4, <1>5, <1>8, <3>1, <3>3 DEF QueueInv, Op
    <3> QED
      BY <3>2, <3>3
  <2>4. ASSUME NEW y \in Sessions PROVE ClaimInv(y)'
    BY <1>1, <1>5, <1>7, <1>8, PartFacts DEF ClaimInv, Op, HeadKept, Joins
  <2>5. ASSUME overtaken' = {}, NEW y \in Sessions PROVE LogInv(y)'
    <3>1. LogInv(y)
      BY <1>1, <2>5, PartFacts
    <3>2. \A kind \in SessionKinds : batch # <<>> => Head(chain') # Op(kind, x)
      BY <1>1, <1>6, <1>7, HeadFacts DEF HeadKept
    <3> QED
      BY <1>1, <1>4, <1>5, <1>7, <1>8, <3>1, <3>2 DEF LogInv, Op, HeadKept, SessionKinds
  <2> QED
    BY <2>1, <2>2, <2>3, <2>4, <2>5 DEF SessionPart
<1>11. EntryPart'
  <2>1. prepared # NoOne => prepared \notin born' /\ current' = NoOne /\ log'[prepared] = log[prepared]
    BY <1>1, PartFacts DEF EntryInv
  <2>2. o[1] \notin {"load", "commit", "init"}
    BY <1>5 DEF Op
  <2> QED
    BY <1>1, <1>7, <2>1, <2>2, EntryKept DEF Op
<1> QED
  BY <1>7, <1>9, <1>10, <1>11 DEF CoordinatorInv, Types

LEMMA FlushEndsStep == ASSUME CoordinatorInv, NEW x \in Sessions, FlushEnds(x) PROVE CoordinatorInv'
<1> USE DEF backendVars, stateVars, entryVars, sourceVars, sessionVars, writeVars, readerVars, deletionVars, boundVars
<1> DEFINE o == Op("retire", x)
<1>1. /\ retiring[x] = "flushing" /\ live[x] = "ok" /\ writing[x] = 0 /\ written[x] = Len(log[x])
      /\ retiring' = [retiring EXCEPT ![x] = "queued"] /\ Serialize(o)
      /\ UNCHANGED <<backendVars, stateVars, deletes, batch, entryVars, sourceVars, sessionVars,
                     writeVars, current, retirement, readerVars, deletionVars, boundVars>>
  BY DEF FlushEnds
<1>2. /\ retiring' \in [Sessions -> {"none", "flushing", "queued", "done", "failed"}] /\ retiring'[x] = "queued"
      /\ \A y \in Sessions \ {x} : retiring'[y] = retiring[y]
  BY <1>1, TypeFacts DEF TypeOK
<1>3. \A kind \in SessionKinds : Op(kind, x) \notin Queued
  BY <1>1, PartFacts DEF QueueInv, SessionInv, SessionKinds
<1>4. ChainTypes' /\ Joins(o) /\ Passes(o) /\ HeadKept
  <2>1. o \in Ops
    BY DEF Ops, SessionKinds, Op
  <2> QED
    BY <1>1, <1>3, <2>1, JoinFacts DEF Op
<1>5. \A p : p \in Queued' <=> p \in Queued \/ p = o
  BY <1>4 DEF Joins
<1>6. TypeOK' /\ ReaderTypes'
  <2>1. TypeOK'
    <3>1. StoreTypes /\ EntryTypes /\ SessionTypes /\ CallTypes
      BY TypeFacts, TypeGroups
    <3>2. StoreTypes' /\ EntryTypes'
      BY <1>1, <1>2, <3>1 DEF StoreTypes, EntryTypes
    <3>3. SessionTypes'
      BY <1>1, <1>2, <3>1 DEF SessionTypes
    <3>4. CallTypes'
      BY <1>1, <1>2, <3>1 DEF CallTypes
    <3> QED
      BY <3>2, <3>3, <3>4, TypeGroups
  <2>2. ReaderTypes'
    BY <1>1, TypeFacts DEF ReaderTypes
  <2> QED
    BY <2>1, <2>2
<1>7. SessionPart'
  <2>1. HeadInv' /\ StateInv' /\ StoreInv'
    BY <1>1, <1>4, <1>5, PartFacts DEF HeadInv, HeadKept, StateInv, StoreInv
  <2>2. ASSUME NEW y \in Sessions PROVE SessionInv(y)'
    <3>1. SessionInv(y)
      BY PartFacts
    <3> QED
      BY <1>1, <1>2, <3>1 DEF SessionInv
  <2>3. ASSUME NEW y \in Sessions PROVE QueueInv(y)'
    <3>1. QueueInv(y)
      BY PartFacts
    <3> QED
      BY <1>1, <1>2, <1>3, <1>5, <3>1 DEF QueueInv, Op, SessionKinds
  <2>4. ASSUME NEW y \in Sessions PROVE ClaimInv(y)'
    BY <1>1, <1>4, <1>5, PartFacts DEF ClaimInv, Op, HeadKept, Joins
  <2>5. ASSUME overtaken' = {}, NEW y \in Sessions PROVE LogInv(y)'
    <3>1. LogInv(y)
      BY <1>1, <2>5, PartFacts
    <3> QED
      BY <1>1, <1>4, <1>5, <3>1 DEF LogInv, Op, HeadKept
  <2> QED
    BY <2>1, <2>2, <2>3, <2>4, <2>5 DEF SessionPart
<1>8. EntryPart'
  <2>1. prepared # NoOne => prepared \notin born' /\ current' = NoOne /\ log'[prepared] = log[prepared]
    BY <1>1, PartFacts DEF EntryInv
  <2> QED
    BY <1>1, <1>4, <2>1, EntryKept DEF Op
<1> QED
  BY <1>4, <1>6, <1>7, <1>8 DEF CoordinatorInv, Types

\* A drain that gives up only changes where the retirement stands.
LEMMA FlushFailsStep == ASSUME CoordinatorInv, NEW x \in Sessions, FlushFails(x) PROVE CoordinatorInv'
<1> USE DEF backendVars, stateVars, chainVars, entryVars, sourceVars, sessionVars, writeVars, readerVars, deletionVars, boundVars
<1> DEFINE o == Op("create", NoOne)
<1>1. /\ retiring[x] = "flushing" /\ retiring' = [retiring EXCEPT ![x] = "failed"] /\ retirement' \in {retirement, NoOne}
      /\ UNCHANGED <<backendVars, stateVars, chainVars, entryVars, sourceVars, sessionVars, writeVars,
                     current, readerVars, deletionVars, boundVars>>
  BY DEF FlushFails, Forget
<1>2. Passes(o) /\ HeadKept /\ Queued' = Queued
  BY <1>1, SamePasses, SamePassesHead
<1>3. /\ retiring' \in [Sessions -> {"none", "flushing", "queued", "done", "failed"}] /\ retiring'[x] = "failed"
      /\ \A y \in Sessions \ {x} : retiring'[y] = retiring[y]
  BY <1>1, TypeFacts DEF TypeOK
<1>4. Types'
  <2>1. TypeOK'
    <3>1. StoreTypes /\ EntryTypes /\ SessionTypes /\ CallTypes
      BY TypeFacts, TypeGroups
    <3>2. StoreTypes' /\ EntryTypes'
      BY <1>1, <1>3, <3>1 DEF StoreTypes, EntryTypes
    <3>3. SessionTypes'
      BY <1>1, <1>3, <3>1 DEF SessionTypes
    <3>4. CallTypes'
      BY <1>1, <1>3, <3>1 DEF CallTypes
    <3> QED
      BY <3>2, <3>3, <3>4, TypeGroups
  <2>2. ReaderTypes' /\ ChainTypes'
    BY <1>1, TypeFacts DEF ReaderTypes, ChainTypes
  <2> QED
    BY <2>1, <2>2 DEF Types
<1>5. SessionPart'
  <2>1. HeadInv' /\ StateInv' /\ StoreInv'
    BY <1>1, <1>2, PartFacts DEF HeadInv, StateInv, StoreInv
  <2>2. ASSUME NEW y \in Sessions PROVE SessionInv(y)' /\ QueueInv(y)'
    <3>1. SessionInv(y) /\ QueueInv(y)
      BY PartFacts
    <3> QED
      BY <1>1, <1>2, <1>3, <3>1 DEF SessionInv, QueueInv
  <2>3. ASSUME NEW y \in Sessions PROVE ClaimInv(y)'
    BY <1>1, <1>2, PartFacts DEF ClaimInv
  <2>4. ASSUME overtaken' = {}, NEW y \in Sessions PROVE LogInv(y)'
    BY <1>1, <1>2, <2>4, PartFacts DEF LogInv
  <2> QED
    BY <2>1, <2>2, <2>3, <2>4 DEF SessionPart
<1>6. EntryPart'
  <2>1. prepared # NoOne => prepared \notin born' /\ current' = NoOne /\ log'[prepared] = log[prepared]
    BY <1>1, PartFacts DEF EntryInv
  <2> QED
    BY <1>1, <1>2, <2>1, EntryKept DEF Op
<1> QED
  BY <1>4, <1>5, <1>6 DEF CoordinatorInv

\* A session that retires leaves the identity to the next.
LEMMA RetiresStep == ASSUME CoordinatorInv, NEW x \in Sessions, Retires(x) PROVE CoordinatorInv'
<1> USE DEF backendVars, entryVars, sourceVars, sessionVars, readerVars, deletionVars, boundVars
<1>1. /\ Begins(Op("retire", x)) /\ OpEnds /\ live' = [live EXCEPT ![x] = "none"]
      /\ retiring' = [retiring EXCEPT ![x] = "done"] /\ retirement' \in {retirement, NoOne}
      /\ UNCHANGED <<backendVars, deletes, batch, entryVars, sourceVars, sessionVars, written, writing,
                     current, readerVars, deletionVars, boundVars>>
  BY DEF Retires, Forget
<1>2. \/ known /\ owner = x /\ known' = FALSE /\ cursor' = 0 /\ owner' = NoOne
      \/ ~(known /\ owner = x) /\ UNCHANGED stateVars
  BY DEF Retires
<1>3. chain # <<>> /\ Head(chain) = Op("retire", x) /\ batch = <<>> /\ ~deletes
  BY <1>1 DEF Begins
<1>4. /\ ChainTypes' /\ Passes(Op("retire", x)) /\ HeadKept /\ Op("retire", x) \in Queued
      /\ \A kind \in SessionKinds : Op(kind, x) \notin Queued'
  BY <1>1, <1>3, LeaveFacts DEF Op, SessionKinds
<1>5. retiring[x] = "queued" /\ live[x] = "ok" /\ writing[x] = 0 /\ written[x] = Len(log[x]) /\ current # x
  BY <1>4, PartFacts DEF QueueInv, SessionInv
<1>6. /\ retiring' \in [Sessions -> {"none", "flushing", "queued", "done", "failed"}] /\ retiring'[x] = "done"
      /\ live' \in [Sessions -> {"none", "pending", "ok", "failed"}] /\ live'[x] = "none"
      /\ \A y \in Sessions \ {x} : retiring'[y] = retiring[y] /\ live'[y] = live[y]
  BY <1>1, TypeFacts DEF TypeOK
<1>7. Types'
  <2>1. known' \in BOOLEAN /\ cursor' \in Nat /\ owner' \in Sessions \cup {NoOne}
    <3>1. known \in BOOLEAN /\ cursor \in Nat /\ owner \in Sessions \cup {NoOne}
      BY TypeFacts DEF TypeOK
    <3>2. CASE known' = FALSE /\ cursor' = 0 /\ owner' = NoOne
      BY <3>2
    <3>3. CASE UNCHANGED <<known, cursor, owner>>
      BY <3>1, <3>3
    <3> QED
      BY <1>2, <3>2, <3>3 DEF stateVars
  <2>2. TypeOK'
    BY <1>1, <1>6, <2>1, TypeFacts DEF TypeOK
  <2>3. ReaderTypes'
    BY <1>1, TypeFacts DEF ReaderTypes
  <2> QED
    BY <1>4, <2>2, <2>3 DEF Types
<1>8. \A y \in Sessions \ {x}, kind \in SessionKinds : Op(kind, y) \in Queued' <=> Op(kind, y) \in Queued
  BY <1>4 DEF Passes, Op
<1>9. owner' # NoOne => owner' = owner /\ known' /\ owner # x
  BY <1>2, PartFacts DEF StateInv, stateVars
<1>10. SessionPart'
  <2>1. HeadInv' /\ StoreInv'
    BY <1>1, <1>3 DEF HeadInv, StoreInv
  <2>2. StateInv'
    <3>1. StateInv /\ (owner # NoOne => owner \in Sessions)
      BY PartFacts, TypeFacts DEF TypeOK
    <3>2. CASE known' = FALSE /\ cursor' = 0 /\ owner' = NoOne
      BY <3>2 DEF StateInv
    <3>3. CASE UNCHANGED stateVars
      BY <1>1, <1>6, <1>9, <3>1, <3>3 DEF StateInv, stateVars
    <3> QED
      BY <1>2, <3>2, <3>3
  <2>3. ASSUME NEW y \in Sessions PROVE SessionInv(y)' /\ QueueInv(y)'
    <3>1. SessionInv(y) /\ QueueInv(y)
      BY PartFacts
    <3>2. CASE y = x
      BY <1>1, <1>4, <1>5, <1>6, <3>1, <3>2 DEF SessionInv, QueueInv, SessionKinds
    <3>3. CASE y # x
      BY <1>1, <1>6, <1>8, <3>1, <3>3 DEF SessionInv, QueueInv, SessionKinds
    <3> QED
      BY <3>2, <3>3
  <2>4. ASSUME NEW y \in Sessions PROVE ClaimInv(y)'
    <3>1. CASE y = x
      BY <1>4, <3>1 DEF ClaimInv, SessionKinds
    <3>2. CASE y # x
      <4>1. owner' = y => owner = y
        BY <1>9, TypeFacts
      <4> QED
        BY <1>1, <1>3, <1>4, <1>8, <1>9, <3>2, <4>1, PartFacts DEF ClaimInv, SessionKinds, Passes, Op
    <3> QED
      BY <3>1, <3>2
  <2>5. ASSUME overtaken' = {}, NEW y \in Sessions PROVE LogInv(y)'
    <3>1. LogInv(y)
      BY <1>1, <2>5, PartFacts
    <3>2. CASE y = x
      BY <1>1, <1>3, <1>4, <1>6, <1>9, <3>2, TypeFacts DEF LogInv, SessionKinds
    <3>3. CASE y # x
      <4>1. owner = y => owner' = y
        BY <1>2, <3>3 DEF stateVars
      <4>2. owner' = y => owner = y
        BY <1>9, TypeFacts
      <4> QED
        BY <1>1, <1>3, <1>6, <1>8, <3>1, <3>3, <4>1, <4>2 DEF LogInv, SessionKinds
    <3> QED
      BY <3>2, <3>3
  <2> QED
    BY <2>1, <2>2, <2>3, <2>4, <2>5 DEF SessionPart
<1>11. EntryPart'
  <2>1. prepared # NoOne => prepared \notin born' /\ current' = NoOne /\ log'[prepared] = log[prepared]
    BY <1>1, PartFacts DEF EntryInv
  <2>2. \A r \in Readers : Owns(r) /\ pc[r] \in {"committed", "reserved"} => UNCHANGED <<known, owner, cursor>>
    BY <1>2, PartFacts, TypeFacts DEF HeldInv, stateVars
  <2> QED
    BY <1>1, <1>4, <2>1, <2>2, EntryKept DEF Op
<1> QED
  BY <1>7, <1>10, <1>11 DEF CoordinatorInv


\* Nobody has reserved the entry.
Unreserved == \A r \in Readers : Owns(r) => pc[r] \notin {"committed", "reserved"}

LEMMA UnreservedFacts ==
  ASSUME CoordinatorInv, ~Reserved \/ prepared = NoOne \/ batch # <<>> \/ ~known \/ owner # NoOne
  PROVE  Unreserved
<1> SUFFICES ASSUME NEW r \in Readers, Owns(r), pc[r] \in {"committed", "reserved"} PROVE FALSE
  BY DEF Unreserved
<1>1. TurnInv(r) /\ HeldInv(r)
  BY PartFacts
<1>2. prepared \in Sessions /\ prepared # NoOne
  BY TypeFacts DEF ReaderTypes, Owns, Holding, Turns
<1> QED
  BY <1>1, <1>2 DEF TurnInv, HeldInv, Owns, Reserved, Turns

\* A step of the chain that keeps or drops an entry nobody has reserved.
LEMMA EntryKeptOrDropped ==
  ASSUME CoordinatorInv, Types', Unreserved, NEW o, Passes(o), o[1] \notin {"load", "commit"},
         NoEntry \/ UNCHANGED entryVars,
         \A x \in Sessions : o = Op("init", x) => o \notin Queued',
         prepared # NoOne => prepared \notin born' /\ current' = NoOne /\ log'[prepared] = log[prepared],
         deletes' => deletes \/ phase \in {"none", "loading"} \/ NoEntry,
         UNCHANGED <<pc, hold, base, repair>>
  PROVE  EntryPart'
<1>1. CASE NoEntry /\ \A r \in Readers : pc[r] # "reserved"
  BY <1>1, EntryDropped DEF NoEntry, Op
<1>2. CASE NoEntry /\ ~\A r \in Readers : pc[r] # "reserved"
  <2>1. PICK r \in Readers : pc[r] = "reserved"
    BY <1>2
  <2>2. TurnInv(r)
    BY PartFacts
  <2> QED
    BY <2>1, <2>2 DEF Unreserved, Owns, TurnInv
<1>3. CASE UNCHANGED entryVars
  <2>1. CASE NoEntry
    BY <1>1, <1>2, <2>1
  <2>2. CASE ~NoEntry
    BY <1>3, <2>2, EntryKept DEF Unreserved, entryVars
  <2> QED
    BY <2>1, <2>2
<1> QED
  BY <1>1, <1>2, <1>3

LEMMA EvictedStep == ASSUME CoordinatorInv, Evicted PROVE CoordinatorInv'
<1> USE DEF backendVars, stateVars, chainVars, sourceVars, sessionVars, writeVars, storeVars, readerVars,
        deletionVars
<1> DEFINE o == Op("create", NoOne)
<1>1. /\ phase = "ready" /\ NoEntry /\ Calls
      /\ UNCHANGED <<backendVars, stateVars, chainVars, sourceVars, sessionVars, writeVars, storeVars,
                     readerVars, deletionVars, overtaken>>
  BY DEF Evicted, Calls
<1>2. Passes(o) /\ HeadKept
  BY <1>1, SamePasses, SamePassesHead
<1>3. Types'
  <2>1. TypeOK'
    BY <1>1, TypeFacts, CountedTypes DEF TypeOK, NoEntry, Phases, Calls
  <2> QED
    BY <1>1, <2>1, TypeFacts DEF Types, ReaderTypes, ChainTypes
<1>4. SessionPart'
  <2>1. \A x \in Sessions : seed[x] <= Len(log[x]) /\ written[x] <= Len(log[x]) /\ o # Op("load", x)
    BY PartFacts DEF SessionInv, Op
  <2> QED
    BY <1>1, <1>2, <2>1, SessionsKept DEF Op
<1>5. Unreserved
  BY <1>1, UnreservedFacts DEF Reserved
<1>6. prepared # NoOne => prepared \notin born' /\ current' = NoOne
  BY <1>1, PartFacts DEF EntryInv
<1>7. EntryPart'
  BY <1>1, <1>2, <1>3, <1>5, <1>6, EntryKeptOrDropped DEF Op
<1> QED
  BY <1>3, <1>4, <1>7 DEF CoordinatorInv

LEMMA PublicCreatesStep == ASSUME CoordinatorInv, PublicCreates PROVE CoordinatorInv'
<1> USE DEF backendVars, entryVars, sourceVars, sessionVars, writeVars, storeVars, readerVars, deletionVars,
        boundVars
<1> DEFINE o == Op("create", NoOne)
<1>1. /\ chain # <<>> /\ Head(chain) = o /\ batch = <<>> /\ ~deletes /\ OpEnds
      /\ UNCHANGED <<backendVars, deletes, batch, entryVars, sourceVars, sessionVars, writeVars,
                     storeVars, readerVars, deletionVars, boundVars>>
  BY DEF PublicCreates, Begins
<1>2. ChainTypes' /\ Passes(o) /\ HeadKept
  BY <1>1, LeaveFacts
<1>3. \/ UNCHANGED stateVars
      \/ ~known /\ prepared = NoOne /\ stored = <<>> /\ known' = TRUE /\ cursor' = 0 /\ owner' = NoOne
  BY DEF PublicCreates
<1>4. UNCHANGED <<cursor, owner>>
  BY <1>3, PartFacts DEF StateInv, stateVars
<1>5. Types'
  <2>1. known' \in BOOLEAN
    BY <1>3, TypeFacts DEF TypeOK, stateVars
  <2> QED
    BY <1>1, <1>2, <1>4, <2>1, TypeFacts DEF Types, TypeOK, ReaderTypes
<1>6. HeadInv' /\ StateInv'
  <2>1. HeadInv'
    BY <1>1 DEF HeadInv
  <2>2. StateInv'
    BY <1>1, <1>3, <1>4, PartFacts, TypeFacts, LogFacts DEF StateInv, stateVars
  <2> QED
    BY <2>1, <2>2
<1>7. SessionPart'
  <2>1. \A x \in Sessions : seed[x] <= Len(log[x]) /\ written[x] <= Len(log[x]) /\ o # Op("load", x)
    BY PartFacts DEF SessionInv, Op
  <2> QED
    BY <1>1, <1>2, <1>4, <1>6, <2>1, SessionsStay DEF Op
<1>8. EntryPart'
  <2>1. prepared # NoOne => prepared \notin born' /\ current' = NoOne
    BY <1>1, PartFacts DEF EntryInv
  <2>2. CASE UNCHANGED stateVars
    BY <1>1, <1>2, <2>1, <2>2, EntryKept DEF Op, stateVars
  <2>3. CASE prepared = NoOne
    BY <1>1, <1>2, <1>5, <2>1, <2>3, EntryKeptOrDropped, UnreservedFacts DEF Op
  <2> QED
    BY <1>3, <2>2, <2>3
<1> QED
  BY <1>5, <1>7, <1>8 DEF CoordinatorInv

LEMMA DeletionBeginsStep == ASSUME CoordinatorInv, DeletionBegins PROVE CoordinatorInv'
<1> USE DEF backendVars, stateVars, sourceVars, sessionVars, writeVars, storeVars, readerVars, boundVars
<1> DEFINE o == Op("delete", NoOne)
<1>1. /\ chain # <<>> /\ Head(chain) = o /\ batch = <<>> /\ ~deletes
      /\ UNCHANGED <<backendVars, stateVars, batch, sourceVars, sessionVars, writeVars, storeVars,
                     readerVars, boundVars>>
  BY DEF DeletionBegins, Begins
<1>2. \/ MayDelete /\ deletes' = TRUE /\ NoEntry /\ UNCHANGED <<chain, deletionVars>>
      \/ OpEnds /\ DeletionOver /\ UNCHANGED <<deletes, entryVars>>
  BY DEF DeletionBegins
<1>3. ChainTypes' /\ Passes(o) /\ HeadKept /\ deletes' \in BOOLEAN
  <2>1. CASE MayDelete /\ deletes' = TRUE /\ UNCHANGED chain
    BY <1>1, <2>1, SamePasses, TypeFacts DEF HeadKept, ChainTypes
  <2>2. CASE OpEnds /\ UNCHANGED deletes
    <3>1. deletes' \in BOOLEAN
      BY <2>2, TypeFacts DEF TypeOK
    <3> QED
      BY <1>1, <2>2, <3>1, LeaveFacts
  <2> QED
    BY <1>2, <2>1, <2>2
<1>4. Types'
  <2>1. prepared' \in Sessions \cup {NoOne} /\ phase' \in Phases
    BY <1>2, TypeFacts DEF TypeOK, NoEntry, Phases, entryVars
  <2>2. deletion' \in {"none", "waiting", "queued"} /\ deletionWaits' \in Sessions \cup {NoOne}
    BY <1>2, TypeFacts DEF TypeOK, DeletionOver, deletionVars
  <2> QED
    BY <1>1, <1>3, <2>1, <2>2, TypeFacts DEF Types, TypeOK, ReaderTypes
<1>5. HeadInv' /\ StateInv'
  <2>1. HeadInv'
    BY <1>1, <1>2 DEF HeadInv
  <2> QED
    BY <1>1, <2>1, PartFacts DEF StateInv
<1>6. SessionPart'
  <2>1. \A x \in Sessions : seed[x] <= Len(log[x]) /\ written[x] <= Len(log[x]) /\ o # Op("load", x)
    BY PartFacts DEF SessionInv, Op
  <2>2. deletes' => deletes \/ current = NoOne
    BY <1>2 DEF MayDelete
  <2> QED
    BY <1>1, <1>3, <1>5, <2>1, <2>2, SessionsStay DEF Op
<1>7. EntryPart'
  <2>1. prepared # NoOne => prepared \notin born' /\ current' = NoOne
    BY <1>1, PartFacts DEF EntryInv
  <2>2. CASE MayDelete /\ NoEntry
    BY <1>1, <1>3, <1>4, <2>1, <2>2, EntryKeptOrDropped, UnreservedFacts DEF Op, MayDelete
  <2>3. CASE UNCHANGED <<deletes, entryVars>>
    BY <1>1, <1>3, <2>1, <2>3, EntryKept DEF Op, entryVars
  <2> QED
    BY <1>2, <2>2, <2>3
<1> QED
  BY <1>4, <1>6, <1>7 DEF CoordinatorInv

\* A session waits for one thing at a time.
LEMMA OneQueued ==
  ASSUME CoordinatorInv, NEW x, NEW kind \in SessionKinds, NEW other \in SessionKinds,
         Op(kind, x) \in Queued, Op(other, x) \in Queued
  PROVE  kind = other
<1>1. PICK i \in DOMAIN chain : chain[i] = Op(kind, x)
  BY DEF Queued, Values
<1>2. PICK j \in DOMAIN chain : chain[j] = Op(other, x)
  BY DEF Queued, Values
<1>3. Twins(chain[i], chain[j])
  BY <1>1, <1>2 DEF Twins, Op
<1>4. i = j
  BY <1>3, TypeFacts DEF ChainTypes, Untwinned
<1> QED
  BY <1>1, <1>2, <1>4 DEF Op

LEMMA DeletionReturnsStep == ASSUME CoordinatorInv, DeletionReturns PROVE CoordinatorInv'
<1> USE DEF backendVars, stateVars, entryVars, sourceVars, sessionVars, writeVars, storeVars, readerVars
<1> DEFINE o == Op("delete", NoOne)
<1>1. /\ deletes /\ deletes' = FALSE /\ OpEnds /\ DeletionOver
      /\ UNCHANGED <<batch, entryVars, sourceVars, sessionVars, writeVars, storeVars, readerVars>>
  BY DEF DeletionReturns
<1>2. chain # <<>> /\ Head(chain) = o /\ batch = <<>>
  BY <1>1, PartFacts DEF HeadInv
<1>3. ChainTypes' /\ Passes(o) /\ HeadKept
  BY <1>1, <1>2, LeaveFacts
<1>4. \/ /\ stored' = <<>> /\ unclean' = FALSE /\ known' = FALSE /\ cursor' = 0 /\ owner' = NoOne
         /\ overtaken' = overtaken \cup {x \in Sessions \ {current} : live[x] # "none"} /\ UNCHANGED left
      \/ Fails /\ UNCHANGED <<backendVars, stateVars>>
  BY DEF DeletionReturns
<1>5. Types'
  <2>1. deletion' \in {"none", "waiting", "queued"} /\ deletionWaits' \in Sessions \cup {NoOne}
    BY <1>1 DEF DeletionOver
  <2>2. left' \in Bounds /\ overtaken' \subseteq Sessions \cup {NoOne}
    BY <1>4, TypeFacts, CountedTypes DEF TypeOK, Fails
  <2>3. /\ stored' \in Log /\ unclean' \in BOOLEAN
        /\ known' \in BOOLEAN /\ cursor' \in Nat /\ owner' \in Sessions \cup {NoOne}
    <3>1. CASE Fails /\ UNCHANGED <<backendVars, stateVars>>
      <4>1. /\ stored \in Log /\ unclean \in BOOLEAN
            /\ known \in BOOLEAN /\ cursor \in Nat /\ owner \in Sessions \cup {NoOne}
        BY TypeFacts DEF TypeOK
      <4> QED
        BY <3>1, <4>1
    <3>2. CASE stored' = <<>> /\ unclean' = FALSE /\ known' = FALSE /\ cursor' = 0 /\ owner' = NoOne
      <4>1. stored' \in Log
        BY <3>2, EmptySeq DEF Log
      <4> QED
        BY <3>2, <4>1
    <3> QED
      BY <1>4, <3>1, <3>2
  <2>4. deletes' \in BOOLEAN
    BY <1>1
  <2> QED
    BY <1>1, <1>3, <2>1, <2>2, <2>3, <2>4, TypeFacts DEF Types, TypeOK, ReaderTypes
<1>6. SessionPart'
  <2>1. CASE Fails /\ UNCHANGED <<backendVars, stateVars>>
    <3>1. \A x \in Sessions : seed[x] <= Len(log[x]) /\ written[x] <= Len(log[x]) /\ o # Op("load", x)
      BY PartFacts DEF SessionInv, Op
    <3>2. HeadInv' /\ StateInv'
      BY <1>1, <1>2, <2>1, PartFacts DEF HeadInv, StateInv, Fails
    <3> QED
      BY <1>1, <1>3, <2>1, <3>1, <3>2, SessionsStay DEF Op, Fails
  <2>2. CASE /\ stored' = <<>> /\ known' = FALSE /\ cursor' = 0 /\ owner' = NoOne
             /\ overtaken' = overtaken \cup {x \in Sessions \ {current} : live[x] # "none"}
    <3>1. HeadInv' /\ StateInv' /\ StoreInv'
      BY <1>1, <1>2, <2>2 DEF HeadInv, StateInv, StoreInv
    <3>2. \A x \in Sessions, kind \in SessionKinds : Op(kind, x) \in Queued' <=> Op(kind, x) \in Queued
      BY <1>3 DEF Passes, Op, SessionKinds
    <3>3. ASSUME NEW x \in Sessions PROVE SessionInv(x)' /\ QueueInv(x)'
      <4>1. SessionInv(x) /\ QueueInv(x)
        BY PartFacts
      <4> QED
        BY <1>1, <3>2, <4>1 DEF SessionInv, QueueInv, SessionKinds
    <3>4. ASSUME NEW x \in Sessions PROVE ClaimInv(x)'
      BY <1>1, <1>3, <2>2, <3>2, PartFacts, TypeFacts DEF ClaimInv, SessionKinds, Passes, Op
    <3>5. ASSUME overtaken' = {}, NEW x \in Sessions PROVE LogInv(x)'
      <4>1. live[x] = "none" \/ x = current
        BY <2>2, <3>5
      <4>2. x = current => Op("init", x) \in Queued
        BY <1>1, PartFacts, TypeFacts DEF StoreInv
      <4>3. live[x] # "ok" /\ Op("suffix", x) \notin Queued
        BY <4>1, <4>2, PartFacts, OneQueued DEF QueueInv, SessionKinds
      <4> QED
        BY <1>1, <1>2, <2>2, <3>2, <4>3, TypeFacts DEF LogInv, SessionKinds
    <3> QED
      BY <3>1, <3>3, <3>4, <3>5 DEF SessionPart
  <2> QED
    BY <1>4, <2>1, <2>2
<1>7. EntryPart'
  <2>1. prepared # NoOne => prepared \notin born' /\ current' = NoOne
    BY <1>1, PartFacts DEF EntryInv
  <2>2. Unreserved
    BY <1>1, PartFacts, UnreservedFacts DEF EntryInv, Reserved
  <2> QED
    BY <1>1, <1>3, <1>5, <2>1, <2>2, EntryKeptOrDropped DEF Op
<1> QED
  BY <1>5, <1>6, <1>7 DEF CoordinatorInv

-----------------------------------------------------------------------------
(* Readers.                                                                *)

\* One reader moves.
Moves(r) ==
  /\ role' = role /\ pc' \in [Readers -> Places]
  /\ hold' \in [Readers -> Sessions \cup {NoOne}] /\ waits' \in [Readers -> Sessions \cup {NoOne}]
  /\ \A s \in Readers \ {r} : pc'[s] = pc[s] /\ hold'[s] = hold[s]
  /\ pc'[r] \in Holding => hold'[r] \in Sessions

LEMMA FinishMoves == ASSUME CoordinatorInv, NEW r \in Readers, Finishes(r) PROVE Moves(r) /\ pc'[r] = "done"
  BY TypeFacts DEF ReaderTypes, Finishes, Goes, Moves, Places, Holding, Turns

LEMMA LoopMoves == ASSUME CoordinatorInv, NEW r \in Readers, Loops(r) PROVE Moves(r) /\ pc'[r] \in {"done", "asked"}
<1>1. retirement \in Sessions \cup {NoOne}
  BY TypeFacts DEF TypeOK
<1> QED
  BY <1>1, TypeFacts DEF ReaderTypes, Loops, Goes, Moves, Places, Holding, Turns

LEMMA GoMoves ==
  ASSUME CoordinatorInv, NEW r \in Readers, NEW to \in Places, Goes(r, to), UNCHANGED <<role, hold, waits>>,
         hold[r] \in Sessions
  PROVE  Moves(r) /\ pc'[r] = to
  BY TypeFacts DEF ReaderTypes, Goes, Moves

LEMMA MovesFrame ==
  ASSUME CoordinatorInv, NEW r \in Readers, Moves(r), ChainTypes', NEW o, Passes(o), HeadKept,
         o[1] \in {"commit", "check"}, left' \in Bounds,
         prepared' \in Sessions \cup {NoOne}, phase' \in Phases,
         UNCHANGED <<ReaderFrame, sourceVars, overtaken>>
  PROVE  Types' /\ SessionPart'
<1> USE DEF ReaderFrame, backendVars, stateVars, sourceVars, sessionVars, writeVars, storeVars, deletionVars
<1>1. TypeOK'
  BY TypeFacts DEF TypeOK
<1>2. ReaderTypes'
  BY TypeFacts DEF ReaderTypes, Moves
<1>3. \A x \in Sessions : seed[x] <= Len(log[x]) /\ written[x] <= Len(log[x]) /\ o # Op("load", x)
  BY PartFacts DEF SessionInv, Op
<1>4. SessionPart'
  BY <1>3, SessionsKept
<1> QED
  BY <1>1, <1>2, <1>4 DEF Types

\* It owns nothing after.
LEMMA MovesAway ==
  ASSUME CoordinatorInv, NEW r \in Readers, Moves(r), NEW o, Passes(o), o[1] # "load", o[1] # "init",
         \A s \in Readers : o = Op("commit", s) => s = r,
         pc'[r] \notin Turns \cup {"reserved"},
         UNCHANGED <<ReaderFrame, sourceVars, prepared, phase>>
  PROVE  EntryPart'
<1> USE DEF ReaderFrame, backendVars, stateVars, sourceVars, sessionVars, writeVars, storeVars, deletionVars
<1>1. \A x : Op("load", x) \in Queued' <=> Op("load", x) \in Queued
  BY DEF Passes, Op
<1>2. EntryInv'
  BY <1>1, PartFacts DEF EntryInv
<1>3. ASSUME NEW x \in Sessions PROVE OrderInv(x)'
  BY PartFacts DEF OrderInv, Passes, Op
<1>4. ASSUME NEW s \in Readers PROVE TurnInv(s)' /\ HeldInv(s)'
  BY PartFacts DEF TurnInv, HeldInv, Owns, Moves, Turns
<1>5. ASSUME NEW s \in Readers PROVE CommitInv(s)'
  <2>1. CASE s = r
    BY <2>1 DEF CommitInv, Turns
  <2>2. CASE s # r
    <3>1. CommitInv(s) /\ pc'[s] = pc[s] /\ hold'[s] = hold[s] /\ o # Op("commit", s)
      BY <2>2, PartFacts DEF Moves
    <3> QED
      BY <3>1 DEF CommitInv, Passes
  <2> QED
    BY <2>1, <2>2
<1> QED
  BY <1>2, <1>3, <1>4, <1>5 DEF EntryPart

\* An entry of its own, that it gives up for the next reader.
LEMMA MovesReady ==
  ASSUME CoordinatorInv, NEW r \in Readers, Moves(r), UNCHANGED chain, Owns(r), phase' = "ready",
         pc'[r] \notin Turns \cup {"reserved"},
         phase = "committing" \/ (~repair[prepared] /\ Len(log[prepared]) = Len(base[prepared])),
         UNCHANGED <<ReaderFrame, sourceVars, prepared>>
  PROVE  EntryPart'
<1> USE DEF ReaderFrame, backendVars, stateVars, sourceVars, sessionVars, writeVars, storeVars, deletionVars
<1>1. Queued' = Queued
  BY QueuedSame
<1>2. TurnInv(r) /\ prepared \in Sessions /\ phase \in {"committing", "reserved"}
  BY PartFacts, TypeFacts DEF TurnInv, Owns, ReaderTypes, Holding, Turns
<1>3. EntryInv'
  <2>1. EntryInv /\ prepared # NoOne
    BY <1>2, PartFacts, TypeFacts
  <2>2. Len(log[prepared]) = Len(base[prepared]) + (IF repair[prepared] THEN 1 ELSE 0)
    <3>1. Len(log[prepared]) \in Nat /\ Len(base[prepared]) \in Nat
      BY <1>2, TypeFacts, LogFacts
    <3>2. CASE phase = "committing"
      BY <2>1, <3>2 DEF EntryInv
    <3>3. CASE ~repair[prepared] /\ Len(log[prepared]) = Len(base[prepared])
      BY <3>1, <3>3
    <3> QED
      BY <3>2, <3>3
  <2> QED
    BY <1>1, <1>2, <2>1, <2>2 DEF EntryInv
<1>4. ASSUME NEW x \in Sessions PROVE OrderInv(x)'
  BY <1>1, <1>2, PartFacts, TypeFacts DEF OrderInv
<1>5. ASSUME NEW s \in Readers PROVE TurnInv(s)' /\ CommitInv(s)' /\ HeldInv(s)'
  <2>1. CASE s = r
    BY <2>1 DEF TurnInv, CommitInv, HeldInv, Owns, Turns
  <2>2. CASE s # r
    <3>1. TurnInv(s) /\ CommitInv(s) /\ pc'[s] = pc[s] /\ hold'[s] = hold[s]
      BY <2>2, PartFacts DEF Moves
    <3>2. ~Owns(s)
      BY <1>2, <2>2 DEF TurnInv
    <3> QED
      BY <1>1, <1>2, <3>1, <3>2 DEF TurnInv, CommitInv, HeldInv, Owns, Turns, Moves
  <2> QED
    BY <2>1, <2>2
<1> QED
  BY <1>3, <1>4, <1>5 DEF EntryPart

\* An entry it drops, its own or one nobody owns.
LEMMA MovesOut ==
  ASSUME CoordinatorInv, NEW r \in Readers, Moves(r), Types', UNCHANGED chain,
         pc'[r] \notin Turns \cup {"reserved"}, NoEntry, Owns(r) \/ phase = "ready"
  PROVE  EntryPart'
<1>1. ASSUME NEW s \in Readers PROVE pc'[s] # "reserved" /\ (pc'[s] = "commit" => pc[s] = "commit")
  <2>1. CASE s = r
    BY <2>1 DEF Turns
  <2>2. CASE s # r
    <3>1. TurnInv(s) /\ TurnInv(r) /\ pc'[s] = pc[s]
      BY <2>2, PartFacts DEF Moves
    <3>2. pc[s] # "reserved"
      BY <2>2, <3>1 DEF TurnInv, Owns
    <3> QED
      BY <3>1, <3>2
  <2> QED
    BY <2>1, <2>2
<1> DEFINE o == Op("create", NoOne)
<1>2. Passes(o)
  BY SamePasses
<1> QED
  BY <1>1, <1>2, EntryDropped DEF NoEntry, Op

LEMMA RemoveMoves ==
  ASSUME CoordinatorInv, NEW r \in Readers, Moves(r), Types', UNCHANGED chain, RemoveEntryOf(hold[r]),
         pc'[r] \notin Turns \cup {"reserved"}, pc[r] \in Turns \cup {"reserved"} \/ phase = "ready" \/ prepared # hold[r],
         UNCHANGED <<ReaderFrame, sourceVars>>
  PROVE  EntryPart'
<1>1. CASE prepared = hold[r]
  BY <1>1, MovesOut DEF RemoveEntryOf, Owns
<1>2. CASE prepared # hold[r]
  <2> DEFINE o == Op("create", NoOne)
  <2>1. Passes(o)
    BY SamePasses
  <2> QED
    BY <1>2, <2>1, MovesAway DEF RemoveEntryOf, entryVars, Op
<1> QED
  BY <1>1, <1>2

LEMMA LoadFailedStep == ASSUME CoordinatorInv, NEW r \in Readers, LoadFailed(r) PROVE CoordinatorInv'
<1> USE DEF boundVars, entryVars
<1> DEFINE o == Op("check", r)
<1>1. Moves(r) /\ pc'[r] = "done" /\ UNCHANGED <<ReaderFrame, chain, entryVars, sourceVars, boundVars>>
  BY FinishMoves DEF LoadFailed
<1>2. ChainTypes' /\ Passes(o) /\ HeadKept
  BY <1>1, SamePasses, SamePassesHead, TypeFacts DEF ChainTypes, ReaderFrame
<1>3. Types' /\ SessionPart'
  BY <1>1, <1>2, MovesFrame, TypeFacts DEF TypeOK, Op
<1>4. EntryPart'
  BY <1>1, <1>2, MovesAway DEF Op, Turns
<1> QED
  BY <1>3, <1>4 DEF CoordinatorInv

LEMMA InspectsStep == ASSUME CoordinatorInv, NEW r \in Readers, Inspects(r) PROVE CoordinatorInv'
<1> USE DEF boundVars, entryVars
<1> DEFINE o == Op("check", r)
<1>1. pc[r] = "result" /\ UNCHANGED <<ReaderFrame, entryVars, sourceVars, boundVars>>
  BY DEF Inspects
<1>2. o \in Ops /\ hold[r] \in Sessions
  BY <1>1, TypeFacts DEF Ops, Op, ReaderTypes, Holding
<1>3. Moves(r) /\ pc'[r] \in {"done", "check"} /\ ChainTypes' /\ Passes(o) /\ HeadKept
  <2>1. CASE Finishes(r) /\ UNCHANGED chain
    BY <1>1, <2>1, FinishMoves, SamePasses, SamePassesHead, TypeFacts DEF ChainTypes, ReaderFrame
  <2>2. CASE Goes(r, "check") /\ UNCHANGED <<role, hold, waits>> /\ Serialize(o)
    <3>1. Moves(r) /\ pc'[r] = "check"
      BY <1>2, <2>2, GoMoves DEF Places
    <3> QED
      BY <1>1, <1>2, <2>2, <3>1, JoinFacts DEF ReaderFrame, Op, SessionKinds
  <2> QED
    BY <2>1, <2>2 DEF Inspects
<1>4. Types' /\ SessionPart'
  BY <1>1, <1>3, MovesFrame, TypeFacts DEF TypeOK, Op
<1>5. EntryPart'
  BY <1>1, <1>3, MovesAway DEF Op, Turns
<1> QED
  BY <1>4, <1>5 DEF CoordinatorInv

LEMMA ChecksStep == ASSUME CoordinatorInv, NEW r \in Readers, Checks(r) PROVE CoordinatorInv'
<1> USE DEF boundVars, entryVars
<1> DEFINE o == Op("check", r)
<1>1. /\ chain # <<>> /\ Head(chain) = o /\ batch = <<>> /\ ~deletes /\ OpEnds
      /\ UNCHANGED <<ReaderFrame, entryVars, sourceVars, role, hold, waits, boundVars>>
  BY DEF Checks, Begins
<1>2. ChainTypes' /\ Passes(o) /\ HeadKept
  BY <1>1, LeaveFacts DEF ReaderFrame
<1>3. Moves(r) /\ (pc'[r] = pc[r] \/ pc'[r] \in {"fresh", "stale"}) /\ (pc[r] # "check" => pc' = pc)
  <2>1. CASE pc[r] = "check"
    <3>1. hold[r] \in Sessions
      BY <2>1, TypeFacts DEF ReaderTypes, Holding
    <3>2. Goes(r, "fresh") \/ Goes(r, "stale")
      BY <2>1 DEF Checks
    <3> QED
      BY <1>1, <2>1, <3>1, <3>2, GoMoves DEF Places
  <2>2. CASE pc[r] # "check"
    <3>1. pc' = pc
      BY <2>2 DEF Checks
    <3> QED
      BY <1>1, <2>2, <3>1, TypeFacts DEF Moves, ReaderTypes
  <2> QED
    BY <2>1, <2>2
<1>4. Types' /\ SessionPart'
  BY <1>1, <1>2, <1>3, MovesFrame, TypeFacts DEF TypeOK, Op
<1>5. EntryPart'
  <2>1. CASE pc' = pc
    <3>1. prepared # NoOne => prepared \notin born' /\ current' = NoOne
      BY <1>1, PartFacts DEF EntryInv, ReaderFrame, sessionVars, storeVars
    <3> QED
      BY <1>1, <1>2, <2>1, <3>1, EntryKept DEF Op, ReaderFrame, sourceVars, sessionVars, backendVars, stateVars
  <2>2. CASE pc[r] = "check" /\ pc'[r] \in {"fresh", "stale"}
    BY <1>1, <1>2, <1>3, <2>2, MovesAway DEF Op, Turns
  <2> QED
    BY <1>3, <2>1, <2>2, TypeFacts DEF ReaderTypes, Checks, Goes
<1> QED
  BY <1>4, <1>5 DEF CoordinatorInv

LEMMA CheckReturnsStep == ASSUME CoordinatorInv, NEW r \in Readers, CheckReturns(r) PROVE CoordinatorInv'
<1> USE DEF boundVars, entryVars
<1> DEFINE o == Op("check", r)
<1>1. pc[r] \in {"fresh", "stale"} /\ UNCHANGED <<ReaderFrame, chain, sourceVars, boundVars>>
  BY DEF CheckReturns
<1>2. ChainTypes' /\ Passes(o) /\ HeadKept
  BY <1>1, SamePasses, SamePassesHead, TypeFacts DEF ChainTypes, ReaderFrame
<1>3. \/ /\ prepared # hold[r] \/ phase = "ready"
         /\ RemoveEntryOf(hold[r]) /\ Loops(r)
      \/ Finishes(r) /\ UNCHANGED entryVars
  BY DEF CheckReturns
<1>4. Moves(r) /\ pc'[r] \in {"done", "asked"} /\ (NoEntry \/ UNCHANGED entryVars)
  BY <1>3, FinishMoves, LoopMoves DEF RemoveEntryOf
<1>5. Types' /\ SessionPart'
  <2>1. prepared' \in Sessions \cup {NoOne} /\ phase' \in Phases
    BY <1>4, TypeFacts DEF TypeOK, NoEntry, Phases
  <2> QED
    BY <1>1, <1>2, <1>4, <2>1, MovesFrame, TypeFacts DEF TypeOK, Op
<1>6. EntryPart'
  <2>1. CASE UNCHANGED entryVars
    BY <1>1, <1>2, <1>4, <2>1, MovesAway DEF Op, Turns
  <2>2. CASE RemoveEntryOf(hold[r]) /\ (prepared # hold[r] \/ phase = "ready")
    BY <1>1, <1>4, <1>5, <2>2, RemoveMoves DEF Turns
  <2> QED
    BY <1>3, <2>1, <2>2
<1> QED
  BY <1>5, <1>6 DEF CoordinatorInv

LEMMA AbortsStep == ASSUME CoordinatorInv, NEW r \in Readers, Aborts(r) PROVE CoordinatorInv'
<1> USE DEF entryVars
<1> DEFINE o == Op("check", r)
<1>1. Calls /\ Finishes(r) /\ UNCHANGED <<ReaderFrame, chain, sourceVars>>
  BY DEF Aborts
<1>2. left' \in Bounds /\ UNCHANGED overtaken
  BY <1>1, TypeFacts, CountedTypes DEF Calls, TypeOK
<1>3. ChainTypes' /\ Passes(o) /\ HeadKept
  BY <1>1, SamePasses, SamePassesHead, TypeFacts DEF ChainTypes, ReaderFrame
<1>4. \/ pc[r] \in {"asked", "result", "check"} /\ UNCHANGED entryVars
      \/ pc[r] = "commit" /\ RemoveEntryOf(hold[r])
      \/ pc[r] = "committed" /\ MakeReady(hold[r])
  BY DEF Aborts
<1>5. Moves(r) /\ pc'[r] = "done"
  BY <1>1, FinishMoves
<1>6. Types' /\ SessionPart'
  <2>1. prepared' \in Sessions \cup {NoOne} /\ phase' \in Phases
    BY <1>4, TypeFacts DEF TypeOK, NoEntry, Phases, RemoveEntryOf, MakeReady
  <2> QED
    BY <1>1, <1>2, <1>3, <1>5, <2>1, MovesFrame, TypeFacts DEF Op
<1>7. EntryPart'
  <2>1. CASE UNCHANGED entryVars
    BY <1>1, <1>3, <1>5, <2>1, MovesAway DEF Op, Turns
  <2>2. CASE pc[r] = "commit" /\ RemoveEntryOf(hold[r])
    BY <1>1, <1>5, <1>6, <2>2, RemoveMoves DEF Turns
  <2>3. CASE pc[r] = "committed" /\ MakeReady(hold[r])
    <3>1. CASE prepared # hold[r]
      BY <2>1, <2>3, <3>1 DEF MakeReady
    <3>2. CASE prepared = hold[r]
      <4>1. Owns(r) /\ phase' = "ready" /\ UNCHANGED prepared
        BY <2>3, <3>2 DEF Owns, Turns, MakeReady
      <4>2. phase = "committing"
        BY <2>3, <3>2, PartFacts DEF TurnInv, Turns
      <4> QED
        BY <1>1, <1>5, <4>1, <4>2, MovesReady DEF Turns
    <3> QED
      BY <3>1, <3>2
  <2> QED
    BY <1>4, <2>1, <2>2, <2>3
<1> QED
  BY <1>6, <1>7 DEF CoordinatorInv

LEMMA ReleaseStep == ASSUME CoordinatorInv, NEW r \in Readers, Release(r) PROVE CoordinatorInv'
<1> USE DEF entryVars, boundVars
<1> DEFINE o == Op("check", r)
<1>1. pc[r] = "reserved" /\ Finishes(r) /\ UNCHANGED <<ReaderFrame, chain, sourceVars, boundVars>>
  BY DEF Release
<1>2. ChainTypes' /\ Passes(o) /\ HeadKept
  BY <1>1, SamePasses, SamePassesHead, TypeFacts DEF ChainTypes, ReaderFrame
<1>3. Owns(r) /\ TurnInv(r) /\ HeldInv(r) /\ prepared = hold[r]
  BY <1>1, PartFacts DEF TurnInv, Owns
<1>4. \/ Reusable(hold[r]) /\ phase' = "ready" /\ UNCHANGED prepared
      \/ NoEntry
  BY <1>3 DEF Release, MakeReady, RemoveEntryOf
<1>5. Moves(r) /\ pc'[r] = "done"
  BY <1>1, FinishMoves
<1>6. Types' /\ SessionPart'
  <2>1. prepared' \in Sessions \cup {NoOne} /\ phase' \in Phases
    BY <1>4, TypeFacts DEF TypeOK, NoEntry, Phases
  <2> QED
    BY <1>1, <1>2, <1>5, <2>1, MovesFrame, TypeFacts DEF TypeOK, Op
<1>7. EntryPart'
  <2>1. CASE Reusable(hold[r]) /\ phase' = "ready" /\ UNCHANGED prepared
    <3>1. ~repair[prepared] /\ Len(log[prepared]) = Len(base[prepared])
      BY <1>1, <1>3, <2>1 DEF Reusable, HeldInv
    <3> QED
      BY <1>1, <1>3, <1>5, <2>1, <3>1, MovesReady DEF Turns
  <2>2. CASE NoEntry
    BY <1>1, <1>3, <1>5, <1>6, <2>2, MovesOut DEF Turns
  <2> QED
    BY <1>4, <2>1, <2>2
<1> QED
  BY <1>6, <1>7 DEF CoordinatorInv

LEMMA TakesTurnStep == ASSUME CoordinatorInv, NEW r \in Readers, TakesTurn(r) PROVE CoordinatorInv'
<1> USE DEF entryVars, boundVars
<1> DEFINE o == Op("commit", r)
<1>1. pc[r] = "result" /\ hold[r] \in Sessions /\ UNCHANGED <<ReaderFrame, sourceVars, boundVars>>
  BY TypeFacts DEF TakesTurn, ReaderTypes, Holding
<1>2. CASE Loops(r) /\ UNCHANGED <<chain, entryVars>>
  <2>1. Moves(r) /\ pc'[r] \in {"done", "asked"}
    BY <1>2, LoopMoves
  <2>2. ChainTypes' /\ Passes(o) /\ HeadKept
    BY <1>1, <1>2, SamePasses, SamePassesHead, TypeFacts DEF ChainTypes, ReaderFrame
  <2>3. Types' /\ SessionPart'
    BY <1>1, <1>2, <2>1, <2>2, MovesFrame, TypeFacts DEF TypeOK, Op
  <2>4. EntryPart'
    BY <1>1, <1>2, <2>1, <2>2, MovesAway DEF Op, Turns
  <2> QED
    BY <2>3, <2>4 DEF CoordinatorInv
<1>3. CASE /\ prepared = hold[r] /\ phase = "ready" /\ phase' = "committing" /\ UNCHANGED prepared
           /\ Goes(r, "commit") /\ UNCHANGED <<role, hold, waits>> /\ Serialize(o)
  <2>1. Moves(r) /\ pc'[r] = "commit"
    BY <1>1, <1>3, GoMoves DEF Places
  <2>2. ChainTypes' /\ Joins(o) /\ Passes(o) /\ HeadKept
    BY <1>1, <1>3, JoinFacts DEF Op, Ops, SessionKinds, ReaderFrame
  <2>3. Types' /\ SessionPart'
    BY <1>1, <1>3, <2>1, <2>2, MovesFrame, TypeFacts DEF TypeOK, Op, Phases
  <2>4. \A x : Op("load", x) \in Queued' <=> Op("load", x) \in Queued
    BY <2>2 DEF Passes, Op
  <2>5. EntryInv'
    <3>1. EntryInv
      BY PartFacts
    <3> QED
      BY <1>1, <1>3, <2>4, <3>1 DEF EntryInv, ReaderFrame, sourceVars, sessionVars, storeVars
  <2>6. ASSUME NEW x \in Sessions PROVE OrderInv(x)'
    <3>1. Op("init", x) \notin Queued
      BY <1>1, <1>3, PartFacts, TypeFacts DEF OrderInv
    <3> QED
      BY <2>2, <3>1 DEF OrderInv, Passes, Op
  <2>7. \A s \in Readers : ~Owns(s)
    BY <1>3, PartFacts DEF TurnInv, Owns
  <2>8. ASSUME NEW s \in Readers PROVE TurnInv(s)' /\ CommitInv(s)' /\ HeldInv(s)'
    <3>1. CASE s = r
      <4>1. \A t \in Readers \ {r} : ~Owns(t)'
        BY <1>3, <2>1, <2>7 DEF Owns, Moves
      <4> QED
        BY <1>3, <2>1, <2>2, <3>1, <4>1 DEF TurnInv, CommitInv, HeldInv, Owns, Turns, Joins
    <3>2. CASE s # r
      <4>1. pc'[s] = pc[s] /\ hold'[s] = hold[s] /\ CommitInv(s) /\ TurnInv(s)
        BY <2>1, <3>2, PartFacts DEF Moves
      <4>2. ~Owns(s)'
        BY <1>3, <2>7, <4>1 DEF Owns
      <4> QED
        BY <1>3, <2>2, <2>7, <3>2, <4>1, <4>2 DEF TurnInv, CommitInv, HeldInv, Owns, Turns, Joins, Passes
    <3> QED
      BY <3>1, <3>2
  <2> QED
    BY <2>3, <2>5, <2>6, <2>8 DEF CoordinatorInv, EntryPart
<1> QED
  BY <1>2, <1>3 DEF TakesTurn

LEMMA CommitReturnsStep == ASSUME CoordinatorInv, NEW r \in Readers, CommitReturns(r) PROVE CoordinatorInv'
<1> USE DEF entryVars, boundVars
<1> DEFINE o == Op("check", r)
<1>1. pc[r] \in Turns /\ hold[r] \in Sessions /\ UNCHANGED <<ReaderFrame, chain, sourceVars, boundVars>>
  BY TypeFacts DEF CommitReturns, ReaderTypes, Holding, Turns
<1>2. ChainTypes' /\ Passes(o) /\ HeadKept
  BY <1>1, SamePasses, SamePassesHead, TypeFacts DEF ChainTypes, ReaderFrame
<1>3. \/ RemoveEntryOf(hold[r]) /\ (Finishes(r) \/ Loops(r))
      \/ prepared # hold[r] /\ Loops(r) /\ UNCHANGED entryVars
      \/ prepared = hold[r] /\ NoEntry /\ Finishes(r)
      \/ /\ pc[r] = "committed" /\ prepared = hold[r] /\ phase' = "reserved" /\ UNCHANGED prepared
         /\ Goes(r, "reserved") /\ UNCHANGED <<role, hold, waits>>
  BY DEF CommitReturns
<1>4. CASE RemoveEntryOf(hold[r]) /\ (Finishes(r) \/ Loops(r))
  <2>1. Moves(r) /\ pc'[r] \in {"done", "asked"}
    BY <1>4, FinishMoves, LoopMoves
  <2>2. prepared' \in Sessions \cup {NoOne} /\ phase' \in Phases
    BY <1>4, TypeFacts DEF TypeOK, RemoveEntryOf, NoEntry, Phases
  <2>3. Types' /\ SessionPart'
    BY <1>1, <1>2, <2>1, <2>2, MovesFrame, TypeFacts DEF TypeOK, Op
  <2>4. EntryPart'
    BY <1>1, <1>4, <2>1, <2>3, RemoveMoves DEF Turns
  <2> QED
    BY <2>3, <2>4 DEF CoordinatorInv
<1>5. CASE prepared # hold[r] /\ Loops(r) /\ UNCHANGED entryVars
  <2>1. Moves(r) /\ pc'[r] \in {"done", "asked"}
    BY <1>5, LoopMoves
  <2>2. Types' /\ SessionPart'
    BY <1>1, <1>2, <1>5, <2>1, MovesFrame, TypeFacts DEF TypeOK, Op
  <2>3. EntryPart'
    BY <1>1, <1>2, <1>5, <2>1, MovesAway DEF Turns, Op
  <2> QED
    BY <2>2, <2>3 DEF CoordinatorInv
<1>6. CASE prepared = hold[r] /\ NoEntry /\ Finishes(r)
  <2>1. Moves(r) /\ pc'[r] = "done"
    BY <1>6, FinishMoves
  <2>2. prepared' \in Sessions \cup {NoOne} /\ phase' \in Phases
    BY <1>6 DEF NoEntry, Phases
  <2>3. Types' /\ SessionPart'
    BY <1>1, <1>2, <2>1, <2>2, MovesFrame, TypeFacts DEF TypeOK, Op
  <2>4. EntryPart'
    BY <1>1, <1>6, <2>1, <2>3, MovesOut DEF Turns, Owns
  <2> QED
    BY <2>3, <2>4 DEF CoordinatorInv
<1>7. CASE /\ pc[r] = "committed" /\ prepared = hold[r] /\ phase' = "reserved" /\ UNCHANGED prepared
           /\ Goes(r, "reserved") /\ UNCHANGED <<role, hold, waits>>
  <2>1. Moves(r) /\ pc'[r] = "reserved"
    BY <1>1, <1>7, GoMoves DEF Places
  <2>2. Types' /\ SessionPart'
    BY <1>1, <1>2, <1>7, <2>1, MovesFrame, TypeFacts DEF TypeOK, Op, Phases
  <2>3. Queued' = Queued
    BY <1>1, QueuedSame
  <2>4. Owns(r) /\ TurnInv(r) /\ HeldInv(r) /\ phase = "committing"
    BY <1>1, <1>7, PartFacts DEF TurnInv, Owns
  <2>5. EntryInv'
    <3>1. EntryInv
      BY PartFacts
    <3> QED
      BY <1>1, <1>7, <2>3, <2>4, <3>1 DEF EntryInv, ReaderFrame, sourceVars, sessionVars, storeVars
  <2>6. ASSUME NEW x \in Sessions PROVE OrderInv(x)'
    BY <1>1, <1>7, <2>3, <2>4, PartFacts, TypeFacts DEF OrderInv
  <2>7. ASSUME NEW s \in Readers PROVE TurnInv(s)' /\ CommitInv(s)' /\ HeldInv(s)'
    <3>1. \A t \in Readers \ {r} : ~Owns(t)' /\ ~Owns(t)
      BY <1>7, <2>1, <2>4 DEF Owns, TurnInv, Moves
    <3>2. CASE s = r
      BY <1>1, <1>7, <2>1, <2>4, <3>1, <3>2 DEF TurnInv, CommitInv, HeldInv, Owns, Turns, ReaderFrame, sourceVars,
         backendVars, stateVars
    <3>3. CASE s # r
      <4>1. pc'[s] = pc[s] /\ hold'[s] = hold[s] /\ CommitInv(s) /\ TurnInv(s)
        BY <2>1, <3>3, PartFacts DEF Moves
      <4> QED
        BY <1>1, <1>7, <2>3, <2>4, <3>1, <3>3, <4>1 DEF TurnInv, CommitInv, HeldInv, Owns, Turns
    <3> QED
      BY <3>2, <3>3
  <2> QED
    BY <2>2, <2>5, <2>6, <2>7 DEF CoordinatorInv, EntryPart
<1> QED
  BY <1>3, <1>4, <1>5, <1>6, <1>7

LEMMA SetupAppendsStep == ASSUME CoordinatorInv, NEW r \in Readers, SetupAppends(r) PROVE CoordinatorInv'
<1> USE DEF backendVars, stateVars, chainVars, entryVars, sourceVars, writeVars, storeVars, readerVars, deletionVars
<1> DEFINE x == hold[r]
           new == Append(log[x], x)
           o == Op("check", r)
<1>1. /\ pc[r] = "reserved" /\ Counted("events") /\ log' = [log EXCEPT ![x] = new]
      /\ UNCHANGED <<backendVars, stateVars, chainVars, entryVars, sourceVars, born, seed, writeVars,
                     storeVars, readerVars, deletionVars, overtaken>>
  BY DEF SetupAppends
<1>2. x \in Sessions /\ prepared = x /\ phase = "reserved" /\ x \notin born
  BY <1>1, PartFacts, TypeFacts DEF ReaderTypes, Holding, TurnInv, EntryInv
<1>3. new \in Seq(Authors) /\ Len(new) = Len(log[x]) + 1 /\ Len(log[x]) \in Nat
  BY <1>2, TypeFacts, LogFacts, AppendProperties
<1>4. Covers(new, base[x]) /\ base[x] # <<>>
  BY <1>2, TypeFacts, LogFacts, CoversAppend, PartFacts DEF EntryInv
<1> HIDE DEF new
<1>5. log' \in [Sessions -> Seq(Authors)] /\ log'[x] = new /\ \A y \in Sessions \ {x} : log'[y] = log[y]
  BY <1>1, <1>2, <1>3, TypeFacts DEF TypeOK, Log
<1> HIDE DEF x
<1>6. Passes(o) /\ HeadKept /\ Queued' = Queued
  BY <1>1, SamePasses, SamePassesHead
<1>7. Types'
  <2>1. TypeOK'
    <3>1. left' \in Bounds
      BY <1>1, TypeFacts, CountedTypes DEF TypeOK
    <3> QED
      BY <1>1, <1>5, <3>1, TypeFacts DEF TypeOK, Log
  <2>2. ReaderTypes' /\ ChainTypes'
    BY <1>1, TypeFacts DEF ReaderTypes, ChainTypes
  <2> QED
    BY <2>1, <2>2 DEF Types
<1>8. SessionPart'
  <2>1. ASSUME NEW y \in Sessions PROVE seed'[y] <= Len(log'[y]) /\ written'[y] <= Len(log'[y])
    <3>1. seed[y] <= Len(log[y]) /\ written[y] <= Len(log[y]) /\ seed[y] \in Nat /\ written[y] \in Nat
      BY PartFacts, TypeFacts DEF SessionInv, TypeOK
    <3> QED
      BY <1>1, <1>3, <1>5, <3>1
  <2>2. \A y \in born : log'[y] = log[y]
    BY <1>2, <1>5, TypeFacts DEF TypeOK
  <2> QED
    BY <1>1, <1>6, <2>1, <2>2, SessionsKept DEF Op
<1>9. EntryInv'
  <2>1. EntryInv
    BY PartFacts
  <2> QED
    BY <1>1, <1>2, <1>4, <1>5, <1>6, <2>1 DEF EntryInv
<1>10. \A y \in Sessions : OrderInv(y)'
  BY <1>1, <1>6, PartFacts DEF OrderInv
<1>11. \A s \in Readers : TurnInv(s)' /\ CommitInv(s)' /\ HeldInv(s)'
  BY <1>1, <1>6, PartFacts DEF TurnInv, CommitInv, HeldInv, Owns
<1> QED
  BY <1>7, <1>8, <1>9, <1>10, <1>11 DEF CoordinatorInv, EntryPart

\* A reader makes the entry and queues its load.
LEMMA MakesEntry ==
  ASSUME CoordinatorInv, NEW r \in Readers, pc[r] = "asked", current = NoOne, prepared = NoOne, Spares # {},
         NEW x, x = Spare, Goes(r, "result"), hold' = [hold EXCEPT ![r] = x], prepared' = x, phase' = "loading",
         result' = [result EXCEPT ![x] = "pending"], Serialize(Op("load", x)),
         UNCHANGED <<ReaderFrame, role, waits, base, repair, boundVars>>
  PROVE  CoordinatorInv'
<1> USE DEF ReaderFrame, backendVars, stateVars, sessionVars, writeVars, storeVars, deletionVars, boundVars
<1> DEFINE o == Op("load", x)
<1>1. /\ x \in Sessions /\ x \notin born /\ x # NoOne /\ o \notin Queued
      /\ \A s \in Readers : hold[s] # x
  BY TypeFacts, SpareFacts DEF CoordinatorInv
<1>2. \A kind \in SessionKinds : Op(kind, x) \notin Queued
  BY <1>1, UnbornFacts DEF SessionKinds
<1>3. ChainTypes' /\ Joins(o) /\ Passes(o) /\ HeadKept
  BY <1>1, <1>2, JoinFacts DEF Op, Ops, SessionKinds
<1>4. \A p : p \in Queued' <=> p \in Queued \/ p = o
  BY <1>3 DEF Joins
<1>5. /\ pc' \in [Readers -> Places] /\ hold' \in [Readers -> Sessions \cup {NoOne}]
      /\ pc'[r] = "result" /\ hold'[r] = x
      /\ \A s \in Readers \ {r} : pc'[s] = pc[s] /\ hold'[s] = hold[s]
  BY <1>1, TypeFacts DEF ReaderTypes, Goes, Places
<1>6. Types'
  <2>1. TypeOK'
    BY <1>1, TypeFacts DEF TypeOK, Phases
  <2>2. ReaderTypes'
    BY <1>1, <1>5, TypeFacts DEF ReaderTypes
  <2> QED
    BY <1>3, <2>1, <2>2 DEF Types
<1>7. SessionPart'
  <2>1. \A y \in Sessions : seed[y] <= Len(log[y]) /\ written[y] <= Len(log[y])
    BY PartFacts DEF SessionInv
  <2> QED
    BY <1>1, <1>3, <2>1, SessionsKept DEF Op
<1>8. EntryInv'
  <2>1. EntryInv
    BY PartFacts
  <2> QED
    BY <1>1, <2>1 DEF EntryInv
<1>9. ASSUME NEW y \in Sessions PROVE OrderInv(y)'
  BY <1>1, <1>3, <1>4 DEF OrderInv, Joins, Op
<1>10. ASSUME NEW s \in Readers PROVE TurnInv(s)' /\ CommitInv(s)' /\ HeldInv(s)'
  <2>1. phase = "none"
    BY PartFacts DEF EntryInv
  <2>2. \A t \in Readers : pc'[t] # "reserved" /\ ~Owns(t)'
    <3>1. ASSUME NEW t \in Readers PROVE pc[t] # "reserved"
      BY <2>1, PartFacts DEF TurnInv
    <3> QED
      BY <1>1, <1>5, <3>1 DEF Owns, Turns
  <2>3. CASE s = r
    BY <1>5, <2>2, <2>3 DEF TurnInv, CommitInv, HeldInv, Turns
  <2>4. CASE s # r
    <3>1. CommitInv(s) /\ pc'[s] = pc[s] /\ hold'[s] = hold[s]
      BY <1>5, <2>4, PartFacts
    <3>2. CommitInv(s)'
      BY <1>1, <1>3, <1>4, <3>1 DEF CommitInv, Joins, Op
    <3> QED
      BY <1>1, <2>2, <3>1, <3>2 DEF TurnInv, HeldInv
  <2> QED
    BY <2>3, <2>4
<1> QED
  BY <1>6, <1>7, <1>8, <1>9, <1>10 DEF CoordinatorInv, EntryPart

LEMMA LooksStep == ASSUME CoordinatorInv, NEW r \in Readers, Looks(r) PROVE CoordinatorInv'
<1> USE DEF entryVars, boundVars
<1> DEFINE o == Op("check", r)
<1>1. pc[r] = "asked" /\ UNCHANGED <<ReaderFrame, base, repair, boundVars>>
  BY DEF Looks
<1>2. \/ Finishes(r) /\ UNCHANGED <<chain, entryVars, result>>
      \/ /\ Goes(r, "result") /\ prepared # NoOne /\ hold' = [hold EXCEPT ![r] = prepared]
         /\ UNCHANGED <<chain, entryVars, result, role, waits>>
      \/ /\ current = NoOne /\ prepared = NoOne /\ Spares # {}
         /\ Goes(r, "result") /\ hold' = [hold EXCEPT ![r] = Spare] /\ prepared' = Spare /\ phase' = "loading"
         /\ result' = [result EXCEPT ![Spare] = "pending"] /\ Serialize(Op("load", Spare))
         /\ UNCHANGED <<role, waits>>
  BY DEF Looks
<1>3. ASSUME UNCHANGED <<chain, entryVars, result>>, Moves(r), pc'[r] \in {"done", "result"}
      PROVE  CoordinatorInv'
  <2>1. ChainTypes' /\ Passes(o) /\ HeadKept
    BY <1>1, <1>3, SamePasses, SamePassesHead, TypeFacts DEF ChainTypes, ReaderFrame
  <2>2. Types' /\ SessionPart'
    BY <1>1, <1>3, <2>1, MovesFrame, TypeFacts DEF TypeOK, Op, sourceVars
  <2>3. EntryPart'
    BY <1>1, <1>3, <2>1, MovesAway DEF Op, Turns, sourceVars
  <2> QED
    BY <2>2, <2>3 DEF CoordinatorInv
<1>4. CASE Finishes(r) /\ UNCHANGED <<chain, entryVars, result>>
  BY <1>3, <1>4, FinishMoves
<1>5. CASE /\ Goes(r, "result") /\ prepared # NoOne /\ hold' = [hold EXCEPT ![r] = prepared]
           /\ UNCHANGED <<chain, entryVars, result, role, waits>>
  <2>1. prepared \in Sessions
    BY <1>5, TypeFacts DEF TypeOK
  <2>2. Moves(r) /\ pc'[r] = "result"
    BY <1>5, <2>1, TypeFacts DEF ReaderTypes, Goes, Moves, Places
  <2> QED
    BY <1>3, <1>5, <2>2
<1>6. CASE /\ current = NoOne /\ prepared = NoOne /\ Spares # {}
           /\ Goes(r, "result") /\ hold' = [hold EXCEPT ![r] = Spare] /\ prepared' = Spare /\ phase' = "loading"
           /\ result' = [result EXCEPT ![Spare] = "pending"] /\ Serialize(Op("load", Spare))
           /\ UNCHANGED <<role, waits>>
  BY <1>1, <1>6, MakesEntry
<1> QED
  BY <1>2, <1>4, <1>5, <1>6

LEMMA PublishStep == ASSUME CoordinatorInv, NEW r \in Readers, Publish(r) PROVE CoordinatorInv'
<1> USE DEF backendVars, sourceVars, deletionVars
<1> DEFINE x == hold[r]
           o == Op("suffix", x)
           more == Len(log[x]) > cursor
<1>1. /\ pc[r] = "reserved" /\ current = NoOne /\ Counted("births") /\ prepared = x /\ phase = "reserved"
      /\ NoEntry /\ owner' = x /\ current' = x /\ born' = born \cup {x}
      /\ seed' = [seed EXCEPT ![x] = Len(log[x])] /\ written' = [written EXCEPT ![x] = Len(log[x])]
      /\ live' = [live EXCEPT ![x] = IF more THEN "pending" ELSE "ok"]
      /\ IF more THEN Serialize(o) ELSE UNCHANGED chain
      /\ Finishes(r)
      /\ UNCHANGED <<stored, unclean, known, cursor, deletes, batch, result, base, repair, log, writing, retiring,
                     retirement, deletion, deletionWaits, overtaken>>
  BY DEF Publish
<1>2. /\ x \in Sessions /\ x # NoOne /\ x \notin born /\ TurnInv(r)
      /\ stored = base[x] /\ known /\ owner = NoOne /\ cursor = Len(stored) /\ batch = <<>>
      /\ base[x] # <<>> /\ Covers(log[x], base[x]) /\ Op("load", x) \notin Queued /\ ~deletes
  <2>1. x \in Sessions /\ x # NoOne
    BY <1>1, TypeFacts DEF ReaderTypes, Holding
  <2>2. TurnInv(r) /\ HeldInv(r) /\ EntryInv /\ Owns(r)
    BY <1>1, PartFacts DEF Owns
  <2> QED
    BY <1>1, <2>1, <2>2 DEF HeldInv, EntryInv
<1>3. \A y \in Sessions : Op("init", y) \notin Queued
  BY <1>1, <1>2, PartFacts DEF OrderInv
<1>4. /\ live[x] = "none" /\ retiring[x] = "none" /\ writing[x] = 0
      /\ \A kind \in SessionKinds : Op(kind, x) \notin Queued
  BY <1>2, UnbornFacts DEF SessionKinds
<1>5. Len(log[x]) \in Nat /\ Len(stored) \in Nat
  BY <1>2, TypeFacts, LogFacts
<1>6. /\ ChainTypes' /\ Passes(o) /\ HeadKept
      /\ \A p : p \in Queued' => p \in Queued \/ (p = o /\ more)
  <2>1. CASE more /\ Serialize(o)
    <3>1. ChainTypes' /\ Joins(o) /\ Passes(o) /\ HeadKept
      BY <1>1, <1>2, <1>4, <2>1, JoinFacts DEF Op, Ops, SessionKinds
    <3> QED
      BY <2>1, <3>1 DEF Joins
  <2>2. CASE UNCHANGED chain
    BY <1>1, <2>2, SamePasses, SamePassesHead, TypeFacts DEF ChainTypes
  <2> QED
    BY <1>1, <2>1, <2>2
<1>7. Moves(r) /\ pc'[r] = "done"
  BY <1>1, FinishMoves
<1> HIDE DEF more
<1>8. /\ live' \in [Sessions -> {"none", "pending", "ok", "failed"}]
      /\ seed' \in [Sessions -> Nat] /\ written' \in [Sessions -> Nat]
      /\ seed'[x] = Len(log[x]) /\ written'[x] = Len(log[x]) /\ live'[x] = IF more THEN "pending" ELSE "ok"
      /\ \A y \in Sessions \ {x} : seed'[y] = seed[y] /\ written'[y] = written[y] /\ live'[y] = live[y]
  BY <1>1, <1>2, <1>5, TypeFacts DEF TypeOK
<1>9. Types'
  <2>1. TypeOK'
    BY <1>1, <1>2, <1>8, TypeFacts, CountedTypes DEF TypeOK, NoEntry, Phases
  <2>2. ReaderTypes'
    BY <1>7, TypeFacts DEF ReaderTypes, Moves
  <2> QED
    BY <1>6, <2>1, <2>2 DEF Types
<1>10. SessionPart'
  <2>1. HeadInv' /\ StateInv' /\ StoreInv'
    BY <1>1, <1>2, <1>8, PartFacts DEF HeadInv, StateInv, StoreInv
  <2>2. ASSUME NEW y \in Sessions PROVE SessionInv(y)'
    <3>1. SessionInv(y)
      BY PartFacts
    <3>2. CASE y = x
      BY <1>1, <1>2, <1>4, <1>5, <1>8, <3>2 DEF SessionInv
    <3>3. CASE y # x
      BY <1>1, <1>8, <3>1, <3>3 DEF SessionInv
    <3> QED
      BY <3>2, <3>3
  <2>3. ASSUME NEW y \in Sessions PROVE QueueInv(y)'
    <3>1. QueueInv(y)
      BY PartFacts
    <3>2. CASE y = x
      BY <1>1, <1>4, <1>6, <1>8, <3>2 DEF QueueInv, Op, SessionKinds
    <3>3. CASE y # x
      BY <1>1, <1>6, <1>8, <3>1, <3>3 DEF QueueInv, Op
    <3> QED
      BY <3>2, <3>3
  <2>4. ASSUME NEW y \in Sessions PROVE ClaimInv(y)'
    BY <1>3, <1>6 DEF ClaimInv, Op
  <2>5. ASSUME overtaken' = {}, NEW y \in Sessions PROVE LogInv(y)'
    <3>1. LogInv(y)
      BY <1>1, <2>5, PartFacts
    <3>2. CASE y = x
      <4>1. live'[x] = "ok" => written'[x] <= Len(stored)
        BY <1>2, <1>5, <1>8 DEF more
      <4> QED
        BY <1>1, <1>2, <3>2, <4>1 DEF LogInv
    <3>3. CASE y # x
      BY <1>1, <1>2, <1>6, <1>8, <3>1, <3>3, TypeFacts DEF LogInv, Op
    <3> QED
      BY <3>2, <3>3
  <2> QED
    BY <2>1, <2>2, <2>3, <2>4, <2>5 DEF SessionPart
<1>11. EntryPart'
  <2>1. ASSUME NEW s \in Readers PROVE pc'[s] # "reserved" /\ (pc'[s] = "commit" => pc[s] = "commit")
    <3>1. CASE s = r
      BY <1>7, <3>1
    <3>2. CASE s # r
      <4>1. pc'[s] = pc[s] /\ TurnInv(s) /\ ~(Owns(r) /\ Owns(s)) /\ Owns(r)
        BY <1>1, <1>2, <1>7, <3>2, PartFacts DEF Moves, TurnInv, Owns
      <4> QED
        BY <4>1 DEF TurnInv, Owns
    <3> QED
      BY <3>1, <3>2
  <2> QED
    BY <1>1, <1>6, <1>9, <2>1, EntryDropped DEF NoEntry, Op
<1> QED
  BY <1>9, <1>10, <1>11 DEF CoordinatorInv

LEMMA LoadsStep == ASSUME CoordinatorInv, NEW x \in Sessions, Loads(x) PROVE CoordinatorInv'
<1> USE DEF backendVars, stateVars, entryVars, writeVars, storeVars, readerVars, deletionVars, boundVars
<1> DEFINE o == Op("load", x)
           new == AdoptedLog
<1>1. /\ chain # <<>> /\ Head(chain) = o /\ batch = <<>> /\ ~deletes /\ OpEnds
      /\ UNCHANGED <<backendVars, stateVars, deletes, batch, born, seed, writeVars, storeVars,
                     readerVars, deletionVars, boundVars>>
  BY DEF Loads, Begins
<1>2. \/ /\ result' = [result EXCEPT ![x] = "failed"] /\ RemoveEntryOf(x) /\ UNCHANGED <<base, repair, log>>
      \/ /\ stored # <<>> /\ current = NoOne
         /\ result' = [result EXCEPT ![x] = "ok"] /\ MakeReady(x)
         /\ base' = [base EXCEPT ![x] = stored] /\ repair' = [repair EXCEPT ![x] = unclean]
         /\ log' = [log EXCEPT ![x] = new]
  BY DEF Loads
<1>3. /\ ChainTypes' /\ Passes(o) /\ HeadKept /\ o \in Queued
      /\ \A kind \in SessionKinds : Op(kind, x) \notin Queued'
      /\ \A a : ~Before(chain, a, o)
  BY <1>1, LeaveFacts DEF Op, SessionKinds
<1>4. x \notin born /\ seed[x] = 0 /\ written[x] = 0
  BY <1>3, PartFacts DEF QueueInv, SessionInv
<1>5. new \in Seq(Authors) /\ Len(new) \in Nat /\ Len(new) = Len(stored) + (IF unclean THEN 1 ELSE 0) /\ Covers(new, stored)
  <2>1. stored \in Seq(Authors) /\ Len(stored) \in Nat /\ Repair \in Authors
    BY TypeFacts, LogFacts DEF Authors
  <2>2. /\ Append(stored, Repair) \in Seq(Authors) /\ Len(Append(stored, Repair)) = Len(stored) + 1
        /\ Covers(Append(stored, Repair), stored) /\ Covers(stored, stored)
    BY <2>1, AppendProperties, CoversAppend, CoversItself
  <2> QED
    BY <2>1, <2>2 DEF AdoptedLog
<1> HIDE DEF new
<1>6. prepared = x => phase = "loading" /\ prepared # NoOne /\ prepared \notin born
  BY <1>3, PartFacts, TypeFacts DEF EntryInv
<1>7. Types'
  <2>1. /\ result' \in [Sessions -> {"none", "pending", "ok", "failed"}]
        /\ base' \in [Sessions -> Log] /\ repair' \in [Sessions -> BOOLEAN] /\ log' \in [Sessions -> Log]
    <3>1. /\ result \in [Sessions -> {"none", "pending", "ok", "failed"}] /\ stored \in Log /\ unclean \in BOOLEAN
          /\ base \in [Sessions -> Log] /\ repair \in [Sessions -> BOOLEAN] /\ log \in [Sessions -> Log] /\ new \in Log
      BY <1>5, TypeFacts DEF TypeOK, Log
    <3> QED
      BY <1>2, <3>1
  <2>2. prepared' \in Sessions \cup {NoOne} /\ phase' \in Phases
    BY <1>2, TypeFacts DEF TypeOK, RemoveEntryOf, NoEntry, MakeReady, Phases
  <2>3. TypeOK'
    BY <1>1, <2>1, <2>2, TypeFacts DEF TypeOK
  <2> QED
    BY <1>1, <1>3, <2>3, TypeFacts DEF Types, ReaderTypes
<1>8. \A y \in Sessions \ {x} : log'[y] = log[y] /\ base'[y] = base[y] /\ repair'[y] = repair[y]
  BY <1>2, TypeFacts DEF TypeOK
<1>9. SessionPart'
  <2>1. ASSUME NEW y \in Sessions PROVE seed'[y] <= Len(log'[y]) /\ written'[y] <= Len(log'[y])
    <3>1. CASE y # x
      BY <1>1, <1>8, <3>1, PartFacts DEF SessionInv
    <3>2. CASE y = x
      <4>1. Len(log'[x]) \in Nat
        BY <1>7, LogFacts DEF Types, TypeOK, Log
      <4> QED
        BY <1>1, <1>4, <3>2, <4>1
    <3> QED
      BY <3>1, <3>2
  <2>2. \A y \in born : log'[y] = log[y]
    BY <1>4, <1>8, TypeFacts DEF TypeOK
  <2> QED
    BY <1>1, <1>3, <1>4, <2>1, <2>2, SessionsKept DEF Op
<1>10. EntryPart'
  <2>1. CASE prepared # x
    <3>1. UNCHANGED entryVars
      BY <1>2, <2>1 DEF RemoveEntryOf, MakeReady
    <3>2. prepared # NoOne =>
            /\ prepared \notin born' /\ current' = NoOne
            /\ log'[prepared] = log[prepared] /\ base'[prepared] = base[prepared] /\ repair'[prepared] = repair[prepared]
      BY <1>1, <1>8, <2>1, PartFacts, TypeFacts DEF EntryInv, TypeOK
    <3>3. o # Op("load", prepared) /\ (\A r \in Readers : o # Op("commit", r)) /\ \A y \in Sessions : o # Op("init", y)
      BY <2>1 DEF Op
    <3>4. \A r \in Readers : Owns(r) => prepared # NoOne
      BY TypeFacts DEF Owns, ReaderTypes, Holding, Turns
    <3> QED
      BY <1>1, <1>3, <3>1, <3>2, <3>3, <3>4, EntryStays
  <2>2. CASE prepared = x
    <3>1. \A r \in Readers : ~Owns(r) /\ pc[r] # "reserved" /\ pc[r] # "commit"
      <4> SUFFICES ASSUME NEW r \in Readers PROVE ~Owns(r) /\ pc[r] # "reserved" /\ pc[r] # "commit"
        OBVIOUS
      <4>1. TurnInv(r) /\ CommitInv(r)
        BY PartFacts
      <4>2. pc[r] \in Turns => hold[r] # NoOne
        BY TypeFacts DEF ReaderTypes, Holding
      <4> QED
        BY <1>3, <1>6, <2>2, <4>1, <4>2 DEF TurnInv, CommitInv, Owns, Turns
    <3>2. CASE NoEntry
      BY <1>1, <1>3, <1>7, <3>1, <3>2, EntryDropped DEF NoEntry, Op
    <3>3. CASE /\ stored # <<>> /\ current = NoOne /\ MakeReady(x)
               /\ base' = [base EXCEPT ![x] = stored] /\ repair' = [repair EXCEPT ![x] = unclean]
               /\ log' = [log EXCEPT ![x] = new]
      <4>1. prepared' = x /\ phase' = "ready" /\ base'[x] = stored /\ log'[x] = new /\ repair'[x] = unclean
        BY <2>2, <3>3, TypeFacts DEF MakeReady, TypeOK
      <4>2. EntryInv'
        BY <1>1, <1>3, <1>4, <1>5, <1>6, <2>2, <3>3, <4>1 DEF EntryInv, SessionKinds
      <4>3. ASSUME NEW y \in Sessions PROVE OrderInv(y)'
        <5>1. Op("init", y) \notin Queued
          BY <1>3, <1>6, <2>2, PartFacts DEF OrderInv
        <5> QED
          BY <1>3, <5>1 DEF OrderInv, Passes, Op
      <4>4. ASSUME NEW r \in Readers PROVE TurnInv(r)' /\ CommitInv(r)' /\ HeldInv(r)'
        BY <1>1, <2>2, <3>1, <4>1 DEF TurnInv, CommitInv, HeldInv, Owns, Turns
      <4> QED
        BY <4>2, <4>3, <4>4 DEF EntryPart
    <3> QED
      BY <1>2, <2>2, <3>2, <3>3 DEF RemoveEntryOf
  <2> QED
    BY <2>1, <2>2
<1> QED
  BY <1>7, <1>9, <1>10 DEF CoordinatorInv

LEMMA CommitsStep == ASSUME CoordinatorInv, NEW r \in Readers, Commits(r) PROVE CoordinatorInv'
<1> USE DEF entryVars, sourceVars, sessionVars, writeVars, storeVars, deletionVars
<1> DEFINE o == Op("commit", r)
           x == hold[r]
<1>1. /\ chain # <<>> /\ Head(chain) = o /\ batch = <<>> /\ ~deletes /\ OpEnds
      /\ UNCHANGED <<deletes, batch, entryVars, sourceVars, sessionVars, writeVars, storeVars, role,
                     hold, waits, deletionVars>>
  BY DEF Commits, Begins
<1>2. ChainTypes' /\ Passes(o) /\ HeadKept
  BY <1>1, LeaveFacts
<1>3. prepared # NoOne => prepared \notin born' /\ current' = NoOne
  BY <1>1, PartFacts DEF EntryInv
<1>4. \A y \in Sessions : seed[y] <= Len(log[y]) /\ written[y] <= Len(log[y]) /\ o # Op("load", y)
  BY PartFacts DEF SessionInv, Op
<1>5. CASE pc[r] # "commit"
  <2>1. UNCHANGED <<pc, backendVars, stateVars, boundVars>>
    BY <1>5 DEF Commits
  <2>2. Types'
    BY <1>1, <1>2, <2>1, TypeFacts DEF Types, TypeOK, ReaderTypes, backendVars, stateVars, boundVars
  <2>3. SessionPart'
    BY <1>1, <1>2, <1>4, <2>1, SessionsKept DEF Op, backendVars, boundVars
  <2>4. \A s \in Readers : Owns(s) => prepared # NoOne
    BY TypeFacts DEF Owns, ReaderTypes, Holding, Turns
  <2>5. EntryPart'
    BY <1>1, <1>2, <1>3, <1>5, <2>1, <2>4, EntryStays DEF Op, backendVars, stateVars
  <2> QED
    BY <2>2, <2>3, <2>5 DEF CoordinatorInv
<1>6. CASE pc[r] = "commit"
  <2>1. CommitFails(r) \/ CommitReloads(r) \/ CommitSucceeds(r)
    BY <1>6 DEF Commits
  <2>2. x \in Sessions /\ x # NoOne /\ TurnInv(r) /\ CommitInv(r)
    BY <1>6, PartFacts, TypeFacts DEF ReaderTypes, Holding, Turns
  <2>3. \A s \in Readers \ {r} : ~Owns(s)
    <3> SUFFICES ASSUME NEW s \in Readers \ {r}, Owns(s) PROVE FALSE
      OBVIOUS
    <3>1. TurnInv(s) /\ hold[s] # NoOne
      BY PartFacts, TypeFacts DEF ReaderTypes, Holding, Owns, Turns
    <3> QED
      BY <1>6, <2>2, <3>1 DEF TurnInv, CommitInv, Owns, Turns
  <2>4. \E to \in {"refused", "uncommitted", "committed"} : Goes(r, to)
    BY <2>1 DEF CommitFails, CommitReloads, CommitSucceeds
  <2>5. Moves(r) /\ pc'[r] \in {"refused", "uncommitted", "committed"}
    BY <1>1, <2>2, <2>4, GoMoves DEF Places, Turns
  <2>6. left' \in Bounds /\ overtaken \subseteq overtaken' /\ overtaken' \subseteq Sessions \cup {NoOne}
    BY <2>1, TypeFacts, CountedTypes DEF CommitFails, CommitReloads, CommitSucceeds, Fails, boundVars, TypeOK
  <2>7. owner' = owner /\ \/ UNCHANGED <<backendVars, stateVars>>
                          \/ owner = NoOne /\ (known => NoOne \in overtaken') /\ UNCHANGED stateVars
                             /\ stored' = AdoptedLog /\ unclean' = FALSE
                          \/ /\ owner = NoOne /\ Current(x) /\ ~repair[x] /\ known' = TRUE
                             /\ cursor' = Len(base[x]) /\ UNCHANGED backendVars
    BY <2>1, PartFacts DEF CommitFails, CommitReloads, CommitSucceeds, StateInv, stateVars
  <2>8. AdoptedLog \in Log
    <3>1. stored \in Seq(Authors) /\ Repair \in Authors
      BY TypeFacts DEF TypeOK, Log, Authors
    <3> QED
      BY <3>1, AppendProperties DEF AdoptedLog, Log
  <2>9. stored' \in Log /\ unclean' \in BOOLEAN /\ known' \in BOOLEAN /\ cursor' \in Nat
    <3>1. stored \in Log /\ unclean \in BOOLEAN /\ known \in BOOLEAN /\ cursor \in Nat /\ Len(base[x]) \in Nat
      BY <2>2, TypeFacts, LogFacts DEF TypeOK
    <3>2. CASE UNCHANGED <<backendVars, stateVars>>
      BY <3>1, <3>2 DEF backendVars, stateVars
    <3>3. CASE UNCHANGED stateVars /\ stored' = AdoptedLog /\ unclean' = FALSE
      BY <2>8, <3>1, <3>3 DEF stateVars
    <3>4. CASE known' = TRUE /\ cursor' = Len(base[x]) /\ UNCHANGED backendVars
      BY <3>1, <3>4 DEF backendVars
    <3> QED
      BY <2>7, <3>2, <3>3, <3>4
  <2>10. Types'
    <3>1. TypeOK'
      BY <1>1, <2>6, <2>7, <2>9, TypeFacts DEF TypeOK
    <3>2. ReaderTypes'
      BY <2>5, TypeFacts DEF ReaderTypes, Moves
    <3> QED
      BY <1>2, <3>1, <3>2 DEF Types
  <2>11. HeadInv' /\ StateInv'
    <3>1. HeadInv'
      BY <1>1 DEF HeadInv
    <3>2. StateInv'
      <4>1. StateInv
        BY PartFacts
      <4>2. CASE UNCHANGED <<backendVars, stateVars>>
        BY <1>1, <2>6, <4>1, <4>2 DEF StateInv, backendVars, stateVars
      <4>3. CASE owner = NoOne /\ (known => NoOne \in overtaken') /\ UNCHANGED stateVars
        BY <4>1, <4>3 DEF StateInv, stateVars
      <4>4. CASE owner = NoOne /\ Current(x) /\ known' = TRUE /\ cursor' = Len(base[x]) /\ UNCHANGED backendVars
        BY <2>7, <4>4 DEF StateInv, Current, backendVars
      <4> QED
        BY <2>7, <4>2, <4>3, <4>4
    <3> QED
      BY <3>1, <3>2
  <2>12. SessionPart'
    <3>1. stored' = stored \/ (owner = NoOne /\ batch = <<>>)
      BY <1>1, <2>7 DEF backendVars
    <3> QED
      BY <1>1, <1>2, <1>4, <2>6, <2>7, <2>11, <3>1, SessionsStay DEF Op
  <2>13. \A p : Op("load", p) \in Queued' <=> Op("load", p) \in Queued
    BY <1>2 DEF Passes, Op
  <2>14. EntryInv'
    <3>1. EntryInv
      BY PartFacts
    <3> QED
      BY <1>1, <2>13, <3>1 DEF EntryInv
  <2>15. ASSUME NEW y \in Sessions PROVE OrderInv(y)'
    BY <1>1, <1>2, PartFacts DEF OrderInv, Passes, Op
  <2>16. ASSUME NEW s \in Readers PROVE TurnInv(s)' /\ CommitInv(s)' /\ HeldInv(s)'
    <3>1. \A t \in Readers \ {r} : ~Owns(t)'
      BY <1>1, <2>3, <2>5 DEF Owns, Moves
    <3>2. CASE s = r
      <4>1. TurnInv(r)'
        BY <1>1, <1>6, <2>2, <2>5, <3>1 DEF TurnInv, Owns, Turns
      <4>2. CommitInv(r)'
        BY <2>5 DEF CommitInv
      <4>3. HeldInv(r)'
        <5>1. CASE pc'[r] = "committed"
          <6>1. CommitSucceeds(r)
            BY <1>1, <2>1, <5>1, TypeFacts DEF CommitFails, CommitReloads, Goes, ReaderTypes
          <6>2. owner = NoOne
            BY <6>1, PartFacts DEF CommitSucceeds, StateInv
          <6> QED
            BY <1>1, <6>1, <6>2 DEF CommitSucceeds, HeldInv, Current, backendVars
        <5>2. CASE pc'[r] # "committed"
          BY <2>5, <5>2 DEF HeldInv
        <5> QED
          BY <5>1, <5>2
      <4> QED
        BY <3>2, <4>1, <4>2, <4>3
    <3>3. CASE s # r
      <4>1. pc'[s] = pc[s] /\ hold'[s] = hold[s] /\ TurnInv(s) /\ CommitInv(s) /\ o # Op("commit", s)
        BY <2>5, <3>3, PartFacts DEF Moves, Op
      <4>2. CommitInv(s)'
        BY <1>1, <1>2, <4>1 DEF CommitInv, Passes
      <4>3. TurnInv(s)'
        BY <1>1, <3>1, <3>3, <4>1 DEF TurnInv, Owns
      <4> QED
        BY <3>1, <3>3, <4>2, <4>3 DEF HeldInv
    <3> QED
      BY <3>2, <3>3
  <2> QED
    BY <2>10, <2>12, <2>14, <2>15, <2>16 DEF CoordinatorInv, EntryPart
<1> QED
  BY <1>5, <1>6

-----------------------------------------------------------------------------
(* Operations of a session.                                                *)

\* An operation of the head begins to append, or ends.
LEMMA OperationMoves ==
  ASSUME CoordinatorInv, NEW x \in Sessions, NEW kind \in {"init", "suffix", "write", "drain"},
         chain # <<>>, Head(chain) = Op(kind, x), ~deletes,
         \/ OpEnds /\ batch' = <<>>
         \/ UNCHANGED <<chain, writeVars, retiring>> /\ batch = <<>> /\ batch' # <<>> /\ known',
         StateInv', SessionInv(x)',
         owner' \in {owner, NoOne} \/ (owner' = x /\ kind = "init"),
         \A y \in Sessions \ {x} :
           live'[y] = live[y] /\ written'[y] = written[y] /\ writing'[y] = writing[y] /\ retiring'[y] = retiring[y],
         overtaken = {} =>
           /\ LogInv(x)'
           /\ owner' # owner /\ owner # NoOne /\ owner # x =>
                Op("suffix", owner) \notin Queued /\ (live[owner] = "ok" => log[owner] = <<>> /\ owner # current)
           /\ stored' = stored \/ owner \in {x, NoOne},
         UNCHANGED <<deletes, log, seed, born, current, overtaken>>
  PROVE  SessionPart'
<1> DEFINE o == Op(kind, x)
<1>1. kind \in SessionKinds /\ o \in Queued
  BY TypeFacts DEF SessionKinds
<1>2. /\ \A a, b : a # o /\ Before(chain, a, b) => Before(chain', a, b)
      /\ \A k \in SessionKinds, y \in Sessions \ {x} : Op(k, y) \in Queued' => Op(k, y) \in Queued
      /\ \A a : ~Before(chain, a, o)
  <2>1. CASE OpEnds /\ batch' = <<>>
    BY <2>1, LeaveFacts DEF Passes, Op
  <2>2. CASE UNCHANGED chain
    <3>1. \A a : ~Before(chain, a, o)
      <4>1. PoppedTo(Ops, chain, Tail(chain))
        BY TypeFacts, PopFacts DEF ChainTypes
      <4> QED
        BY <4>1 DEF PoppedTo
    <3> QED
      BY <2>2, <3>1, QueuedSame
  <2> QED
    BY <2>1, <2>2
<1>3. \/ \A k \in SessionKinds : Op(k, x) \notin Queued'
      \/ /\ UNCHANGED <<chain, writeVars, retiring>> /\ batch = <<>> /\ batch' # <<>>
         /\ Queued' = Queued /\ Head(chain') = o
  <2>1. CASE OpEnds
    <3>1. o[1] = kind /\ o[2] = x
      BY DEF Op
    <3> QED
      BY <1>1, <2>1, <3>1, LeaveFacts
  <2>2. CASE UNCHANGED <<chain, writeVars, retiring>> /\ batch = <<>> /\ batch' # <<>>
    BY <2>2, QueuedSame
  <2> QED
    BY <2>1, <2>2
<1>4. HeadInv' /\ StoreInv'
  <2>1. HeadInv'
    BY DEF HeadInv, Op
  <2> QED
    BY <2>1 DEF StoreInv
<1>5. ASSUME NEW y \in Sessions PROVE SessionInv(y)'
  <2>1. SessionInv(y)
    BY PartFacts
  <2>2. CASE y # x
    BY <2>1, <2>2 DEF SessionInv
  <2> QED
    BY <2>2
<1>6. ASSUME NEW y \in Sessions PROVE QueueInv(y)'
  <2>1. QueueInv(y)
    BY PartFacts
  <2>2. CASE y # x
    BY <1>2, <2>1, <2>2 DEF QueueInv, SessionKinds
  <2>3. CASE y = x
    BY <1>3, <2>1, <2>3 DEF QueueInv, SessionKinds, writeVars
  <2> QED
    BY <2>2, <2>3
<1>7. ASSUME NEW y \in Sessions PROVE ClaimInv(y)'
  <2>1. ClaimInv(y)
    BY PartFacts
  <2>2. CASE y # x
    <3> SUFFICES ASSUME Op("init", y) \in Queued' PROVE ClaimInv(y)'
      BY DEF ClaimInv
    <3>1. Op("init", y) \in Queued /\ Op("init", y) # o
      BY <1>2, <2>2 DEF SessionKinds, Op
    <3>2. owner # y
      BY <2>1, <3>1 DEF ClaimInv
    <3>3. owner' # y
      BY <2>2, <3>2, TypeFacts
    <3>4. ASSUME current # NoOne, y # current PROVE owner' # current /\ Before(chain', Op("init", y), Op("init", current))
      <4>1. owner # current /\ Before(chain, Op("init", y), Op("init", current))
        BY <2>1, <3>1, <3>4 DEF ClaimInv
      <4>2. kind = "init" => x # current
        BY <1>2, <4>1
      <4> QED
        BY <1>2, <3>1, <3>4, <4>1, <4>2
    <3> QED
      BY <3>3, <3>4 DEF ClaimInv
  <2>3. CASE y = x
    <3> SUFFICES ASSUME Op("init", x) \in Queued' PROVE ClaimInv(x)'
      BY <2>3 DEF ClaimInv
    <3>1. UNCHANGED chain /\ batch' # <<>> /\ Queued' = Queued
      BY <1>3 DEF SessionKinds
    <3>2. kind = "init"
      BY <1>1, <3>1, OneQueued DEF SessionKinds
    <3> QED
      BY <2>1, <2>3, <3>1, <3>2 DEF ClaimInv
  <2> QED
    BY <2>2, <2>3
<1>8. ASSUME overtaken' = {}, NEW y \in Sessions PROVE LogInv(y)'
  <2>1. LogInv(y) /\ LogInv(x)'
    BY <1>8, PartFacts
  <2>2. CASE y # x
    <3>1. owner' = y => owner = y
      BY <2>2, TypeFacts
    <3>2. owner = y => stored' = stored
      BY <1>8, <2>2, TypeFacts
    <3>3. owner = y /\ owner' # y => Op("suffix", y) \notin Queued /\ (live[y] = "ok" => log[y] = <<>> /\ y # current)
      BY <1>8, <2>2, TypeFacts
    <3>4. Op("suffix", y) \in Queued' => Op("suffix", y) \in Queued
      BY <1>2, <2>2 DEF SessionKinds
    <3>5. batch' # <<>> => \A k : Head(chain') # Op(k, y)
      BY <2>2 DEF Op
    <3> QED
      BY <2>1, <2>2, <3>1, <3>2, <3>3, <3>4, <3>5 DEF LogInv
  <2> QED
    BY <2>1, <2>2
<1> QED
  BY <1>4, <1>5, <1>6, <1>7, <1>8 DEF SessionPart

LEMMA SliceFacts ==
  ASSUME NEW S, NEW l \in Seq(S), NEW m \in Nat, NEW n \in 0 .. Len(l)
  PROVE  /\ SubSeq(l, m + 1, n) \in Seq(S)
         /\ Len(SubSeq(l, m + 1, n)) = IF m < n THEN n - m ELSE 0
         /\ SubSeq(l, m + 1, n) = <<>> <=> n <= m
<1>1. Len(l) \in Nat /\ \A i \in 1 .. Len(l) : l[i] \in S
  BY LenProperties, ElementOfSeq
<1>2. \A i \in m + 1 .. n : i \in 1 .. Len(l)
  BY <1>1
<1>3. m + 1 \in Int /\ n \in Int
  BY <1>1
<1>4. /\ SubSeq(l, m + 1, n) \in Seq(S)
      /\ Len(SubSeq(l, m + 1, n)) = IF m + 1 <= n THEN n - (m + 1) + 1 ELSE 0
  BY <1>1, <1>2, <1>3, SubSeqProperties
<1> DEFINE t == SubSeq(l, m + 1, n)
<1>5. t = <<>> <=> Len(t) = 0
  BY <1>4, EmptySeq
<1> HIDE DEF t
<1>6. t \in Seq(S) /\ Len(t) = IF m < n THEN n - m ELSE 0
  BY <1>1, <1>3, <1>4 DEF t
<1>7. t = <<>> <=> n <= m
  BY <1>1, <1>5, <1>6
<1> QED
  BY <1>6, <1>7 DEF t

LEMMA AdoptedFacts ==
  ASSUME CoordinatorInv
  PROVE  AdoptedLog \in Log /\ Len(AdoptedLog) \in Nat
<1>1. stored \in Seq(Authors) /\ Repair \in Authors
  BY TypeFacts DEF TypeOK, Log, Authors
<1> QED
  BY <1>1, AppendProperties, LenProperties DEF AdoptedLog, Log

\* An append that has a state, or adopts a log that nobody owns.
LEMMA AdoptFacts ==
  ASSUME CoordinatorInv, Adopt, known \/ Adoptable, batch = <<>>
  PROVE  /\ stored' \in Log /\ unclean' \in BOOLEAN /\ known' \in BOOLEAN /\ cursor' \in Nat
         /\ prepared' \in Sessions \cup {NoOne} /\ phase' \in Phases
         /\ known' /\ owner' = owner /\ (NoEntry \/ UNCHANGED entryVars)
         /\ stored' = stored \/ owner = NoOne
         /\ known => UNCHANGED <<stored, cursor>>
         /\ NoOne \notin overtaken => cursor' = Len(stored')
<1>1. CASE known
  <2>1. UNCHANGED <<backendVars, stateVars, entryVars>>
    BY <1>1 DEF Adopt
  <2>2. /\ stored \in Log /\ unclean \in BOOLEAN /\ known \in BOOLEAN /\ cursor \in Nat
        /\ prepared \in Sessions \cup {NoOne} /\ phase \in Phases
    BY TypeFacts DEF TypeOK
  <2>3. NoOne \notin overtaken => cursor = Len(stored)
    BY <1>1, PartFacts DEF StateInv
  <2> QED
    BY <1>1, <2>1, <2>2, <2>3 DEF backendVars, stateVars, entryVars
<1>2. CASE ~known
  <2>1. /\ stored' = AdoptedLog /\ unclean' = FALSE /\ known' = TRUE /\ cursor' = Len(AdoptedLog) /\ owner' = NoOne
        /\ NoEntry \/ UNCHANGED entryVars
    BY <1>2 DEF Adopt
  <2>2. prepared' \in Sessions \cup {NoOne} /\ phase' \in Phases
    BY <2>1, TypeFacts DEF TypeOK, NoEntry, entryVars, Phases
  <2>3. owner = NoOne
    BY <1>2, PartFacts DEF StateInv
  <2> QED
    BY <1>2, <2>1, <2>2, <2>3, AdoptedFacts
<1> QED
  BY <1>1, <1>2

LEMMA PublicAppendBeginsStep ==
  ASSUME CoordinatorInv, NEW first \in Nat, PublicAppendBegins(first) PROVE CoordinatorInv'
<1> USE DEF sourceVars, sessionVars, writeVars, storeVars, readerVars, deletionVars, boundVars
<1> DEFINE o == Op("append", first)
<1>1. /\ chain # <<>> /\ Head(chain) = o /\ batch = <<>> /\ ~deletes
      /\ UNCHANGED <<deletes, sourceVars, sessionVars, writeVars, storeVars, readerVars, deletionVars, boundVars>>
  BY DEF PublicAppendBegins, Begins
<1>2. \/ /\ ~Reserved /\ (known \/ Adoptable) /\ Adopt
         /\ (batch' = <<Import>> /\ UNCHANGED chain) \/ (OpEnds /\ UNCHANGED batch)
      \/ OpEnds /\ UNCHANGED <<batch, backendVars, stateVars, entryVars>>
  BY DEF PublicAppendBegins
<1>3. /\ ChainTypes' /\ Passes(o) /\ HeadKept /\ batch' \in Log
      /\ \/ batch' = <<>> /\ UNCHANGED batch
         \/ batch' # <<>> /\ UNCHANGED chain
  <2>1. CASE batch' = <<Import>> /\ UNCHANGED chain
    <3>1. batch' \in Log /\ batch' # <<>>
      <4>1. Import \in Authors
        BY DEF Authors
      <4> QED
        BY <2>1, <4>1 DEF Log
    <3> QED
      BY <1>1, <2>1, <3>1, SamePasses, TypeFacts DEF HeadKept, ChainTypes
  <2>2. CASE OpEnds /\ UNCHANGED batch
    BY <1>1, <2>2, LeaveFacts, TypeFacts DEF TypeOK
  <2> QED
    BY <1>2, <2>1, <2>2
<1>4. prepared # NoOne => prepared \notin born' /\ current' = NoOne
  BY <1>1, PartFacts DEF EntryInv
<1>5. \A x \in Sessions : seed[x] <= Len(log[x]) /\ written[x] <= Len(log[x]) /\ o # Op("load", x) /\ o # Op("init", x)
  BY PartFacts DEF SessionInv, Op
<1>6. CASE ~Reserved /\ (known \/ Adoptable) /\ Adopt
  <2> DEFINE A == /\ stored' \in Log /\ unclean' \in BOOLEAN /\ known' \in BOOLEAN /\ cursor' \in Nat
                  /\ prepared' \in Sessions \cup {NoOne} /\ phase' \in Phases
                  /\ known' /\ owner' = owner /\ (NoEntry \/ UNCHANGED entryVars)
                  /\ stored' = stored \/ owner = NoOne
                  /\ NoOne \notin overtaken => cursor' = Len(stored')
  <2>1. A
    BY <1>1, <1>6, AdoptFacts
  <2>2. Types'
    BY <1>1, <1>3, <2>1, TypeFacts DEF Types, TypeOK, ReaderTypes
  <2>3. HeadInv'
    BY <1>1, <1>3, <2>1 DEF HeadInv, Op
  <2>4. StateInv'
    BY <1>1, <2>1, PartFacts DEF StateInv
  <2>5. SessionPart'
    <3>1. batch' = batch \/ (batch = <<>> /\ Head(chain')[1] = "append")
      BY <1>1, <1>3 DEF Op
    <3> QED
      BY <1>1, <1>3, <1>5, <2>1, <2>3, <2>4, <3>1, SessionsStay DEF Op
  <2>6. EntryPart'
    BY <1>1, <1>3, <1>4, <1>5, <1>6, <2>1, <2>2, EntryKeptOrDropped, UnreservedFacts DEF Op
  <2> QED
    BY <2>2, <2>5, <2>6 DEF CoordinatorInv
<1>7. CASE OpEnds /\ UNCHANGED <<batch, backendVars, stateVars, entryVars>>
  <2>1. Types'
    BY <1>1, <1>3, <1>7, TypeFacts DEF Types, TypeOK, ReaderTypes, backendVars, stateVars, entryVars
  <2>2. SessionPart' /\ EntryPart'
    BY <1>1, <1>3, <1>7, BothKept DEF Op
  <2> QED
    BY <2>1, <2>2 DEF CoordinatorInv
<1> QED
  BY <1>2, <1>6, <1>7

LEMMA WriteFacts ==
  ASSUME CoordinatorInv, NEW x \in Sessions, Op("write", x) \in Queued \/ Op("drain", x) \in Queued
  PROVE  /\ live[x] = "ok" /\ writing[x] # 0 /\ retiring[x] # "queued" /\ x \in born
         /\ log[x] \in Seq(Authors) /\ Len(log[x]) \in Nat /\ Len(stored) \in Nat
         /\ seed[x] \in Nat /\ written[x] \in Nat /\ writing[x] \in Nat /\ seed[x] <= Len(log[x])
         /\ written[x] < writing[x] /\ writing[x] <= Len(log[x])
         /\ overtaken = {} =>
              /\ owner = x /\ known /\ cursor = Len(stored) /\ written[x] <= Len(stored) /\ Covers(log[x], stored)
<1>1. QueueInv(x) /\ SessionInv(x) /\ StateInv
  BY PartFacts
<1>2. /\ log[x] \in Seq(Authors) /\ Len(log[x]) \in Nat /\ Len(stored) \in Nat
      /\ (log[x] = <<>> <=> Len(log[x]) = 0)
      /\ seed[x] \in Nat /\ written[x] \in Nat /\ writing[x] \in Nat
  BY TypeFacts, LogFacts DEF TypeOK
<1>3. /\ live[x] = "ok" /\ writing[x] # 0 /\ retiring[x] # "queued" /\ x \in born
      /\ written[x] < writing[x] /\ writing[x] <= Len(log[x]) /\ seed[x] <= Len(log[x])
  BY <1>1 DEF QueueInv, SessionInv
<1>4. Len(log[x]) # 0
  BY <1>2, <1>3
<1>5. ASSUME overtaken = {}
      PROVE  owner = x /\ known /\ cursor = Len(stored) /\ written[x] <= Len(stored) /\ Covers(log[x], stored)
  <2>1. LogInv(x)
    BY <1>5, PartFacts
  <2>2. owner = x /\ written[x] <= Len(stored) /\ Covers(log[x], stored)
    BY <1>2, <1>3, <1>4, <2>1 DEF LogInv
  <2>3. known
    BY <1>1, <2>2, TypeFacts DEF StateInv
  <2> QED
    BY <1>1, <1>5, <2>2, <2>3 DEF StateInv
<1> QED
  BY <1>2, <1>3, <1>5

\* What a controller writes follows the stored log.
LEMMA FreshFacts ==
  ASSUME CoordinatorInv, NEW x \in Sessions, Op("write", x) \in Queued \/ Op("drain", x) \in Queued
  PROVE  /\ Fresh(x) \in Log
         /\ overtaken = {} /\ Fresh(x) # <<>> =>
              Covers(log[x], stored \o Fresh(x)) /\ Len(stored) + Len(Fresh(x)) = writing[x]
         /\ overtaken = {} /\ Fresh(x) = <<>> => writing[x] <= Len(stored)
<1>1. Fresh(x) = SubSeq(log[x], FreshAt(x) + 1, writing[x])
  BY DEF Fresh, FreshAt
<1>2. FreshAt(x) \in Nat /\ writing[x] \in 0 .. Len(log[x])
  BY WriteFacts, TypeFacts DEF FreshAt, TypeOK
<1>3. Fresh(x) \in Seq(Authors) /\ (Fresh(x) = <<>> <=> writing[x] <= FreshAt(x))
  BY <1>1, <1>2, WriteFacts, SliceFacts
<1>4. ASSUME overtaken = {} PROVE FreshAt(x) = Len(stored)
  BY <1>4, WriteFacts DEF FreshAt
<1>5. ASSUME overtaken = {}, Fresh(x) # <<>>
      PROVE  Covers(log[x], stored \o Fresh(x)) /\ Len(stored) + Len(Fresh(x)) = writing[x]
  <2>1. /\ Len(stored) <= writing[x] /\ Covers(log[x], stored)
        /\ stored \in Seq(Authors) /\ log[x] \in Seq(Authors)
    <3>1. writing[x] \in Nat /\ Len(stored) \in Nat /\ FreshAt(x) = Len(stored) /\ ~(writing[x] <= FreshAt(x))
      BY <1>3, <1>4, <1>5, WriteFacts
    <3>2. Covers(log[x], stored) /\ log[x] \in Seq(Authors) /\ stored \in Seq(Authors)
      BY <1>5, WriteFacts, TypeFacts DEF TypeOK, Log
    <3> QED
      BY <3>1, <3>2
  <2>2. Fresh(x) = SubSeq(log[x], Len(stored) + 1, writing[x])
    BY <1>1, <1>4, <1>5
  <2> QED
    BY <1>2, <2>1, <2>2, CoversNext
<1> QED
  BY <1>3, <1>4, <1>5 DEF Log

\* A write ends.
LEMMA WriteEndFacts ==
  ASSUME CoordinatorInv, NEW x \in Sessions, Op("write", x) \in Queued \/ Op("drain", x) \in Queued,
         WriteSucceeded(x) \/ WriteFailed(x), UNCHANGED <<log, seed, born>>
  PROVE  /\ written' \in [Sessions -> Nat] /\ writing' \in [Sessions -> Nat]
         /\ retiring' \in [Sessions -> {"none", "flushing", "queued", "done", "failed"}]
         /\ retirement' \in Sessions \cup {NoOne}
         /\ UNCHANGED <<live, current>>
         /\ \A y \in Sessions \ {x} :
              live'[y] = live[y] /\ written'[y] = written[y] /\ writing'[y] = writing[y] /\ retiring'[y] = retiring[y]
         /\ written'[x] = IF WriteSucceeded(x) THEN writing[x] ELSE written[x]
         /\ SessionInv(x)'
<1>1. /\ written \in [Sessions -> Nat] /\ writing \in [Sessions -> Nat]
      /\ retiring \in [Sessions -> {"none", "flushing", "queued", "done", "failed"}]
      /\ retirement \in Sessions \cup {NoOne}
  BY TypeFacts DEF TypeOK
<1>2. /\ writing' = [writing EXCEPT ![x] = 0] /\ UNCHANGED <<live, current>>
      /\ retirement' \in {retirement, NoOne}
      /\ retiring' = retiring \/ (retiring' = [retiring EXCEPT ![x] = "failed"] /\ retiring[x] = "flushing")
  <2>1. CASE WriteSucceeded(x)
    BY <2>1 DEF WriteSucceeded, storeVars
  <2>2. CASE WriteFailed(x)
    BY <2>2 DEF WriteFailed, Forget
  <2> QED
    BY <2>1, <2>2
<1>3. written' = [written EXCEPT ![x] = IF WriteSucceeded(x) THEN writing[x] ELSE written[x]]
  <2>1. CASE WriteSucceeded(x)
    BY <2>1 DEF WriteSucceeded
  <2>2. CASE ~WriteSucceeded(x)
    BY <1>1, <2>2 DEF WriteFailed
  <2> QED
    BY <2>1, <2>2
<1>4. /\ written' \in [Sessions -> Nat] /\ writing' \in [Sessions -> Nat]
      /\ writing'[x] = 0 /\ written'[x] = IF WriteSucceeded(x) THEN writing[x] ELSE written[x]
      /\ \A y \in Sessions \ {x} : live'[y] = live[y] /\ written'[y] = written[y] /\ writing'[y] = writing[y]
  BY <1>1, <1>2, <1>3
<1>5. /\ retiring' \in [Sessions -> {"none", "flushing", "queued", "done", "failed"}]
      /\ \A y \in Sessions \ {x} : retiring'[y] = retiring[y]
      /\ retiring'[x] = retiring[x] \/ (retiring[x] = "flushing" /\ retiring'[x] = "failed")
  BY <1>1, <1>2
<1>6. SessionInv(x)'
  <2>1. SessionInv(x)
    BY PartFacts
  <2>2. written'[x] <= Len(log[x])
    BY <1>4, WriteFacts
  <2> QED
    BY <1>2, <1>4, <1>5, <2>1, <2>2, WriteFacts DEF SessionInv
<1> QED
  BY <1>1, <1>2, <1>4, <1>5, <1>6

LEMMA WriteBeginsStep == ASSUME CoordinatorInv, NEW x \in Sessions, WriteBegins(x) PROVE CoordinatorInv'
<1> USE DEF sourceVars, sessionVars, readerVars, deletionVars, boundVars
<1>1. PICK kind \in {"write", "drain"} : chain # <<>> /\ Head(chain) = Op(kind, x) /\ batch = <<>> /\ ~deletes
  BY DEF WriteBegins, WriteOps, Begins
<1> DEFINE o == Op(kind, x)
<1>2. /\ UNCHANGED <<deletes, sourceVars, sessionVars, readerVars, deletionVars, boundVars>>
      /\ \/ /\ Accepts(Fresh(x), FreshAt(x)) /\ Adopt /\ batch' = Fresh(x)
            /\ UNCHANGED <<chain, writeVars, storeVars>>
         \/ /\ Fresh(x) = <<>> /\ OpEnds /\ WriteSucceeded(x)
            /\ UNCHANGED <<batch, backendVars, stateVars, entryVars>>
         \/ /\ \/ ~Reserved /\ ~known /\ Adoptable /\ Adopt
               \/ UNCHANGED <<backendVars, stateVars, entryVars>>
            /\ OpEnds /\ WriteFailed(x) /\ UNCHANGED batch
  BY DEF WriteBegins
<1>3. o \in Queued
  BY <1>1, TypeFacts
<1>4. prepared # NoOne => prepared \notin born' /\ current = NoOne
  BY <1>2, PartFacts DEF EntryInv
<1>5. o[1] \notin {"load", "commit", "init"} /\ \A y \in Sessions : o # Op("init", y)
  BY DEF Op
<1>6. CASE /\ Accepts(Fresh(x), FreshAt(x)) /\ Adopt /\ batch' = Fresh(x) /\ UNCHANGED <<chain, writeVars, storeVars>>
  <2> USE DEF writeVars, storeVars
  <2>1. ~Reserved /\ (known \/ Adoptable) /\ Fresh(x) # <<>>
    BY <1>6 DEF Accepts
  <2>2. /\ stored' \in Log /\ unclean' \in BOOLEAN /\ known' \in BOOLEAN /\ cursor' \in Nat
        /\ prepared' \in Sessions \cup {NoOne} /\ phase' \in Phases
        /\ known' /\ owner' = owner /\ (NoEntry \/ UNCHANGED entryVars)
        /\ stored' = stored \/ owner = NoOne
        /\ known => UNCHANGED <<stored, cursor>>
        /\ NoOne \notin overtaken => cursor' = Len(stored')
    BY <1>1, <1>6, <2>1, AdoptFacts
  <2>3. Types'
    BY <1>2, <1>3, <1>6, <2>2, TypeFacts, FreshFacts DEF Types, TypeOK, ReaderTypes, ChainTypes
  <2>4. StateInv' /\ SessionInv(x)'
    <3>1. StateInv /\ SessionInv(x)
      BY PartFacts
    <3> QED
      BY <1>2, <1>6, <2>2, <3>1 DEF StateInv, SessionInv
  <2>5. ASSUME overtaken = {} PROVE LogInv(x)' /\ stored' = stored
    <3>1. LogInv(x) /\ known /\ owner = x
      BY <1>3, <2>5, PartFacts, WriteFacts
    <3>2. /\ stored' = stored
          /\ Covers(log[x], stored \o Fresh(x)) /\ Len(stored) + Len(Fresh(x)) = writing[x]
      BY <1>3, <2>1, <2>2, <2>5, <3>1, FreshFacts
    <3> QED
      BY <1>1, <1>2, <1>6, <2>2, <3>1, <3>2, QueuedSame DEF LogInv, Op
  <2>6. SessionPart'
    BY <1>1, <1>2, <1>6, <2>1, <2>2, <2>4, <2>5, OperationMoves
  <2>7. EntryPart'
    <3>1. Passes(o) /\ Unreserved
      BY <1>6, <2>1, SamePasses, UnreservedFacts
    <3> QED
      BY <1>2, <1>4, <1>5, <1>6, <2>2, <2>3, <3>1, EntryKeptOrDropped
  <2> QED
    BY <2>3, <2>6, <2>7 DEF CoordinatorInv
<1>7. CASE /\ OpEnds /\ UNCHANGED batch
           /\ WriteSucceeded(x) \/ WriteFailed(x)
           /\ \/ ~Reserved /\ ~known /\ Adoptable /\ Adopt /\ WriteFailed(x)
              \/ /\ WriteFailed(x) \/ Fresh(x) = <<>>
                 /\ UNCHANGED <<backendVars, stateVars, entryVars>>
  <2>1. /\ stored' \in Log /\ unclean' \in BOOLEAN /\ known' \in BOOLEAN /\ cursor' \in Nat
        /\ prepared' \in Sessions \cup {NoOne} /\ phase' \in Phases
        /\ owner' = owner /\ (NoEntry \/ UNCHANGED entryVars)
        /\ stored' = stored \/ owner = NoOne
        /\ known => UNCHANGED <<stored, cursor>>
        /\ StateInv'
    <3>1. UNCHANGED <<live, overtaken>> /\ StateInv
      BY <1>2, <1>3, <1>7, WriteEndFacts, PartFacts
    <3>2. CASE ~known /\ Adoptable /\ Adopt
      <4>1. /\ stored' \in Log /\ unclean' \in BOOLEAN /\ known' \in BOOLEAN /\ cursor' \in Nat
            /\ prepared' \in Sessions \cup {NoOne} /\ phase' \in Phases
            /\ known' /\ owner' = owner /\ (NoEntry \/ UNCHANGED entryVars)
            /\ stored' = stored \/ owner = NoOne
            /\ NoOne \notin overtaken => cursor' = Len(stored')
        BY <1>1, <3>2, AdoptFacts
      <4> QED
        BY <3>1, <3>2, <4>1 DEF StateInv
    <3>3. CASE UNCHANGED <<backendVars, stateVars, entryVars>>
      <4>1. /\ stored \in Log /\ unclean \in BOOLEAN /\ known \in BOOLEAN /\ cursor \in Nat
            /\ prepared \in Sessions \cup {NoOne} /\ phase \in Phases
        BY TypeFacts DEF TypeOK
      <4> QED
        BY <3>1, <3>3, <4>1 DEF StateInv, backendVars, stateVars, entryVars
    <3> QED
      BY <1>7, <3>2, <3>3
  <2>2. ChainTypes' /\ Passes(o)
    BY <1>1, <1>7, LeaveFacts
  <2>3. Types'
    <3>1. TypeOK'
      BY <1>2, <1>3, <1>7, <2>1, TypeFacts, WriteEndFacts DEF TypeOK
    <3> QED
      BY <1>2, <2>2, <3>1, TypeFacts DEF Types, ReaderTypes
  <2>4. ASSUME overtaken = {} PROVE LogInv(x)' /\ stored' = stored
    <3>1. LogInv(x) /\ known /\ owner = x /\ live[x] = "ok"
      BY <1>3, <2>4, PartFacts, WriteFacts
    <3>2. UNCHANGED <<backendVars, stateVars>>
      BY <1>7, <3>1
    <3>3. written'[x] <= Len(stored) /\ UNCHANGED <<live, current>>
      BY <1>2, <1>3, <1>7, <2>4, <3>1, WriteFacts, FreshFacts, WriteEndFacts DEF WriteFailed
    <3>4. Op("suffix", x) \notin Queued'
      BY <1>1, <1>7, LeaveFacts DEF Op, SessionKinds
    <3> QED
      BY <1>1, <1>2, <1>7, <2>1, <3>1, <3>2, <3>3, <3>4 DEF LogInv, backendVars, stateVars
  <2>5. SessionPart'
    BY <1>1, <1>2, <1>3, <1>7, <2>1, <2>4, WriteEndFacts, OperationMoves
  <2>6. EntryPart'
    <3>1. CASE Reserved
      <4>1. UNCHANGED <<backendVars, stateVars, entryVars>> /\ current' = current
        BY <1>2, <1>3, <1>7, <3>1, WriteEndFacts
      <4> QED
        BY <1>1, <1>2, <1>4, <1>5, <1>7, <2>2, <4>1, EntryKept DEF backendVars, stateVars, entryVars
    <3>2. CASE ~Reserved
      <4>1. Unreserved /\ current' = current
        BY <1>2, <1>3, <1>7, <3>2, UnreservedFacts, WriteEndFacts
      <4> QED
        BY <1>2, <1>4, <1>5, <2>1, <2>2, <2>3, <4>1, EntryKeptOrDropped
    <3> QED
      BY <3>1, <3>2
  <2> QED
    BY <2>3, <2>5, <2>6 DEF CoordinatorInv
<1> QED
  BY <1>2, <1>6, <1>7

\* An initialization ends.
LEMMA InitializedFacts ==
  ASSUME CoordinatorInv, NEW x \in Sessions, Op("init", x) \in Queued \/ Op("suffix", x) \in Queued,
         NEW how \in {"ok", "failed"}, Initialized(x, how), UNCHANGED <<log, seed, born>>
  PROVE  /\ live' \in [Sessions -> {"none", "pending", "ok", "failed"}] /\ live'[x] = how
         /\ UNCHANGED <<written, writing, current, retiring, retirement>>
         /\ \A y \in Sessions \ {x} :
              live'[y] = live[y] /\ written'[y] = written[y] /\ writing'[y] = writing[y] /\ retiring'[y] = retiring[y]
         /\ \A y \in Sessions : live[y] # "none" => live'[y] # "none"
         /\ live[x] = "pending" /\ written[x] = seed[x] /\ SessionInv(x)'
<1>1. QueueInv(x) /\ SessionInv(x)
  BY PartFacts
<1>2. live[x] = "pending"
  BY <1>1 DEF QueueInv
<1>3. /\ live' = [live EXCEPT ![x] = how] /\ UNCHANGED <<written, writing, current, retiring, retirement>>
  BY DEF Initialized, storeVars
<1>4. /\ live' \in [Sessions -> {"none", "pending", "ok", "failed"}] /\ live'[x] = how
      /\ \A y \in Sessions \ {x} : live'[y] = live[y]
  BY <1>3, TypeFacts DEF TypeOK
<1>5. SessionInv(x)'
  BY <1>1, <1>2, <1>3, <1>4 DEF SessionInv
<1> QED
  BY <1>1, <1>2, <1>3, <1>4, <1>5 DEF SessionInv

LEMMA SuffixBeginsStep == ASSUME CoordinatorInv, NEW x \in Sessions, SuffixBegins(x) PROVE CoordinatorInv'
<1> USE DEF sourceVars, sessionVars, readerVars, deletionVars, boundVars
<1> DEFINE o == Op("suffix", x)
           suffix == SubSeq(log[x], Len(base[x]) + 1, seed[x])
<1>1. /\ chain # <<>> /\ Head(chain) = o /\ batch = <<>> /\ ~deletes
      /\ UNCHANGED <<deletes, sourceVars, sessionVars, readerVars, deletionVars, boundVars>>
  BY DEF SuffixBegins, Begins
<1>2. \/ /\ Accepts(suffix, Len(base[x])) /\ Adopt /\ batch' = suffix
         /\ UNCHANGED <<chain, writeVars, storeVars>>
      \/ /\ OpEnds /\ Initialized(x, "failed")
         /\ UNCHANGED <<batch, backendVars, stateVars, entryVars>>
  BY DEF SuffixBegins
<1>3. o \in Queued
  BY <1>1, TypeFacts
<1>4. prepared # NoOne => prepared \notin born' /\ current = NoOne
  BY <1>1, PartFacts DEF EntryInv
<1>5. o[1] \notin {"load", "commit", "init"} /\ \A y \in Sessions : o # Op("init", y)
  BY DEF Op
<1>6. /\ log[x] \in Seq(Authors) /\ stored \in Seq(Authors) /\ Len(base[x]) \in Nat /\ Len(stored) \in Nat
      /\ seed[x] \in 0 .. Len(log[x]) /\ seed[x] \in Nat
  <2>1. seed[x] \in Nat /\ seed[x] <= Len(log[x]) /\ Len(log[x]) \in Nat
    BY TypeFacts, LogFacts, PartFacts DEF TypeOK, SessionInv
  <2> QED
    BY <2>1, TypeFacts, LogFacts
<1>7. suffix \in Log /\ (suffix # <<>> => Len(base[x]) < seed[x])
  BY <1>6, SliceFacts DEF Log
<1> HIDE DEF suffix
<1>8. CASE Accepts(suffix, Len(base[x])) /\ Adopt /\ batch' = suffix /\ UNCHANGED <<chain, writeVars, storeVars>>
  <2> USE DEF writeVars, storeVars
  <2>1. ~Reserved /\ (known \/ Adoptable) /\ suffix # <<>> /\ (known => Len(base[x]) = cursor)
    BY <1>8 DEF Accepts, At
  <2>2. /\ stored' \in Log /\ unclean' \in BOOLEAN /\ known' \in BOOLEAN /\ cursor' \in Nat
        /\ prepared' \in Sessions \cup {NoOne} /\ phase' \in Phases
        /\ known' /\ owner' = owner /\ (NoEntry \/ UNCHANGED entryVars)
        /\ stored' = stored \/ owner = NoOne
        /\ known => UNCHANGED <<stored, cursor>>
        /\ NoOne \notin overtaken => cursor' = Len(stored')
    BY <1>1, <1>8, <2>1, AdoptFacts
  <2>3. Types'
    BY <1>1, <1>7, <1>8, <2>2, TypeFacts DEF Types, TypeOK, ReaderTypes, ChainTypes
  <2>4. StateInv' /\ SessionInv(x)'
    <3>1. StateInv /\ SessionInv(x)
      BY PartFacts
    <3> QED
      BY <1>1, <1>8, <2>2, <3>1 DEF StateInv, SessionInv
  <2>5. ASSUME overtaken = {} PROVE LogInv(x)' /\ stored' = stored
    <3>1. LogInv(x) /\ StateInv /\ owner = x /\ Covers(log[x], stored)
      BY <1>3, <2>5, PartFacts DEF LogInv
    <3>2. known /\ cursor = Len(stored) /\ stored' = stored
      BY <2>2, <2>5, <3>1, TypeFacts DEF StateInv
    <3>3. suffix = SubSeq(log[x], Len(stored) + 1, seed[x]) /\ Len(stored) <= seed[x]
      <4>1. Len(base[x]) = Len(stored)
        BY <2>1, <3>2
      <4>2. Len(base[x]) < seed[x]
        BY <1>7, <2>1
      <4>3. Len(stored) <= seed[x]
        BY <1>6, <4>1, <4>2
      <4> QED
        BY <4>1, <4>3 DEF suffix
    <3>4. Covers(log[x], stored \o suffix) /\ Len(stored) + Len(suffix) = seed[x]
      BY <1>6, <3>1, <3>3, CoversNext
    <3> QED
      BY <1>1, <1>8, <2>2, <3>1, <3>2, <3>4, QueuedSame DEF LogInv, Op
  <2>6. SessionPart'
    BY <1>1, <1>8, <2>1, <2>2, <2>4, <2>5, OperationMoves
  <2>7. EntryPart'
    <3>1. Passes(o) /\ Unreserved
      BY <1>8, <2>1, SamePasses, UnreservedFacts
    <3> QED
      BY <1>1, <1>4, <1>5, <1>8, <2>2, <2>3, <3>1, EntryKeptOrDropped
  <2> QED
    BY <2>3, <2>6, <2>7 DEF CoordinatorInv
<1>9. CASE OpEnds /\ Initialized(x, "failed") /\ UNCHANGED <<batch, backendVars, stateVars, entryVars>>
  <2> USE DEF backendVars, stateVars, entryVars
  <2>1. /\ live' \in [Sessions -> {"none", "pending", "ok", "failed"}] /\ live'[x] = "failed"
        /\ UNCHANGED <<written, writing, current, retiring, retirement>>
        /\ \A y \in Sessions \ {x} :
             live'[y] = live[y] /\ written'[y] = written[y] /\ writing'[y] = writing[y] /\ retiring'[y] = retiring[y]
        /\ \A y \in Sessions : live[y] # "none" => live'[y] # "none"
        /\ SessionInv(x)'
    BY <1>1, <1>3, <1>9, InitializedFacts
  <2>2. ChainTypes' /\ Passes(o) /\ o \notin Queued'
    <3>1. o[1] \in SessionKinds /\ o[2] = x /\ "suffix" \in SessionKinds
      BY DEF Op, SessionKinds
    <3>2. \A kind \in SessionKinds : Op(kind, x) \notin Queued'
      BY <1>1, <1>9, <3>1, LeaveFacts
    <3> QED
      BY <1>1, <1>9, <3>1, <3>2, LeaveFacts
  <2>3. Types'
    BY <1>1, <1>9, <2>1, <2>2, TypeFacts DEF Types, TypeOK, ReaderTypes
  <2>4. StateInv'
    <3>1. StateInv
      BY PartFacts
    <3> QED
      BY <1>1, <1>9, <2>1, <3>1, TypeFacts DEF StateInv, TypeOK
  <2>5. ASSUME overtaken = {} PROVE LogInv(x)'
    <3>1. LogInv(x)
      BY <2>5, PartFacts
    <3> QED
      BY <1>1, <1>9, <2>1, <2>2, <3>1 DEF LogInv
  <2>6. SessionPart'
    BY <1>1, <1>9, <2>1, <2>4, <2>5, OperationMoves
  <2>7. EntryPart'
    BY <1>1, <1>4, <1>5, <1>9, <2>1, <2>2, EntryKept
  <2> QED
    BY <2>3, <2>6, <2>7 DEF CoordinatorInv
<1> QED
  BY <1>2, <1>8, <1>9

LEMMA ClaimedFacts ==
  ASSUME CoordinatorInv
  PROVE  Len(Claimed) \in Nat /\ (NoOne \notin overtaken => Claimed = stored)
<1>1. stored \in Seq(Authors) /\ Len(stored) \in Nat /\ cursor \in Nat
  BY TypeFacts, LogFacts DEF TypeOK
<1>2. Len(SubSeq(stored, 1, cursor)) \in Nat
  <2> DEFINE S == {stored[i] : i \in 1 .. cursor}
  <2>1. \A i \in 1 .. cursor : stored[i] \in S
    OBVIOUS
  <2> HIDE DEF S
  <2>2. Len(SubSeq(stored, 1, cursor)) = IF 1 <= cursor THEN cursor - 1 + 1 ELSE 0
    BY <1>1, <2>1, SubSeqProperties
  <2> QED
    BY <1>1, <2>2
<1>3. known /\ NoOne \notin overtaken => SubSeq(stored, 1, cursor) = stored
  BY <1>1, SubSeqFull, PartFacts DEF StateInv
<1> QED
  BY <1>1, <1>2, <1>3 DEF Claimed

\* What an initialization stores follows the stored log.
LEMMA SeedFacts ==
  ASSUME CoordinatorInv, NEW x \in Sessions
  PROVE  LET suffix == SubSeq(Seed(x), Len(Claimed) + 1, seed[x])
         IN /\ suffix \in Log
            /\ overtaken = {} /\ Covers(Seed(x), Claimed) =>
                 /\ Covers(log[x], stored) /\ Covers(log[x], stored \o suffix)
                 /\ Len(stored) + Len(suffix) = seed[x] /\ (suffix = <<>> => seed[x] <= Len(stored))
<1> DEFINE s == Seed(x)
           n == seed[x]
           suffix == SubSeq(s, Len(Claimed) + 1, n)
<1>1. /\ log[x] \in Seq(Authors) /\ Len(log[x]) \in Nat /\ n \in Nat /\ n \in 0 .. Len(log[x])
      /\ stored \in Seq(Authors) /\ Len(stored) \in Nat
  <2>1. n \in Nat /\ n <= Len(log[x]) /\ Len(log[x]) \in Nat
    BY TypeFacts, LogFacts, PartFacts DEF TypeOK, SessionInv
  <2> QED
    BY <2>1, TypeFacts, LogFacts
<1>2. s \in Seq(Authors) /\ Len(s) = n
  <2>1. \A i \in 1 .. n : log[x][i] \in Authors
    <3>1. \A i \in 1 .. n : i \in 1 .. Len(log[x])
      BY <1>1
    <3> QED
      BY <1>1, <3>1, ElementOfSeq
  <2>2. /\ SubSeq(log[x], 1, n) \in Seq(Authors)
        /\ Len(SubSeq(log[x], 1, n)) = IF 1 <= n THEN n - 1 + 1 ELSE 0
    BY <1>1, <2>1, SubSeqProperties
  <2> QED
    BY <1>1, <2>2 DEF Seed
<1>3. s = SubSeq(log[x], 1, n)
  BY DEF Seed
<1> HIDE DEF s, n
<1>4. Len(Claimed) \in Nat /\ n \in 0 .. Len(s)
  BY <1>1, <1>2, ClaimedFacts
<1>5. suffix \in Log
  BY <1>2, <1>4, SliceFacts DEF Log
<1>6. ASSUME overtaken = {}, Covers(s, Claimed)
      PROVE  /\ Covers(log[x], stored) /\ Covers(log[x], stored \o suffix)
             /\ Len(stored) + Len(suffix) = n /\ (suffix = <<>> => n <= Len(stored))
  <2>1. Claimed = stored /\ Covers(s, stored)
    BY <1>6, ClaimedFacts
  <2>2. Len(stored) <= n
    BY <1>2, <2>1 DEF Covers
  <2>3. suffix = SubSeq(s, Len(stored) + 1, n)
    BY <2>1
  <2> HIDE DEF suffix
  <2>4. Covers(s, stored \o suffix) /\ Len(stored) + Len(suffix) = n /\ suffix \in Seq(Authors)
    BY <1>1, <1>2, <1>4, <2>1, <2>2, <2>3, CoversNext
  <2>5. Covers(log[x], stored)
    BY <1>1, <1>3, <2>1, CoversBeginning
  <2> DEFINE l == stored \o suffix
  <2>6. l \in Seq(Authors) /\ Covers(SubSeq(log[x], 1, n), l)
    BY <1>1, <1>3, <2>4, ConcatProperties
  <2> HIDE DEF l
  <2>7. Covers(log[x], l)
    BY <1>1, <2>6, CoversBeginning
  <2>8. suffix = <<>> => Len(suffix) = 0
    BY EmptySeq
  <2> QED
    BY <1>1, <2>4, <2>5, <2>7, <2>8 DEF l
<1> QED
  BY <1>5, <1>6 DEF s, n, suffix

\* A session that an abandoned one leaves the identity to.
LEMMA AbandonedFacts ==
  ASSUME CoordinatorInv, NEW x \in Sessions, chain # <<>>, Head(chain) = Op("init", x), batch = <<>>,
         ~known \/ owner = NoOne \/ Abandoned
  PROVE  /\ owner # x
         /\ overtaken = {} /\ owner # NoOne =>
              Op("suffix", owner) \notin Queued /\ (live[owner] = "ok" => log[owner] = <<>> /\ owner # current)
<1>1. Op("init", x) \in Queued /\ ClaimInv(x) /\ StateInv
  BY TypeFacts, PartFacts
<1>2. owner # x
  BY <1>1 DEF ClaimInv
<1>3. ASSUME overtaken = {}, owner # NoOne
      PROVE  Op("suffix", owner) \notin Queued /\ (live[owner] = "ok" => log[owner] = <<>> /\ owner # current)
  <2>1. known /\ Abandoned /\ owner \in Sessions /\ LogInv(owner) /\ live[owner] # "none"
    BY <1>1, <1>3, PartFacts, TypeFacts DEF StateInv, TypeOK
  <2>2. Len(stored) = 0 /\ stored = <<>>
    BY <1>1, <1>3, <2>1, TypeFacts, LogFacts DEF StateInv, Abandoned
  <2>3. Op("suffix", owner) \notin Queued
    BY <2>1, <2>2 DEF LogInv
  <2>4. owner # current
    BY <1>1, <1>2, <1>3 DEF ClaimInv
  <2>5. ASSUME live[owner] = "ok" PROVE log[owner] = <<>>
    <3>1. written[owner] \in Nat /\ Len(log[owner]) \in Nat /\ (log[owner] = <<>> <=> Len(log[owner]) = 0)
      BY <2>1, TypeFacts, LogFacts DEF TypeOK
    <3>2. ~(written[owner] < Len(log[owner]))
      BY <2>1 DEF Abandoned, HasWork
    <3>3. written[owner] <= Len(stored) \/ log[owner] = <<>>
      BY <2>1, <2>5 DEF LogInv
    <3> QED
      BY <2>2, <3>1, <3>2, <3>3
  <2> QED
    BY <2>3, <2>4, <2>5
<1> QED
  BY <1>2, <1>3

LEMMA InitBeginsStep == ASSUME CoordinatorInv, NEW x \in Sessions, InitBegins(x) PROVE CoordinatorInv'
<1> USE DEF backendVars, entryVars, sourceVars, sessionVars, readerVars, deletionVars, boundVars
<1> DEFINE o == Op("init", x)
           suffix == SubSeq(Seed(x), Len(Claimed) + 1, seed[x])
<1>1. /\ chain # <<>> /\ Head(chain) = o /\ batch = <<>> /\ ~deletes
      /\ UNCHANGED <<backendVars, deletes, entryVars, sourceVars, sessionVars, readerVars, deletionVars, boundVars>>
  BY DEF InitBegins, Begins
<1>2. \/ /\ Claims(x) /\ known' = TRUE /\ owner' = x /\ cursor' = Len(Claimed)
         /\ suffix # <<>> /\ batch' = suffix /\ UNCHANGED <<chain, writeVars, storeVars>>
      \/ /\ Claims(x) /\ known' = TRUE /\ owner' = x /\ cursor' = Len(Claimed)
         /\ \E how \in {"ok", "failed"} : Initialized(x, how) /\ (how = "ok" => suffix = <<>>)
         /\ OpEnds /\ UNCHANGED batch
      \/ /\ \/ Abandoned /\ known' = FALSE /\ cursor' = 0 /\ owner' = NoOne
            \/ UNCHANGED stateVars
         /\ OpEnds /\ Initialized(x, "failed") /\ UNCHANGED batch
  BY DEF InitBegins
<1>3. o \in Queued
  BY <1>1, TypeFacts
<1>4. prepared # NoOne => prepared \notin born /\ current = NoOne
  BY PartFacts DEF EntryInv
<1>5. Unreserved
  <2>1. prepared # NoOne => phase = "loading"
    BY <1>3, PartFacts DEF OrderInv
  <2> QED
    BY <2>1, UnreservedFacts DEF Reserved
<1>6. Op("suffix", x) \notin Queued
  BY <1>3, OneQueued DEF SessionKinds
<1>7. /\ suffix \in Log /\ Len(Claimed) \in Nat /\ (NoOne \notin overtaken => Claimed = stored)
      /\ overtaken = {} /\ Claims(x) =>
           /\ Covers(log[x], stored) /\ Covers(log[x], stored \o suffix)
           /\ Len(stored) + Len(suffix) = seed[x] /\ (suffix = <<>> => seed[x] <= Len(stored))
  BY ClaimedFacts, SeedFacts DEF Claims
<1> HIDE DEF suffix
<1>8. /\ live[x] = "pending" /\ owner # x
      /\ ~known \/ owner = NoOne \/ Abandoned =>
           (overtaken = {} /\ owner # NoOne =>
              Op("suffix", owner) \notin Queued /\ (live[owner] = "ok" => log[owner] = <<>> /\ owner # current))
  <2>1. live[x] = "pending" /\ ClaimInv(x)
    BY <1>3, PartFacts DEF QueueInv
  <2> QED
    BY <1>1, <1>3, <2>1, AbandonedFacts DEF ClaimInv
<1>9. CASE /\ Claims(x) /\ known' = TRUE /\ owner' = x /\ cursor' = Len(Claimed)
           /\ suffix # <<>> /\ batch' = suffix /\ UNCHANGED <<chain, writeVars, storeVars>>
  <2> USE DEF writeVars, storeVars
  <2>1. Types'
    <3>1. known' \in BOOLEAN /\ cursor' \in Nat /\ owner' \in Sessions \cup {NoOne} /\ batch' \in Log
      BY <1>7, <1>9
    <3> QED
      BY <1>1, <1>9, <3>1, TypeFacts DEF Types, TypeOK, ReaderTypes, ChainTypes
  <2>2. StateInv' /\ SessionInv(x)'
    <3>1. SessionInv(x)
      BY PartFacts
    <3>2. StateInv'
      BY <1>1, <1>7, <1>8, <1>9 DEF StateInv
    <3> QED
      BY <1>1, <1>9, <3>1, <3>2 DEF SessionInv
  <2>3. ASSUME overtaken = {} PROVE LogInv(x)'
    BY <1>1, <1>6, <1>7, <1>8, <1>9, <2>3, QueuedSame DEF LogInv, Op
  <2>4. SessionPart'
    BY <1>1, <1>8, <1>9, <2>2, <2>3, OperationMoves DEF Claims
  <2>5. EntryPart'
    <3> DEFINE p == Op("create", NoOne)
    <3>1. Passes(p) /\ p[1] = "create" /\ \A y \in Sessions : p # Op("init", y)
      BY <1>9, SamePasses DEF Op
    <3> QED
      BY <1>1, <1>4, <1>5, <1>9, <2>1, <3>1, EntryKeptOrDropped
  <2> QED
    BY <2>1, <2>4, <2>5 DEF CoordinatorInv
<1>10. ASSUME NEW how \in {"ok", "failed"}, Initialized(x, how), OpEnds, UNCHANGED batch,
              known' \in BOOLEAN, cursor' \in Nat, owner' \in {owner, NoOne, x}, ~known' => owner' = NoOne /\ cursor' = 0,
              known' /\ NoOne \notin overtaken => cursor' = Len(stored),
              owner' # owner => ~known \/ owner = NoOne \/ Abandoned,
              owner' = x => Claims(x),
              how = "ok" => owner' = x /\ suffix = <<>>
       PROVE  CoordinatorInv'
  <2>1. /\ live' \in [Sessions -> {"none", "pending", "ok", "failed"}] /\ live'[x] = how
        /\ UNCHANGED <<written, writing, current, retiring, retirement>>
        /\ \A y \in Sessions \ {x} :
             live'[y] = live[y] /\ written'[y] = written[y] /\ writing'[y] = writing[y] /\ retiring'[y] = retiring[y]
        /\ \A y \in Sessions : live[y] # "none" => live'[y] # "none"
        /\ written[x] = seed[x] /\ SessionInv(x)'
    BY <1>1, <1>3, <1>10, InitializedFacts
  <2>2. /\ ChainTypes' /\ Passes(o) /\ o \notin Queued' /\ Op("suffix", x) \notin Queued'
    <3>1. o[1] \in SessionKinds /\ o[2] = x /\ "suffix" \in SessionKinds /\ "init" \in SessionKinds
      BY DEF Op, SessionKinds
    <3>2. \A kind \in SessionKinds : Op(kind, x) \notin Queued'
      BY <1>1, <1>10, <3>1, LeaveFacts
    <3> QED
      BY <1>1, <1>10, <3>1, <3>2, LeaveFacts
  <2>3. Types'
    <3>1. owner' \in Sessions \cup {NoOne}
      BY <1>10, TypeFacts DEF TypeOK
    <3> QED
      BY <1>1, <1>10, <2>1, <2>2, <3>1, TypeFacts DEF Types, TypeOK, ReaderTypes
  <2>4. StateInv'
    <3>1. StateInv
      BY PartFacts
    <3> QED
      BY <1>1, <1>8, <1>10, <2>1, <3>1, TypeFacts DEF StateInv, TypeOK
  <2>5. ASSUME overtaken = {} PROVE LogInv(x)'
    <3>1. owner' = x => Covers(log[x], stored)
      BY <1>7, <1>10, <2>5
    <3>2. how = "ok" => owner' = x /\ seed[x] <= Len(stored)
      BY <1>7, <1>10, <2>5
    <3> QED
      BY <1>1, <1>10, <2>1, <2>2, <3>1, <3>2 DEF LogInv
  <2>6. SessionPart'
    BY <1>1, <1>8, <1>10, <2>1, <2>4, <2>5, OperationMoves
  <2>7. EntryPart'
    <3>1. o[1] = "init" /\ \A y \in Sessions : o = Op("init", y) => o \notin Queued'
      BY <2>2 DEF Op
    <3> QED
      BY <1>1, <1>4, <1>5, <2>1, <2>2, <2>3, <3>1, EntryKeptOrDropped
  <2> QED
    BY <2>3, <2>6, <2>7 DEF CoordinatorInv
<1>11. CASE /\ Claims(x) /\ known' = TRUE /\ owner' = x /\ cursor' = Len(Claimed)
            /\ \E how \in {"ok", "failed"} : Initialized(x, how) /\ (how = "ok" => suffix = <<>>)
            /\ OpEnds /\ UNCHANGED batch
  <2>1. ~known \/ owner = NoOne \/ Abandoned
    BY <1>11 DEF Claims
  <2>2. NoOne \notin overtaken => cursor' = Len(stored)
    BY <1>7, <1>11
  <2>3. PICK how \in {"ok", "failed"} : Initialized(x, how) /\ (how = "ok" => suffix = <<>>)
    BY <1>11
  <2> QED
    BY <1>7, <1>10, <1>11, <2>1, <2>2, <2>3
<1>12. CASE /\ \/ Abandoned /\ known' = FALSE /\ cursor' = 0 /\ owner' = NoOne
               \/ UNCHANGED stateVars
            /\ OpEnds /\ Initialized(x, "failed") /\ UNCHANGED batch
  <2>1. /\ known' \in BOOLEAN /\ cursor' \in Nat /\ owner' \in {owner, NoOne}
        /\ ~known' => owner' = NoOne /\ cursor' = 0
        /\ known' /\ NoOne \notin overtaken => cursor' = Len(stored)
        /\ owner' # owner => Abandoned
    <3>1. known \in BOOLEAN /\ cursor \in Nat /\ StateInv
      BY TypeFacts, PartFacts DEF TypeOK
    <3>2. CASE Abandoned /\ known' = FALSE /\ cursor' = 0 /\ owner' = NoOne
      BY <3>2
    <3>3. CASE UNCHANGED stateVars
      BY <3>1, <3>3 DEF stateVars, StateInv
    <3> QED
      BY <1>12, <3>2, <3>3
  <2>2. owner' = x => FALSE
    BY <1>8, <2>1, TypeFacts
  <2> QED
    BY <1>10, <1>12, <2>1, <2>2
<1> QED
  BY <1>2, <1>9, <1>11, <1>12

-----------------------------------------------------------------------------
(* The answers of the backend.                                             *)

\* Who waits for the backend holds a state, and nobody has reserved the entry.
LEMMA AwaitFacts ==
  ASSUME CoordinatorInv, batch # <<>>
  PROVE  /\ chain # <<>> /\ Head(chain) \in Queued /\ known /\ ~deletes /\ Unreserved
         /\ prepared # NoOne => prepared \notin born /\ current = NoOne
         /\ Len(stored) \in Nat /\ Len(batch) \in Nat
         /\ stored \o batch \in Log /\ Len(stored \o batch) = Len(stored) + Len(batch)
<1>1. stored \in Seq(Authors) /\ batch \in Seq(Authors)
  BY TypeFacts DEF TypeOK, Log
<1>2. /\ Len(stored) \in Nat /\ Len(batch) \in Nat
      /\ stored \o batch \in Seq(Authors) /\ Len(stored \o batch) = Len(stored) + Len(batch)
  BY <1>1, LenProperties, ConcatProperties
<1>3. chain # <<>> /\ known /\ ~deletes
  BY PartFacts DEF HeadInv
<1> QED
  BY <1>2, <1>3, TypeFacts, UnreservedFacts, PartFacts DEF Log, EntryInv

\* The batch is at the end of the log.
BatchStored ==
  /\ stored' = stored \o batch /\ unclean' \in BOOLEAN /\ cursor' = cursor + Len(batch)
  /\ NoEntry /\ UNCHANGED <<known, owner>>

\* An answered append leaves a state whose cursor names the log.
LEMMA AnswerFacts ==
  ASSUME CoordinatorInv, batch # <<>>, batch' = <<>>, OpEnds,
         BatchStored \/ UNCHANGED <<backendVars, stateVars, entryVars>>,
         left' \in Bounds, overtaken' \subseteq Sessions \cup {NoOne}, overtaken \subseteq overtaken',
         live' \in [Sessions -> {"none", "pending", "ok", "failed"}],
         written' \in [Sessions -> Nat], writing' \in [Sessions -> Nat],
         retiring' \in [Sessions -> {"none", "flushing", "queued", "done", "failed"}],
         retirement' \in Sessions \cup {NoOne},
         \A y \in Sessions : live[y] # "none" => live'[y] # "none",
         UNCHANGED <<deletes, sourceVars, sessionVars, current, readerVars, deletionVars>>
  PROVE  /\ Types' /\ StateInv' /\ HeadInv' /\ EntryPart'
         /\ Passes(Head(chain)) /\ HeadKept
         /\ known' /\ ~deletes /\ UNCHANGED owner
<1> USE DEF backendVars, stateVars, entryVars, sourceVars, sessionVars, readerVars, deletionVars
<1>1. /\ chain # <<>> /\ Head(chain) \in Queued /\ known /\ ~deletes /\ Unreserved
      /\ prepared # NoOne => prepared \notin born /\ current = NoOne
      /\ Len(stored) \in Nat /\ Len(batch) \in Nat
      /\ stored \o batch \in Log /\ Len(stored \o batch) = Len(stored) + Len(batch)
  BY AwaitFacts
<1>2. ChainTypes' /\ Passes(Head(chain)) /\ HeadKept
  BY <1>1, LeaveFacts
<1>3. /\ stored' \in Log /\ unclean' \in BOOLEAN /\ known' /\ known' \in BOOLEAN /\ cursor' \in Nat /\ UNCHANGED owner
      /\ prepared' \in Sessions \cup {NoOne} /\ phase' \in Phases /\ (NoEntry \/ UNCHANGED entryVars)
      /\ NoOne \notin overtaken' => cursor' = Len(stored')
  <2>1. /\ stored \in Log /\ unclean \in BOOLEAN /\ known \in BOOLEAN /\ cursor \in Nat
        /\ prepared \in Sessions \cup {NoOne} /\ phase \in Phases
    BY TypeFacts DEF TypeOK
  <2>2. NoOne \notin overtaken' => cursor = Len(stored)
    BY <1>1, PartFacts DEF StateInv
  <2>3. CASE BatchStored
    <3> DEFINE l == stored \o batch
    <3>1. /\ known /\ l \in Log /\ Len(l) = Len(stored) + Len(batch) /\ Len(stored) \in Nat /\ Len(batch) \in Nat
          /\ stored' = l /\ unclean' \in BOOLEAN /\ cursor' = cursor + Len(batch)
          /\ NoEntry /\ known' = known /\ owner' = owner
      BY <1>1, <2>3 DEF BatchStored
    <3> HIDE DEF l
    <3>2. cursor' \in Nat /\ (NoOne \notin overtaken' => cursor' = Len(stored'))
      <4>1. cursor' \in Nat
        BY <2>1, <3>1
      <4>2. Len(stored') = Len(stored) + Len(batch)
        BY <3>1
      <4> QED
        BY <2>2, <3>1, <4>1, <4>2
    <3>3. prepared' \in Sessions \cup {NoOne} /\ phase' \in Phases
      BY <3>1 DEF NoEntry, Phases
    <3>4. known' /\ known' \in BOOLEAN
      BY <2>1, <3>1
    <3> QED
      BY <3>1, <3>2, <3>3, <3>4
  <2>4. CASE UNCHANGED <<backendVars, stateVars, entryVars>>
    BY <1>1, <2>1, <2>2, <2>4
  <2> QED
    BY <2>3, <2>4
<1>4. batch' \in Log
  BY EmptySeq DEF Log
<1>5. Types'
  BY <1>2, <1>3, <1>4, TypeFacts DEF Types, TypeOK, ReaderTypes
<1>6. StateInv'
  <2>1. owner # NoOne => live[owner] # "none" /\ owner \in Sessions
    BY PartFacts, TypeFacts DEF StateInv, TypeOK
  <2> QED
    BY <1>3, <2>1 DEF StateInv
<1>7. HeadInv'
  BY <1>1 DEF HeadInv
<1>8. EntryPart'
  <2>1. Head(chain)[1] \notin {"load", "commit"}
    BY PartFacts DEF HeadInv
  <2>2. \A x \in Sessions : Head(chain) = Op("init", x) => Head(chain) \notin Queued'
    <3> SUFFICES ASSUME NEW x \in Sessions, Head(chain) = Op("init", x) PROVE Head(chain) \notin Queued'
      OBVIOUS
    <3>1. Head(chain)[1] \in SessionKinds /\ Head(chain)[2] = x /\ "init" \in SessionKinds
      BY DEF Op, SessionKinds
    <3>2. \A kind \in SessionKinds : Op(kind, x) \notin Queued'
      BY <1>1, <3>1, LeaveFacts
    <3> QED
      BY <3>1, <3>2
  <2> QED
    BY <1>1, <1>2, <1>3, <1>5, <2>1, <2>2, EntryKeptOrDropped
<1> QED
  BY <1>1, <1>2, <1>3, <1>5, <1>6, <1>7, <1>8


\* The owner of the batch that the backend appends.
LEMMA AwaitOwner ==
  ASSUME CoordinatorInv, batch # <<>>, overtaken = {},
         NEW x \in Sessions, NEW kind \in {"init", "suffix", "write", "drain"}, Head(chain) = Op(kind, x)
  PROVE  /\ owner = x /\ Covers(log[x], stored \o batch) /\ Covers(log[x], stored)
         /\ Len(stored \o batch) = (IF kind \in {"write", "drain"} THEN writing[x] ELSE seed[x])
<1>1. LogInv(x)
  BY PartFacts
<1> QED
  BY <1>1, AwaitFacts DEF LogInv

\* Nothing else of a session is queued when its append is answered.
LEMMA AnswerLeaves ==
  ASSUME CoordinatorInv, batch # <<>>, OpEnds,
         NEW x \in Sessions, NEW kind \in {"init", "suffix", "write", "drain"}, Head(chain) = Op(kind, x)
  PROVE  Op("suffix", x) \notin Queued'
<1>1. Head(chain)[1] \in SessionKinds /\ Head(chain)[2] = x /\ "suffix" \in SessionKinds
  BY DEF Op, SessionKinds
<1>2. \A k \in SessionKinds : Op(k, x) \notin Queued'
  BY <1>1, AwaitFacts, LeaveFacts
<1> QED
  BY <1>1, <1>2

LEMMA AppendReturnsStep == ASSUME CoordinatorInv, AppendReturns PROVE CoordinatorInv'
<1>1. /\ batch # <<>> /\ BatchStored /\ batch' = <<>> /\ OpEnds
      /\ UNCHANGED <<deletes, sourceVars, sessionVars, readerVars, deletionVars, left>>
  BY DEF AppendReturns, Stored, BatchStored
<1>2. /\ stored' = stored \o batch /\ left' \in Bounds /\ overtaken \subseteq Sessions \cup {NoOne}
      /\ UNCHANGED <<log, seed, born>>
  BY <1>1, TypeFacts DEF BatchStored, TypeOK, sessionVars
<1>3. /\ chain # <<>> /\ Head(chain) \in Queued /\ known /\ ~deletes
  BY <1>1, AwaitFacts
<1>4. \/ \E x \in Sessions, kind \in {"write", "drain"} :
           Head(chain) = Op(kind, x) /\ WriteSucceeded(x) /\ UNCHANGED overtaken
      \/ \E x \in Sessions, kind \in {"init", "suffix"} :
           Head(chain) = Op(kind, x) /\ Initialized(x, "ok") /\ UNCHANGED overtaken
      \/ \E first \in 0 .. Len(stored) :
           /\ Head(chain) = Op("append", first) /\ UNCHANGED <<writeVars, storeVars>>
           /\ overtaken' = overtaken \cup {x \in Sessions : live[x] # "none"}
  BY DEF AppendReturns, WriteOps, Awaits
<1> DEFINE End == /\ Types' /\ StateInv' /\ HeadInv' /\ EntryPart' /\ Passes(Head(chain)) /\ HeadKept
                  /\ known' /\ UNCHANGED owner
<1>5. ASSUME NEW x \in Sessions, NEW kind \in {"write", "drain"},
             Head(chain) = Op(kind, x), WriteSucceeded(x), UNCHANGED overtaken
      PROVE  CoordinatorInv'
  <2>1. /\ written' \in [Sessions -> Nat] /\ writing' \in [Sessions -> Nat]
        /\ retiring' \in [Sessions -> {"none", "flushing", "queued", "done", "failed"}]
        /\ retirement' \in Sessions \cup {NoOne}
        /\ UNCHANGED <<live, current>>
        /\ \A y \in Sessions \ {x} :
             live'[y] = live[y] /\ written'[y] = written[y] /\ writing'[y] = writing[y] /\ retiring'[y] = retiring[y]
        /\ written'[x] = writing[x] /\ SessionInv(x)'
    BY <1>2, <1>3, <1>5, WriteEndFacts
  <2>2. End
    <3>1. live' \in [Sessions -> {"none", "pending", "ok", "failed"}]
      BY <2>1, TypeFacts DEF TypeOK
    <3> QED
      BY <1>1, <1>2, <1>5, <2>1, <3>1, AnswerFacts
  <2>3. ASSUME overtaken = {} PROVE LogInv(x)' /\ owner = x
    <3>1. owner = x /\ Covers(log[x], stored \o batch) /\ Len(stored \o batch) = writing[x] /\ writing[x] \in Nat
      BY <1>1, <1>3, <1>5, <2>3, AwaitOwner, WriteFacts
    <3>2. Op("suffix", x) \notin Queued'
      BY <1>1, <1>5, AnswerLeaves
    <3>3. written'[x] <= Len(stored')
      BY <1>2, <2>1, <3>1
    <3> QED
      BY <1>1, <1>2, <2>2, <3>1, <3>2, <3>3 DEF LogInv
  <2>4. SessionPart'
    BY <1>1, <1>2, <1>3, <1>5, <2>1, <2>2, <2>3, OperationMoves
  <2> QED
    BY <2>2, <2>4 DEF CoordinatorInv
<1>6. ASSUME NEW x \in Sessions, NEW kind \in {"init", "suffix"},
             Head(chain) = Op(kind, x), Initialized(x, "ok"), UNCHANGED overtaken
      PROVE  CoordinatorInv'
  <2>1. /\ live' \in [Sessions -> {"none", "pending", "ok", "failed"}]
        /\ UNCHANGED <<written, writing, current, retiring, retirement>>
        /\ \A y \in Sessions \ {x} :
             live'[y] = live[y] /\ written'[y] = written[y] /\ writing'[y] = writing[y] /\ retiring'[y] = retiring[y]
        /\ \A y \in Sessions : live[y] # "none" => live'[y] # "none"
        /\ written[x] = seed[x] /\ SessionInv(x)'
    BY <1>2, <1>3, <1>6, InitializedFacts
  <2>2. End
    BY <1>1, <1>2, <1>6, <2>1, AnswerFacts, TypeFacts DEF TypeOK
  <2>3. ASSUME overtaken = {} PROVE LogInv(x)' /\ owner = x
    <3>1. owner = x /\ Covers(log[x], stored \o batch) /\ Len(stored \o batch) = seed[x] /\ seed[x] \in Nat
      BY <1>1, <1>6, <2>3, AwaitOwner, TypeFacts DEF TypeOK
    <3>2. Op("suffix", x) \notin Queued'
      BY <1>1, <1>6, AnswerLeaves
    <3>3. written'[x] <= Len(stored')
      BY <1>2, <2>1, <3>1
    <3> QED
      BY <1>1, <1>2, <2>2, <3>1, <3>2, <3>3 DEF LogInv
  <2>4. SessionPart'
    BY <1>1, <1>2, <1>3, <1>6, <2>1, <2>2, <2>3, OperationMoves
  <2> QED
    BY <2>2, <2>4 DEF CoordinatorInv
<1>7. ASSUME NEW first \in 0 .. Len(stored), Head(chain) = Op("append", first), UNCHANGED <<writeVars, storeVars>>,
             overtaken' = overtaken \cup {x \in Sessions : live[x] # "none"}
      PROVE  CoordinatorInv'
  <2> USE DEF writeVars, storeVars
  <2>1. End
    BY <1>1, <1>2, <1>7, AnswerFacts, TypeFacts DEF TypeOK
  <2>2. overtaken' = {} => owner = NoOne
    BY <1>7, PartFacts, TypeFacts DEF StateInv, TypeOK
  <2>3. \A x \in Sessions : seed[x] <= Len(log[x]) /\ written[x] <= Len(log[x]) /\ Head(chain) # Op("load", x)
    BY <1>7, PartFacts DEF SessionInv, Op
  <2>4. Head(chain)[1] = "append"
    BY <1>7 DEF Op
  <2>5. SessionPart'
    BY <1>1, <1>2, <1>3, <1>7, <2>1, <2>2, <2>3, <2>4, SessionsStay
  <2> QED
    BY <2>1, <2>5 DEF CoordinatorInv
<1> QED
  BY <1>4, <1>5, <1>6, <1>7

LEMMA AppendFailsStep == ASSUME CoordinatorInv, AppendFails PROVE CoordinatorInv'
<1>1. /\ batch # <<>> /\ batch' = <<>> /\ OpEnds /\ Fails /\ UNCHANGED overtaken
      /\ UNCHANGED <<backendVars, stateVars, deletes, entryVars, sourceVars, sessionVars, readerVars, deletionVars>>
  BY DEF AppendFails, Fails
<1>2. /\ left' \in Bounds /\ overtaken \subseteq Sessions \cup {NoOne}
      /\ UNCHANGED <<log, seed, born>>
  BY <1>1, TypeFacts, CountedTypes DEF TypeOK, sessionVars, Fails
<1>3. /\ chain # <<>> /\ Head(chain) \in Queued /\ known /\ ~deletes
  BY <1>1, AwaitFacts
<1>4. \/ \E x \in Sessions, kind \in {"write", "drain"} : Head(chain) = Op(kind, x) /\ WriteFailed(x)
      \/ \E x \in Sessions, kind \in {"init", "suffix"} : Head(chain) = Op(kind, x) /\ Initialized(x, "failed")
      \/ \E first \in 0 .. Len(stored) : Head(chain) = Op("append", first) /\ UNCHANGED <<writeVars, storeVars>>
  BY DEF AppendFails, WriteOps, Awaits
<1> DEFINE End == /\ Types' /\ StateInv' /\ HeadInv' /\ EntryPart' /\ Passes(Head(chain)) /\ HeadKept
                  /\ known' /\ UNCHANGED owner
<1>5. ASSUME NEW x \in Sessions, NEW kind \in {"write", "drain"}, Head(chain) = Op(kind, x), WriteFailed(x)
      PROVE  CoordinatorInv'
  <2>1. /\ written' \in [Sessions -> Nat] /\ writing' \in [Sessions -> Nat]
        /\ retiring' \in [Sessions -> {"none", "flushing", "queued", "done", "failed"}]
        /\ retirement' \in Sessions \cup {NoOne}
        /\ UNCHANGED <<live, current>>
        /\ \A y \in Sessions \ {x} :
             live'[y] = live[y] /\ written'[y] = written[y] /\ writing'[y] = writing[y] /\ retiring'[y] = retiring[y]
        /\ SessionInv(x)'
    BY <1>2, <1>3, <1>5, WriteEndFacts
  <2>2. End
    <3>1. live' \in [Sessions -> {"none", "pending", "ok", "failed"}]
      BY <2>1, TypeFacts DEF TypeOK
    <3> QED
      BY <1>1, <1>2, <1>5, <2>1, <3>1, AnswerFacts
  <2>3. ASSUME overtaken = {} PROVE LogInv(x)' /\ owner = x
    <3>1. /\ owner = x /\ Covers(log[x], stored)
          /\ written[x] <= Len(stored) /\ live[x] = "ok" /\ written[x] \in Nat
      BY <1>1, <1>3, <1>5, <2>3, AwaitOwner, WriteFacts
    <3>2. Op("suffix", x) \notin Queued'
      BY <1>1, <1>5, AnswerLeaves
    <3>3. written'[x] = written[x] /\ UNCHANGED stored
      BY <1>1, <1>5 DEF WriteFailed, backendVars
    <3> QED
      BY <1>1, <1>2, <2>1, <2>2, <3>1, <3>2, <3>3 DEF LogInv
  <2>4. SessionPart'
    BY <1>1, <1>2, <1>3, <1>5, <2>1, <2>2, <2>3, OperationMoves
  <2> QED
    BY <2>2, <2>4 DEF CoordinatorInv
<1>6. ASSUME NEW x \in Sessions, NEW kind \in {"init", "suffix"}, Head(chain) = Op(kind, x), Initialized(x, "failed")
      PROVE  CoordinatorInv'
  <2>1. /\ live' \in [Sessions -> {"none", "pending", "ok", "failed"}] /\ live'[x] = "failed"
        /\ UNCHANGED <<written, writing, current, retiring, retirement>>
        /\ \A y \in Sessions \ {x} :
             live'[y] = live[y] /\ written'[y] = written[y] /\ writing'[y] = writing[y] /\ retiring'[y] = retiring[y]
        /\ \A y \in Sessions : live[y] # "none" => live'[y] # "none"
        /\ SessionInv(x)'
    BY <1>2, <1>3, <1>6, InitializedFacts
  <2>2. End
    BY <1>1, <1>2, <1>6, <2>1, AnswerFacts, TypeFacts DEF TypeOK
  <2>3. ASSUME overtaken = {} PROVE LogInv(x)' /\ owner = x
    <3>1. owner = x /\ Covers(log[x], stored)
      BY <1>1, <1>6, <2>3, AwaitOwner
    <3>2. Op("suffix", x) \notin Queued'
      BY <1>1, <1>6, AnswerLeaves
    <3> QED
      BY <1>1, <1>2, <2>1, <2>2, <3>1, <3>2 DEF LogInv, backendVars
  <2>4. SessionPart'
    BY <1>1, <1>2, <1>3, <1>6, <2>1, <2>2, <2>3, OperationMoves
  <2> QED
    BY <2>2, <2>4 DEF CoordinatorInv
<1>7. ASSUME NEW first \in 0 .. Len(stored), Head(chain) = Op("append", first), UNCHANGED <<writeVars, storeVars>>
      PROVE  CoordinatorInv'
  <2> USE DEF writeVars, storeVars
  <2>1. End
    BY <1>1, <1>2, <1>7, AnswerFacts, TypeFacts DEF TypeOK
  <2>2. \A x \in Sessions : seed[x] <= Len(log[x]) /\ written[x] <= Len(log[x]) /\ Head(chain) # Op("load", x)
    BY <1>7, PartFacts DEF SessionInv, Op
  <2>3. Head(chain)[1] = "append" /\ UNCHANGED stored
    BY <1>1, <1>7 DEF Op, backendVars
  <2>4. SessionPart'
    BY <1>1, <1>2, <1>3, <1>7, <2>1, <2>2, <2>3, SessionsStay
  <2> QED
    BY <2>1, <2>4 DEF CoordinatorInv
<1> QED
  BY <1>4, <1>5, <1>6, <1>7

-----------------------------------------------------------------------------
(* The specification.                                                      *)

LEMMA StutterStep == ASSUME CoordinatorInv, UNCHANGED vars PROVE CoordinatorInv'
<1> USE DEF vars, backendVars, stateVars, chainVars, entryVars, sourceVars, sessionVars, writeVars, storeVars,
            readerVars, deletionVars, boundVars
<1> DEFINE o == Op("create", NoOne)
<1>1. Passes(o) /\ HeadKept /\ o[1] = "create"
  BY SamePasses, SamePassesHead DEF Op
<1>2. SessionPart' /\ EntryPart'
  BY <1>1, BothKept
<1>3. Types'
  <2>1. TypeOK'
    <3>1. StoreTypes /\ EntryTypes /\ SessionTypes /\ CallTypes
      BY TypeFacts, TypeGroups
    <3>2. StoreTypes' /\ EntryTypes'
      BY <3>1 DEF StoreTypes, EntryTypes
    <3>3. SessionTypes'
      BY <3>1 DEF SessionTypes
    <3>4. CallTypes'
      BY <3>1 DEF CallTypes
    <3> QED
      BY <3>2, <3>3, <3>4, TypeGroups
  <2>2. ReaderTypes' /\ ChainTypes'
    BY TypeFacts DEF ReaderTypes, ChainTypes
  <2> QED
    BY <2>1, <2>2 DEF Types
<1> QED
  BY <1>2, <1>3 DEF CoordinatorInv

LEMMA InitInv == ASSUME Init PROVE CoordinatorInv
<1>1. PICK start \in Starts :
        LET hot == start.live # <<>>
            first(a, b) == [x \in Sessions |-> IF hot /\ x = 1 THEN a ELSE b]
        IN /\ stored = start.stored /\ unclean = start.unclean /\ left = start.left
           /\ log = [x \in Sessions |-> IF x = 1 THEN start.live ELSE <<>>]
           /\ born = (IF hot THEN {1} ELSE {}) /\ current = (IF hot THEN 1 ELSE NoOne)
           /\ seed = first(Len(start.live), 0) /\ written = first(Len(start.live), 0)
           /\ live = first("pending", "none")
           /\ chain = (IF hot THEN <<Op("init", 1)>> ELSE <<>>)
  BY DEF Init
<1> DEFINE l == start.live
           n == Len(l)
           hot == l # <<>>
<1>2. 1 \in Sessions /\ NoOne \notin Sessions
  BY CoordinatorAssumption DEF Sessions, NoOne
<1>3. /\ stored \in Log /\ unclean \in BOOLEAN /\ l \in Log /\ left \in Bounds
      /\ n \in Nat /\ (l = <<>> => n = 0)
  <2>1. start \in [stored : Log, unclean : BOOLEAN, live : Log, left : Bounds]
    BY CoordinatorAssumption
  <2> QED
    BY <1>1, <2>1, LenProperties, EmptySeq DEF Log
<1>4. \A x \in Sessions :
        /\ log[x] = (IF x = 1 THEN l ELSE <<>>)
        /\ seed[x] = (IF hot /\ x = 1 THEN n ELSE 0) /\ written[x] = (IF hot /\ x = 1 THEN n ELSE 0)
        /\ live[x] = (IF hot /\ x = 1 THEN "pending" ELSE "none")
  BY <1>1
<1>5. /\ born = (IF hot THEN {1} ELSE {}) /\ current = (IF hot THEN 1 ELSE NoOne)
      /\ log \in [Sessions -> Log] /\ live \in [Sessions -> {"none", "pending", "ok", "failed"}]
      /\ seed \in [Sessions -> Nat] /\ written \in [Sessions -> Nat]
  <2>1. <<>> \in Log /\ 0 \in Nat
    BY EmptySeq DEF Log
  <2> QED
    BY <1>1, <1>3, <2>1
<1>6. chain = (IF hot THEN <<Op("init", 1)>> ELSE <<>>)
  BY <1>1
<1> HIDE DEF n, hot, l
<1>7. \A x \in Sessions : Len(log[x]) = (IF hot /\ x = 1 THEN n ELSE 0)
  BY <1>3, <1>4, EmptySeq DEF hot, n
<1>8. /\ known = FALSE /\ cursor = 0 /\ owner = NoOne /\ deletes = FALSE /\ batch = <<>>
      /\ prepared = NoOne /\ phase = "none" /\ overtaken = {}
      /\ writing = [x \in Sessions |-> 0] /\ retiring = [x \in Sessions |-> "none"] /\ retirement = NoOne
      /\ pc = [r \in Readers |-> "idle"]
  BY DEF Init
<1>9. ChainTypes /\ Queued = (IF hot THEN {Op("init", 1)} ELSE {}) /\ (hot => chain # <<>> /\ Head(chain) = Op("init", 1))
  <2>1. CASE hot
    <3> DEFINE s == <<Op("init", 1)>>
    <3>1. Op("init", 1) \in Ops
      BY <1>2 DEF Ops, Op, SessionKinds
    <3>2. s \in Seq(Ops) /\ Len(s) = 1 /\ s[1] = Op("init", 1) /\ DOMAIN s = 1 .. 1 /\ s # <<>> /\ Head(s) = s[1]
      BY <3>1
    <3>3. chain = s
      BY <1>6, <2>1
    <3> HIDE DEF s
    <3>4. Untwinned(chain)
      BY <3>2, <3>3 DEF Untwinned
    <3>5. Queued = {Op("init", 1)}
      BY <3>2, <3>3 DEF Queued, Values
    <3> QED
      BY <2>1, <3>2, <3>3, <3>4, <3>5 DEF ChainTypes
  <2>2. CASE ~hot
    <3>1. chain = <<>>
      BY <1>6, <2>2
    <3>2. chain \in Seq(Ops) /\ DOMAIN chain = {}
      BY <3>1
    <3> QED
      BY <2>2, <3>2 DEF ChainTypes, Untwinned, Queued, Values
  <2> QED
    BY <2>1, <2>2
<1>10. Types
  <2>1. batch \in Log /\ born \subseteq Sessions /\ current \in Sessions \cup {NoOne}
    BY <1>2, <1>5, <1>8, EmptySeq DEF Log
  <2>2. base \in [Sessions -> Log]
    BY EmptySeq DEF Init, Log
  <2>3. TypeOK
    <3>1. /\ result \in [Sessions -> {"none", "pending", "ok", "failed"}] /\ repair \in [Sessions -> BOOLEAN]
          /\ deletion = "none" /\ deletionWaits = NoOne
      BY DEF Init
    <3>2. /\ writing \in [Sessions -> Nat] /\ retirement = NoOne
          /\ retiring \in [Sessions -> {"none", "flushing", "queued", "done", "failed"}]
      BY <1>8
    <3>3. NoOne \in Sessions \cup {NoOne} /\ phase \in Phases /\ 0 \in Nat
      BY <1>8 DEF Phases
    <3> QED
      BY <1>3, <1>5, <1>8, <2>1, <2>2, <3>1, <3>2, <3>3 DEF TypeOK
  <2>4. ReaderTypes
    BY DEF Init, ReaderTypes, Places, Holding, Turns
  <2> QED
    BY <1>9, <2>3, <2>4 DEF Types
<1>11. HeadInv /\ StateInv /\ StoreInv
  BY <1>8 DEF HeadInv, StateInv, StoreInv
<1>12. ASSUME NEW x \in Sessions
       PROVE  SessionInv(x) /\ QueueInv(x) /\ ClaimInv(x) /\ OrderInv(x) /\ LogInv(x)
  <2>1. \A kind : Op(kind, x) \in Queued => kind = "init" /\ x = 1 /\ hot
    BY <1>9 DEF Op
  <2>2. SessionInv(x)
    BY <1>2, <1>3, <1>4, <1>5, <1>7, <1>8 DEF SessionInv
  <2>3. QueueInv(x)
    BY <1>4, <2>1 DEF QueueInv
  <2>4. ClaimInv(x)
    BY <1>2, <1>5, <1>8, <2>1 DEF ClaimInv
  <2>5. OrderInv(x) /\ LogInv(x)
    BY <1>2, <1>4, <1>8, <2>1 DEF OrderInv, LogInv
  <2> QED
    BY <2>2, <2>3, <2>4, <2>5
<1>13. EntryInv
  <2>1. Op("load", prepared) \notin Queued
    BY <1>9 DEF Op
  <2> QED
    BY <1>8, <2>1 DEF EntryInv
<1>14. ASSUME NEW r \in Readers PROVE TurnInv(r) /\ CommitInv(r) /\ HeldInv(r)
  BY <1>8 DEF TurnInv, CommitInv, HeldInv, Owns, Turns
<1> QED
  BY <1>10, <1>11, <1>12, <1>13, <1>14 DEF CoordinatorInv, SessionPart, EntryPart

LEMMA NextInv == ASSUME CoordinatorInv, Next PROVE CoordinatorInv'
<1>1. CASE Callers
  <2>1. 0 \in Nat /\ Len(stored) \in Nat
    BY TypeFacts, LogFacts DEF TypeOK
  <2> QED
    BY <1>1, <2>1, CreateStep, SessionAppendsStep, DisposeStep, AskStep, AbortsStep, SetupAppendsStep, PublishStep,
       PublicCreateStep, PublicAppendStep, DeleteStep, EvictedStep DEF Callers
<1>2. CASE ChainRuns
  <2>1. \A first \in 0 .. Len(stored) : first \in Nat
    BY TypeFacts, LogFacts DEF TypeOK
  <2> QED
    BY <1>2, <2>1, WriteBeginsStep, InitBeginsStep, SuffixBeginsStep, RetiresStep, LoadsStep, CommitsStep, ChecksStep,
       PublicAppendBeginsStep, PublicCreatesStep, DeletionBeginsStep, DeletionReturnsStep, AppendReturnsStep,
       AppendFailsStep DEF ChainRuns
<1>3. CASE \E r \in Readers : Continues(r) \/ Release(r)
  BY <1>3, LooksStep, LoadFailedStep, TakesTurnStep, CommitReturnsStep, InspectsStep, CheckReturnsStep, ReleaseStep
     DEF Continues
<1>4. CASE \E x \in Sessions : StartWrite(x) \/ Drains(x)
  BY <1>4, StartWriteStep, FlushEndsStep, FlushFailsStep DEF Drains
<1> QED
  BY <1>1, <1>2, <1>3, <1>4, DeletionQueuesStep DEF Next

-----------------------------------------------------------------------------
(* The theorems.                                                           *)

LEMMA CoordinatorInvariant == Spec => []CoordinatorInv
<1>1. CoordinatorInv /\ [Next]_vars => CoordinatorInv'
  BY StutterStep, NextInv
<1> QED
  BY <1>1, InitInv, PTL DEF Spec

\* Every variable keeps its type: the chain, the entry, the logs and the
\* cursors of the coordinator hold what the code declares for them.
THEOREM CoordinatorTypes == Spec => []TypeOK
<1>1. CoordinatorInv => TypeOK
  BY DEF CoordinatorInv, Types
<1> QED
  BY <1>1, CoordinatorInvariant, PTL

LEMMA CursorState == ASSUME CoordinatorInv PROVE CursorNamesTheLog
<1>1. StateInv /\ (overtaken = {} => \A x \in Sessions : LogInv(x))
  BY PartFacts
<1>2. owner # NoOne => owner \in Sessions
  BY TypeFacts DEF TypeOK
<1> QED
  BY <1>1, <1>2 DEF CursorNamesTheLog, StateInv, LogInv

\* Appends, adoptions, claims, commits and retirements in any order leave a
\* cursor that is the length of the stored log, and a stored log that is the
\* beginning of its owner's.
THEOREM CursorIsTheLog == Spec => []CursorNamesTheLog
  BY CursorState, CoordinatorInvariant, PTL

LEMMA ReservedState == ASSUME CoordinatorInv PROVE ReservedIsCurrent
<1>1. EntryInv
  BY PartFacts
<1>2. ASSUME NEW r \in Readers, pc[r] = "reserved"
      PROVE  /\ prepared = hold[r] /\ phase = "reserved"
             /\ \A s \in Readers \ {r} : pc[s] # "reserved"
             /\ stored = base[hold[r]] /\ ~unclean
             /\ known /\ owner = NoOne /\ cursor = Len(stored) /\ current = NoOne
  <2>1. TurnInv(r) /\ HeldInv(r) /\ \A s \in Readers : TurnInv(s)
    BY PartFacts
  <2>2. prepared = hold[r] /\ phase = "reserved" /\ Owns(r)
    BY <1>2, <2>1 DEF TurnInv, Owns
  <2>3. \A s \in Readers \ {r} : pc[s] # "reserved"
    BY <2>1, <2>2 DEF TurnInv, Owns
  <2>4. current = NoOne
    BY <1>1, <2>2 DEF EntryInv
  <2> QED
    BY <1>2, <2>1, <2>2, <2>3, <2>4 DEF HeldInv
<1> QED
  BY <1>1, <1>2 DEF ReservedIsCurrent, EntryInv

\* Whatever runs between the reading of a log and the publication of what was
\* built from it, a reservation is one reader's and of the log as it is stored.
THEOREM ReservationIsCurrent == Spec => []ReservedIsCurrent
  BY ReservedState, CoordinatorInvariant, PTL

\* Only the retirement of a session makes its drain done.
LEMMA OnlyRetires ==
  ASSUME CoordinatorInv, Next, NEW x \in Sessions, retiring[x] # "done", retiring'[x] = "done"
  PROVE  Retires(x)
<1>1. retiring \in [Sessions -> {"none", "flushing", "queued", "done", "failed"}]
  BY TypeFacts DEF TypeOK
<1>2. ASSUME UNCHANGED retiring PROVE FALSE
  BY <1>2
<1>3. ASSUME NEW y \in Sessions, NEW v, v # "done", retiring' = [retiring EXCEPT ![y] = v] PROVE FALSE
  BY <1>1, <1>3
<1>4. ASSUME UNCHANGED storeVars PROVE FALSE
  BY <1>2, <1>4 DEF storeVars
<1>5. ASSUME NEW y \in Sessions, WriteFailed(y) PROVE FALSE
  BY <1>2, <1>3, <1>5 DEF WriteFailed
<1>6. ASSUME NEW y \in Sessions, WriteSucceeded(y) \/ \E how : Initialized(y, how) PROVE FALSE
  BY <1>4, <1>6 DEF WriteSucceeded, Initialized
<1>7. ~Callers
  <2>1. \A y \in Sessions : ~SessionAppends(y) /\ ~Dispose(y)
    BY <1>3, <1>4 DEF SessionAppends, Dispose
  <2>2. ~Create
    BY <1>2 DEF Create
  <2>3. \A r \in Readers : ~Aborts(r) /\ ~SetupAppends(r) /\ ~Publish(r)
    BY <1>2, <1>4 DEF Aborts, SetupAppends, Publish, ReaderFrame
  <2>4. \A r \in Readers, as \in {"prepare", "load", "inspect"} : ~Ask(r, as)
    BY <1>4 DEF Ask, ReaderFrame
  <2>5. ~PublicCreate /\ ~Delete /\ ~Evicted /\ \A first : ~PublicAppend(first)
    BY <1>4 DEF PublicCreate, Delete, Evicted, PublicAppend
  <2> QED
    BY <2>1, <2>2, <2>3, <2>4, <2>5 DEF Callers
<1>8. ~DeletionQueues
  BY <1>4 DEF DeletionQueues
<1>9. \A y \in Sessions : ~StartWrite(y) /\ ~Drains(y)
  BY <1>3, <1>4 DEF StartWrite, Drains, FlushEnds, FlushFails
<1>10. \A r \in Readers : ~Continues(r) /\ ~Release(r)
  BY <1>4 DEF Continues, Looks, LoadFailed, TakesTurn, CommitReturns, Inspects, CheckReturns, Release, ReaderFrame
<1>11. ChainRuns
  BY <1>7, <1>8, <1>9, <1>10 DEF Next
<1>12. \A y \in Sessions : ~WriteBegins(y) /\ ~InitBegins(y) /\ ~SuffixBegins(y) /\ ~Loads(y)
  <2>1. \A y \in Sessions : ~WriteBegins(y)
    BY <1>4, <1>5, <1>6 DEF WriteBegins
  <2>2. \A y \in Sessions : ~InitBegins(y) /\ ~SuffixBegins(y)
    BY <1>4, <1>6 DEF InitBegins, SuffixBegins
  <2>3. \A y \in Sessions : ~Loads(y)
    BY <1>4 DEF Loads
  <2> QED
    BY <2>1, <2>2, <2>3
<1>13. \A r \in Readers : ~Commits(r) /\ ~Checks(r)
  BY <1>4 DEF Commits, Checks, ReaderFrame
<1>14. ~PublicCreates /\ ~DeletionBegins /\ ~DeletionReturns /\ \A first : ~PublicAppendBegins(first)
  BY <1>4 DEF PublicCreates, DeletionBegins, DeletionReturns, PublicAppendBegins
<1>15. ~AppendReturns /\ ~AppendFails
  BY <1>4, <1>5, <1>6 DEF AppendReturns, AppendFails
<1>16. PICK y \in Sessions : Retires(y)
  BY <1>11, <1>12, <1>13, <1>14, <1>15 DEF ChainRuns
<1>17. retiring' = [retiring EXCEPT ![y] = "done"]
  BY <1>16 DEF Retires
<1>18. y = x
  BY <1>1, <1>17
<1> QED
  BY <1>16, <1>18

LEMMA RetiredState ==
  ASSUME CoordinatorInv, NEW x \in Sessions, Retires(x), overtaken = {}
  PROVE  Covers(stored, log[x])
<1>1. Op("retire", x) \in Queued
  BY TypeFacts DEF Retires, Begins
<1>2. SessionInv(x) /\ QueueInv(x) /\ LogInv(x)
  BY PartFacts
<1>3. live[x] = "ok" /\ written[x] = Len(log[x])
  BY <1>1, <1>2 DEF QueueInv, SessionInv
<1>4. stored \in Seq(Authors) /\ log[x] \in Seq(Authors)
  BY TypeFacts DEF TypeOK, Log
<1>5. CASE owner = x /\ written[x] <= Len(stored)
  <2>1. Covers(log[x], stored)
    BY <1>2, <1>5 DEF LogInv
  <2>2. log[x] = stored
    BY <1>3, <1>4, <1>5, <2>1, CoversAll
  <2> QED
    BY <1>4, <2>2, CoversItself
<1>6. CASE log[x] = <<>>
  BY <1>4, <1>6, CoversItself
<1> QED
  BY <1>2, <1>3, <1>5, <1>6 DEF LogInv

\* A final drain that succeeded stored its session to the last event, whatever
\* was written, initialized or refused before it.
THEOREM DrainedIsStored == Spec => RetiredIsStored
<1>1. ASSUME CoordinatorInv, [Next]_vars
      PROVE  [\A x \in Sessions :
                retiring[x] # "done" /\ retiring'[x] = "done" /\ overtaken = {}
                  => Covers(stored, log[x])]_vars
  <2>1. CASE UNCHANGED vars
    BY <2>1
  <2>2. CASE Next
    BY <1>1, <2>2, OnlyRetires, RetiredState
  <2> QED
    BY <1>1, <2>1, <2>2
<1> QED
  BY <1>1, CoordinatorInvariant, PTL DEF Spec, RetiredIsStored
=============================================================================
