------------------------- MODULE AgentLifecycleProofs -------------------------
(***************************************************************************)
(* Theorems about the life of agents: for any number of agents, plugins,   *)
(* identities, interfering calls and nested notifications, the agent       *)
(* registry and the session store keep what LifecycleDirectory promises,   *)
(* an agent leaves at rest, a creation that rejected leaves nothing, and   *)
(* nothing outlives the factory.                                           *)
(***************************************************************************)
EXTENDS AgentLifecycle, SequenceTheorems, TLAPS

-----------------------------------------------------------------------------
(* The inductive invariant.                                                *)

Frames == ({"publish", "leaving"} \X Attempts) \cup ({"append"} \X Holders) \cup (Stores \X Guests)

\* TypeOK, but for the stack and the count of calls.
StateTypes ==
  /\ id \in [Holders -> Ids]
  /\ stage \in [Stores -> [Holders ->
       {"out", "entered", "announcing", "announced", "disposed", "dropped"}]]
  /\ deferred \subseteq Stores \X Holders
  /\ kind \in [Holders -> Kinds]
  /\ pc \in [Attempts -> Signalled \cup Settled \cup {"none", "draining", "listing", "failing"}]
  /\ load \in [Attempts -> {"none", "pending", "held", "released"}]
  /\ abort \in [Attempts -> BOOLEAN]
  /\ machine \in [Attempts -> {"none", "idle", "busy", "stranded"}]
  /\ teardown \in [Attempts ->
       {"none", "stopping", "unwinding", "flushing", "leaving", "done"}]
  /\ refused \subseteq Attempts /\ flushed \subseteq Attempts
  /\ owner \in [Attempts -> {"active", "unloading", "unloaded"}]
  /\ factory \in {"active", "unloading", "disposing", "disposed"}
  /\ awaited \subseteq Attempts
  /\ initiators \in {"active", "closing", "draining", "disposed"}
  /\ boundary \in [Attempts -> {"none", "counted", "released"}]
  /\ parent \in [Attempts -> Attempts \cup {NoOne}]
  /\ unloader \in Attempts \cup {NoOne}

StackTypes == stack \in Seq(Frames) /\ Len(stack) <= MaxDepth + 1

\* A notification is delivered once, and a teardown's began on an empty stack.
Distinct(seq) == \A i, j \in DOMAIN seq : seq[i] = seq[j] => i = j
OnlyLast(seq, S) == \A i \in DOMAIN seq : seq[i] \in S => i = Len(seq)
Leavings == {"leaving"} \X Attempts
StackInv == Distinct(stack) /\ OnlyLast(stack, Leavings)

\* A guest's entry is being announced while its frame is on the stack.
GuestInv(g) == \A s \in Stores : Delivering(s, g) <=> stage[s][g] = "announcing"

Windows == {"sessionWindow", "agentWindow", "startWindow"}
Unpublished == {"none", "loading", "draining", "listing", "setup"}
Bare(a) == \A s \in Stores : stage[s][a] = "out"

\* What is on the stack of an attempt.
DeliveryInv(a) ==
  /\ Delivering("publish", a) <=> pc[a] \in Windows
  /\ Delivering("leaving", a) <=> teardown[a] = "leaving"
  /\ stage["sessions"][a] = "announcing" <=> pc[a] = "sessionWindow"
  /\ stage["agents"][a] = "announcing" <=> pc[a] = "agentWindow"

\* How far an attempt came, and what of it there is then.
CreationInv(a) ==
  /\ pc[a] \in Unpublished \/ machine[a] = "none" => Bare(a)
  /\ pc[a] \in Unpublished \ {"setup"} => machine[a] = "none"
  /\ pc[a] \in {"setup", "failing", "live"} \cup Windows => Tracked(a)
  /\ pc[a] = "sessionWindow" => stage["agents"][a] \in {"entered", "dropped"}
  /\ pc[a] \in {"agentWindow", "startWindow"} => stage["sessions"][a] \in {"announced", "disposed"}
  /\ pc[a] = "startWindow" => stage["agents"][a] \in {"announced", "disposed"}
  /\ pc[a] \in {"loading", "draining"} => kind[a] \in {"resume", "restore"}
  /\ load[a] = "held" => kind[a] \in {"resume", "restore"} /\ pc[a] \in {"setup", "failing"} \cup Windows
  /\ pc[a] \in {"failing", "rejected"} /\ Tracked(a) => teardown[a] # "none"
  /\ pc[a] = "rejected" /\ kind[a] # "config" => teardown[a] = "done" \/ Bare(a)
  /\ teardown[a] # "none" => abort[a]

\* A teardown goes driver, scope, session, agent; nothing leaves out of turn.
OrderlyInv(a) ==
  /\ \A s \in Stores : <<s, a>> \notin deferred
  /\ Attached("agents", a) => stage["sessions"][a] \in {"announcing", "announced"}
  /\ stage["agents"][a] \in {"disposed", "dropped"} => a \in flushed /\ teardown[a] \in {"leaving", "done"}
  /\ stage["sessions"][a] \in {"disposed", "dropped"} => teardown[a] = "done"
  /\ teardown[a] \in {"unwinding", "flushing", "leaving"} => machine[a] = "idle"
  /\ teardown[a] = "leaving" => ~Attached("agents", a)
  /\ teardown[a] = "done" => machine[a] \in {"none", "idle"} /\ ~Attached("sessions", a)
  /\ pc[a] \in Windows => teardown[a] \in {"none", "stopping"}

\* A teardown that could not cancel the driver released the entries at once, or
\* as soon as the notification that holds them has unwound.
RefusedInv(a) ==
  /\ teardown[a] = "done" /\ stage["sessions"][a] # "entered"
  /\ Attached("agents", a) => pc[a] = "agentWindow" /\ <<"agents", a>> \in deferred
  /\ Attached("sessions", a) => <<"sessions", a>> \in deferred /\ (pc[a] = "sessionWindow" \/ Appending(a))

\* The teardown of the factory covers every attempt, and none begins after it.
FactoryInv(a) == factory \in {"disposing", "disposed"} =>
  /\ Tracked(a) => teardown[a] # "none"
  /\ pc[a] \notin Settled \cup {"none"} => abort[a]
  /\ a \notin awaited \/ factory = "disposed"
       => pc[a] \in Settled \cup {"none"} /\ teardown[a] \in {"none", "done"}

AttemptInv(a) ==
  /\ DeliveryInv(a) /\ CreationInv(a) /\ FactoryInv(a)
  /\ IF a \in refused THEN RefusedInv(a) ELSE OrderlyInv(a)

CoreInv ==
  /\ StateTypes /\ StackTypes /\ StackInv
  /\ \A g \in Guests : GuestInv(g)
  /\ \A a \in Attempts : AttemptInv(a)

LifecycleInv == CoreInv /\ calls \in Nat

-----------------------------------------------------------------------------
(* The stack.                                                              *)

Values(seq) == {seq[i] : i \in DOMAIN seq}

LEMMA PushFields ==
  ASSUME NEW S, NEW s \in Seq(S), NEW e \in S
  PROVE  /\ <<e>> \o s \in Seq(S) /\ Len(<<e>> \o s) = Len(s) + 1
         /\ DOMAIN (<<e>> \o s) = 1 .. Len(s) + 1 /\ (<<e>> \o s)[1] = e
         /\ \A i \in 2 .. Len(s) + 1 : (<<e>> \o s)[i] = s[i - 1]
<1>1. <<e>> \in Seq(S) /\ Len(<<e>>) = 1 /\ <<e>>[1] = e /\ Len(s) \in Nat
  BY LenProperties
<1>2. /\ <<e>> \o s \in Seq(S) /\ Len(<<e>> \o s) = Len(s) + 1
      /\ \A i \in 1 .. Len(s) + 1 : (<<e>> \o s)[i] = IF i <= 1 THEN <<e>>[i] ELSE s[i - 1]
  BY <1>1, ConcatProperties
<1>3. DOMAIN (<<e>> \o s) = 1 .. Len(s) + 1
  BY <1>2, LenProperties
<1> QED
  BY <1>1, <1>2, <1>3

LEMMA PushValues ==
  ASSUME NEW S, NEW s \in Seq(S), NEW e \in S, NEW B, Distinct(s), OnlyLast(s, B),
         e \notin Values(s), e \in B => s = <<>>
  PROVE  /\ <<e>> \o s \in Seq(S) /\ Values(<<e>> \o s) = Values(s) \cup {e}
         /\ Distinct(<<e>> \o s) /\ OnlyLast(<<e>> \o s, B)
<1> DEFINE t == <<e>> \o s
           n == Len(s)
<1>1. /\ t \in Seq(S) /\ Len(t) = n + 1 /\ DOMAIN t = 1 .. n + 1 /\ t[1] = e
      /\ \A i \in 2 .. n + 1 : t[i] = s[i - 1]
  BY PushFields
<1>2. DOMAIN s = 1 .. n /\ n \in Nat /\ (s = <<>> => n = 0)
  BY LenProperties
<1> HIDE DEF t, n
<1>3. \A i \in DOMAIN t : i = 1 \/ (i \in 2 .. n + 1 /\ i - 1 \in DOMAIN s)
  BY <1>1, <1>2
<1>4. \A i \in DOMAIN s : i + 1 \in DOMAIN t /\ t[i + 1] = s[i]
  BY <1>1, <1>2
<1>5. Values(t) = Values(s) \cup {e}
  <2>1. Values(t) \subseteq Values(s) \cup {e}
    BY <1>1, <1>3 DEF Values
  <2>2. e \in Values(t)
    BY <1>1, <1>2 DEF Values
  <2>3. Values(s) \subseteq Values(t)
    BY <1>4 DEF Values
  <2> QED
    BY <2>1, <2>2, <2>3
<1>6. ASSUME NEW i \in DOMAIN t, NEW j \in DOMAIN t, t[i] = t[j]
      PROVE  i = j
  <2>1. CASE i = 1 /\ j = 1
    BY <2>1
  <2>2. CASE (i = 1 /\ j # 1) \/ (i # 1 /\ j = 1)
    BY <1>1, <1>3, <1>6, <2>2 DEF Values
  <2>3. CASE i # 1 /\ j # 1
    <3>1. i - 1 = j - 1
      BY <1>1, <1>3, <1>6, <2>3 DEF Distinct
    <3> QED
      BY <1>2, <1>3, <2>3, <3>1
  <2> QED
    BY <2>1, <2>2, <2>3
<1>7. ASSUME NEW i \in DOMAIN t, t[i] \in B
      PROVE  i = n + 1
  <2>1. CASE i = 1
    BY <1>1, <1>2, <1>7, <2>1
  <2>2. CASE i # 1
    <3>1. i - 1 = n
      BY <1>1, <1>3, <1>7, <2>2 DEF OnlyLast, n
    <3> QED
      BY <1>2, <1>3, <2>2, <3>1
  <2> QED
    BY <2>1, <2>2
<1> QED
  BY <1>1, <1>5, <1>6, <1>7 DEF t, Distinct, OnlyLast

LEMMA PopValues ==
  ASSUME NEW S, NEW s \in Seq(S), s # <<>>, NEW B, Distinct(s), OnlyLast(s, B)
  PROVE  /\ Tail(s) \in Seq(S) /\ Values(Tail(s)) = Values(s) \ {Head(s)} /\ Head(s) \in Values(s)
         /\ Distinct(Tail(s)) /\ OnlyLast(Tail(s), B)
         /\ Head(s) \in B => Values(s) = {Head(s)}
<1> DEFINE t == Tail(s)
           n == Len(s)
<1>1. /\ t \in Seq(S) /\ Len(t) = n - 1 /\ DOMAIN t = 1 .. n - 1 /\ Head(s) = s[1]
      /\ \A i \in 1 .. n - 1 : t[i] = s[i + 1]
  BY HeadTailProperties, LenProperties
<1>2. DOMAIN s = 1 .. n /\ n \in Nat \ {0}
  BY LenProperties, EmptySeq
<1> HIDE DEF t, n
<1>3. \A i \in DOMAIN t : i + 1 \in DOMAIN s /\ i + 1 # 1 /\ t[i] = s[i + 1]
  BY <1>1, <1>2
<1>4. \A i \in DOMAIN s : i = 1 \/ (i - 1 \in DOMAIN t /\ t[i - 1] = s[i])
  BY <1>1, <1>2
<1>5. 1 \in DOMAIN s
  BY <1>2
<1>6. Values(t) = Values(s) \ {s[1]}
  <2>1. Values(t) \subseteq Values(s)
    BY <1>3 DEF Values
  <2>2. s[1] \notin Values(t)
    BY <1>3, <1>5 DEF Values, Distinct
  <2>3. Values(s) \ {s[1]} \subseteq Values(t)
    BY <1>4 DEF Values
  <2> QED
    BY <2>1, <2>2, <2>3
<1>7. ASSUME NEW i \in DOMAIN t, NEW j \in DOMAIN t, t[i] = t[j]
      PROVE  i = j
  <2>1. i + 1 = j + 1
    BY <1>3, <1>7 DEF Distinct
  <2> QED
    BY <1>1, <1>2, <2>1
<1>8. ASSUME NEW i \in DOMAIN t, t[i] \in B
      PROVE  i = n - 1
  <2>1. i + 1 = n
    BY <1>3, <1>8 DEF OnlyLast, n
  <2> QED
    BY <1>1, <1>2, <2>1
<1>9. ASSUME s[1] \in B
      PROVE  Values(s) = {s[1]}
  <2>1. n = 1
    BY <1>5, <1>9 DEF OnlyLast, n
  <2> QED
    BY <1>2, <2>1 DEF Values
<1> QED
  BY <1>1, <1>5, <1>6, <1>7, <1>8, <1>9 DEF t, Distinct, OnlyLast, Values

LEMMA DeliveringIn == \A op, h : Delivering(op, h) <=> <<op, h>> \in Values(stack)
  BY DEF Delivering, Frame, Values

LEMMA DeliveringInNext == \A op, h : Delivering(op, h)' <=> <<op, h>> \in Values(stack')
  BY DEF Delivering, Frame, Values

\* A notification begins.
LEMMA Pushed ==
  ASSUME stack \in Seq(Frames), StackInv, NEW op, NEW h, <<op, h>> \in Frames, ~Delivering(op, h),
         <<op, h>> \in Leavings => stack = <<>>, stack' = <<Frame(op, h)>> \o stack
  PROVE  /\ stack' \in Seq(Frames) /\ StackInv'
         /\ \A o, k : Delivering(o, k)' <=> Delivering(o, k) \/ (o = op /\ k = h)
<1>1. <<op, h>> \notin Values(stack)
  BY DeliveringIn
<1>2. /\ stack' \in Seq(Frames) /\ Values(stack') = Values(stack) \cup {<<op, h>>}
      /\ Distinct(stack') /\ OnlyLast(stack', Leavings)
  <2> DEFINE e == <<op, h>>
  <2>1. stack' = <<e>> \o stack /\ Distinct(stack) /\ OnlyLast(stack, Leavings)
    BY DEF StackInv, Frame
  <2>2. e \in Frames /\ e \notin Values(stack) /\ (e \in Leavings => stack = <<>>)
    BY <1>1
  <2> HIDE DEF e
  <2>3. /\ stack' \in Seq(Frames) /\ Values(stack') = Values(stack) \cup {e}
        /\ Distinct(stack') /\ OnlyLast(stack', Leavings)
    BY <2>1, <2>2, PushValues
  <2> QED
    BY <2>3 DEF e
<1>3. \A o, k : Delivering(o, k)' <=> Delivering(o, k) \/ <<o, k>> = <<op, h>>
  BY <1>2, DeliveringIn, DeliveringInNext
<1> QED
  BY <1>2, <1>3 DEF StackInv

\* The innermost notification unwinds; behind a teardown's the stack is empty.
LEMMA Popped ==
  ASSUME stack \in Seq(Frames), StackInv, NEW op, NEW h, Top(op, h), stack' = Tail(stack)
  PROVE  /\ stack' \in Seq(Frames) /\ StackInv' /\ Delivering(op, h)
         /\ \A o, k : Delivering(o, k)' <=> Delivering(o, k) /\ ~(o = op /\ k = h)
         /\ <<op, h>> \in Leavings => \A o, k : Delivering(o, k) <=> o = op /\ k = h
<1>1. stack # <<>> /\ Head(stack) = <<op, h>>
  BY DEF Top, Frame
<1>2. /\ stack' \in Seq(Frames) /\ Values(stack') = Values(stack) \ {<<op, h>>}
      /\ <<op, h>> \in Values(stack) /\ Distinct(stack') /\ OnlyLast(stack', Leavings)
      /\ <<op, h>> \in Leavings => Values(stack) = {<<op, h>>}
  BY <1>1, PopValues DEF StackInv
<1>3. \A o, k : Delivering(o, k)' <=> Delivering(o, k) /\ <<o, k>> # <<op, h>>
  BY <1>2, DeliveringIn, DeliveringInNext
<1>4. <<op, h>> \in Leavings => \A o, k : Delivering(o, k) <=> <<o, k>> = <<op, h>>
  BY <1>2, DeliveringIn
<1> QED
  BY <1>2, <1>3, <1>4, DeliveringIn DEF StackInv

-----------------------------------------------------------------------------
(* Steps of one holder.                                                    *)

\* Nothing of an attempt changes, or nothing of a guest.
Kept(a) ==
  /\ \A s \in Stores : stage'[s][a] = stage[s][a] /\ (<<s, a>> \in deferred' <=> <<s, a>> \in deferred)
  /\ \A op \in {"publish", "leaving", "append"} : Delivering(op, a)' <=> Delivering(op, a)
  /\ kind'[a] = kind[a] /\ pc'[a] = pc[a] /\ load'[a] = load[a] /\ abort'[a] = abort[a]
  /\ machine'[a] = machine[a] /\ teardown'[a] = teardown[a]
  /\ (a \in refused' <=> a \in refused) /\ (a \in flushed' <=> a \in flushed)
  /\ UNCHANGED factoryVars
KeptGuest(g) ==
  \A s \in Stores : stage'[s][g] = stage[s][g] /\ (Delivering(s, g)' <=> Delivering(s, g))

Others(h) == (\A a \in Attempts \ {h} : Kept(a)) /\ (\A g \in Guests \ {h} : KeptGuest(g))

LEMMA KeptAttempt ==
  ASSUME NEW a \in Attempts, AttemptInv(a), Kept(a)
  PROVE  AttemptInv(a)'
<1>1. DeliveryInv(a)'
  BY DEF AttemptInv, DeliveryInv, Kept, Stores
<1>2. CreationInv(a)'
  BY DEF AttemptInv, CreationInv, Kept, Stores, Bare, Tracked
<1>3. FactoryInv(a)'
  BY DEF AttemptInv, FactoryInv, Kept, Tracked, factoryVars
<1>4. RefusedInv(a) => RefusedInv(a)'
  BY DEF RefusedInv, Kept, Stores, Attached, Appending
<1>5. OrderlyInv(a) => OrderlyInv(a)'
  BY DEF OrderlyInv, Kept, Stores, Attached
<1> QED
  BY <1>1, <1>2, <1>3, <1>4, <1>5 DEF AttemptInv, Kept

LEMMA Assembled ==
  ASSUME CoreInv, StateTypes', StackTypes', StackInv', NEW h \in Holders, Others(h),
         h \in Guests => GuestInv(h)', h \in Attempts => AttemptInv(h)'
  PROVE  CoreInv'
<1>1. ASSUME NEW g \in Guests PROVE GuestInv(g)'
  BY DEF CoreInv, Others, GuestInv, KeptGuest
<1>2. ASSUME NEW a \in Attempts PROVE AttemptInv(a)'
  <2>1. CASE a # h
    BY <2>1, KeptAttempt DEF CoreInv, Others
  <2> QED
    BY <2>1
<1> QED
  BY <1>1, <1>2 DEF CoreInv

LEMMA StackKept ==
  ASSUME CoreInv, UNCHANGED stack
  PROVE  /\ StackTypes' /\ StackInv'
         /\ \A o, k : Delivering(o, k)' <=> Delivering(o, k)
  BY DEF CoreInv, StackTypes, StackInv, Distinct, OnlyLast, Delivering

\* A step of an attempt that leaves the registries and the stack alone.
LocalStep(a) ==
  /\ UNCHANGED <<registryVars, stack, refused, flushed, factoryVars>>
  /\ \A b \in Attempts \ {a} :
       /\ kind'[b] = kind[b] /\ pc'[b] = pc[b] /\ load'[b] = load[b] /\ abort'[b] = abort[b]
       /\ machine'[b] = machine[b] /\ teardown'[b] = teardown[b]

LEMMA LocalAssembled ==
  ASSUME CoreInv, StateTypes', NEW a \in Attempts, LocalStep(a), AttemptInv(a)'
  PROVE  CoreInv'
<1>1. StackTypes' /\ StackInv' /\ \A o, k : Delivering(o, k)' <=> Delivering(o, k)
  BY StackKept DEF LocalStep
<1>2. Others(a)
  BY <1>1 DEF LocalStep, Others, Kept, KeptGuest, registryVars
<1>3. a \in Holders /\ a \notin Guests
  BY LifecycleAssumption DEF Holders
<1> QED
  BY <1>1, <1>2, <1>3, Assembled

\* What a local step has to show of its attempt.
LEMMA LocalInv ==
  ASSUME CoreInv, NEW a \in Attempts, LocalStep(a),
         pc'[a] \in Windows <=> pc[a] \in Windows,
         pc'[a] = "sessionWindow" <=> pc[a] = "sessionWindow",
         pc'[a] = "agentWindow" <=> pc[a] = "agentWindow",
         teardown'[a] = "leaving" <=> teardown[a] = "leaving",
         CreationInv(a)', FactoryInv(a)',
         a \in refused => RefusedInv(a)', a \notin refused => OrderlyInv(a)'
  PROVE  AttemptInv(a)'
<1>1. \A o, k : Delivering(o, k)' <=> Delivering(o, k)
  BY StackKept DEF LocalStep
<1>2. DeliveryInv(a) /\ UNCHANGED stage
  BY DEF CoreInv, AttemptInv, LocalStep, registryVars
<1>3. DeliveryInv(a)'
  BY <1>1, <1>2 DEF DeliveryInv
<1> QED
  BY <1>3 DEF AttemptInv, LocalStep

LEMMA DisposeStep == ASSUME CoreInv, NEW a \in Attempts, Dispose(a) PROVE CoreInv'
<1> USE DEF teardownVars, creationVars, StartVars, registryVars, factoryVars, initiatorVars
<1>1. StateTypes'
  BY DEF CoreInv, StateTypes, Dispose, Stopping
<1>2. LocalStep(a)
  BY DEF CoreInv, StateTypes, Dispose, Stopping, LocalStep
<1>3. AttemptInv(a)'
  <2>1. AttemptInv(a) /\ StateTypes
    BY DEF CoreInv
  <2>2. /\ pc'[a] = pc[a] /\ load'[a] = load[a] /\ kind'[a] = kind[a] /\ machine'[a] = machine[a]
        /\ abort'[a] /\ teardown[a] = "none" /\ teardown'[a] = "stopping"
        /\ UNCHANGED <<stage, deferred, flushed, refused, factory, awaited>>
    BY <2>1 DEF StateTypes, Dispose, Stopping
  <2>3. pc[a] \notin {"none"} /\ Tracked(a)
    BY <2>1 DEF AttemptInv, CreationInv, Dispose, Attached, Stores, Bare, Tracked, Windows, Unpublished
  <2>4. CreationInv(a)'
    BY <2>1, <2>2, <2>3 DEF AttemptInv, CreationInv, Tracked, Bare
  <2>5. FactoryInv(a)'
    BY <2>1, <2>2, <2>3 DEF AttemptInv, FactoryInv, Tracked
  <2>6. a \notin refused /\ OrderlyInv(a)'
    BY <2>1, <2>2, <2>3 DEF AttemptInv, OrderlyInv, RefusedInv, Attached
  <2> QED
    BY <1>2, <2>1, <2>2, <2>4, <2>5, <2>6, LocalInv
<1> QED
  BY <1>1, <1>2, <1>3, LocalAssembled

LEMMA QuietFacts ==
  ASSUME CoreInv, Quiet, NEW a \in Attempts
  PROVE  /\ pc[a] \notin Windows /\ teardown[a] # "leaving"
         /\ stage["agents"][a] # "announcing" /\ stage["sessions"][a] # "announcing" /\ ~Appending(a)
         /\ a \in refused => ~Attached("agents", a) /\ ~Attached("sessions", a)
<1>1. \A o, k : ~Delivering(o, k)
  BY DEF Quiet, Delivering
<1>2. AttemptInv(a)
  BY DEF CoreInv
<1> QED
  BY <1>1, <1>2 DEF AttemptInv, DeliveryInv, RefusedInv, Appending, Windows

LEMMA AttemptFacts ==
  ASSUME CoreInv, NEW a \in Attempts
  PROVE  /\ AttemptInv(a) /\ StateTypes /\ a \in Holders /\ a \notin Guests
         /\ a \in refused => teardown[a] = "done"
  BY LifecycleAssumption DEF CoreInv, AttemptInv, RefusedInv, Holders


LEMMA StoppingFields ==
  ASSUME StateTypes, NEW a \in Attempts, Stopping({a})
  PROVE  /\ abort' \in [Attempts -> BOOLEAN]
         /\ teardown' \in [Attempts -> {"none", "stopping", "unwinding", "flushing", "leaving", "done"}]
         /\ abort'[a] /\ teardown'[a] = (IF teardown[a] = "none" THEN "stopping" ELSE teardown[a])
         /\ \A b \in Attempts \ {a} : abort'[b] = abort[b] /\ teardown'[b] = teardown[b]
<1>1. \A b \in Attempts : abort[b] \in BOOLEAN
  BY DEF StateTypes
<1>2. \A b \in Attempts : (abort[b] \/ b \in {a}) \in BOOLEAN
  OBVIOUS
<1>3. abort' \in [Attempts -> BOOLEAN]
  BY <1>2, Zenon DEF Stopping
<1>4. abort'[a] /\ \A b \in Attempts \ {a} : abort'[b] = abort[b]
  BY <1>1 DEF Stopping
<1>5. /\ teardown' \in [Attempts -> {"none", "stopping", "unwinding", "flushing", "leaving", "done"}]
      /\ teardown'[a] = (IF teardown[a] = "none" THEN "stopping" ELSE teardown[a])
      /\ \A b \in Attempts \ {a} : teardown'[b] = teardown[b]
  BY DEF StateTypes, Stopping
<1> QED
  BY <1>3, <1>4, <1>5


LEMMA StoppedStep == ASSUME CoreInv, NEW a \in Attempts, Stopped(a) PROVE CoreInv'
<1> USE DEF teardownVars, creationVars, StartVars, registryVars, factoryVars, initiatorVars
<1>1. AttemptInv(a) /\ StateTypes /\ (a \in refused => teardown[a] = "done")
  BY AttemptFacts
<1>2. StateTypes'
  BY <1>1 DEF StateTypes, Signalled, Settled, Stopped
<1>3. LocalStep(a)
  BY <1>1 DEF StateTypes, LocalStep, Stopped
<1>4. AttemptInv(a)'
  <2>0. /\ pc[a] \notin Windows /\ teardown[a] # "leaving"
        /\ a \in refused => ~Attached("agents", a) /\ ~Attached("sessions", a)
    BY QuietFacts DEF Stopped
  <2>1. /\ kind'[a] = kind[a] /\ pc'[a] = pc[a] /\ load'[a] = load[a]
        /\ abort'[a] = abort[a] /\ machine'[a] = machine[a]
        /\ teardown[a] = "stopping" /\ machine[a] \in {"none", "idle"}
        /\ teardown'[a] = IF machine[a] = "none" THEN "done" ELSE "unwinding"
    BY <1>1 DEF StateTypes, Signalled, Settled, Stopped
  <2>2. UNCHANGED <<stage, deferred, flushed, refused, factory, awaited>>
    BY DEF  Stopped
  <2>3. CreationInv(a)'
    BY <1>1, <2>1, <2>2, <2>0 DEF AttemptInv, CreationInv, Tracked, Bare, Attached, Stores, Windows, Unpublished
  <2>4. FactoryInv(a)'
    BY <1>1, <2>1, <2>2, <2>0 DEF AttemptInv, FactoryInv, CreationInv, Tracked, Settled, Windows, Unpublished
  <2>5. a \in refused => RefusedInv(a)'
    <3>1. (Appending(a) <=> Appending(a)')
      BY <1>3, StackKept DEF LocalStep, Appending
    <3> QED
      BY <1>1, <2>1, <2>2, <3>1, <2>0 DEF AttemptInv, RefusedInv, Attached
  <2>6. a \notin refused => OrderlyInv(a)'
    BY <1>1, <2>1, <2>2, <2>0 DEF AttemptInv, OrderlyInv, CreationInv, Tracked, Bare, Attached, Stores, Windows, Unpublished
  <2> QED
    BY <1>1, <1>3, <2>1, <2>3, <2>4, <2>5, <2>6, <2>0, LocalInv DEF Windows
<1> QED
  BY <1>2, <1>3, <1>4, LocalAssembled

LEMMA UnwoundStep == ASSUME CoreInv, NEW a \in Attempts, ScopeUnwound(a) PROVE CoreInv'
<1> USE DEF teardownVars, creationVars, StartVars, registryVars, factoryVars, initiatorVars
<1>1. AttemptInv(a) /\ StateTypes /\ (a \in refused => teardown[a] = "done")
  BY AttemptFacts
<1>2. StateTypes'
  BY <1>1 DEF StateTypes, Signalled, Settled, ScopeUnwound
<1>3. LocalStep(a)
  BY <1>1 DEF StateTypes, LocalStep, ScopeUnwound
<1>4. AttemptInv(a)'
  <2>0. /\ pc[a] \notin Windows /\ teardown[a] # "leaving"
        /\ a \in refused => ~Attached("agents", a) /\ ~Attached("sessions", a)
    BY QuietFacts DEF ScopeUnwound
  <2>1. /\ kind'[a] = kind[a] /\ pc'[a] = pc[a] /\ load'[a] = load[a]
        /\ abort'[a] = abort[a] /\ machine'[a] = machine[a]
        /\ teardown[a] = "unwinding"
        /\ teardown'[a] = IF Attached("sessions", a) THEN "flushing" ELSE "done"
    BY <1>1 DEF StateTypes, Signalled, Settled, ScopeUnwound
  <2>2. UNCHANGED <<stage, deferred, flushed, refused, factory, awaited>>
    BY DEF  ScopeUnwound
  <2>3. CreationInv(a)'
    BY <1>1, <2>1, <2>2, <2>0 DEF AttemptInv, CreationInv, Tracked, Bare, Attached, Stores, Windows, Unpublished
  <2>4. FactoryInv(a)'
    BY <1>1, <2>1, <2>2, <2>0 DEF AttemptInv, FactoryInv, CreationInv, Tracked, Settled, Windows, Unpublished
  <2>5. a \in refused => RefusedInv(a)'
    <3>1. (Appending(a) <=> Appending(a)')
      BY <1>3, StackKept DEF LocalStep, Appending
    <3> QED
      BY <1>1, <2>1, <2>2, <3>1, <2>0 DEF AttemptInv, RefusedInv, Attached
  <2>6. a \notin refused => OrderlyInv(a)'
    BY <1>1, <2>1, <2>2, <2>0 DEF AttemptInv, OrderlyInv, CreationInv, Tracked, Bare, Attached, Stores, Windows, Unpublished
  <2> QED
    BY <1>1, <1>3, <2>1, <2>3, <2>4, <2>5, <2>6, <2>0, LocalInv DEF Windows
<1> QED
  BY <1>2, <1>3, <1>4, LocalAssembled

LEMMA CallerAbortsStep == ASSUME CoreInv, NEW a \in Attempts, CallerAborts(a) PROVE CoreInv'
<1> USE DEF teardownVars, creationVars, StartVars, registryVars, factoryVars, initiatorVars
<1>1. AttemptInv(a) /\ StateTypes /\ (a \in refused => teardown[a] = "done")
  BY AttemptFacts
<1>2. StateTypes'
  BY <1>1 DEF StateTypes, Signalled, Settled, CallerAborts
<1>3. LocalStep(a)
  BY <1>1 DEF StateTypes, LocalStep, CallerAborts
<1>4. AttemptInv(a)'
  <2>1. /\ kind'[a] = kind[a] /\ pc'[a] = pc[a] /\ load'[a] = load[a]
        /\ teardown'[a] = teardown[a] /\ machine'[a] = machine[a]
        /\ abort'[a] /\ pc[a] \notin {"none"}
    BY <1>1 DEF StateTypes, Signalled, Settled, CallerAborts
  <2>2. UNCHANGED <<stage, deferred, flushed, refused, factory, awaited>>
    BY DEF  CallerAborts
  <2>3. CreationInv(a)'
    BY <1>1, <2>1, <2>2 DEF AttemptInv, CreationInv, Tracked, Bare, Attached, Stores, Windows, Unpublished
  <2>4. FactoryInv(a)'
    BY <1>1, <2>1, <2>2 DEF AttemptInv, FactoryInv, CreationInv, Tracked, Settled, Windows, Unpublished
  <2>5. a \in refused => RefusedInv(a)'
    <3>1. (Appending(a) <=> Appending(a)')
      BY <1>3, StackKept DEF LocalStep, Appending
    <3> QED
      BY <1>1, <2>1, <2>2, <3>1 DEF AttemptInv, RefusedInv, Attached
  <2>6. a \notin refused => OrderlyInv(a)'
    BY <1>1, <2>1, <2>2 DEF AttemptInv, OrderlyInv, CreationInv, Tracked, Bare, Attached, Stores, Windows, Unpublished
  <2> QED
    BY <1>1, <1>3, <2>1, <2>3, <2>4, <2>5, <2>6, LocalInv DEF Windows
<1> QED
  BY <1>2, <1>3, <1>4, LocalAssembled

LEMMA LoadEndsStep == ASSUME CoreInv, NEW a \in Attempts, LoadEnds(a) PROVE CoreInv'
<1> USE DEF teardownVars, creationVars, StartVars, registryVars, factoryVars, initiatorVars
<1>1. AttemptInv(a) /\ StateTypes /\ (a \in refused => teardown[a] = "done")
  BY AttemptFacts
<1>2. StateTypes'
  BY <1>1 DEF StateTypes, Signalled, Settled, LoadEnds
<1>3. LocalStep(a)
  BY <1>1 DEF StateTypes, LocalStep, LoadEnds
<1>4. AttemptInv(a)'
  <2>0. /\ pc[a] \notin Windows /\ teardown[a] # "leaving"
        /\ a \in refused => ~Attached("agents", a) /\ ~Attached("sessions", a)
    BY QuietFacts DEF LoadEnds
  <2>1. /\ kind'[a] = kind[a] /\ abort'[a] = abort[a]
        /\ teardown'[a] = teardown[a] /\ machine'[a] = machine[a]
        /\ pc[a] = "loading" /\ pc'[a] \in {"listing", "rejected"} /\ (load'[a] \in {"released", load[a]})
        /\ pc'[a] = "listing" => factory = "active"
    BY <1>1 DEF StateTypes, Signalled, Settled, LoadEnds
  <2>2. UNCHANGED <<stage, deferred, flushed, refused, factory, awaited>>
    BY DEF  LoadEnds
  <2>3. CreationInv(a)'
    BY <1>1, <2>1, <2>2, <2>0 DEF AttemptInv, CreationInv, Tracked, Bare, Attached, Stores, Windows, Unpublished
  <2>4. FactoryInv(a)'
    BY <1>1, <2>1, <2>2, <2>0 DEF AttemptInv, FactoryInv, CreationInv, Tracked, Settled, Windows, Unpublished
  <2>5. a \in refused => RefusedInv(a)'
    <3>1. (Appending(a) <=> Appending(a)')
      BY <1>3, StackKept DEF LocalStep, Appending
    <3> QED
      BY <1>1, <2>1, <2>2, <3>1, <2>0 DEF AttemptInv, RefusedInv, Attached
  <2>6. a \notin refused => OrderlyInv(a)'
    BY <1>1, <2>1, <2>2, <2>0 DEF AttemptInv, OrderlyInv, CreationInv, Tracked, Bare, Attached, Stores, Windows, Unpublished
  <2> QED
    BY <1>1, <1>3, <2>1, <2>3, <2>4, <2>5, <2>6, <2>0, LocalInv DEF Windows
<1> QED
  BY <1>2, <1>3, <1>4, LocalAssembled

LEMMA AbandonedLoadEndsStep == ASSUME CoreInv, NEW a \in Attempts, AbandonedLoadEnds(a) PROVE CoreInv'
<1> USE DEF teardownVars, creationVars, StartVars, registryVars, factoryVars, initiatorVars
<1>1. AttemptInv(a) /\ StateTypes /\ (a \in refused => teardown[a] = "done")
  BY AttemptFacts
<1>2. StateTypes'
  BY <1>1 DEF StateTypes, Signalled, Settled, AbandonedLoadEnds
<1>3. LocalStep(a)
  BY <1>1 DEF StateTypes, LocalStep, AbandonedLoadEnds
<1>4. AttemptInv(a)'
  <2>1. /\ kind'[a] = kind[a] /\ pc'[a] = pc[a] /\ abort'[a] = abort[a]
        /\ teardown'[a] = teardown[a] /\ machine'[a] = machine[a]
        /\ load'[a] = "released"
    BY <1>1 DEF StateTypes, Signalled, Settled, AbandonedLoadEnds
  <2>2. UNCHANGED <<stage, deferred, flushed, refused, factory, awaited>>
    BY DEF  AbandonedLoadEnds
  <2>3. CreationInv(a)'
    BY <1>1, <2>1, <2>2 DEF AttemptInv, CreationInv, Tracked, Bare, Attached, Stores, Windows, Unpublished
  <2>4. FactoryInv(a)'
    BY <1>1, <2>1, <2>2 DEF AttemptInv, FactoryInv, CreationInv, Tracked, Settled, Windows, Unpublished
  <2>5. a \in refused => RefusedInv(a)'
    <3>1. (Appending(a) <=> Appending(a)')
      BY <1>3, StackKept DEF LocalStep, Appending
    <3> QED
      BY <1>1, <2>1, <2>2, <3>1 DEF AttemptInv, RefusedInv, Attached
  <2>6. a \notin refused => OrderlyInv(a)'
    BY <1>1, <2>1, <2>2 DEF AttemptInv, OrderlyInv, CreationInv, Tracked, Bare, Attached, Stores, Windows, Unpublished
  <2> QED
    BY <1>1, <1>3, <2>1, <2>3, <2>4, <2>5, <2>6, LocalInv DEF Windows
<1> QED
  BY <1>2, <1>3, <1>4, LocalAssembled

LEMMA RolledBackStep == ASSUME CoreInv, NEW a \in Attempts, RolledBack(a) PROVE CoreInv'
<1> USE DEF teardownVars, creationVars, StartVars, registryVars, factoryVars, initiatorVars
<1>1. AttemptInv(a) /\ StateTypes /\ (a \in refused => teardown[a] = "done")
  BY AttemptFacts
<1>2. StateTypes'
  BY <1>1 DEF StateTypes, Signalled, Settled, RolledBack, Reject
<1>3. LocalStep(a)
  BY <1>1 DEF StateTypes, LocalStep, RolledBack, Reject
<1>4. AttemptInv(a)'
  <2>0. /\ pc[a] \notin Windows /\ teardown[a] # "leaving"
        /\ a \in refused => ~Attached("agents", a) /\ ~Attached("sessions", a)
    BY QuietFacts DEF RolledBack
  <2>1. /\ kind'[a] = kind[a] /\ abort'[a] = abort[a]
        /\ teardown'[a] = teardown[a] /\ machine'[a] = machine[a]
        /\ pc[a] = "failing" /\ pc'[a] = "rejected" /\ load'[a] # "held" /\ teardown[a] = "done"
    BY <1>1 DEF StateTypes, Signalled, Settled, RolledBack, Reject
  <2>2. UNCHANGED <<stage, deferred, flushed, refused, factory, awaited>>
    BY DEF  RolledBack, Reject
  <2>3. CreationInv(a)'
    BY <1>1, <2>1, <2>2, <2>0 DEF AttemptInv, CreationInv, Tracked, Bare, Attached, Stores, Windows, Unpublished
  <2>4. FactoryInv(a)'
    BY <1>1, <2>1, <2>2, <2>0 DEF AttemptInv, FactoryInv, CreationInv, Tracked, Settled, Windows, Unpublished
  <2>5. a \in refused => RefusedInv(a)'
    <3>1. (Appending(a) <=> Appending(a)')
      BY <1>3, StackKept DEF LocalStep, Appending
    <3> QED
      BY <1>1, <2>1, <2>2, <3>1, <2>0 DEF AttemptInv, RefusedInv, Attached
  <2>6. a \notin refused => OrderlyInv(a)'
    BY <1>1, <2>1, <2>2, <2>0 DEF AttemptInv, OrderlyInv, CreationInv, Tracked, Bare, Attached, Stores, Windows, Unpublished
  <2> QED
    BY <1>1, <1>3, <2>1, <2>3, <2>4, <2>5, <2>6, <2>0, LocalInv DEF Windows
<1> QED
  BY <1>2, <1>3, <1>4, LocalAssembled

LEMMA ResumeStep == ASSUME CoreInv, NEW a \in Attempts, Resume(a) PROVE CoreInv'
<1> USE DEF teardownVars, creationVars, StartVars, registryVars, factoryVars, initiatorVars
<1>1. AttemptInv(a) /\ StateTypes /\ (a \in refused => teardown[a] = "done")
  BY AttemptFacts
<1>2. StateTypes'
  BY <1>1 DEF StateTypes, Signalled, Settled, Resume, Asked, Load, Reject
<1>3. LocalStep(a)
  BY <1>1 DEF StateTypes, LocalStep, Resume, Asked, Load, Reject
<1>4. AttemptInv(a)'
  <2>1. /\ kind'[a] = kind[a] /\ abort'[a] = abort[a]
        /\ teardown'[a] = teardown[a] /\ machine'[a] = machine[a]
        /\ pc[a] = "none" /\ pc'[a] \in {"loading", "rejected"} /\ load'[a] # "held" /\ kind[a] = "resume"
        /\ factory \in {"active", "unloading"}
    BY <1>1 DEF StateTypes, Signalled, Settled, Resume, Asked, Load, Reject
  <2>2. UNCHANGED <<stage, deferred, flushed, refused, factory, awaited>>
    BY DEF  Resume, Asked, Load, Reject
  <2>3. CreationInv(a)'
    BY <1>1, <2>1, <2>2 DEF AttemptInv, CreationInv, Tracked, Bare, Attached, Stores, Windows, Unpublished
  <2>4. FactoryInv(a)'
    BY <1>1, <2>1, <2>2 DEF AttemptInv, FactoryInv, CreationInv, Tracked, Settled, Windows, Unpublished
  <2>5. a \in refused => RefusedInv(a)'
    <3>1. (Appending(a) <=> Appending(a)')
      BY <1>3, StackKept DEF LocalStep, Appending
    <3> QED
      BY <1>1, <2>1, <2>2, <3>1 DEF AttemptInv, RefusedInv, Attached
  <2>6. a \notin refused => OrderlyInv(a)'
    BY <1>1, <2>1, <2>2 DEF AttemptInv, OrderlyInv, CreationInv, Tracked, Bare, Attached, Stores, Windows, Unpublished
  <2> QED
    BY <1>1, <1>3, <2>1, <2>3, <2>4, <2>5, <2>6, LocalInv DEF Windows
<1> QED
  BY <1>2, <1>3, <1>4, LocalAssembled

LEMMA RestoreStep == ASSUME CoreInv, NEW a \in Attempts, Restore(a) PROVE CoreInv'
<1> USE DEF teardownVars, creationVars, StartVars, registryVars, factoryVars, initiatorVars
<1>1. AttemptInv(a) /\ StateTypes /\ (a \in refused => teardown[a] = "done")
  BY AttemptFacts
<1>2. StateTypes'
  <2>1. /\ pc' \in [Attempts -> Signalled \cup Settled \cup {"none", "draining", "listing", "failing"}]
        /\ load' \in [Attempts -> {"none", "pending", "held", "released"}]
    <3>1. CASE Load(a)
      BY <1>1, <3>1 DEF StateTypes, Signalled, Load
    <3>2. CASE pc' = [pc EXCEPT ![a] = "draining"] /\ UNCHANGED load
      BY <1>1, <3>2 DEF StateTypes
    <3> QED
      BY <3>1, <3>2 DEF Restore
  <2> QED
    BY <1>1, <2>1 DEF StateTypes, Restore
<1>3. LocalStep(a)
  BY <1>1 DEF StateTypes, LocalStep, Restore, Asked, Load
<1>4. AttemptInv(a)'
  <2>1. /\ kind'[a] = kind[a] /\ abort'[a] = abort[a]
        /\ teardown'[a] = teardown[a] /\ machine'[a] = machine[a]
        /\ pc[a] = "none" /\ pc'[a] \in {"loading", "draining"} /\ load'[a] \in {"pending", load[a]}
        /\ kind[a] = "restore" /\ factory \in {"active", "unloading"}
    BY <1>1 DEF StateTypes, Signalled, Settled, Restore, Asked, Load
  <2>2. UNCHANGED <<stage, deferred, flushed, refused, factory, awaited>>
    BY DEF  Restore, Asked, Load
  <2>3. CreationInv(a)'
    BY <1>1, <2>1, <2>2 DEF AttemptInv, CreationInv, Tracked, Bare, Attached, Stores, Windows, Unpublished
  <2>4. FactoryInv(a)'
    BY <1>1, <2>1, <2>2 DEF AttemptInv, FactoryInv, CreationInv, Tracked, Settled, Windows, Unpublished
  <2>5. a \in refused => RefusedInv(a)'
    <3>1. (Appending(a) <=> Appending(a)')
      BY <1>3, StackKept DEF LocalStep, Appending
    <3> QED
      BY <1>1, <2>1, <2>2, <3>1 DEF AttemptInv, RefusedInv, Attached
  <2>6. a \notin refused => OrderlyInv(a)'
    BY <1>1, <2>1, <2>2 DEF AttemptInv, OrderlyInv, CreationInv, Tracked, Bare, Attached, Stores, Windows, Unpublished
  <2> QED
    BY <1>1, <1>3, <2>1, <2>3, <2>4, <2>5, <2>6, LocalInv DEF Windows
<1> QED
  BY <1>2, <1>3, <1>4, LocalAssembled

LEMMA FormerLeftStep == ASSUME CoreInv, NEW a \in Attempts, FormerLeft(a) PROVE CoreInv'
<1> USE DEF teardownVars, creationVars, StartVars, registryVars, factoryVars, initiatorVars
<1>1. AttemptInv(a) /\ StateTypes /\ (a \in refused => teardown[a] = "done")
  BY AttemptFacts
<1>2. StateTypes'
  <2>1. /\ pc' \in [Attempts -> Signalled \cup Settled \cup {"none", "draining", "listing", "failing"}]
        /\ load' \in [Attempts -> {"none", "pending", "held", "released"}]
    <3>1. CASE Load(a)
      BY <1>1, <3>1 DEF StateTypes, Signalled, Load
    <3>2. CASE Reject(a)
      BY <1>1, <3>2 DEF StateTypes, Settled, Reject
    <3> QED
      BY <3>1, <3>2 DEF FormerLeft
  <2> QED
    BY <1>1, <2>1 DEF StateTypes, FormerLeft
<1>3. LocalStep(a)
  BY <1>1 DEF StateTypes, LocalStep, FormerLeft, Load, Reject
<1>4. AttemptInv(a)'
  <2>1. /\ kind'[a] = kind[a] /\ abort'[a] = abort[a]
        /\ teardown'[a] = teardown[a] /\ machine'[a] = machine[a]
        /\ pc[a] = "draining" /\ pc'[a] \in {"loading", "rejected"} /\ load'[a] # "held"
        /\ pc'[a] = "loading" => factory = "active"
    BY <1>1 DEF StateTypes, Signalled, Settled, FormerLeft, Load, Reject
  <2>2. UNCHANGED <<stage, deferred, flushed, refused, factory, awaited>>
    BY DEF  FormerLeft, Load, Reject
  <2>3. CreationInv(a)'
    BY <1>1, <2>1, <2>2 DEF AttemptInv, CreationInv, Tracked, Bare, Attached, Stores, Windows, Unpublished
  <2>4. FactoryInv(a)'
    BY <1>1, <2>1, <2>2 DEF AttemptInv, FactoryInv, CreationInv, Tracked, Settled, Windows, Unpublished
  <2>5. a \in refused => RefusedInv(a)'
    <3>1. (Appending(a) <=> Appending(a)')
      BY <1>3, StackKept DEF LocalStep, Appending
    <3> QED
      BY <1>1, <2>1, <2>2, <3>1 DEF AttemptInv, RefusedInv, Attached
  <2>6. a \notin refused => OrderlyInv(a)'
    BY <1>1, <2>1, <2>2 DEF AttemptInv, OrderlyInv, CreationInv, Tracked, Bare, Attached, Stores, Windows, Unpublished
  <2> QED
    BY <1>1, <1>3, <2>1, <2>3, <2>4, <2>5, <2>6, LocalInv DEF Windows
<1> QED
  BY <1>2, <1>3, <1>4, LocalAssembled

LEMMA LoadedStep == ASSUME CoreInv, NEW a \in Attempts, Loaded(a) PROVE CoreInv'
<1> USE DEF teardownVars, creationVars, StartVars, registryVars, factoryVars, initiatorVars
<1>1. AttemptInv(a) /\ StateTypes /\ (a \in refused => teardown[a] = "done")
  BY AttemptFacts
<1>every. pc[a] = "loading" /\ UNCHANGED <<StartVars, registryVars, stack, kind>>
  BY DEF Loaded
<1>0. \/ /\ MayPrepare(a) /\ Constructed(a) /\ UNCHANGED <<abort, teardown>>
         /\ pc' = [pc EXCEPT ![a] = "setup"] /\ load' = [load EXCEPT ![a] = "held"]
      \/ /\ MayPrepare(a) /\ Stopping({a}) /\ UNCHANGED machine
         /\ pc' = [pc EXCEPT ![a] = "rejected"] /\ load' = [load EXCEPT ![a] = "released"]
      \/ /\ UNCHANGED <<abort, teardown, machine>>
         /\ pc' = [pc EXCEPT ![a] = "rejected"] /\ load' = [load EXCEPT ![a] = "released"]
  BY <1>1 DEF StateTypes, Loaded
<1>2. StateTypes'
  <2>1. CASE /\ MayPrepare(a) /\ Constructed(a) /\ UNCHANGED <<abort, teardown>>
         /\ pc' = [pc EXCEPT ![a] = "setup"] /\ load' = [load EXCEPT ![a] = "held"]
    BY <1>1, <1>every, <2>1 DEF StateTypes, Signalled, Settled, Constructed, MayPrepare
  <2>2. CASE /\ MayPrepare(a) /\ Stopping({a}) /\ UNCHANGED machine
         /\ pc' = [pc EXCEPT ![a] = "rejected"] /\ load' = [load EXCEPT ![a] = "released"]
    BY <1>1, <1>every, <2>2, StoppingFields DEF StateTypes, Signalled, Settled, MayPrepare
  <2>3. CASE /\ UNCHANGED <<abort, teardown, machine>>
         /\ pc' = [pc EXCEPT ![a] = "rejected"] /\ load' = [load EXCEPT ![a] = "released"]
    BY <1>1, <1>every, <2>3 DEF StateTypes, Signalled, Settled
  <2> QED
    BY <1>0, <2>1, <2>2, <2>3
<1>3. LocalStep(a)
  <2>1. CASE /\ MayPrepare(a) /\ Constructed(a) /\ UNCHANGED <<abort, teardown>>
         /\ pc' = [pc EXCEPT ![a] = "setup"] /\ load' = [load EXCEPT ![a] = "held"]
    <3>1. \A b \in Attempts \ {a} : machine'[b] = machine[b] /\ pc'[b] = pc[b] /\ load'[b] = load[b]
      BY <1>1, <2>1 DEF StateTypes, Constructed
    <3> QED
      BY <1>every, <2>1, <3>1 DEF LocalStep
  <2>2. CASE /\ MayPrepare(a) /\ Stopping({a}) /\ UNCHANGED machine
         /\ pc' = [pc EXCEPT ![a] = "rejected"] /\ load' = [load EXCEPT ![a] = "released"]
    <3>1. \A b \in Attempts \ {a} : pc'[b] = pc[b] /\ load'[b] = load[b]
      BY <1>1, <2>2 DEF StateTypes
    <3> QED
      BY <1>1, <1>every, <2>2, <3>1, StoppingFields DEF LocalStep
  <2>3. CASE /\ UNCHANGED <<abort, teardown, machine>>
         /\ pc' = [pc EXCEPT ![a] = "rejected"] /\ load' = [load EXCEPT ![a] = "released"]
    BY <1>1, <1>every, <2>3 DEF StateTypes, LocalStep
  <2> QED
    BY <1>0, <2>1, <2>2, <2>3
<1>4. AttemptInv(a)'
  <2>1. /\ kind'[a] = kind[a]
        /\ pc[a] = "loading" /\ load'[a] \in {"held", "released"}
        /\ \/ /\ pc'[a] = "setup" /\ machine'[a] = "idle" /\ factory = "active" /\ abort'[a] = abort[a] /\ teardown'[a] = teardown[a]
           \/ /\ pc'[a] = "rejected" /\ load'[a] = "released" /\ machine'[a] = machine[a]
              /\ \/ abort'[a] = abort[a] /\ teardown'[a] = teardown[a]
                 \/ abort'[a] /\ ~abort[a] /\ factory = "active"
                      /\ teardown'[a] = (IF teardown[a] = "none" THEN "stopping" ELSE teardown[a])
    <3>1. CASE /\ MayPrepare(a) /\ Constructed(a) /\ UNCHANGED <<abort, teardown>>
         /\ pc' = [pc EXCEPT ![a] = "setup"] /\ load' = [load EXCEPT ![a] = "held"]
      BY <1>1, <1>every, <3>1 DEF StateTypes, Signalled, Settled, Constructed, MayPrepare
    <3>2. CASE /\ MayPrepare(a) /\ Stopping({a}) /\ UNCHANGED machine
         /\ pc' = [pc EXCEPT ![a] = "rejected"] /\ load' = [load EXCEPT ![a] = "released"]
      BY <1>1, <1>every, <3>2, StoppingFields DEF StateTypes, Signalled, Settled, MayPrepare
    <3>3. CASE /\ UNCHANGED <<abort, teardown, machine>>
         /\ pc' = [pc EXCEPT ![a] = "rejected"] /\ load' = [load EXCEPT ![a] = "released"]
      BY <1>1, <1>every, <3>3 DEF StateTypes, Signalled, Settled
    <3> QED
      BY <1>0, <3>1, <3>2, <3>3
  <2>2. UNCHANGED <<stage, deferred, flushed, refused, factory, awaited>>
    BY <1>every 
  <2>3. CreationInv(a)'
    BY <1>1, <2>1, <2>2 DEF AttemptInv, CreationInv, Tracked, Bare, Attached, Stores, Windows, Unpublished
  <2>4. FactoryInv(a)'
    BY <1>1, <2>1, <2>2 DEF AttemptInv, FactoryInv, CreationInv, Tracked, Settled, Windows, Unpublished
  <2>5. a \in refused => RefusedInv(a)'
    <3>1. (Appending(a) <=> Appending(a)')
      BY <1>3, StackKept DEF LocalStep, Appending
    <3> QED
      BY <1>1, <2>1, <2>2, <3>1 DEF AttemptInv, RefusedInv, Attached
  <2>6. a \notin refused => OrderlyInv(a)'
    BY <1>1, <2>1, <2>2 DEF AttemptInv, OrderlyInv, CreationInv, Tracked, Bare, Attached, Stores, Windows, Unpublished
  <2> QED
    BY <1>1, <1>3, <2>1, <2>3, <2>4, <2>5, <2>6, LocalInv DEF Windows
<1> QED
  BY <1>2, <1>3, <1>4, LocalAssembled

LEMMA OwnerEffectsStep == ASSUME CoreInv, NEW a \in Attempts, OwnerEffects(a) PROVE CoreInv'
<1> USE DEF teardownVars, creationVars, StartVars, registryVars, factoryVars, initiatorVars
<1>1. AttemptInv(a) /\ StateTypes /\ (a \in refused => teardown[a] = "done")
  BY AttemptFacts
<1>every. /\ UNCHANGED <<id, registryVars, stack, creationVars, refused, flushed, machine, factoryVars, initiatorVars>>
          /\ owner' = [owner EXCEPT ![a] = "unloaded"]
  BY DEF OwnerEffects
<1>0. \/ Tracked(a) /\ teardown[a] = "none" /\ Stopping({a})
      \/ abort' = [abort EXCEPT ![a] = TRUE] /\ UNCHANGED teardown
      \/ UNCHANGED <<abort, teardown>>
  <2>1. CASE Tracked(a) /\ teardown[a] = "none"
    BY <2>1 DEF OwnerEffects
  <2>2. CASE ~(Tracked(a) /\ teardown[a] = "none")
    <3> DEFINE loads == pc[a] = "loading"
    <3>1. abort' = [abort EXCEPT ![a] = abort[a] \/ loads] /\ UNCHANGED teardown
      BY <2>2 DEF OwnerEffects
    <3> HIDE DEF loads
    <3>2. (abort[a] \/ loads) = TRUE \/ (abort[a] \/ loads) = abort[a]
      BY <1>1, Zenon DEF StateTypes
    <3>3. abort \in [Attempts -> BOOLEAN]
      BY <1>1 DEF StateTypes
    <3>4. CASE (abort[a] \/ loads) = TRUE
      BY <3>1, <3>4
    <3>5. CASE (abort[a] \/ loads) = abort[a]
      BY <3>1, <3>3, <3>5
    <3> QED
      BY <3>2, <3>4, <3>5
  <2> QED
    BY <2>1, <2>2
<1>2. StateTypes'
  <2>1. CASE Tracked(a) /\ teardown[a] = "none" /\ Stopping({a})
    BY <1>1, <1>every, <2>1, StoppingFields DEF StateTypes, Signalled, Settled
  <2>2. CASE abort' = [abort EXCEPT ![a] = TRUE] /\ UNCHANGED teardown
    BY <1>1, <1>every, <2>2 DEF StateTypes, Signalled, Settled
  <2>3. CASE UNCHANGED <<abort, teardown>>
    BY <1>1, <1>every, <2>3 DEF StateTypes, Signalled, Settled
  <2> QED
    BY <1>0, <2>1, <2>2, <2>3
<1>3. LocalStep(a)
  <2>1. CASE Tracked(a) /\ teardown[a] = "none" /\ Stopping({a})
    BY <1>1, <1>every, <2>1, StoppingFields DEF StateTypes, LocalStep
  <2>2. CASE abort' = [abort EXCEPT ![a] = TRUE] /\ UNCHANGED teardown
    BY <1>1, <1>every, <2>2 DEF StateTypes, LocalStep
  <2>3. CASE UNCHANGED <<abort, teardown>>
    BY <1>1, <1>every, <2>3 DEF StateTypes, LocalStep
  <2> QED
    BY <1>0, <2>1, <2>2, <2>3
<1>4. AttemptInv(a)'
  <2>1. /\ kind'[a] = kind[a] /\ pc'[a] = pc[a]
        /\ load'[a] = load[a] /\ machine'[a] = machine[a]
        /\ abort[a] => abort'[a]
        /\ \/ teardown'[a] = teardown[a]
           \/ Tracked(a) /\ teardown[a] = "none" /\ teardown'[a] = "stopping" /\ abort'[a]
    <3>1. CASE Tracked(a) /\ teardown[a] = "none" /\ Stopping({a})
      BY <1>1, <1>every, <3>1, StoppingFields DEF StateTypes, Signalled, Settled
    <3>2. CASE abort' = [abort EXCEPT ![a] = TRUE] /\ UNCHANGED teardown
      BY <1>1, <1>every, <3>2 DEF StateTypes, Signalled, Settled
    <3>3. CASE UNCHANGED <<abort, teardown>>
      BY <1>1, <1>every, <3>3 DEF StateTypes, Signalled, Settled
    <3> QED
      BY <1>0, <3>1, <3>2, <3>3
  <2>2. UNCHANGED <<stage, deferred, flushed, refused, factory, awaited>>
    BY <1>every 
  <2>3. CreationInv(a)'
    BY <1>1, <2>1, <2>2 DEF AttemptInv, CreationInv, Tracked, Bare, Attached, Stores, Windows, Unpublished
  <2>4. FactoryInv(a)'
    BY <1>1, <2>1, <2>2 DEF AttemptInv, FactoryInv, CreationInv, Tracked, Settled, Windows, Unpublished
  <2>5. a \in refused => RefusedInv(a)'
    <3>1. (Appending(a) <=> Appending(a)')
      BY <1>3, StackKept DEF LocalStep, Appending
    <3> QED
      BY <1>1, <2>1, <2>2, <3>1 DEF AttemptInv, RefusedInv, Attached
  <2>6. a \notin refused => OrderlyInv(a)'
    BY <1>1, <2>1, <2>2 DEF AttemptInv, OrderlyInv, CreationInv, Tracked, Bare, Attached, Stores, Windows, Unpublished
  <2> QED
    BY <1>1, <1>3, <2>1, <2>3, <2>4, <2>5, <2>6, LocalInv DEF Windows
<1> QED
  BY <1>2, <1>3, <1>4, LocalAssembled

LEMMA OwnerUnloadsStep == ASSUME CoreInv, NEW a \in Attempts, OwnerUnloads(a) PROVE CoreInv'
<1> USE DEF teardownVars, creationVars, StartVars, registryVars, factoryVars, initiatorVars
<1>1. AttemptInv(a) /\ StateTypes /\ (a \in refused => teardown[a] = "done")
  BY AttemptFacts
<1>2. StateTypes'
  BY <1>1 DEF StateTypes, Signalled, Settled, OwnerUnloads
<1>3. LocalStep(a)
  BY <1>1 DEF StateTypes, LocalStep, OwnerUnloads
<1>4. AttemptInv(a)'
  <2>1. /\ kind'[a] = kind[a] /\ pc'[a] = pc[a] /\ load'[a] = load[a]
        /\ abort'[a] = abort[a] /\ machine'[a] = machine[a] /\ teardown'[a] = teardown[a]
    BY <1>1 DEF StateTypes, Signalled, Settled, OwnerUnloads
  <2>2. UNCHANGED <<stage, deferred, flushed, refused, factory, awaited>>
    BY DEF  OwnerUnloads
  <2>3. CreationInv(a)'
    BY <1>1, <2>1, <2>2 DEF AttemptInv, CreationInv, Tracked, Bare, Attached, Stores, Windows, Unpublished
  <2>4. FactoryInv(a)'
    BY <1>1, <2>1, <2>2 DEF AttemptInv, FactoryInv, CreationInv, Tracked, Settled, Windows, Unpublished
  <2>5. a \in refused => RefusedInv(a)'
    <3>1. (Appending(a) <=> Appending(a)')
      BY <1>3, StackKept DEF LocalStep, Appending
    <3> QED
      BY <1>1, <2>1, <2>2, <3>1 DEF AttemptInv, RefusedInv, Attached
  <2>6. a \notin refused => OrderlyInv(a)'
    BY <1>1, <2>1, <2>2 DEF AttemptInv, OrderlyInv, CreationInv, Tracked, Bare, Attached, Stores, Windows, Unpublished
  <2> QED
    BY <1>1, <1>3, <2>1, <2>3, <2>4, <2>5, <2>6, LocalInv DEF Windows
<1> QED
  BY <1>2, <1>3, <1>4, LocalAssembled

LEMMA WakeStep == ASSUME CoreInv, NEW a \in Attempts, NEW by \in Callers, Wake(a, by) PROVE CoreInv'
<1> USE DEF teardownVars, creationVars, StartVars, registryVars, factoryVars, initiatorVars
<1>1. AttemptInv(a) /\ StateTypes /\ (a \in refused => teardown[a] = "done")
  BY AttemptFacts
<1>every. /\ machine[a] = "idle" /\ teardown[a] = "none"
          /\ UNCHANGED <<id, registryVars, stack, creationVars, teardownVars, owner, factoryVars, initiators, unloader>>
  BY DEF Wake, Callers
<1>0. \/ /\ initiators = "active" /\ machine' = [machine EXCEPT ![a] = "busy"] /\ by \in Attempts \cup {NoOne}
         /\ boundary' = [boundary EXCEPT ![a] = "counted"] /\ parent' = [parent EXCEPT ![a] = by]
      \/ machine' = [machine EXCEPT ![a] = "stranded"] /\ UNCHANGED <<boundary, parent>>
  BY <1>1 DEF StateTypes, Wake, Callers
<1>2. StateTypes'
  <2>1. CASE /\ initiators = "active" /\ machine' = [machine EXCEPT ![a] = "busy"] /\ by \in Attempts \cup {NoOne}
         /\ boundary' = [boundary EXCEPT ![a] = "counted"] /\ parent' = [parent EXCEPT ![a] = by]
    BY <1>1, <1>every, <2>1 DEF StateTypes, Signalled, Settled
  <2>2. CASE machine' = [machine EXCEPT ![a] = "stranded"] /\ UNCHANGED <<boundary, parent>>
    BY <1>1, <1>every, <2>2 DEF StateTypes, Signalled, Settled
  <2> QED
    BY <1>0, <2>1, <2>2
<1>3. LocalStep(a)
  <2>1. CASE /\ initiators = "active" /\ machine' = [machine EXCEPT ![a] = "busy"] /\ by \in Attempts \cup {NoOne}
         /\ boundary' = [boundary EXCEPT ![a] = "counted"] /\ parent' = [parent EXCEPT ![a] = by]
    BY <1>1, <1>every, <2>1 DEF StateTypes, LocalStep
  <2>2. CASE machine' = [machine EXCEPT ![a] = "stranded"] /\ UNCHANGED <<boundary, parent>>
    BY <1>1, <1>every, <2>2 DEF StateTypes, LocalStep
  <2> QED
    BY <1>0, <2>1, <2>2
<1>4. AttemptInv(a)'
  <2>1. /\ kind'[a] = kind[a] /\ pc'[a] = pc[a] /\ load'[a] = load[a]
        /\ abort'[a] = abort[a] /\ teardown'[a] = teardown[a]
        /\ machine[a] = "idle" /\ machine'[a] \in {"busy", "stranded"} /\ teardown[a] = "none"
    <3>1. CASE /\ initiators = "active" /\ machine' = [machine EXCEPT ![a] = "busy"] /\ by \in Attempts \cup {NoOne}
         /\ boundary' = [boundary EXCEPT ![a] = "counted"] /\ parent' = [parent EXCEPT ![a] = by]
      BY <1>1, <1>every, <3>1 DEF StateTypes, Signalled, Settled
    <3>2. CASE machine' = [machine EXCEPT ![a] = "stranded"] /\ UNCHANGED <<boundary, parent>>
      BY <1>1, <1>every, <3>2 DEF StateTypes, Signalled, Settled
    <3> QED
      BY <1>0, <3>1, <3>2
  <2>2. UNCHANGED <<stage, deferred, flushed, refused, factory, awaited>>
    BY <1>every 
  <2>3. CreationInv(a)'
    BY <1>1, <2>1, <2>2 DEF AttemptInv, CreationInv, Tracked, Bare, Attached, Stores, Windows, Unpublished
  <2>4. FactoryInv(a)'
    BY <1>1, <2>1, <2>2 DEF AttemptInv, FactoryInv, CreationInv, Tracked, Settled, Windows, Unpublished
  <2>5. a \in refused => RefusedInv(a)'
    <3>1. (Appending(a) <=> Appending(a)')
      BY <1>3, StackKept DEF LocalStep, Appending
    <3> QED
      BY <1>1, <2>1, <2>2, <3>1 DEF AttemptInv, RefusedInv, Attached
  <2>6. a \notin refused => OrderlyInv(a)'
    BY <1>1, <2>1, <2>2 DEF AttemptInv, OrderlyInv, CreationInv, Tracked, Bare, Attached, Stores, Windows, Unpublished
  <2> QED
    BY <1>1, <1>3, <2>1, <2>3, <2>4, <2>5, <2>6, LocalInv DEF Windows
<1> QED
  BY <1>2, <1>3, <1>4, LocalAssembled

LEMMA ConvergesStep == ASSUME CoreInv, NEW a \in Attempts, Converges(a) PROVE CoreInv'
<1> USE DEF teardownVars, creationVars, StartVars, registryVars, factoryVars, initiatorVars
<1>1. AttemptInv(a) /\ StateTypes /\ (a \in refused => teardown[a] = "done")
  BY AttemptFacts
<1>2. StateTypes'
  BY <1>1 DEF StateTypes, Signalled, Settled, Converges
<1>3. LocalStep(a)
  BY <1>1 DEF StateTypes, LocalStep, Converges
<1>4. AttemptInv(a)'
  <2>1. /\ kind'[a] = kind[a] /\ pc'[a] = pc[a] /\ load'[a] = load[a]
        /\ abort'[a] = abort[a] /\ teardown'[a] = teardown[a]
        /\ machine[a] = "busy" /\ machine'[a] = "idle"
    BY <1>1 DEF StateTypes, Signalled, Settled, Converges
  <2>2. UNCHANGED <<stage, deferred, flushed, refused, factory, awaited>>
    BY DEF  Converges
  <2>3. CreationInv(a)'
    BY <1>1, <2>1, <2>2 DEF AttemptInv, CreationInv, Tracked, Bare, Attached, Stores, Windows, Unpublished
  <2>4. FactoryInv(a)'
    BY <1>1, <2>1, <2>2 DEF AttemptInv, FactoryInv, CreationInv, Tracked, Settled, Windows, Unpublished
  <2>5. a \in refused => RefusedInv(a)'
    <3>1. (Appending(a) <=> Appending(a)')
      BY <1>3, StackKept DEF LocalStep, Appending
    <3> QED
      BY <1>1, <2>1, <2>2, <3>1 DEF AttemptInv, RefusedInv, Attached
  <2>6. a \notin refused => OrderlyInv(a)'
    BY <1>1, <2>1, <2>2 DEF AttemptInv, OrderlyInv, CreationInv, Tracked, Bare, Attached, Stores, Windows, Unpublished
  <2> QED
    BY <1>1, <1>3, <2>1, <2>3, <2>4, <2>5, <2>6, LocalInv DEF Windows
<1> QED
  BY <1>2, <1>3, <1>4, LocalAssembled

LEMMA CreateStep == ASSUME CoreInv, NEW a \in Attempts, Create(a) PROVE CoreInv'
<1> USE DEF teardownVars, creationVars, StartVars, registryVars, factoryVars, initiatorVars
<1>1. AttemptInv(a) /\ StateTypes /\ (a \in refused => teardown[a] = "done")
  BY AttemptFacts
<1>every. /\ pc[a] = "none" /\ factory \in {"active", "unloading"}
          /\ UNCHANGED <<StartVars, kind, registryVars, stack>>
  BY DEF Create, Asked, ConstructionFails, Constructed
<1>0. \/ /\ MayPrepare(a) /\ Constructed(a) /\ pc' = [pc EXCEPT ![a] = "setup"]
         /\ UNCHANGED <<registryVars, stack, load, abort, teardown>>
      \/ MayPrepare(a) /\ Stopping({a}) /\ Reject(a) /\ UNCHANGED <<machine, registryVars, stack>>
      \/ Reject(a) /\ UNCHANGED <<registryVars, stack, machine, abort, teardown>>
  BY <1>1 DEF StateTypes, Create, Asked, ConstructionFails, Constructed
<1>2. StateTypes'
  <2>1. CASE /\ MayPrepare(a) /\ Constructed(a) /\ pc' = [pc EXCEPT ![a] = "setup"]
         /\ UNCHANGED <<registryVars, stack, load, abort, teardown>>
    BY <1>1, <1>every, <2>1 DEF StateTypes, Signalled, Settled, Constructed, MayPrepare
  <2>2. CASE MayPrepare(a) /\ Stopping({a}) /\ Reject(a) /\ UNCHANGED <<machine, registryVars, stack>>
    BY <1>1, <1>every, <2>2, StoppingFields DEF StateTypes, Signalled, Settled, MayPrepare, Reject
  <2>3. CASE Reject(a) /\ UNCHANGED <<registryVars, stack, machine, abort, teardown>>
    BY <1>1, <1>every, <2>3 DEF StateTypes, Signalled, Settled, Reject
  <2> QED
    BY <1>0, <2>1, <2>2, <2>3
<1>3. LocalStep(a)
  <2>1. CASE /\ MayPrepare(a) /\ Constructed(a) /\ pc' = [pc EXCEPT ![a] = "setup"]
         /\ UNCHANGED <<registryVars, stack, load, abort, teardown>>
    <3>1. \A b \in Attempts \ {a} : machine'[b] = machine[b] /\ pc'[b] = pc[b] /\ load'[b] = load[b]
      BY <1>1, <2>1 DEF StateTypes, Constructed
    <3> QED
      BY <1>every, <2>1, <3>1 DEF LocalStep
  <2>2. CASE MayPrepare(a) /\ Stopping({a}) /\ Reject(a) /\ UNCHANGED <<machine, registryVars, stack>>
    <3>1. \A b \in Attempts \ {a} : pc'[b] = pc[b] /\ load'[b] = load[b]
      BY <1>1, <2>2 DEF StateTypes, Reject
    <3> QED
      BY <1>1, <1>every, <2>2, <3>1, StoppingFields DEF LocalStep
  <2>3. CASE Reject(a) /\ UNCHANGED <<registryVars, stack, machine, abort, teardown>>
    BY <1>1, <1>every, <2>3 DEF StateTypes, LocalStep, Reject
  <2> QED
    BY <1>0, <2>1, <2>2, <2>3
<1>4. AttemptInv(a)'
  <2>1. /\ kind'[a] = kind[a]
        /\ pc[a] = "none" /\ (load'[a] = load[a] \/ load'[a] # "held")
        /\ \/ /\ pc'[a] = "setup" /\ machine'[a] = "idle" /\ factory = "active" /\ abort'[a] = abort[a] /\ teardown'[a] = teardown[a]
           \/ /\ pc'[a] = "rejected" /\ machine'[a] = machine[a]
              /\ \/ abort'[a] = abort[a] /\ teardown'[a] = teardown[a]
                 \/ abort'[a] /\ ~abort[a] /\ factory = "active"
                      /\ teardown'[a] = (IF teardown[a] = "none" THEN "stopping" ELSE teardown[a])
    <3>1. CASE /\ MayPrepare(a) /\ Constructed(a) /\ pc' = [pc EXCEPT ![a] = "setup"]
         /\ UNCHANGED <<registryVars, stack, load, abort, teardown>>
      BY <1>1, <1>every, <3>1 DEF StateTypes, Signalled, Settled, Constructed, MayPrepare
    <3>2. CASE MayPrepare(a) /\ Stopping({a}) /\ Reject(a) /\ UNCHANGED <<machine, registryVars, stack>>
      BY <1>1, <1>every, <3>2, StoppingFields DEF StateTypes, Signalled, Settled, MayPrepare, Reject
    <3>3. CASE Reject(a) /\ UNCHANGED <<registryVars, stack, machine, abort, teardown>>
      BY <1>1, <1>every, <3>3 DEF StateTypes, Signalled, Settled, Reject
    <3> QED
      BY <1>0, <3>1, <3>2, <3>3
  <2>2. UNCHANGED <<stage, deferred, flushed, refused, factory, awaited>>
    BY <1>every 
  <2>3. CreationInv(a)'
    BY <1>1, <2>1, <2>2 DEF AttemptInv, CreationInv, Tracked, Bare, Attached, Stores, Windows, Unpublished
  <2>4. FactoryInv(a)'
    BY <1>1, <2>1, <2>2 DEF AttemptInv, FactoryInv, CreationInv, Tracked, Settled, Windows, Unpublished
  <2>5. a \in refused => RefusedInv(a)'
    <3>1. (Appending(a) <=> Appending(a)')
      BY <1>3, StackKept DEF LocalStep, Appending
    <3> QED
      BY <1>1, <2>1, <2>2, <3>1 DEF AttemptInv, RefusedInv, Attached
  <2>6. a \notin refused => OrderlyInv(a)'
    BY <1>1, <2>1, <2>2 DEF AttemptInv, OrderlyInv, CreationInv, Tracked, Bare, Attached, Stores, Windows, Unpublished
  <2> QED
    BY <1>1, <1>3, <2>1, <2>3, <2>4, <2>5, <2>6, LocalInv DEF Windows
<1> QED
  BY <1>2, <1>3, <1>4, LocalAssembled

-----------------------------------------------------------------------------
(* Steps of an attempt that touch the registries or the stack.             *)

\* What such a step leaves alone.
ElsewhereKept(h) ==
  /\ \A k \in Holders \ {h}, s \in Stores :
       stage'[s][k] = stage[s][k] /\ (<<s, k>> \in deferred' <=> <<s, k>> \in deferred)
  /\ \A op : \A k \in Holders \ {h} : Delivering(op, k)' <=> Delivering(op, k)
CreationsKept(a) ==
  /\ \A b \in Attempts \ {a} :
       /\ kind'[b] = kind[b] /\ pc'[b] = pc[b] /\ load'[b] = load[b] /\ abort'[b] = abort[b]
       /\ machine'[b] = machine[b] /\ teardown'[b] = teardown[b]
       /\ (b \in refused' <=> b \in refused) /\ (b \in flushed' <=> b \in flushed)
  /\ UNCHANGED factoryVars

LEMMA AttemptAssembled ==
  ASSUME CoreInv, StateTypes', StackTypes', StackInv', NEW a \in Attempts,
         ElsewhereKept(a), CreationsKept(a),
         DeliveryInv(a)', CreationInv(a)', FactoryInv(a)',
         a \in refused' => RefusedInv(a)', a \notin refused' => OrderlyInv(a)'
  PROVE  CoreInv'
<1>1. AttemptInv(a)'
  BY DEF AttemptInv
<1>2. Others(a)
  BY DEF Others, ElsewhereKept, CreationsKept, Kept, KeptGuest, Holders
<1>3. a \in Holders /\ a \notin Guests
  BY LifecycleAssumption DEF Holders
<1> QED
  BY <1>1, <1>2, <1>3, Assembled

\* Publishing what was prepared.
LEMMA PublishStep ==
  ASSUME CoreInv, NEW a \in Attempts, NEW after, Publish(a, after),
         UNCHANGED StartVars, pc[a] \in {"none", "listing", "setup"},
         machine' = [machine EXCEPT ![a] = "idle"] \/ (pc[a] = "setup" /\ UNCHANGED machine),
         \/ pc[a] = "setup"
         \/ ~abort[a] /\ Free("sessions", id[a]) /\ factory \notin {"disposing", "disposed"},
         \/ after = "failing" /\ pc[a] = "setup" /\ UNCHANGED kind
         \/ after = "rejected" /\ pc[a] # "setup" /\ kind'[a] = "config"
              /\ kind' = [kind EXCEPT ![a] = "config"]
  PROVE  CoreInv'
<1> USE DEF StartVars, registryVars, factoryVars, initiatorVars
<1>1. AttemptInv(a) /\ StateTypes /\ a \in Holders /\ (a \in refused => teardown[a] = "done")
  BY AttemptFacts
<1>2. /\ \A s \in Stores : stage[s][a] = "out"
      /\ ~Delivering("publish", a) /\ (Delivering("leaving", a) <=> teardown[a] = "leaving")
      /\ load[a] = "held" => pc[a] = "setup" /\ kind[a] \in {"resume", "restore"}
      /\ teardown[a] # "none" => abort[a]
  BY <1>1 DEF AttemptInv, DeliveryInv, CreationInv, Bare, Windows, Unpublished
<1>3. /\ machine' \in [Attempts -> {"none", "idle", "busy", "stranded"}] /\ machine'[a] # "none"
      /\ pc[a] = "setup" \/ machine'[a] = "idle"
      /\ machine'[a] = "idle" \/ machine'[a] = machine[a]
      /\ \A b \in Attempts \ {a} : machine'[b] = machine[b]
      /\ kind' \in [Holders -> Kinds] /\ \A b \in Attempts \ {a} : kind'[b] = kind[b]
      /\ load[a] = "held" => kind'[a] = kind[a]
  <2>1. Tracked(a) \/ pc[a] # "setup"
    BY <1>1 DEF AttemptInv, CreationInv
  <2>2. /\ machine' \in [Attempts -> {"none", "idle", "busy", "stranded"}] /\ machine'[a] # "none"
        /\ pc[a] = "setup" \/ machine'[a] = "idle"
        /\ machine'[a] = "idle" \/ machine'[a] = machine[a]
        /\ \A b \in Attempts \ {a} : machine'[b] = machine[b]
    BY <1>1, <2>1 DEF StateTypes, Tracked
  <2>3. kind' \in [Holders -> Kinds] /\ \A b \in Attempts \ {a} : kind'[b] = kind[b]
    BY <1>1 DEF StateTypes, Holders, Kinds
  <2>4. load[a] = "held" => kind'[a] = kind[a]
    BY <1>2
  <2> QED
    BY <2>2, <2>3, <2>4
<1>4. CASE /\ ~abort[a] /\ UNCHANGED <<deferred, load, abort, teardown>> /\ Push("publish", a)
           /\ stage' = [stage EXCEPT !["sessions"][a] = "announcing", !["agents"][a] = "entered"]
           /\ pc' = [pc EXCEPT ![a] = "sessionWindow"]
  <2>1. /\ StackTypes' /\ StackInv'
        /\ \A o, k : Delivering(o, k)' <=> Delivering(o, k) \/ (o = "publish" /\ k = a)
    <3>1. <<"publish", a>> \in Frames /\ <<"publish", a>> \notin Leavings
      BY DEF Frames, Leavings
    <3>2. stack \in Seq(Frames) /\ StackInv /\ Len(stack) < MaxDepth /\ stack' = <<Frame("publish", a)>> \o stack
      BY <1>4 DEF CoreInv, StackTypes, Push
    <3>3. Len(stack') = Len(stack) + 1
      BY <3>1, <3>2, PushFields DEF Frame
    <3>4. Len(stack') <= MaxDepth + 1
      BY <3>2, <3>3, LifecycleAssumption, LenProperties
    <3> QED
      BY <1>2, <3>1, <3>2, <3>4, Pushed DEF StackTypes
  <2>2. StateTypes'
    <3> DEFINE Entered == [stage["sessions"] EXCEPT ![a] = "announcing"]
               Announced == [stage["agents"] EXCEPT ![a] = "entered"]
               Stage == [Holders -> {"out", "entered", "announcing", "announced", "disposed", "dropped"}]
    <3>1. Entered \in Stage /\ Announced \in Stage /\ stage \in [Stores -> Stage]
      BY <1>1 DEF StateTypes, Stores
    <3>2. stage' = [stage EXCEPT !["sessions"] = Entered, !["agents"] = Announced]
      BY <1>1, <1>4 DEF StateTypes, Stores
    <3> HIDE DEF Entered, Announced, Stage
    <3>3. stage' \in [Stores -> Stage]
      BY <3>1, <3>2
    <3>4. pc' \in [Attempts -> Signalled \cup Settled \cup {"none", "draining", "listing", "failing"}]
      BY <1>1, <1>4 DEF StateTypes, Signalled
    <3> QED
      BY <1>1, <1>3, <1>4, <3>3, <3>4 DEF StateTypes, Stage
  <2>3. /\ stage'["sessions"][a] = "announcing" /\ stage'["agents"][a] = "entered" /\ pc'[a] = "sessionWindow"
        /\ \A k \in Holders \ {a}, s \in Stores : stage'[s][k] = stage[s][k]
        /\ \A b \in Attempts \ {a} : pc'[b] = pc[b]
    BY <1>1, <1>4 DEF StateTypes, Stores
  <2>4. ElsewhereKept(a) /\ CreationsKept(a)
    BY <1>3, <1>4, <2>1, <2>3 DEF ElsewhereKept, CreationsKept
  <2>5. teardown[a] = "none" /\ a \notin refused /\ teardown'[a] = "none" /\ factory \notin {"disposing", "disposed"}
    BY <1>1, <1>2, <1>4 DEF AttemptInv, FactoryInv, Settled
  <2>6. DeliveryInv(a)'
    BY <1>2, <2>1, <2>3, <2>5 DEF DeliveryInv, Windows
  <2>7. CreationInv(a)'
    BY <1>2, <1>3, <1>4, <2>3, <2>5 DEF CreationInv, Windows, Unpublished, Tracked
  <2>8. FactoryInv(a)'
    BY <2>5 DEF FactoryInv, factoryVars
  <2>9. OrderlyInv(a)'
    BY <1>1, <1>4, <2>3, <2>5 DEF AttemptInv, OrderlyInv, Attached
  <2> QED
    BY <2>1, <2>2, <2>4, <2>5, <2>6, <2>7, <2>8, <2>9, AttemptAssembled
<1>5. CASE /\ RollBack(a, after) /\ UNCHANGED <<deferred, stack>>
           /\ \/ ~abort[a] /\ stage' = [stage EXCEPT !["sessions"][a] = "entered"]
              \/ pc[a] = "setup" /\ UNCHANGED stage
  <2>1. StackTypes' /\ StackInv' /\ \A o, k : Delivering(o, k)' <=> Delivering(o, k)
    BY <1>5, StackKept
  <2>2. /\ abort' \in [Attempts -> BOOLEAN] /\ abort'[a]
        /\ teardown' \in [Attempts -> {"none", "stopping", "unwinding", "flushing", "leaving", "done"}]
        /\ teardown'[a] = (IF teardown[a] = "none" THEN "stopping" ELSE teardown[a])
        /\ \A b \in Attempts \ {a} : abort'[b] = abort[b] /\ teardown'[b] = teardown[b]
        /\ UNCHANGED load /\ pc' = [pc EXCEPT ![a] = after] /\ after \in {"rejected", "failing"}
    BY <1>1, <1>5, StoppingFields DEF RollBack
  <2>3. /\ stage' \in [Stores -> [Holders -> {"out", "entered", "announcing", "announced", "disposed", "dropped"}]]
        /\ stage'["agents"][a] = "out" /\ stage'["sessions"][a] \in {"out", "entered"}
        /\ stage'["sessions"][a] = "entered" => ~abort[a]
        /\ \A k \in Holders \ {a}, s \in Stores : stage'[s][k] = stage[s][k]
    BY <1>1, <1>2, <1>5 DEF StateTypes, Stores
  <2>4. StateTypes'
    BY <1>1, <1>3, <1>5, <2>2, <2>3 DEF StateTypes, Settled
  <2>5. ElsewhereKept(a) /\ CreationsKept(a) /\ pc'[a] = after
    BY <1>1, <1>3, <1>5, <2>1, <2>2, <2>3 DEF ElsewhereKept, CreationsKept, StateTypes
  <2>6. DeliveryInv(a)'
    BY <1>2, <2>1, <2>2, <2>3, <2>5 DEF DeliveryInv, Windows
  <2>7. CreationInv(a)'
    BY <1>2, <1>3, <1>5, <2>2, <2>3, <2>5 DEF CreationInv, Windows, Unpublished, Tracked
  <2>8. FactoryInv(a)'
    BY <1>1, <2>2, <2>5 DEF AttemptInv, FactoryInv, factoryVars, Settled
  <2>9. a \in refused' => RefusedInv(a)'
    BY <1>1, <1>2, <2>2, <2>3 DEF AttemptInv, RefusedInv, Attached
  <2>10. a \notin refused' => OrderlyInv(a)'
    BY <1>1, <1>2, <1>3, <1>5, <2>2, <2>3, <2>5 DEF AttemptInv, OrderlyInv, Attached, Windows
  <2> QED
    BY <2>1, <2>4, <2>5, <2>6, <2>7, <2>8, <2>9, <2>10, AttemptAssembled
<1> QED
  <2>1. \/ /\ ~abort[a] /\ stage' = [stage EXCEPT !["sessions"][a] = "announcing", !["agents"][a] = "entered"]
           /\ pc' = [pc EXCEPT ![a] = "sessionWindow"] /\ Push("publish", a)
           /\ UNCHANGED <<deferred, load, abort, teardown>>
        \/ /\ ~abort[a] /\ stage' = [stage EXCEPT !["sessions"][a] = "entered"]
           /\ RollBack(a, after) /\ UNCHANGED <<deferred, stack>>
        \/ /\ abort[a] \/ ~Free("sessions", id[a])
           /\ RollBack(a, after) /\ UNCHANGED <<registryVars, stack>>
    BY Zenon DEF Publish
  <2> HIDE DEF Publish
  <2> QED
    BY <1>4, <1>5, <2>1

\* A creation rejected before anything was published, with a driver's
\* construction that threw or without.
LEMMA RejectStep ==
  ASSUME CoreInv, NEW a \in Attempts, Reject(a), UNCHANGED <<StartVars, registryVars, stack, machine>>,
         pc[a] \in {"none", "listing"}, UNCHANGED kind \/ kind' = [kind EXCEPT ![a] = "config"],
         pc[a] = "listing" \/ factory \notin {"disposing", "disposed"},
         (Stopping({a}) /\ factory = "active") \/ UNCHANGED <<abort, teardown>>
  PROVE  CoreInv'
<1> USE DEF StartVars, registryVars, factoryVars, initiatorVars
<1>1. AttemptInv(a) /\ StateTypes /\ a \in Holders /\ (a \in refused => teardown[a] = "done")
  BY AttemptFacts
<1>2. /\ abort' \in [Attempts -> BOOLEAN]
      /\ teardown' \in [Attempts -> {"none", "stopping", "unwinding", "flushing", "leaving", "done"}]
      /\ \A b \in Attempts \ {a} : abort'[b] = abort[b] /\ teardown'[b] = teardown[b]
      /\ \/ abort'[a] = abort[a] /\ teardown'[a] = teardown[a]
         \/ /\ abort'[a] /\ factory = "active"
            /\ teardown'[a] = (IF teardown[a] = "none" THEN "stopping" ELSE teardown[a])
  <2>1. CASE Stopping({a}) /\ factory = "active"
    BY <1>1, <2>1, StoppingFields
  <2>2. CASE UNCHANGED <<abort, teardown>>
    BY <1>1, <2>2 DEF StateTypes
  <2> QED
    BY <2>1, <2>2
<1>3. /\ kind' \in [Holders -> Kinds] /\ \A b \in Attempts \ {a} : kind'[b] = kind[b]
      /\ load' \in [Attempts -> {"none", "pending", "held", "released"}] /\ load'[a] # "held"
      /\ \A b \in Attempts \ {a} : load'[b] = load[b]
      /\ pc' = [pc EXCEPT ![a] = "rejected"] /\ pc'[a] = "rejected"
  <2>1. kind' \in [Holders -> Kinds] /\ \A b \in Attempts \ {a} : kind'[b] = kind[b]
    <3>1. kind \in [Holders -> Kinds] /\ "config" \in Kinds
      BY <1>1 DEF StateTypes, Kinds
    <3>2. \A b \in Attempts \ {a} : b \in Holders /\ b # a
      BY DEF Holders
    <3>3. CASE UNCHANGED kind
      BY <3>1, <3>3
    <3>4. CASE kind' = [kind EXCEPT ![a] = "config"]
      BY <3>1, <3>2, <3>4
    <3> QED
      BY <3>3, <3>4
  <2>2. /\ load' \in [Attempts -> {"none", "pending", "held", "released"}] /\ load'[a] # "held"
        /\ \A b \in Attempts \ {a} : load'[b] = load[b]
        /\ pc' = [pc EXCEPT ![a] = "rejected"] /\ pc'[a] = "rejected"
    BY <1>1 DEF StateTypes, Reject
  <2> QED
    BY <2>1, <2>2
<1>4. StateTypes'
  BY <1>1, <1>2, <1>3 DEF StateTypes, Settled
<1>5. LocalStep(a)
  BY <1>1, <1>2, <1>3 DEF LocalStep, StateTypes
<1>6. machine[a] = "none" /\ Bare(a)
  BY <1>1 DEF AttemptInv, CreationInv, Unpublished
<1>7. CreationInv(a)'
  BY <1>1, <1>2, <1>3, <1>6 DEF AttemptInv, CreationInv, Bare, Tracked, Windows, Unpublished
<1>8. FactoryInv(a)'
  BY <1>1, <1>2, <1>3, <1>6 DEF AttemptInv, FactoryInv, Tracked, Settled
<1>9. a \in refused => RefusedInv(a)'
  BY <1>1, <1>2, <1>6 DEF AttemptInv, RefusedInv, Attached, Bare, Stores
<1>10. a \notin refused => OrderlyInv(a)'
  BY <1>1, <1>2, <1>3, <1>6 DEF AttemptInv, OrderlyInv, Attached, Bare, Stores, Windows
<1>11. teardown'[a] = "leaving" <=> teardown[a] = "leaving"
  BY <1>2
<1>12. AttemptInv(a)'
  BY <1>3, <1>5, <1>7, <1>8, <1>9, <1>10, <1>11, LocalInv DEF Windows
<1> QED
  BY <1>4, <1>5, <1>12, LocalAssembled

LEMMA CreateAtOnceStep ==
  ASSUME CoreInv, NEW a \in Attempts, CreateAtOnce(a), UNCHANGED StartVars,
         kind' = [kind EXCEPT ![a] = "config"], pc[a] \in {"none", "listing"},
         pc[a] = "listing" \/ factory \notin {"disposing", "disposed"}
  PROVE  CoreInv'
<1>1. StateTypes /\ a \in Holders
  BY AttemptFacts
<1>2. CASE Free("sessions", id[a]) /\ MayPrepare(a) /\ Constructed(a) /\ Publish(a, "rejected")
  <2>1. ~abort[a] /\ Free("sessions", id[a]) /\ factory = "active" /\ machine' = [machine EXCEPT ![a] = "idle"]
    BY <1>2 DEF MayPrepare, Constructed
  <2>2. kind'[a] = "config"
    BY <1>1 DEF StateTypes
  <2> HIDE DEF Publish, StartVars
  <2> QED
    BY <1>2, <2>1, <2>2, PublishStep
<1>3. CASE MayPrepare(a) /\ ConstructionFails(a)
  BY <1>3, RejectStep DEF MayPrepare, ConstructionFails, registryVars
<1>4. CASE Reject(a) /\ UNCHANGED <<registryVars, stack, machine, abort, teardown>>
  BY <1>4, RejectStep DEF registryVars
<1> QED
  BY <1>2, <1>3, <1>4 DEF CreateAtOnce

LEMMA CreateConfiguredStep == ASSUME CoreInv, NEW a \in Attempts, CreateConfigured(a) PROVE CoreInv'
<1>1. StateTypes /\ a \in Holders
  BY AttemptFacts
<1>2. pc[a] = "none" /\ kind[a] = "config" /\ factory \notin {"disposing", "disposed"} /\ UNCHANGED <<StartVars, kind>>
  BY DEF CreateConfigured, Asked
<1>3. kind' = [kind EXCEPT ![a] = "config"]
  BY <1>1, <1>2 DEF StateTypes
<1>4. CreateAtOnce(a)
  BY DEF CreateConfigured
<1> QED
  BY <1>2, <1>3, <1>4, CreateAtOnceStep

LEMMA ListedStep == ASSUME CoreInv, NEW a \in Attempts, NEW exists, Listed(a, exists) PROVE CoreInv'
<1>1. CASE exists
  BY <1>1, RejectStep DEF Listed
<1>2. CASE ~exists
  BY <1>2, CreateAtOnceStep DEF Listed
<1> QED
  BY <1>1, <1>2

LEMMA RollBackStep ==
  ASSUME CoreInv, NEW a \in Attempts, pc[a] = "setup", RollBack(a, "failing"),
         UNCHANGED <<StartVars, registryVars, stack, kind, machine>>
  PROVE  CoreInv'
<1> USE DEF StartVars, registryVars, factoryVars, initiatorVars
<1>1. AttemptInv(a) /\ StateTypes /\ a \in Holders /\ (a \in refused => teardown[a] = "done")
  BY AttemptFacts
<1>2. /\ abort' \in [Attempts -> BOOLEAN] /\ abort'[a]
      /\ teardown' \in [Attempts -> {"none", "stopping", "unwinding", "flushing", "leaving", "done"}]
      /\ teardown'[a] = (IF teardown[a] = "none" THEN "stopping" ELSE teardown[a])
      /\ \A b \in Attempts \ {a} : abort'[b] = abort[b] /\ teardown'[b] = teardown[b]
      /\ UNCHANGED load /\ pc' = [pc EXCEPT ![a] = "failing"] /\ pc'[a] = "failing"
  BY <1>1, StoppingFields DEF RollBack, StateTypes
<1>3. StateTypes'
  BY <1>1, <1>2 DEF StateTypes
<1>4. LocalStep(a)
  BY <1>1, <1>2 DEF LocalStep, StateTypes
<1>5. CreationInv(a)'
  BY <1>1, <1>2 DEF AttemptInv, CreationInv, Bare, Tracked, Windows, Unpublished
<1>6. FactoryInv(a)'
  BY <1>1, <1>2 DEF AttemptInv, FactoryInv, Tracked, Settled
<1>7. a \in refused => RefusedInv(a)'
  BY <1>1, <1>2 DEF AttemptInv, RefusedInv, CreationInv, Attached, Bare, Stores, Unpublished
<1>8. a \notin refused => OrderlyInv(a)'
  BY <1>1, <1>2 DEF AttemptInv, OrderlyInv, CreationInv, Attached, Bare, Stores, Windows, Unpublished
<1>9. teardown'[a] = "leaving" <=> teardown[a] = "leaving"
  BY <1>2
<1>10. AttemptInv(a)'
  BY <1>2, <1>4, <1>5, <1>6, <1>7, <1>8, <1>9, LocalInv DEF Windows
<1> QED
  BY <1>3, <1>4, <1>10, LocalAssembled

LEMMA SetupEndsStep == ASSUME CoreInv, NEW a \in Attempts, NEW ok \in BOOLEAN, SetupEnds(a, ok) PROVE CoreInv'
<1>1. pc[a] = "setup" /\ UNCHANGED <<StartVars, kind, machine>>
  BY DEF SetupEnds
<1>2. CASE ok
  <2>1. Publish(a, "failing")
    BY <1>2 DEF SetupEnds
  <2> HIDE DEF Publish, StartVars
  <2> QED
    BY <1>1, <2>1, PublishStep
<1>3. CASE ~ok
  BY <1>1, <1>3, RollBackStep DEF SetupEnds
<1> QED
  BY <1>2, <1>3

LEMMA PushTypes ==
  ASSUME CoreInv, NEW op, NEW h, <<op, h>> \in Frames \ Leavings, ~Delivering(op, h), Push(op, h)
  PROVE  /\ StackTypes' /\ StackInv'
         /\ \A o, k : Delivering(o, k)' <=> Delivering(o, k) \/ (o = op /\ k = h)
<1>1. stack \in Seq(Frames) /\ StackInv /\ Len(stack) < MaxDepth /\ stack' = <<Frame(op, h)>> \o stack
  BY DEF CoreInv, StackTypes, Push
<1>2. Len(stack') = Len(stack) + 1
  <2> DEFINE e == <<op, h>>
  <2>1. e \in Frames /\ stack' = <<e>> \o stack
    BY <1>1 DEF Frame
  <2> HIDE DEF e
  <2> QED
    BY <1>1, <2>1, PushFields
<1>3. Len(stack') <= MaxDepth + 1
  BY <1>1, <1>2, LifecycleAssumption, LenProperties
<1> QED
  BY <1>1, <1>3, Pushed DEF StackTypes

LEMMA PopTypes ==
  ASSUME CoreInv, NEW op, NEW h, Top(op, h), stack' = Tail(stack)
  PROVE  /\ StackTypes' /\ StackInv' /\ Delivering(op, h)
         /\ \A o, k : Delivering(o, k)' <=> Delivering(o, k) /\ ~(o = op /\ k = h)
         /\ <<op, h>> \in Leavings => \A o, k : Delivering(o, k) <=> o = op /\ k = h
<1>1. stack \in Seq(Frames) /\ StackInv /\ Len(stack) <= MaxDepth + 1 /\ stack # <<>>
  BY DEF CoreInv, StackTypes, Top
<1>2. Len(stack') = Len(stack) - 1 /\ Len(stack) \in Nat
  BY <1>1, HeadTailProperties, LenProperties
<1>3. Len(stack') <= MaxDepth + 1
  BY <1>1, <1>2, LifecycleAssumption
<1> QED
  BY <1>1, <1>3, Popped DEF StackTypes

LEMMA RollBackFields ==
  ASSUME StateTypes, NEW a \in Attempts, NEW after \in {"rejected", "failing"}, RollBack(a, after)
  PROVE  /\ abort' \in [Attempts -> BOOLEAN] /\ abort'[a]
         /\ teardown' \in [Attempts -> {"none", "stopping", "unwinding", "flushing", "leaving", "done"}]
         /\ teardown'[a] = (IF teardown[a] = "none" THEN "stopping" ELSE teardown[a])
         /\ UNCHANGED load /\ pc'[a] = after
         /\ pc' \in [Attempts -> Signalled \cup Settled \cup {"none", "draining", "listing", "failing"}]
         /\ \A b \in Attempts \ {a} :
              abort'[b] = abort[b] /\ teardown'[b] = teardown[b] /\ pc'[b] = pc[b]
<1>1. UNCHANGED load /\ pc' = [pc EXCEPT ![a] = after] /\ Stopping({a})
  BY DEF RollBack
<1>2. /\ pc'[a] = after /\ \A b \in Attempts \ {a} : pc'[b] = pc[b]
      /\ pc' \in [Attempts -> Signalled \cup Settled \cup {"none", "draining", "listing", "failing"}]
  BY <1>1 DEF StateTypes, Settled
<1> QED
  BY <1>1, <1>2, StoppingFields

\* A publication is given up when one of its notifications unwinds.
LEMMA WindowFails ==
  ASSUME CoreInv, NEW a \in Attempts, Top("publish", a), stack' = Tail(stack), pc[a] \in Windows,
         RollBack(a, AfterRollBack(a)), UNCHANGED <<StartVars, kind, machine>>,
         stage' \in [Stores -> [Holders ->
           {"out", "entered", "announcing", "announced", "disposed", "dropped"}]],
         \A k \in Holders \ {a}, s \in Stores :
           stage'[s][k] = stage[s][k] /\ (<<s, k>> \in deferred' <=> <<s, k>> \in deferred),
         deferred' \subseteq deferred, \A s \in Stores : stage'[s][a] # "announcing",
         IF a \in refused
         THEN /\ stage'["agents"][a] \notin {"entered", "announced"} /\ stage'["sessions"][a] # "entered"
              /\ Attached("sessions", a)' => <<"sessions", a>> \in deferred' /\ Appending(a)
         ELSE stage'["sessions"][a] = "announced" /\ stage'["agents"][a] \in {"entered", "announced"}
  PROVE  CoreInv'
<1> USE DEF StartVars, registryVars, factoryVars, initiatorVars
<1>1. AttemptInv(a) /\ StateTypes /\ a \in Holders /\ (a \in refused => teardown[a] = "done")
  BY AttemptFacts
<1>2. /\ StackTypes' /\ StackInv'
      /\ \A o, k : Delivering(o, k)' <=> Delivering(o, k) /\ ~(o = "publish" /\ k = a)
  BY PopTypes
<1>3. AfterRollBack(a) \in {"rejected", "failing"} /\ (AfterRollBack(a) = "rejected" <=> kind[a] = "config")
  BY DEF AfterRollBack
<1>4. /\ abort' \in [Attempts -> BOOLEAN] /\ abort'[a]
      /\ teardown' \in [Attempts -> {"none", "stopping", "unwinding", "flushing", "leaving", "done"}]
      /\ teardown'[a] = (IF teardown[a] = "none" THEN "stopping" ELSE teardown[a])
      /\ UNCHANGED load /\ pc'[a] = AfterRollBack(a)
      /\ pc' \in [Attempts -> Signalled \cup Settled \cup {"none", "draining", "listing", "failing"}]
      /\ \A b \in Attempts \ {a} :
           abort'[b] = abort[b] /\ teardown'[b] = teardown[b] /\ pc'[b] = pc[b]
  BY <1>1, <1>3, RollBackFields
<1>5. StateTypes'
  BY <1>1, <1>4 DEF StateTypes
<1>6. ElsewhereKept(a) /\ CreationsKept(a)
  BY <1>2, <1>4 DEF ElsewhereKept, CreationsKept
<1>7. DeliveryInv(a)'
  BY <1>1, <1>2, <1>3, <1>4 DEF AttemptInv, DeliveryInv, Stores, Windows
<1>8. Tracked(a) /\ CreationInv(a)'
  BY <1>1, <1>3, <1>4 DEF AttemptInv, CreationInv, Tracked, Windows, Unpublished
<1>9. FactoryInv(a)'
  BY <1>1, <1>3, <1>4, <1>8 DEF AttemptInv, FactoryInv, Tracked, Settled, Windows
<1>10. ASSUME a \in refused' PROVE RefusedInv(a)'
  <2>1. Appending(a)' <=> Appending(a)
    BY <1>2 DEF Appending
  <2>2. stage'["agents"][a] # "announcing" /\ a \in refused
    BY <1>10 DEF Stores
  <2> QED
    BY <1>1, <1>4, <2>1, <2>2 DEF RefusedInv, Attached
<1>11. ASSUME a \notin refused' PROVE OrderlyInv(a)'
  <2>1. a \notin refused /\ OrderlyInv(a)
    BY <1>1, <1>11 DEF AttemptInv
  <2>2. teardown[a] \in {"none", "stopping"} /\ \A s \in Stores : <<s, a>> \notin deferred'
    BY <2>1 DEF OrderlyInv
  <2>3. pc'[a] \notin Windows
    BY <1>3, <1>4 DEF Windows
  <2> QED
    BY <1>4, <2>1, <2>2, <2>3 DEF OrderlyInv, Attached
<1> QED
  BY <1>2, <1>5, <1>6, <1>7, <1>8, <1>9, <1>10, <1>11, AttemptAssembled

\* The stack behind the last notification of a publication.
PublishUnwound(a) ==
  /\ StackTypes' /\ StackInv'
  /\ \A o, k : Delivering(o, k)' <=> Delivering(o, k) /\ ~(o = "publish" /\ k = a)

LEMMA PublishPopped ==
  ASSUME CoreInv, NEW a \in Attempts, Top("publish", a), stack' = Tail(stack)
  PROVE  PublishUnwound(a)
  BY PopTypes DEF PublishUnwound

\* A notification of a publication unwinds and the next one begins, or the
\* handle is handed out.
LEMMA WindowMoves ==
  ASSUME CoreInv, NEW a \in Attempts, pc[a] \in Windows, ~abort[a],
         NEW next \in {"agentWindow", "startWindow", "live"}, pc' = [pc EXCEPT ![a] = next],
         next = "live" => Top("publish", a) /\ stack' = Tail(stack), next # "live" => UNCHANGED stack,
         load' = IF next = "live" THEN [load EXCEPT ![a] = IF @ = "held" THEN "released" ELSE @] ELSE load,
         UNCHANGED <<StartVars, kind, machine, abort, teardown>>,
         stage' \in [Stores -> [Holders ->
           {"out", "entered", "announcing", "announced", "disposed", "dropped"}]],
         \A k \in Holders \ {a}, s \in Stores :
           stage'[s][k] = stage[s][k] /\ (<<s, k>> \in deferred' <=> <<s, k>> \in deferred),
         deferred' \subseteq deferred, stage'["sessions"][a] = "announced",
         stage'["agents"][a] = IF next = "agentWindow" THEN "announcing" ELSE "announced"
  PROVE  CoreInv'
<1> USE DEF StartVars, registryVars, factoryVars, initiatorVars
<1>1. AttemptInv(a) /\ StateTypes /\ a \in Holders /\ (a \in refused => teardown[a] = "done")
  BY AttemptFacts
<1>2. Tracked(a) /\ teardown[a] = "none" /\ a \notin refused
  BY <1>1 DEF AttemptInv, CreationInv
<1>3. factory \notin {"disposing", "disposed"}
  BY <1>1, <1>2 DEF AttemptInv, FactoryInv
<1>4. /\ StackTypes' /\ StackInv'
      /\ \A o, k : Delivering(o, k)' <=>
           Delivering(o, k) /\ ~(next = "live" /\ o = "publish" /\ k = a)
  <2>1. CASE next = "live"
    <3>1. Top("publish", a) /\ stack' = Tail(stack)
      BY <2>1
    <3>2. PublishUnwound(a)
      BY <3>1, PublishPopped
    <3> QED
      BY <2>1, <3>2 DEF PublishUnwound
  <2>2. CASE next # "live"
    BY <2>2, StackKept
  <2> QED
    BY <2>1, <2>2
<1>5. /\ pc' \in [Attempts -> Signalled \cup Settled \cup {"none", "draining", "listing", "failing"}]
      /\ pc'[a] = next /\ \A b \in Attempts \ {a} : pc'[b] = pc[b]
  BY <1>1 DEF StateTypes, Signalled, Settled
<1>6. /\ load' \in [Attempts -> {"none", "pending", "held", "released"}]
      /\ next = "live" => load'[a] # "held"
      /\ load'[a] = "held" => load[a] = "held"
      /\ \A b \in Attempts \ {a} : load'[b] = load[b]
  <2>1. CASE next = "live"
    <3> DEFINE left == IF load[a] = "held" THEN "released" ELSE load[a]
    <3>1. load' = [load EXCEPT ![a] = left]
      BY <2>1
    <3>2. load \in [Attempts -> {"none", "pending", "held", "released"}]
      BY <1>1 DEF StateTypes
    <3>3. left \in {"none", "pending", "released"}
      BY <3>2
    <3> HIDE DEF left
    <3> QED
      BY <3>1, <3>2, <3>3
  <2>2. CASE next # "live"
    BY <1>1, <2>2 DEF StateTypes
  <2> QED
    BY <2>1, <2>2
<1>7. StateTypes'
  BY <1>1, <1>5, <1>6 DEF StateTypes
<1>8. ElsewhereKept(a) /\ CreationsKept(a)
  BY <1>4, <1>5, <1>6 DEF ElsewhereKept, CreationsKept
<1>9. DeliveryInv(a)'
  BY <1>1, <1>2, <1>4, <1>5 DEF AttemptInv, DeliveryInv, Windows
<1>10. CreationInv(a)'
  BY <1>1, <1>2, <1>5, <1>6 DEF AttemptInv, CreationInv, Tracked, Windows, Unpublished
<1>11. FactoryInv(a)'
  BY <1>3 DEF FactoryInv
<1>12. OrderlyInv(a)'
  BY <1>1, <1>2 DEF AttemptInv, OrderlyInv, Attached
<1> QED
  BY <1>2, <1>4, <1>7, <1>8, <1>9, <1>10, <1>11, <1>12, AttemptAssembled

LEMMA SessionToldStep ==
  ASSUME CoreInv, NEW a \in Attempts, NEW veto \in BOOLEAN, SessionTold(a, veto) PROVE CoreInv'
<1>1. AttemptInv(a) /\ StateTypes /\ a \in Holders /\ (a \in refused => teardown[a] = "done")
  BY AttemptFacts
<1>2. /\ Top("publish", a) /\ pc[a] = "sessionWindow" /\ deferred' = deferred \ {<<"sessions", a>>}
      /\ UNCHANGED <<StartVars, kind, machine>>
  BY DEF SessionTold
<1>3. /\ stage["sessions"][a] = "announcing" /\ stage["agents"][a] \in {"entered", "dropped"}
      /\ teardown[a] # "none" => abort[a]
  BY <1>1, <1>2 DEF AttemptInv, DeliveryInv, CreationInv
<1>4. Unwound("sessions", a) = (IF a \in refused THEN "disposed" ELSE "announced")
  BY <1>1, <1>3 DEF AttemptInv, RefusedInv, OrderlyInv, Attached, Unwound, Stores
<1>5. IF a \in refused THEN stage["agents"][a] = "dropped" ELSE stage["agents"][a] = "entered"
  BY <1>1, <1>2, <1>3 DEF AttemptInv, RefusedInv, OrderlyInv, Attached, Windows
<1>6. /\ \A k \in Holders \ {a}, s \in Stores : <<s, k>> \in deferred' <=> <<s, k>> \in deferred
      /\ deferred' \subseteq deferred
  BY <1>2
<1>7. CASE /\ stage' = [stage EXCEPT !["sessions"][a] = Unwound("sessions", a)]
           /\ stack' = Tail(stack) /\ RollBack(a, AfterRollBack(a))
  <2>1. /\ stage' \in [Stores -> [Holders -> {"out", "entered", "announcing", "announced", "disposed", "dropped"}]]
        /\ stage'["sessions"][a] = (IF a \in refused THEN "disposed" ELSE "announced")
        /\ stage'["agents"][a] = stage["agents"][a]
        /\ \A k \in Holders \ {a}, s \in Stores : stage'[s][k] = stage[s][k]
    BY <1>1, <1>4, <1>7 DEF StateTypes, Stores
  <2>2. \A s \in Stores : stage'[s][a] # "announcing"
    BY <1>3, <2>1 DEF Stores
  <2>3. IF a \in refused
        THEN /\ stage'["agents"][a] \notin {"entered", "announced"} /\ stage'["sessions"][a] # "entered"
             /\ Attached("sessions", a)' => <<"sessions", a>> \in deferred' /\ Appending(a)
        ELSE stage'["sessions"][a] = "announced" /\ stage'["agents"][a] \in {"entered", "announced"}
    BY <1>5, <2>1 DEF Attached
  <2> HIDE DEF StartVars
  <2> QED
    BY <1>2, <1>6, <1>7, <2>1, <2>2, <2>3, WindowFails DEF Windows
<1>8. CASE /\ ~abort[a] /\ pc' = [pc EXCEPT ![a] = "agentWindow"]
           /\ stage' = [stage EXCEPT !["sessions"][a] = Unwound("sessions", a), !["agents"][a] = "announcing"]
           /\ UNCHANGED <<stack, load, abort, teardown>>
  <2>1. a \notin refused
    BY <1>1, <1>3, <1>8
  <2>2. /\ stage' \in [Stores -> [Holders -> {"out", "entered", "announcing", "announced", "disposed", "dropped"}]]
        /\ stage'["sessions"][a] = "announced" /\ stage'["agents"][a] = "announcing"
        /\ \A k \in Holders \ {a}, s \in Stores : stage'[s][k] = stage[s][k]
    <3> DEFINE Told == [stage["sessions"] EXCEPT ![a] = "announced"]
               Begun == [stage["agents"] EXCEPT ![a] = "announcing"]
               Stage == [Holders -> {"out", "entered", "announcing", "announced", "disposed", "dropped"}]
    <3>1. stage' = [stage EXCEPT !["sessions"] = Told, !["agents"] = Begun]
      BY <1>1, <1>4, <1>8, <2>1 DEF StateTypes, Stores
    <3>2. /\ Told \in Stage /\ Begun \in Stage /\ stage \in [Stores -> Stage]
          /\ Told[a] = "announced" /\ Begun[a] = "announcing"
          /\ \A k \in Holders \ {a} : Told[k] = stage["sessions"][k] /\ Begun[k] = stage["agents"][k]
      BY <1>1 DEF StateTypes, Stores
    <3> HIDE DEF Told, Begun, Stage
    <3>3. stage' \in [Stores -> Stage] /\ stage'["sessions"] = Told /\ stage'["agents"] = Begun
      BY <3>1, <3>2 DEF Stores
    <3> QED
      BY <3>2, <3>3 DEF Stage, Stores
  <2> HIDE DEF StartVars
  <2> QED
    BY <1>2, <1>6, <1>8, <2>2, WindowMoves DEF Windows
<1> QED
  BY <1>7, <1>8 DEF SessionTold

LEMMA AgentToldStep ==
  ASSUME CoreInv, NEW a \in Attempts, NEW veto \in BOOLEAN, AgentTold(a, veto) PROVE CoreInv'
<1>1. AttemptInv(a) /\ StateTypes /\ a \in Holders /\ (a \in refused => teardown[a] = "done")
  BY AttemptFacts
<1>2. /\ Top("publish", a) /\ pc[a] = "agentWindow" /\ deferred' = deferred \ {<<"agents", a>>}
      /\ stage' = [stage EXCEPT !["agents"][a] = Unwound("agents", a)]
      /\ UNCHANGED <<StartVars, kind, machine>>
  BY DEF AgentTold
<1>3. /\ stage["agents"][a] = "announcing" /\ stage["sessions"][a] \in {"announced", "disposed"}
      /\ teardown[a] # "none" => abort[a]
  BY <1>1, <1>2 DEF AttemptInv, DeliveryInv, CreationInv
<1>4. Unwound("agents", a) = (IF a \in refused THEN "disposed" ELSE "announced")
  BY <1>1, <1>3 DEF AttemptInv, RefusedInv, OrderlyInv, Attached, Unwound, Stores
<1>5. a \notin refused => stage["sessions"][a] = "announced"
  BY <1>1, <1>2, <1>3 DEF AttemptInv, OrderlyInv, Attached
<1>6. /\ \A k \in Holders \ {a}, s \in Stores : <<s, k>> \in deferred' <=> <<s, k>> \in deferred
      /\ deferred' \subseteq deferred /\ (<<"sessions", a>> \in deferred' <=> <<"sessions", a>> \in deferred)
  BY <1>2
<1>7. /\ stage' \in [Stores -> [Holders -> {"out", "entered", "announcing", "announced", "disposed", "dropped"}]]
      /\ stage'["agents"][a] = (IF a \in refused THEN "disposed" ELSE "announced")
      /\ stage'["sessions"][a] = stage["sessions"][a]
      /\ \A k \in Holders \ {a}, s \in Stores : stage'[s][k] = stage[s][k]
  BY <1>1, <1>2, <1>4 DEF StateTypes, Stores
<1>8. CASE stack' = Tail(stack) /\ RollBack(a, AfterRollBack(a))
  <2>1. \A s \in Stores : stage'[s][a] # "announcing"
    BY <1>3, <1>7 DEF Stores
  <2>2. IF a \in refused
        THEN /\ stage'["agents"][a] \notin {"entered", "announced"} /\ stage'["sessions"][a] # "entered"
             /\ Attached("sessions", a)' => <<"sessions", a>> \in deferred' /\ Appending(a)
        ELSE stage'["sessions"][a] = "announced" /\ stage'["agents"][a] \in {"entered", "announced"}
    BY <1>1, <1>2, <1>3, <1>5, <1>6, <1>7 DEF AttemptInv, RefusedInv, Attached
  <2> HIDE DEF StartVars
  <2> QED
    BY <1>2, <1>6, <1>7, <1>8, <2>1, <2>2, WindowFails DEF Windows
<1>9. CASE ~abort[a] /\ pc' = [pc EXCEPT ![a] = "startWindow"] /\ UNCHANGED <<stack, load, abort, teardown>>
  <2>1. a \notin refused
    BY <1>1, <1>3, <1>9
  <2> HIDE DEF StartVars
  <2> QED
    BY <1>2, <1>5, <1>6, <1>7, <1>9, <2>1, WindowMoves DEF Windows
<1> QED
  BY <1>8, <1>9 DEF AgentTold

LEMMA StartToldStep == ASSUME CoreInv, NEW a \in Attempts, StartTold(a) PROVE CoreInv'
<1>1. AttemptInv(a) /\ StateTypes /\ a \in Holders /\ (a \in refused => teardown[a] = "done")
  BY AttemptFacts
<1>2. /\ Top("publish", a) /\ pc[a] = "startWindow" /\ stack' = Tail(stack)
      /\ UNCHANGED <<StartVars, kind, machine, stage, deferred>>
  BY DEF StartTold, registryVars
<1>3. /\ stage["agents"][a] \in {"announced", "disposed"} /\ stage["sessions"][a] \in {"announced", "disposed"}
      /\ teardown[a] # "none" => abort[a]
  BY <1>1, <1>2 DEF AttemptInv, CreationInv
<1>4. /\ \A k \in Holders \ {a}, s \in Stores :
           stage'[s][k] = stage[s][k] /\ (<<s, k>> \in deferred' <=> <<s, k>> \in deferred)
      /\ deferred' \subseteq deferred
      /\ stage' \in [Stores -> [Holders -> {"out", "entered", "announcing", "announced", "disposed", "dropped"}]]
  BY <1>1, <1>2 DEF StateTypes
<1>5. a \notin refused => stage["sessions"][a] = "announced" /\ stage["agents"][a] = "announced"
  BY <1>1, <1>2, <1>3 DEF AttemptInv, OrderlyInv, Windows
<1>6. CASE RollBack(a, AfterRollBack(a))
  <2>1. \A s \in Stores : stage'[s][a] # "announcing"
    BY <1>2, <1>3 DEF Stores
  <2>2. IF a \in refused
        THEN /\ stage'["agents"][a] \notin {"entered", "announced"} /\ stage'["sessions"][a] # "entered"
             /\ Attached("sessions", a)' => <<"sessions", a>> \in deferred' /\ Appending(a)
        ELSE stage'["sessions"][a] = "announced" /\ stage'["agents"][a] \in {"entered", "announced"}
    BY <1>1, <1>2, <1>3, <1>5 DEF AttemptInv, RefusedInv, Attached
  <2> HIDE DEF StartVars
  <2> QED
    BY <1>2, <1>4, <1>6, <2>1, <2>2, WindowFails DEF Windows
<1>7. CASE /\ ~abort[a] /\ pc' = [pc EXCEPT ![a] = "live"] /\ UNCHANGED <<abort, teardown>>
           /\ load' = [load EXCEPT ![a] = IF @ = "held" THEN "released" ELSE @]
  <2>1. a \notin refused
    BY <1>1, <1>3, <1>7
  <2> HIDE DEF StartVars
  <2> QED
    BY <1>2, <1>4, <1>5, <1>7, <2>1, WindowMoves DEF Windows
<1> QED
  BY <1>6, <1>7 DEF StartTold

\* Entries detached, at once or once their notifications unwound.
LEMMA DetachFields ==
  ASSUME StateTypes, NEW entries \in SUBSET (Stores \X Holders), Detach(entries)
  PROVE  /\ stage' \in [Stores -> [Holders ->
              {"out", "entered", "announcing", "announced", "disposed", "dropped"}]]
         /\ deferred' \subseteq Stores \X Holders
         /\ \A s \in Stores, h \in Holders :
              /\ stage'[s][h] = IF <<s, h>> \in entries /\ Attached(s, h) /\ ~Held(s, h)
                                THEN Gone(stage[s][h]) ELSE stage[s][h]
              /\ <<s, h>> \in deferred' <=>
                   <<s, h>> \in deferred \/ (<<s, h>> \in entries /\ Attached(s, h) /\ Held(s, h))
<1> DEFINE mine == {e \in entries : Attached(e[1], e[2])}
           now == {e \in mine : ~Held(e[1], e[2])}
           After(s, h) == IF <<s, h>> \in now THEN Gone(stage[s][h]) ELSE stage[s][h]
<1>1. /\ stage' = [s \in Stores |-> [h \in Holders |-> After(s, h)]]
      /\ deferred' = deferred \cup (mine \ now)
  BY DEF Detach
<1>2. \A s \in Stores, h \in Holders :
        /\ <<s, h>> \in mine <=> <<s, h>> \in entries /\ Attached(s, h)
        /\ <<s, h>> \in now <=> <<s, h>> \in entries /\ Attached(s, h) /\ ~Held(s, h)
  OBVIOUS
<1>3. mine \subseteq Stores \X Holders /\ deferred \subseteq Stores \X Holders
  BY DEF StateTypes
<1>4. \A s \in Stores, h \in Holders :
        /\ After(s, h) \in {"out", "entered", "announcing", "announced", "disposed", "dropped"}
        /\ After(s, h) = IF <<s, h>> \in entries /\ Attached(s, h) /\ ~Held(s, h)
                         THEN Gone(stage[s][h]) ELSE stage[s][h]
  <2> TAKE s \in Stores, h \in Holders
  <2>1. stage[s][h] \in {"out", "entered", "announcing", "announced", "disposed", "dropped"}
    BY DEF StateTypes
  <2>2. Gone(stage[s][h]) \in {"disposed", "dropped"}
    BY DEF Gone
  <2>3. <<s, h>> \in now <=> <<s, h>> \in entries /\ Attached(s, h) /\ ~Held(s, h)
    BY <1>2
  <2> HIDE DEF mine, now
  <2> QED
    BY <2>1, <2>2, <2>3
<1> HIDE DEF mine, now, After
<1>5. /\ stage' \in [Stores -> [Holders ->
           {"out", "entered", "announcing", "announced", "disposed", "dropped"}]]
      /\ \A s \in Stores, h \in Holders : stage'[s][h] = After(s, h)
  BY <1>1, <1>4
<1>6. deferred' \subseteq Stores \X Holders
  BY <1>1, <1>3
<1>7. ASSUME NEW s \in Stores, NEW h \in Holders
      PROVE  <<s, h>> \in deferred' <=>
               <<s, h>> \in deferred \/ (<<s, h>> \in entries /\ Attached(s, h) /\ Held(s, h))
  BY <1>1, <1>2
<1> QED
  BY <1>4, <1>5, <1>6, <1>7

\* One attempt's entries detached.
LEMMA MineDetached ==
  ASSUME StateTypes, NEW a \in Attempts, NEW S \in SUBSET Stores,
         NEW entries, \A e : e \in entries <=> \E s \in S : e = <<s, a>>, Detach(entries)
  PROVE  /\ stage' \in [Stores -> [Holders ->
              {"out", "entered", "announcing", "announced", "disposed", "dropped"}]]
         /\ deferred' \subseteq Stores \X Holders
         /\ \A k \in Holders \ {a}, s \in Stores :
              stage'[s][k] = stage[s][k] /\ (<<s, k>> \in deferred' <=> <<s, k>> \in deferred)
         /\ \A s \in Stores :
              /\ stage'[s][a] = IF s \in S /\ Attached(s, a) /\ ~Held(s, a) THEN Gone(stage[s][a]) ELSE stage[s][a]
              /\ <<s, a>> \in deferred' <=> <<s, a>> \in deferred \/ (s \in S /\ Attached(s, a) /\ Held(s, a))
<1>1. a \in Holders
  BY DEF Holders
<1>2. entries \in SUBSET (Stores \X Holders)
  BY <1>1
<1>3. /\ stage' \in [Stores -> [Holders ->
           {"out", "entered", "announcing", "announced", "disposed", "dropped"}]]
      /\ deferred' \subseteq Stores \X Holders
      /\ \A s \in Stores, h \in Holders :
           /\ stage'[s][h] = IF <<s, h>> \in entries /\ Attached(s, h) /\ ~Held(s, h)
                             THEN Gone(stage[s][h]) ELSE stage[s][h]
           /\ <<s, h>> \in deferred' <=>
                <<s, h>> \in deferred \/ (<<s, h>> \in entries /\ Attached(s, h) /\ Held(s, h))
  BY <1>2, DetachFields
<1>4. \A s \in Stores, h \in Holders : <<s, h>> \in entries <=> s \in S /\ h = a
  OBVIOUS
<1> QED
  BY <1>1, <1>3, <1>4

LEMMA DisposeRefusedStep == ASSUME CoreInv, NEW a \in Attempts, DisposeRefused(a) PROVE CoreInv'
<1> USE DEF creationVars, factoryVars, initiatorVars
<1>1. AttemptInv(a) /\ StateTypes /\ a \in Holders
  BY AttemptFacts
<1>2. /\ teardown[a] = "none" /\ Attached("agents", a) /\ Appending(a) /\ a \notin refused /\ OrderlyInv(a)
      /\ Detach(Mine(a)) /\ refused' = refused \cup {a}
      /\ abort' = [abort EXCEPT ![a] = TRUE] /\ teardown' = [teardown EXCEPT ![a] = "done"]
      /\ UNCHANGED <<id, stack, creationVars, flushed, machine, owner, factoryVars, initiatorVars>>
  BY <1>1 DEF DisposeRefused, AttemptInv, RefusedInv
<1>3. /\ stage' \in [Stores -> [Holders -> {"out", "entered", "announcing", "announced", "disposed", "dropped"}]]
      /\ deferred' \subseteq Stores \X Holders
      /\ \A k \in Holders \ {a}, s \in Stores :
           stage'[s][k] = stage[s][k] /\ (<<s, k>> \in deferred' <=> <<s, k>> \in deferred)
      /\ \A s \in Stores :
           /\ stage'[s][a] = IF s \in Stores /\ Attached(s, a) /\ ~Held(s, a) THEN Gone(stage[s][a]) ELSE stage[s][a]
           /\ <<s, a>> \in deferred' <=> <<s, a>> \in deferred \/ (s \in Stores /\ Attached(s, a) /\ Held(s, a))
  <2>1. \A e : e \in Mine(a) <=> \E s \in Stores : e = <<s, a>>
    BY DEF Mine, Stores
  <2> QED
    BY <1>1, <1>2, <2>1, MineDetached
<1>4. /\ stage["sessions"][a] \in {"announcing", "announced"}
      /\ stage'["sessions"][a] = stage["sessions"][a] /\ <<"sessions", a>> \in deferred'
  BY <1>2, <1>3 DEF OrderlyInv, Held, HeldByAppend, Stores, Attached
<1>5. /\ stage["agents"][a] = "announcing" => stage'["agents"][a] = "announcing" /\ <<"agents", a>> \in deferred'
      /\ stage["agents"][a] = "entered" => stage'["agents"][a] = "dropped"
      /\ stage["agents"][a] = "announced" => stage'["agents"][a] = "disposed"
      /\ stage["agents"][a] \in {"entered", "announcing", "announced"}
  BY <1>2, <1>3 DEF Held, HeldByAppend, Stores, Attached, Gone
<1>6. StackTypes' /\ StackInv' /\ \A o, k : Delivering(o, k)' <=> Delivering(o, k)
  BY <1>2, StackKept
<1>7. StateTypes'
  BY <1>1, <1>2, <1>3 DEF StateTypes
<1>8. /\ abort'[a] /\ teardown'[a] = "done"
      /\ \A b \in Attempts \ {a} : abort'[b] = abort[b] /\ teardown'[b] = teardown[b]
  BY <1>1, <1>2 DEF StateTypes
<1>9. ElsewhereKept(a) /\ CreationsKept(a)
  BY <1>2, <1>3, <1>6, <1>8 DEF ElsewhereKept, CreationsKept
<1>10. DeliveryInv(a)'
  BY <1>1, <1>2, <1>4, <1>5, <1>6, <1>8 DEF AttemptInv, DeliveryInv
<1>11. CreationInv(a)'
  BY <1>1, <1>2, <1>4, <1>5, <1>8 DEF AttemptInv, CreationInv, DeliveryInv, Tracked, Bare, Stores, Windows, Unpublished
<1>12. FactoryInv(a)'
  BY <1>1, <1>2, <1>8 DEF AttemptInv, FactoryInv, Tracked
<1>13. RefusedInv(a)'
  <2>1. Appending(a)'
    BY <1>2, <1>6 DEF Appending
  <2>2. Attached("agents", a)' => pc'[a] = "agentWindow" /\ <<"agents", a>> \in deferred'
    BY <1>1, <1>2, <1>5 DEF AttemptInv, DeliveryInv, Attached
  <2> QED
    BY <1>4, <1>8, <2>1, <2>2 DEF RefusedInv
<1> QED
  BY <1>2, <1>6, <1>7, <1>9, <1>10, <1>11, <1>12, <1>13, AttemptAssembled

LEMMA AgentLeavesStep == ASSUME CoreInv, NEW a \in Attempts, AgentLeaves(a) PROVE CoreInv'
<1> USE DEF creationVars, factoryVars, initiatorVars
<1>1. AttemptInv(a) /\ StateTypes /\ a \in Holders
  BY AttemptFacts
<1>2. /\ teardown[a] = "flushing" /\ a \notin refused /\ OrderlyInv(a) /\ machine[a] = "idle"
      /\ pc[a] \notin Windows /\ abort[a] /\ Quiet
      /\ \A s \in Stores : ~Held(s, a)
      /\ flushed' = flushed \cup {a}
      /\ UNCHANGED <<id, creationVars, abort, refused, machine, owner, factoryVars, initiatorVars>>
  BY <1>1, QuietFacts DEF AgentLeaves, AttemptInv, RefusedInv, OrderlyInv, CreationInv, Held, HeldByAppend, Stores
<1>3. (a \in awaited /\ factory # "disposed") \/ factory \notin {"disposing", "disposed"}
  BY <1>1, <1>2 DEF AttemptInv, FactoryInv
<1>4. CASE stage["agents"][a] = "announced"
  <2>1. /\ Detach({<<"agents", a>>}) /\ stack' = <<Frame("leaving", a)>>
        /\ teardown' = [teardown EXCEPT ![a] = "leaving"]
    BY <1>4 DEF AgentLeaves
  <2>2. /\ stage' \in [Stores -> [Holders -> {"out", "entered", "announcing", "announced", "disposed", "dropped"}]]
        /\ deferred' \subseteq Stores \X Holders
        /\ \A k \in Holders \ {a}, s \in Stores :
             stage'[s][k] = stage[s][k] /\ (<<s, k>> \in deferred' <=> <<s, k>> \in deferred)
        /\ \A s \in Stores :
             /\ stage'[s][a] = IF s \in {"agents"} /\ Attached(s, a) /\ ~Held(s, a) THEN Gone(stage[s][a]) ELSE stage[s][a]
             /\ <<s, a>> \in deferred' <=> <<s, a>> \in deferred \/ (s \in {"agents"} /\ Attached(s, a) /\ Held(s, a))
    <3>1. \A e : e \in {<<"agents", a>>} <=> \E s \in {"agents"} : e = <<s, a>>
      OBVIOUS
    <3>2. {"agents"} \in SUBSET Stores
      BY DEF Stores
    <3> QED
      BY <1>1, <2>1, <3>1, <3>2, MineDetached
  <2>3. /\ stage'["agents"][a] = "disposed" /\ stage'["sessions"][a] = stage["sessions"][a]
        /\ \A s \in Stores : <<s, a>> \in deferred' <=> <<s, a>> \in deferred
    BY <1>2, <1>4, <2>2 DEF Gone, Stores, Attached
  <2>4. /\ teardown'[a] = "leaving" /\ \A b \in Attempts \ {a} : teardown'[b] = teardown[b]
        /\ teardown' \in [Attempts -> {"none", "stopping", "unwinding", "flushing", "leaving", "done"}]
    BY <1>1, <2>1 DEF StateTypes
  <2>5. /\ StackTypes' /\ StackInv'
        /\ \A o, k : Delivering(o, k)' <=> Delivering(o, k) \/ (o = "leaving" /\ k = a)
    <3> DEFINE e == <<"leaving", a>>
    <3>1. stack \in Seq(Frames) /\ StackInv /\ stack = <<>> /\ stack' = <<e>> \o stack
      BY <1>2, <2>1 DEF CoreInv, StackTypes, Quiet, Frame
    <3>2. e \in Frames
      BY DEF Frames
    <3>3. ~Delivering("leaving", a)
      BY <3>1 DEF Delivering
    <3>4. /\ stack' \in Seq(Frames) /\ StackInv'
          /\ \A o, k : Delivering(o, k)' <=> Delivering(o, k) \/ (o = "leaving" /\ k = a)
      BY <3>1, <3>2, <3>3, Pushed DEF Frame
    <3>5. Len(stack') = 1
      BY <2>1
    <3> QED
      BY <3>4, <3>5, LifecycleAssumption DEF StackTypes
  <2>6. StateTypes'
    BY <1>1, <1>2, <2>2, <2>4 DEF StateTypes
  <2>7. ElsewhereKept(a) /\ CreationsKept(a)
    BY <1>2, <2>2, <2>4, <2>5 DEF ElsewhereKept, CreationsKept
  <2>8. DeliveryInv(a)'
    BY <1>1, <1>2, <1>4, <2>3, <2>4, <2>5 DEF AttemptInv, DeliveryInv, Windows
  <2>9. CreationInv(a)'
    BY <1>1, <1>2, <1>4, <2>3, <2>4 DEF AttemptInv, CreationInv, Tracked, Bare, Stores, Windows, Unpublished
  <2>10. FactoryInv(a)'
    BY <1>1, <1>2, <1>3, <2>4 DEF AttemptInv, FactoryInv, Tracked
  <2>11. OrderlyInv(a)'
    BY <1>2, <2>3, <2>4 DEF OrderlyInv, Attached
  <2> QED
    BY <1>2, <2>5, <2>6, <2>7, <2>8, <2>9, <2>10, <2>11, AttemptAssembled
<1>5. CASE stage["agents"][a] # "announced"
  <2>1. Detach(Mine(a)) /\ teardown' = [teardown EXCEPT ![a] = "done"] /\ UNCHANGED stack
    BY <1>5 DEF AgentLeaves
  <2>2. /\ stage' \in [Stores -> [Holders -> {"out", "entered", "announcing", "announced", "disposed", "dropped"}]]
        /\ deferred' \subseteq Stores \X Holders
        /\ \A k \in Holders \ {a}, s \in Stores :
             stage'[s][k] = stage[s][k] /\ (<<s, k>> \in deferred' <=> <<s, k>> \in deferred)
        /\ \A s \in Stores :
             /\ stage'[s][a] = IF s \in Stores /\ Attached(s, a) /\ ~Held(s, a) THEN Gone(stage[s][a]) ELSE stage[s][a]
             /\ <<s, a>> \in deferred' <=> <<s, a>> \in deferred \/ (s \in Stores /\ Attached(s, a) /\ Held(s, a))
    <3>1. \A e : e \in Mine(a) <=> \E s \in Stores : e = <<s, a>>
      BY DEF Mine, Stores
    <3> QED
      BY <1>1, <2>1, <3>1, MineDetached
  <2>3. /\ \A s \in Stores : /\ ~Attached(s, a)' /\ stage'[s][a] # "announcing"
                             /\ stage[s][a] = "out" => stage'[s][a] = "out"
        /\ \A s \in Stores : <<s, a>> \in deferred' <=> <<s, a>> \in deferred
    BY <1>2, <2>2 DEF Gone, Attached
  <2>4. /\ teardown'[a] = "done" /\ \A b \in Attempts \ {a} : teardown'[b] = teardown[b]
        /\ teardown' \in [Attempts -> {"none", "stopping", "unwinding", "flushing", "leaving", "done"}]
    BY <1>1, <2>1 DEF StateTypes
  <2>5. StackTypes' /\ StackInv' /\ \A o, k : Delivering(o, k)' <=> Delivering(o, k)
    BY <2>1, StackKept
  <2>6. StateTypes'
    BY <1>1, <1>2, <2>2, <2>4 DEF StateTypes
  <2>7. ElsewhereKept(a) /\ CreationsKept(a)
    BY <1>2, <2>2, <2>4, <2>5 DEF ElsewhereKept, CreationsKept
  <2>8. DeliveryInv(a)'
    BY <1>1, <1>2, <2>3, <2>4, <2>5 DEF AttemptInv, DeliveryInv, Windows, Stores
  <2>9. CreationInv(a)'
    BY <1>1, <1>2, <2>3, <2>4 DEF AttemptInv, CreationInv, Tracked, Bare, Windows, Unpublished
  <2>10. FactoryInv(a)'
    BY <1>1, <1>2, <1>3, <2>4 DEF AttemptInv, FactoryInv, Tracked
  <2>11. OrderlyInv(a)'
    BY <1>2, <2>3, <2>4 DEF OrderlyInv, Stores
  <2> QED
    BY <1>2, <2>5, <2>6, <2>7, <2>8, <2>9, <2>10, <2>11, AttemptAssembled
<1> QED
  BY <1>4, <1>5

LEMMA SessionLeavesStep == ASSUME CoreInv, NEW a \in Attempts, SessionLeaves(a) PROVE CoreInv'
<1> USE DEF creationVars, factoryVars, initiatorVars
<1>1. AttemptInv(a) /\ StateTypes /\ a \in Holders
  BY AttemptFacts
<1>2. /\ StackTypes' /\ StackInv' /\ Delivering("leaving", a)
      /\ \A o, k : Delivering(o, k)' <=> Delivering(o, k) /\ ~(o = "leaving" /\ k = a)
      /\ \A o, k : Delivering(o, k) <=> o = "leaving" /\ k = a
  <2>1. <<"leaving", a>> \in Leavings
    BY DEF Leavings
  <2>2. Top("leaving", a) /\ stack' = Tail(stack)
    BY DEF SessionLeaves
  <2> QED
    BY <2>1, <2>2, PopTypes
<1>3. /\ teardown[a] = "leaving" /\ a \notin refused /\ OrderlyInv(a) /\ machine[a] = "idle"
      /\ pc[a] \notin Windows /\ ~Appending(a) /\ ~Attached("agents", a)
  BY <1>1, <1>2 DEF AttemptInv, DeliveryInv, RefusedInv, OrderlyInv, Appending
<1>4. /\ UNCHANGED <<id, creationVars, abort, refused, flushed, machine, owner, factoryVars, initiatorVars>>
      /\ Detach({<<"sessions", a>>}) /\ teardown' = [teardown EXCEPT ![a] = "done"]
  BY DEF SessionLeaves
<1>5. /\ stage' \in [Stores -> [Holders -> {"out", "entered", "announcing", "announced", "disposed", "dropped"}]]
      /\ deferred' \subseteq Stores \X Holders
      /\ \A k \in Holders \ {a}, s \in Stores :
           stage'[s][k] = stage[s][k] /\ (<<s, k>> \in deferred' <=> <<s, k>> \in deferred)
      /\ \A s \in Stores :
           /\ stage'[s][a] = IF s \in {"sessions"} /\ Attached(s, a) /\ ~Held(s, a) THEN Gone(stage[s][a]) ELSE stage[s][a]
           /\ <<s, a>> \in deferred' <=> <<s, a>> \in deferred \/ (s \in {"sessions"} /\ Attached(s, a) /\ Held(s, a))
  <2>1. \A e : e \in {<<"sessions", a>>} <=> \E s \in {"sessions"} : e = <<s, a>>
    OBVIOUS
  <2>2. {"sessions"} \in SUBSET Stores
    BY DEF Stores
  <2> QED
    BY <1>1, <1>4, <2>1, <2>2, MineDetached
<1>6. stage["sessions"][a] # "announcing" /\ stage["agents"][a] # "announcing" /\ ~Held("sessions", a)
  BY <1>1, <1>3 DEF AttemptInv, DeliveryInv, Held, HeldByAppend, Windows
<1>7. /\ stage'["agents"][a] = stage["agents"][a] /\ ~Attached("sessions", a)'
      /\ stage["sessions"][a] = "out" => stage'["sessions"][a] = "out"
      /\ \A s \in Stores : <<s, a>> \in deferred' <=> <<s, a>> \in deferred
  BY <1>5, <1>6 DEF Gone, Attached, Stores
<1>8. /\ teardown'[a] = "done" /\ \A b \in Attempts \ {a} : teardown'[b] = teardown[b]
      /\ teardown' \in [Attempts -> {"none", "stopping", "unwinding", "flushing", "leaving", "done"}]
  BY <1>1, <1>4 DEF StateTypes
<1>9. StateTypes'
  BY <1>1, <1>4, <1>5, <1>8 DEF StateTypes
<1>10. ElsewhereKept(a) /\ CreationsKept(a)
  BY <1>2, <1>4, <1>5, <1>8 DEF ElsewhereKept, CreationsKept
<1>11. DeliveryInv(a)'
  BY <1>1, <1>2, <1>3, <1>4, <1>6, <1>7, <1>8 DEF AttemptInv, DeliveryInv, Windows, Attached
<1>12. CreationInv(a)'
  BY <1>1, <1>3, <1>4, <1>7, <1>8 DEF AttemptInv, CreationInv, Tracked, Bare, Stores, Windows, Unpublished
<1>13. FactoryInv(a)'
  BY <1>1, <1>3, <1>4, <1>8 DEF AttemptInv, FactoryInv, Tracked
<1>14. OrderlyInv(a)'
  BY <1>3, <1>4, <1>7, <1>8 DEF OrderlyInv, Attached
<1> QED
  BY <1>2, <1>3, <1>4, <1>9, <1>10, <1>11, <1>12, <1>13, <1>14, AttemptAssembled

-----------------------------------------------------------------------------
(* Observers, other plugins, and the fibers of the factory and registry.   *)

LEMMA HolderAssembled ==
  ASSUME CoreInv, StateTypes', StackTypes', StackInv', NEW h \in Holders, ElsewhereKept(h),
         UNCHANGED <<creationVars, teardownVars, machine, factoryVars>>,
         h \in Guests => GuestInv(h)', h \in Attempts => AttemptInv(h)'
  PROVE  CoreInv'
<1>1. Others(h)
  BY DEF Others, ElsewhereKept, Kept, KeptGuest, Holders, creationVars, teardownVars
<1> QED
  BY <1>1, Assembled

LEMMA AppendBeginsStep == ASSUME CoreInv, NEW h \in Holders, AppendBegins(h) PROVE CoreInv'
<1> USE DEF registryVars, creationVars, teardownVars, factoryVars, initiatorVars
<1>1. StateTypes
  BY DEF CoreInv
<1>2. UNCHANGED <<id, registryVars, creationVars, teardownVars, machine, owner, factoryVars, initiatorVars>>
  BY DEF AppendBegins
<1>3. /\ StackTypes' /\ StackInv'
      /\ \A o, k : Delivering(o, k)' <=> Delivering(o, k) \/ (o = "append" /\ k = h)
  <2>1. <<"append", h>> \in Frames \ Leavings
    BY DEF Frames, Leavings
  <2>2. ~Delivering("append", h) /\ Push("append", h)
    BY DEF AppendBegins, Appending
  <2> QED
    BY <2>1, <2>2, PushTypes
<1>4. StateTypes'
  BY <1>1, <1>2 DEF StateTypes
<1>5. ElsewhereKept(h)
  BY <1>2, <1>3 DEF ElsewhereKept
<1>6. ASSUME h \in Guests PROVE GuestInv(h)'
  <2>1. GuestInv(h)
    BY <1>6 DEF CoreInv
  <2> QED
    BY <1>2, <1>3, <2>1 DEF GuestInv, Stores
<1>7. ASSUME h \in Attempts PROVE AttemptInv(h)'
  <2>1. AttemptInv(h)
    BY <1>7 DEF CoreInv
  <2>2. DeliveryInv(h)'
    BY <1>2, <1>3, <2>1 DEF AttemptInv, DeliveryInv
  <2>3. CreationInv(h)' /\ FactoryInv(h)'
    BY <1>2, <2>1 DEF AttemptInv, CreationInv, FactoryInv, Tracked, Bare
  <2>4. h \in refused => RefusedInv(h)'
    BY <1>2, <1>3, <2>1 DEF AttemptInv, RefusedInv, Attached, Appending
  <2>5. h \notin refused => OrderlyInv(h)'
    BY <1>2, <2>1 DEF AttemptInv, OrderlyInv, Attached
  <2> QED
    BY <1>2, <2>2, <2>3, <2>4, <2>5 DEF AttemptInv
<1> QED
  BY <1>2, <1>3, <1>4, <1>5, <1>6, <1>7, HolderAssembled

LEMMA AppendEndsStep == ASSUME CoreInv, NEW h \in Holders, AppendEnds(h) PROVE CoreInv'
<1> USE DEF registryVars, creationVars, teardownVars, factoryVars, initiatorVars
<1>1. StateTypes
  BY DEF CoreInv
<1>2. UNCHANGED <<id, creationVars, teardownVars, machine, owner, factoryVars, initiatorVars>>
  BY DEF AppendEnds
<1>3. /\ StackTypes' /\ StackInv'
      /\ \A o, k : Delivering(o, k)' <=> Delivering(o, k) /\ ~(o = "append" /\ k = h)
  <2>1. Top("append", h) /\ stack' = Tail(stack)
    BY DEF AppendEnds
  <2> QED
    BY <2>1, PopTypes
<1>4. /\ stage' \in [Stores -> [Holders -> {"out", "entered", "announcing", "announced", "disposed", "dropped"}]]
      /\ deferred' \subseteq deferred
      /\ \A k \in Holders \ {h}, s \in Stores :
           stage'[s][k] = stage[s][k] /\ (<<s, k>> \in deferred' <=> <<s, k>> \in deferred)
      /\ stage'["agents"][h] = stage["agents"][h] /\ (<<"agents", h>> \in deferred' <=> <<"agents", h>> \in deferred)
      /\ IF <<"sessions", h>> \in deferred /\ stage["sessions"][h] = "announced"
         THEN stage'["sessions"][h] = "disposed"
         ELSE /\ stage'["sessions"][h] = stage["sessions"][h]
              /\ <<"sessions", h>> \in deferred' <=> <<"sessions", h>> \in deferred
  <2>1. CASE <<"sessions", h>> \in deferred /\ stage["sessions"][h] = "announced"
    <3>1. /\ stage' = [stage EXCEPT !["sessions"][h] = "disposed"]
          /\ deferred' = deferred \ {<<"sessions", h>>}
      BY <2>1 DEF AppendEnds
    <3>2. /\ stage' \in [Stores -> [Holders -> {"out", "entered", "announcing", "announced", "disposed", "dropped"}]]
          /\ \A k \in Holders \ {h}, s \in Stores : stage'[s][k] = stage[s][k]
          /\ stage'["agents"][h] = stage["agents"][h] /\ stage'["sessions"][h] = "disposed"
      BY <1>1, <3>1 DEF StateTypes, Stores
    <3> QED
      BY <2>1, <3>1, <3>2
  <2>2. CASE ~(<<"sessions", h>> \in deferred /\ stage["sessions"][h] = "announced")
    BY <1>1, <2>2 DEF AppendEnds, StateTypes
  <2> QED
    BY <2>1, <2>2
<1>5. StateTypes'
  BY <1>1, <1>2, <1>4 DEF StateTypes
<1>6. ElsewhereKept(h)
  BY <1>3, <1>4 DEF ElsewhereKept
<1>7. ASSUME h \in Guests PROVE GuestInv(h)'
  <2>1. GuestInv(h)
    BY <1>7 DEF CoreInv
  <2> QED
    BY <1>3, <1>4, <2>1 DEF GuestInv, Stores
<1>8. ASSUME h \in Attempts PROVE AttemptInv(h)'
  <2>1. AttemptInv(h)
    BY <1>8 DEF CoreInv
  <2>2. DeliveryInv(h)'
    BY <1>2, <1>3, <1>4, <2>1 DEF AttemptInv, DeliveryInv
  <2>3. CreationInv(h)' /\ FactoryInv(h)'
    BY <1>2, <1>4, <2>1 DEF AttemptInv, CreationInv, FactoryInv, Tracked, Bare, Stores
  <2>4. h \in refused => RefusedInv(h)'
    BY <1>2, <1>4, <2>1 DEF AttemptInv, RefusedInv, DeliveryInv, Attached
  <2>5. h \notin refused => OrderlyInv(h)'
    BY <1>2, <1>4, <2>1 DEF AttemptInv, OrderlyInv, Attached, Stores
  <2> QED
    BY <1>2, <2>2, <2>3, <2>4, <2>5 DEF AttemptInv
<1> QED
  BY <1>2, <1>3, <1>5, <1>6, <1>7, <1>8, HolderAssembled

LEMMA GuestEntersStep ==
  ASSUME CoreInv, NEW g \in Guests, NEW s \in Stores, GuestEnters(s, g) PROVE CoreInv'
<1> USE DEF registryVars, creationVars, teardownVars, factoryVars, initiatorVars
<1>1. StateTypes /\ GuestInv(g) /\ g \in Holders /\ g \notin Attempts
  BY LifecycleAssumption DEF CoreInv, Holders
<1>2. /\ UNCHANGED <<id, deferred, creationVars, teardownVars, machine, owner, factoryVars, initiatorVars>>
      /\ stage[s][g] = "out" /\ stage' = [stage EXCEPT ![s][g] = "announcing"]
  BY DEF GuestEnters
<1>3. /\ StackTypes' /\ StackInv'
      /\ \A o, k : Delivering(o, k)' <=> Delivering(o, k) \/ (o = s /\ k = g)
  <2>1. <<s, g>> \in Frames \ Leavings
    BY DEF Frames, Leavings, Stores
  <2>2. ~Delivering(s, g) /\ Push(s, g)
    BY <1>1, <1>2 DEF GuestEnters, GuestInv
  <2> QED
    BY <2>1, <2>2, PushTypes
<1>4. /\ stage' \in [Stores -> [Holders -> {"out", "entered", "announcing", "announced", "disposed", "dropped"}]]
      /\ stage'[s][g] = "announcing"
      /\ \A t \in Stores, k \in Holders : t # s \/ k # g => stage'[t][k] = stage[t][k]
  BY <1>1, <1>2 DEF StateTypes
<1>5. StateTypes'
  BY <1>1, <1>2, <1>4 DEF StateTypes
<1>6. ElsewhereKept(g)
  BY <1>2, <1>3, <1>4 DEF ElsewhereKept
<1>7. GuestInv(g)'
  BY <1>1, <1>3, <1>4 DEF GuestInv
<1> QED
  BY <1>1, <1>2, <1>3, <1>5, <1>6, <1>7, HolderAssembled

LEMMA GuestToldStep ==
  ASSUME CoreInv, NEW g \in Guests, NEW s \in Stores, NEW veto \in BOOLEAN, GuestTold(s, g, veto)
  PROVE  CoreInv'
<1> USE DEF registryVars, creationVars, teardownVars, factoryVars, initiatorVars
<1>1. StateTypes /\ GuestInv(g) /\ g \in Holders /\ g \notin Attempts
  BY LifecycleAssumption DEF CoreInv, Holders
<1> DEFINE told == IF veto THEN "disposed" ELSE Unwound(s, g)
<1>2. /\ UNCHANGED <<id, creationVars, teardownVars, machine, owner, factoryVars, initiatorVars>>
      /\ stage' = [stage EXCEPT ![s][g] = told] /\ deferred' = deferred \ {<<s, g>>}
      /\ told \in {"disposed", "announced"}
  BY DEF GuestTold, Unwound
<1> HIDE DEF told
<1>3. /\ StackTypes' /\ StackInv'
      /\ \A o, k : Delivering(o, k)' <=> Delivering(o, k) /\ ~(o = s /\ k = g)
  <2>1. Top(s, g) /\ stack' = Tail(stack)
    BY DEF GuestTold
  <2> QED
    BY <2>1, PopTypes
<1>4. /\ stage' \in [Stores -> [Holders -> {"out", "entered", "announcing", "announced", "disposed", "dropped"}]]
      /\ stage'[s][g] = told
      /\ \A t \in Stores, k \in Holders : t # s \/ k # g => stage'[t][k] = stage[t][k]
  BY <1>1, <1>2 DEF StateTypes
<1>5. StateTypes'
  BY <1>1, <1>2, <1>4 DEF StateTypes
<1>6. ElsewhereKept(g)
  BY <1>2, <1>3, <1>4 DEF ElsewhereKept
<1>7. GuestInv(g)'
  BY <1>1, <1>2, <1>3, <1>4 DEF GuestInv
<1> QED
  BY <1>1, <1>2, <1>3, <1>5, <1>6, <1>7, HolderAssembled

LEMMA GuestLeavesStep ==
  ASSUME CoreInv, NEW g \in Guests, NEW s \in Stores, GuestLeaves(s, g) PROVE CoreInv'
<1> USE DEF creationVars, teardownVars, factoryVars, initiatorVars
<1>1. StateTypes /\ GuestInv(g) /\ g \in Holders /\ g \notin Attempts
  BY LifecycleAssumption DEF CoreInv, Holders
<1>2. /\ UNCHANGED <<id, stack, creationVars, teardownVars, machine, owner, factoryVars, initiatorVars>>
      /\ Detach({<<s, g>>})
  BY DEF GuestLeaves
<1>3. StackTypes' /\ StackInv' /\ \A o, k : Delivering(o, k)' <=> Delivering(o, k)
  BY <1>2, StackKept
<1>4. /\ stage' \in [Stores -> [Holders -> {"out", "entered", "announcing", "announced", "disposed", "dropped"}]]
      /\ deferred' \subseteq Stores \X Holders
      /\ \A t \in Stores, h \in Holders :
           /\ stage'[t][h] = IF <<t, h>> \in {<<s, g>>} /\ Attached(t, h) /\ ~Held(t, h)
                             THEN Gone(stage[t][h]) ELSE stage[t][h]
           /\ <<t, h>> \in deferred' <=>
                <<t, h>> \in deferred \/ (<<t, h>> \in {<<s, g>>} /\ Attached(t, h) /\ Held(t, h))
  <2>1. {<<s, g>>} \in SUBSET (Stores \X Holders)
    BY <1>1
  <2> QED
    BY <1>1, <1>2, <2>1, DetachFields
<1>5. StateTypes'
  BY <1>1, <1>2, <1>4 DEF StateTypes
<1>6. ElsewhereKept(g)
  BY <1>3, <1>4 DEF ElsewhereKept
<1>7. GuestInv(g)'
  <2>1. ASSUME NEW t \in Stores PROVE stage'[t][g] = "announcing" <=> stage[t][g] = "announcing"
    <3>1. Gone(stage[t][g]) # "announcing" /\ (~Held(t, g) => stage[t][g] # "announcing")
      BY DEF Gone, Held
    <3>2. stage'[t][g] = stage[t][g] \/ (stage'[t][g] = Gone(stage[t][g]) /\ ~Held(t, g))
      BY <1>1, <1>4
    <3> QED
      BY <3>1, <3>2
  <2> QED
    BY <1>1, <1>3, <2>1 DEF GuestInv
<1> QED
  BY <1>1, <1>2, <1>3, <1>5, <1>6, <1>7, HolderAssembled

\* A step of a fiber, which leaves every entry and every notification alone.
LEMMA FiberStep ==
  ASSUME CoreInv, StateTypes',
         UNCHANGED <<registryVars, stack, creationVars, machine, refused, flushed>>,
         \A a \in Attempts : /\ teardown'[a] = teardown[a] \/ (teardown[a] = "none" /\ teardown'[a] = "stopping")
                             /\ abort[a] => abort'[a]
                             /\ teardown'[a] # "none" => teardown[a] # "none" \/ abort'[a]
                             /\ teardown'[a] # teardown[a] => Tracked(a)
                             /\ FactoryInv(a)'
  PROVE  CoreInv'
<1>1. StackTypes' /\ StackInv' /\ \A o, k : Delivering(o, k)' <=> Delivering(o, k)
  BY StackKept
<1>2. ASSUME NEW g \in Guests PROVE GuestInv(g)'
  BY <1>1 DEF CoreInv, GuestInv, registryVars
<1>3. ASSUME NEW a \in Attempts PROVE AttemptInv(a)'
  <2>1. AttemptInv(a) /\ (a \in refused => teardown[a] = "done")
    BY AttemptFacts
  <2>2. DeliveryInv(a)'
    BY <1>1, <2>1 DEF AttemptInv, DeliveryInv, registryVars, creationVars
  <2>3. CreationInv(a)'
    BY <2>1 DEF AttemptInv, CreationInv, registryVars, creationVars, Tracked, Bare
  <2>4. a \in refused => RefusedInv(a)'
    BY <1>1, <2>1 DEF AttemptInv, RefusedInv, Attached, Appending, registryVars, creationVars
  <2>5. a \notin refused => OrderlyInv(a)'
    BY <2>1 DEF AttemptInv, OrderlyInv, Attached, registryVars, creationVars
  <2> QED
    BY <2>2, <2>3, <2>4, <2>5 DEF AttemptInv
<1> QED
  BY <1>1, <1>2, <1>3 DEF CoreInv

LEMMA InitiatorsStep ==
  ASSUME CoreInv, StateTypes',
         UNCHANGED <<registryVars, stack, creationVars, teardownVars, machine, factoryVars>>
  PROVE  CoreInv'
<1>1. ASSUME NEW a \in Attempts PROVE FactoryInv(a)'
  BY DEF CoreInv, AttemptInv, FactoryInv, Tracked, teardownVars, creationVars, factoryVars
<1> QED
  BY <1>1, FiberStep DEF teardownVars

LEMMA RegistryStep ==
  ASSUME CoreInv, NEW by \in Callers, RegistryUnloads(by) \/ DisposeInitiators \/ InitiatorsDrained
  PROVE  CoreInv'
<1> USE DEF creationVars, teardownVars, factoryVars, initiatorVars, registryVars
<1>1. StateTypes
  BY DEF CoreInv
<1>2. UNCHANGED <<id, registryVars, stack, creationVars, teardownVars, machine, owner, factoryVars, parent>>
  BY DEF RegistryUnloads, DisposeInitiators, InitiatorsDrained
<1>3. /\ initiators' \in {"active", "closing", "draining", "disposed"}
      /\ boundary' \in [Attempts -> {"none", "counted", "released"}]
      /\ unloader' \in Attempts \cup {NoOne}
  <2>1. CASE RegistryUnloads(by)
    BY <1>1, <2>1 DEF StateTypes, RegistryUnloads, Callers
  <2>2. CASE DisposeInitiators
    BY <1>1, <2>2 DEF StateTypes, DisposeInitiators
  <2>3. CASE InitiatorsDrained
    BY <1>1, <2>3 DEF StateTypes, InitiatorsDrained
  <2> QED
    BY <2>1, <2>2, <2>3
<1>4. StateTypes'
  BY <1>1, <1>2, <1>3 DEF StateTypes
<1> QED
  BY <1>2, <1>4, InitiatorsStep

LEMMA FactoryUnloadsStep == ASSUME CoreInv, FactoryUnloads PROVE CoreInv'
<1> USE DEF creationVars, teardownVars, initiatorVars, registryVars
<1>1. StateTypes'
  BY DEF CoreInv, StateTypes, FactoryUnloads
<1>2. /\ UNCHANGED <<registryVars, stack, creationVars, machine, refused, flushed, teardown, abort>>
      /\ factory' = "unloading"
  BY DEF FactoryUnloads
<1>3. \A a \in Attempts : FactoryInv(a)'
  BY <1>2 DEF FactoryInv
<1> QED
  BY <1>1, <1>2, <1>3, FiberStep

LEMMA FactoryDisposesStep == ASSUME CoreInv, FactoryDisposes PROVE CoreInv'
<1> USE DEF creationVars, initiatorVars, registryVars
<1>1. StateTypes
  BY DEF CoreInv
<1>2. /\ UNCHANGED <<id, registryVars, stack, creationVars, refused, flushed, machine, owner, initiatorVars>>
      /\ factory' = "disposing" /\ awaited' = Awaited
  BY DEF FactoryDisposes
<1>3. /\ teardown' \in [Attempts -> {"none", "stopping", "unwinding", "flushing", "leaving", "done"}]
      /\ \A a \in Attempts : teardown'[a] = IF Tracked(a) /\ teardown[a] = "none" THEN "stopping" ELSE teardown[a]
  BY <1>1 DEF FactoryDisposes, StateTypes, Undisposed
<1>4. /\ abort' \in [Attempts -> BOOLEAN]
      /\ \A a \in Attempts : abort'[a] <=>
           abort[a] \/ pc[a] \notin Settled \cup {"none"} \/ (Tracked(a) /\ teardown[a] = "none")
  <2>1. abort' = [a \in Attempts |-> abort[a] \/ a \in AbortedByFactory]
    BY DEF FactoryDisposes
  <2>2. \A a \in Attempts : (abort[a] \/ a \in AbortedByFactory) \in BOOLEAN
    OBVIOUS
  <2>3. abort' \in [Attempts -> BOOLEAN]
    BY <2>1, <2>2, Zenon
  <2>4. \A a \in Attempts : a \in AbortedByFactory <=>
          pc[a] \notin Settled \cup {"none"} \/ (Tracked(a) /\ teardown[a] = "none")
    BY DEF AbortedByFactory, Creating, Undisposed
  <2>5. \A a \in Attempts : abort'[a] <=> abort[a] \/ a \in AbortedByFactory
    BY <2>1
  <2> QED
    BY <2>3, <2>4, <2>5
<1>5. awaited' \subseteq Attempts
  BY <1>2 DEF Awaited, Creating, Undisposed, TearingDown
<1>6. StateTypes'
  BY <1>1, <1>2, <1>3, <1>4, <1>5 DEF StateTypes
<1>7. ASSUME NEW a \in Attempts PROVE FactoryInv(a)'
  <2>1. a \notin awaited' => pc[a] \in Settled \cup {"none"} /\ teardown[a] \in {"none", "done"} /\ ~(Tracked(a) /\ teardown[a] = "none")
    BY <1>2 DEF Awaited, Creating, Undisposed, TearingDown
  <2> QED
    BY <1>2, <1>3, <1>4, <2>1 DEF FactoryInv, Tracked
<1>8. ASSUME NEW a \in Attempts
      PROVE  /\ teardown'[a] = teardown[a] \/ (teardown[a] = "none" /\ teardown'[a] = "stopping")
             /\ abort[a] => abort'[a]
             /\ teardown'[a] # "none" => teardown[a] # "none" \/ abort'[a]
             /\ teardown'[a] # teardown[a] => Tracked(a)
  BY <1>3, <1>4
<1> QED
  BY <1>2, <1>6, <1>7, <1>8, FiberStep

LEMMA FactoryDisposedStep == ASSUME CoreInv, FactoryDisposed PROVE CoreInv'
<1> USE DEF creationVars, teardownVars, initiatorVars, registryVars
<1>1. StateTypes'
  BY DEF CoreInv, StateTypes, FactoryDisposed
<1>2. /\ UNCHANGED <<registryVars, stack, creationVars, machine, refused, flushed, teardown, abort, awaited>>
      /\ factory = "disposing" /\ factory' = "disposed"
      /\ \A a \in awaited : pc[a] \in Settled /\ teardown[a] \in {"none", "done"}
  BY DEF FactoryDisposed
<1>3. ASSUME NEW a \in Attempts PROVE FactoryInv(a)'
  BY <1>2 DEF CoreInv, AttemptInv, FactoryInv, Tracked
<1> QED
  BY <1>1, <1>2, <1>3, FiberStep

-----------------------------------------------------------------------------
(* The inductive invariant holds.                                          *)

LEMMA InitCore == Init => LifecycleInv
<1> SUFFICES ASSUME Init PROVE LifecycleInv
  OBVIOUS
<1>1. PICK plan \in Plans : id = plan.id /\ kind = plan.kind /\ calls = plan.calls
  BY DEF Init
<1>2. plan \in Plan
  BY LifecycleAssumption
<1>3. id \in [Holders -> Ids] /\ kind \in [Holders -> Kinds] /\ calls \in Nat
  BY <1>1, <1>2 DEF Plan
<1>4. StateTypes
  BY <1>3 DEF Init, StateTypes, Settled, Signalled
<1>5. stack = <<>> /\ \A o, k : ~Delivering(o, k)
  BY DEF Init, Delivering
<1>6. StackTypes /\ StackInv
  BY <1>5, LifecycleAssumption DEF StackTypes, StackInv, Distinct, OnlyLast
<1>7. ASSUME NEW h \in Holders PROVE \A s \in Stores : stage[s][h] = "out" /\ <<s, h>> \notin deferred
  BY DEF Init
<1>8. ASSUME NEW g \in Guests PROVE GuestInv(g)
  BY <1>5, <1>7 DEF GuestInv, Holders
<1>9. ASSUME NEW a \in Attempts PROVE AttemptInv(a)
  <2>1. /\ pc[a] = "none" /\ load[a] = "none" /\ machine[a] = "none" /\ teardown[a] = "none"
        /\ factory = "active" /\ a \notin refused
    BY DEF Init
  <2>2. stage["agents"][a] = "out" /\ stage["sessions"][a] = "out" /\ Bare(a) /\ \A s \in Stores : <<s, a>> \notin deferred
    BY <1>7 DEF Holders, Stores, Bare
  <2> QED
    BY <1>5, <2>1, <2>2 DEF AttemptInv, DeliveryInv, CreationInv, FactoryInv, OrderlyInv, Attached, Tracked,
       Windows, Unpublished
<1> QED
  BY <1>3, <1>4, <1>6, <1>8, <1>9 DEF LifecycleInv, CoreInv

LEMMA StutterCore == ASSUME CoreInv, UNCHANGED vars PROVE CoreInv'
<1> USE DEF vars, registryVars, stackVars, creationVars, teardownVars, factoryVars, initiatorVars
<1>1. StateTypes'
  BY DEF CoreInv, StateTypes
<1> QED
  BY <1>1, InitiatorsStep

LEMMA AsksCore == ASSUME CoreInv, Asks PROVE CoreInv'
<1>1. PICK a \in Attempts :
        \/ Create(a) \/ CreateConfigured(a) \/ Resume(a) \/ Restore(a)
        \/ Loaded(a) \/ LoadEnds(a) \/ SetupEnds(a, TRUE) \/ SetupEnds(a, FALSE)
  BY DEF Asks
<1> QED
  BY <1>1, CreateStep, CreateConfiguredStep, ResumeStep, RestoreStep, LoadedStep, LoadEndsStep, SetupEndsStep

LEMMA CallsCore == ASSUME CoreInv, Calls PROVE CoreInv'
<1>1. CASE \E h \in Holders : AppendBegins(h)
  BY <1>1, AppendBeginsStep
<1>2. CASE \E g \in Guests, s \in Stores : GuestEnters(s, g) \/ GuestLeaves(s, g)
  BY <1>2, GuestEntersStep, GuestLeavesStep
<1>3. ASSUME NEW a \in Attempts,
        \/ CallerAborts(a) \/ OwnerUnloads(a)
        \/ Dispose(a) \/ DisposeRefused(a) \/ CloseIfIdle(a)
        \/ \E by \in Callers : Wake(a, by)
      PROVE CoreInv'
  BY <1>3, CallerAbortsStep, OwnerUnloadsStep, DisposeStep, DisposeRefusedStep, WakeStep DEF CloseIfIdle
<1>4. CASE FactoryUnloads
  BY <1>4, FactoryUnloadsStep
<1>5. CASE \E by \in Callers : RegistryUnloads(by)
  BY <1>5, RegistryStep
<1> QED
  BY <1>1, <1>2, <1>3, <1>4, <1>5 DEF Calls

LEMMA ReturnsCore == ASSUME CoreInv, Returns PROVE CoreInv'
<1>1. CASE \E h \in Holders : AppendEnds(h)
  BY <1>1, AppendEndsStep
<1>2. CASE \E g \in Guests, s \in Stores : \E veto \in BOOLEAN : GuestTold(s, g, veto)
  BY <1>2, GuestToldStep
<1>3. ASSUME NEW a \in Attempts,
        \/ \E veto \in BOOLEAN : SessionTold(a, veto) \/ AgentTold(a, veto)
        \/ StartTold(a) \/ SessionLeaves(a)
      PROVE CoreInv'
  BY <1>3, SessionToldStep, AgentToldStep, StartToldStep, SessionLeavesStep
<1> QED
  BY <1>1, <1>2, <1>3 DEF Returns

LEMMA ContinuesCore == ASSUME CoreInv, NEW a \in Attempts, Continues(a) PROVE CoreInv'
<1>1. CASE \E exists \in BOOLEAN : Listed(a, exists)
  BY <1>1, ListedStep
<1> QED
  BY <1>1, FormerLeftStep, RolledBackStep, StoppedStep, UnwoundStep, AgentLeavesStep, OwnerEffectsStep DEF Continues

LEMMA FibersCore == ASSUME CoreInv, FactoryContinues \/ InitiatorsContinue PROVE CoreInv'
<1>1. NoOne \in Callers
  BY DEF Callers
<1> QED
  BY <1>1, FactoryUnloadsStep, FactoryDisposesStep, FactoryDisposedStep, RegistryStep
     DEF FactoryContinues, InitiatorsContinue

LEMMA NextCore == ASSUME LifecycleInv, [Next]_vars PROVE LifecycleInv'
<1>1. CoreInv /\ calls \in Nat
  BY DEF LifecycleInv
<1>2. CASE UNCHANGED vars
  BY <1>1, <1>2, StutterCore DEF vars, stackVars, LifecycleInv
<1>3. CASE CountedCalls
  BY <1>1, <1>3, CallsCore DEF CountedCalls, LifecycleInv
<1>4. CASE /\ \/ Asks \/ Returns \/ FactoryContinues \/ InitiatorsContinue
              \/ \E a \in Attempts : Continues(a) \/ AbandonedLoadEnds(a) \/ Converges(a)
           /\ UNCHANGED calls
  BY <1>1, <1>4, AsksCore, ReturnsCore, FibersCore, ContinuesCore, AbandonedLoadEndsStep, ConvergesStep
     DEF LifecycleInv
<1> QED
  BY <1>2, <1>3, <1>4 DEF Next

\* Every state of the registries, the stack of notifications and the attempts
\* is one the code can be in: a notification is delivered once and its subject
\* is where it says, a teardown goes driver, scope, session, agent, a refused
\* one has released the entries, and the factory's covers every attempt.
THEOREM LifecycleInvariant == Spec => []LifecycleInv
<1>1. LifecycleInv /\ [Next]_vars => LifecycleInv'
  BY NextCore
<1> QED
  BY InitCore, <1>1, PTL DEF Spec

-----------------------------------------------------------------------------
(* What follows of every state.                                            *)

\* TypeOK for any number of agents and nested notifications: the stack stays
\* bounded by the calls that may nest.
THEOREM TypesHold == Spec => []TypeOK
<1>1. ASSUME LifecycleInv PROVE TypeOK
  <2>1. StateTypes /\ StackTypes /\ calls \in Nat
    BY <1>1 DEF LifecycleInv, CoreInv
  <2>2. \A n \in DOMAIN stack : stack[n] \in Frames
    BY <2>1, LenProperties, ElementOfSeq DEF StackTypes
  <2> QED
    BY <2>1, <2>2 DEF TypeOK, StateTypes, StackTypes, Frames
<1> QED
  BY <1>1, LifecycleInvariant, PTL

LEMMA QuiescentState == ASSUME LifecycleInv PROVE LeavesQuiescent
<1> SUFFICES ASSUME NEW a \in Attempts, a \notin refused
             PROVE  /\ Attached("agents", a) => Attached("sessions", a)
                    /\ stage["agents"][a] \in {"disposed", "dropped"}
                         => a \in flushed /\ machine[a] = "idle" /\ teardown[a] \in {"leaving", "done"}
                    /\ teardown[a] = "done" => ~Attached("sessions", a) /\ machine[a] \in {"none", "idle"}
  BY DEF LeavesQuiescent
<1>1. OrderlyInv(a) /\ CreationInv(a)
  BY DEF LifecycleInv, CoreInv, AttemptInv
<1>2. machine[a] = "none" => stage["agents"][a] = "out"
  BY <1>1 DEF CreationInv, Bare, Stores
<1> QED
  BY <1>1, <1>2 DEF OrderlyInv, Attached

\* An agent leaves the registry behind its driver, its scope and the flush of
\* its session, and the session leaves the store after it.
THEOREM AgentsLeaveQuiescent == Spec => []LeavesQuiescent
  BY QuiescentState, LifecycleInvariant, PTL

LEMMA RejectedState == ASSUME LifecycleInv PROVE RejectedLeavesNothing
<1> SUFFICES ASSUME NEW a \in Attempts, pc[a] = "rejected"
             PROVE  /\ load[a] # "held"
                    /\ Tracked(a) => teardown[a] # "none"
                    /\ Attached("agents", a) \/ Attached("sessions", a)
                         => kind[a] = "config" \/ Delivering("append", a)
  BY DEF RejectedLeavesNothing
<1>1. CreationInv(a) /\ IF a \in refused THEN RefusedInv(a) ELSE OrderlyInv(a)
  BY DEF LifecycleInv, CoreInv, AttemptInv
<1>2. load[a] # "held" /\ (Tracked(a) => teardown[a] # "none")
  BY <1>1 DEF CreationInv, Windows
<1>3. ASSUME Attached("agents", a) \/ Attached("sessions", a), kind[a] # "config"
      PROVE  Delivering("append", a)
  <2>1. teardown[a] = "done"
    BY <1>1, <1>3 DEF CreationInv, Bare, Attached, Stores
  <2>2. a \in refused
    BY <1>1, <1>3, <2>1 DEF OrderlyInv, Attached
  <2> QED
    BY <1>1, <1>3, <2>2 DEF RefusedInv, Appending
<1> QED
  BY <1>2, <1>3

\* A creation that failed at any point, be it load, construction, setup or one
\* of the three notifications, is rejected with nothing of it left.
THEOREM NothingLeftOfRejected == Spec => []RejectedLeavesNothing
  BY RejectedState, LifecycleInvariant, PTL

LEMMA FactoryState == ASSUME LifecycleInv PROVE FactoryQuiescent
<1> SUFFICES ASSUME factory = "disposed", NEW a \in Attempts
             PROVE  /\ pc[a] \in Settled \cup {"none"}
                    /\ teardown[a] = (IF machine[a] = "none" /\ teardown[a] = "none" THEN "none" ELSE "done")
                    /\ \A s \in Stores : Attached(s, a) => Appending(a)
  BY DEF FactoryQuiescent
<1>1. FactoryInv(a) /\ CreationInv(a) /\ IF a \in refused THEN RefusedInv(a) ELSE OrderlyInv(a)
  BY DEF LifecycleInv, CoreInv, AttemptInv
<1>2. /\ pc[a] \in Settled \cup {"none"} /\ teardown[a] \in {"none", "done"}
      /\ machine[a] # "none" => teardown[a] = "done"
  BY <1>1 DEF FactoryInv, Tracked
<1>3. ASSUME NEW s \in Stores, Attached(s, a) PROVE Appending(a)
  <2>1. machine[a] # "none"
    BY <1>1, <1>3 DEF CreationInv, Bare, Attached
  <2>2. a \in refused
    BY <1>1, <1>2, <1>3, <2>1 DEF OrderlyInv, Attached, Stores
  <2> QED
    BY <1>1, <1>2, <1>3, <2>2 DEF RefusedInv, Stores, Settled
<1> QED
  BY <1>2, <1>3

\* When the factory's teardown resolves nothing of it is alive or in flight,
\* and no later step of anybody makes it so.
THEOREM FactoryLeavesNothing == Spec => []FactoryQuiescent
  BY FactoryState, LifecycleInvariant, PTL

\* Only the return of the last notification hands an agent out.
LEMMA OnlyStartHandsOut ==
  ASSUME CoreInv, Next, NEW a \in Attempts, pc[a] # "live", pc'[a] = "live"
  PROVE  StartTold(a)
<1>1. pc \in [Attempts -> Signalled \cup Settled \cup {"none", "draining", "listing", "failing"}]
  BY DEF CoreInv, StateTypes
<1>2. ASSUME NEW b \in Attempts, NEW v, v # "live", pc' = [pc EXCEPT ![b] = v] PROVE FALSE
  BY <1>1, <1>2
<1>3. ASSUME NEW b \in Attempts, NEW v, v # "live", Publish(b, v) PROVE FALSE
  <2>1. pc' = [pc EXCEPT ![b] = "sessionWindow"] \/ pc' = [pc EXCEPT ![b] = v]
    BY <1>3 DEF Publish, RollBack
  <2> QED
    BY <1>2, <1>3, <2>1
<1>4. ASSUME NEW b \in Attempts, CreateAtOnce(b) PROVE FALSE
  <2>1. Publish(b, "rejected") \/ pc' = [pc EXCEPT ![b] = "rejected"]
    BY <1>4 DEF CreateAtOnce, ConstructionFails, Reject
  <2> QED
    BY <1>2, <1>3, <2>1
<1>5. ~Asks
  <2> SUFFICES ASSUME NEW b \in Attempts,
                      \/ Create(b) \/ CreateConfigured(b) \/ Resume(b) \/ Restore(b)
                      \/ Loaded(b) \/ LoadEnds(b) \/ SetupEnds(b, TRUE) \/ SetupEnds(b, FALSE)
               PROVE  FALSE
    BY DEF Asks
  <2>1. ASSUME Create(b) PROVE FALSE
    BY <1>2, <2>1 DEF Create, ConstructionFails, Reject
  <2>2. ASSUME CreateConfigured(b) PROVE FALSE
    BY <1>4, <2>2 DEF CreateConfigured
  <2>3. ASSUME Resume(b) \/ Restore(b) PROVE FALSE
    BY <1>2, <2>3 DEF Resume, Restore, Load, Reject
  <2>4. ASSUME Loaded(b) PROVE FALSE
    BY <1>2, <2>4 DEF Loaded
  <2>5. ASSUME LoadEnds(b) PROVE FALSE
    <3> DEFINE v == IF kind[b] = "restore" /\ factory = "active" THEN "listing" ELSE "rejected"
    <3>1. pc' = [pc EXCEPT ![b] = v] /\ v # "live"
      BY <2>5 DEF LoadEnds
    <3> HIDE DEF v
    <3> QED
      BY <1>2, <3>1
  <2>6. ASSUME SetupEnds(b, TRUE) \/ SetupEnds(b, FALSE) PROVE FALSE
    <3>1. Publish(b, "failing") \/ pc' = [pc EXCEPT ![b] = "failing"]
      BY <2>6 DEF SetupEnds, RollBack
    <3> QED
      BY <1>2, <1>3, <3>1
  <2> QED
    BY <2>1, <2>2, <2>3, <2>4, <2>5, <2>6
<1>6. ASSUME NEW b \in Attempts, Continues(b) \/ AbandonedLoadEnds(b) \/ Converges(b) PROVE FALSE
  <2>1. ASSUME NEW exists, Listed(b, exists) PROVE FALSE
    BY <1>2, <1>4, <2>1 DEF Listed, Reject
  <2>2. ASSUME FormerLeft(b) \/ RolledBack(b) PROVE FALSE
    BY <1>2, <2>2 DEF FormerLeft, RolledBack, Load, Reject
  <2>3. CASE Stopped(b) \/ ScopeUnwound(b) \/ AgentLeaves(b) \/ OwnerEffects(b)
    BY <2>3 DEF Stopped, ScopeUnwound, AgentLeaves, OwnerEffects, creationVars
  <2>4. CASE AbandonedLoadEnds(b) \/ Converges(b)
    BY <2>4 DEF AbandonedLoadEnds, Converges, creationVars
  <2> QED
    BY <1>6, <2>1, <2>2, <2>3, <2>4 DEF Continues
<1>7. ~Calls
  BY DEF Calls, AppendBegins, GuestEnters, GuestLeaves, CallerAborts, OwnerUnloads, Dispose, DisposeRefused,
     CloseIfIdle, Wake, FactoryUnloads, RegistryUnloads, creationVars
<1>8. ~FactoryContinues /\ ~InitiatorsContinue
  BY DEF FactoryContinues, InitiatorsContinue, FactoryUnloads, FactoryDisposes, FactoryDisposed,
     DisposeInitiators, InitiatorsDrained, creationVars
<1>9. Returns
  BY <1>5, <1>6, <1>7, <1>8 DEF Next, CountedCalls
<1>10. ASSUME NEW b \in Attempts, NEW veto, SessionTold(b, veto) \/ AgentTold(b, veto) PROVE FALSE
  <2>1. AfterRollBack(b) # "live"
    BY DEF AfterRollBack
  <2>2. \/ pc' = [pc EXCEPT ![b] = AfterRollBack(b)] \/ pc' = [pc EXCEPT ![b] = "agentWindow"]
        \/ pc' = [pc EXCEPT ![b] = "startWindow"]
    BY <1>10 DEF SessionTold, AgentTold, RollBack
  <2> QED
    BY <1>2, <2>1, <2>2
<1>11. CASE \E h \in Holders : AppendEnds(h)
  BY <1>11 DEF AppendEnds, creationVars
<1>12. CASE \E g \in Guests, s \in Stores : \E veto \in BOOLEAN : GuestTold(s, g, veto)
  BY <1>12 DEF GuestTold, creationVars
<1>13. ASSUME NEW b \in Attempts, SessionLeaves(b) PROVE FALSE
  BY <1>13 DEF SessionLeaves, creationVars
<1>14. ASSUME NEW b \in Attempts, StartTold(b) PROVE b = a
  <2>1. AfterRollBack(b) # "live"
    BY DEF AfterRollBack
  <2>2. pc' = [pc EXCEPT ![b] = AfterRollBack(b)] \/ pc' = [pc EXCEPT ![b] = "live"]
    BY <1>14 DEF StartTold, RollBack
  <2> QED
    BY <1>1, <1>2, <2>1, <2>2
<1> QED
  BY <1>9, <1>10, <1>11, <1>12, <1>13, <1>14 DEF Returns

LEMMA HandedOut ==
  ASSUME CoreInv, Next, NEW a \in Attempts, pc[a] # "live", pc'[a] = "live"
  PROVE  /\ \A s \in Stores : stage'[s][a] = "announced" /\ <<s, a>> \notin deferred'
         /\ teardown'[a] = "none" /\ load'[a] # "held"
         /\ factory \in {"active", "unloading"}
<1>1. AttemptInv(a) /\ StateTypes /\ (a \in refused => teardown[a] = "done")
  BY AttemptFacts
<1>2. StartTold(a)
  BY OnlyStartHandsOut
<1>3. ~abort[a]
  <2>1. CASE abort[a]
    <3>1. pc' = [pc EXCEPT ![a] = AfterRollBack(a)] /\ AfterRollBack(a) # "live"
      BY <1>2, <2>1 DEF StartTold, RollBack, AfterRollBack
    <3> QED
      BY <1>1, <3>1 DEF StateTypes
  <2> QED
    BY <2>1
<1>4. /\ pc[a] = "startWindow" /\ UNCHANGED <<stage, deferred, abort, teardown>>
      /\ load' = [load EXCEPT ![a] = IF @ = "held" THEN "released" ELSE @]
  BY <1>2, <1>3 DEF StartTold, registryVars
<1>5. teardown[a] = "none" /\ Tracked(a) /\ a \notin refused /\ OrderlyInv(a)
  BY <1>1, <1>3, <1>4 DEF AttemptInv, CreationInv, Windows
<1>6. factory \notin {"disposing", "disposed"}
  BY <1>1, <1>5 DEF AttemptInv, FactoryInv
<1>7. stage["agents"][a] = "announced" /\ stage["sessions"][a] = "announced"
  BY <1>1, <1>4, <1>5 DEF AttemptInv, CreationInv, OrderlyInv, Attached
<1>8. load'[a] # "held"
  BY <1>1, <1>4 DEF StateTypes
<1> QED
  BY <1>1, <1>4, <1>5, <1>6, <1>7, <1>8 DEF OrderlyInv, Stores, StateTypes

\* Whoever is handed an agent is handed one that both registries hold and have
\* told of and that nobody began to tear down, however the calls nested in the
\* notifications of its creation.
THEOREM HandedOutIsAlive == Spec => HandedOutAlive
<1>1. ASSUME LifecycleInv, [Next]_vars
      PROVE  [\A a \in Attempts : pc[a] # "live" /\ pc'[a] = "live" =>
                /\ \A s \in Stores : stage'[s][a] = "announced" /\ <<s, a>> \notin deferred'
                /\ teardown'[a] = "none" /\ load'[a] # "held"
                /\ factory \in {"active", "unloading"}]_vars
  <2>1. CASE UNCHANGED vars
    BY <2>1
  <2>2. CASE Next
    BY <1>1, <2>2, HandedOut DEF LifecycleInv
  <2> QED
    BY <1>1, <2>1, <2>2
<1> QED
  BY <1>1, LifecycleInvariant, PTL DEF Spec, HandedOutAlive

-----------------------------------------------------------------------------
(* Both registries implement LifecycleDirectory.                           *)

\* What is being told of is what is announcing.
LEMMA TellingIs == ASSUME CoreInv, NEW s \in Stores PROVE Telling(s) = {h \in Holders : stage[s][h] = "announcing"}
<1>1. \A g \in Guests : Delivering(s, g) <=> stage[s][g] = "announcing"
  BY DEF CoreInv, GuestInv
<1>2. ASSUME NEW a \in Attempts
      PROVE  pc[a] = (IF s = "agents" THEN "agentWindow" ELSE "sessionWindow") <=> stage[s][a] = "announcing"
  BY DEF CoreInv, AttemptInv, DeliveryInv, Stores
<1> QED
  BY <1>1, <1>2 DEF Telling, Holders

LEMMA TellingIsNext ==
  ASSUME CoreInv', NEW s \in Stores PROVE Telling(s)' = {h \in Holders : stage'[s][h] = "announcing"}
<1>1. \A g \in Guests : Delivering(s, g)' <=> stage'[s][g] = "announcing"
  BY DEF CoreInv, GuestInv
<1>2. ASSUME NEW a \in Attempts
      PROVE  pc'[a] = (IF s = "agents" THEN "agentWindow" ELSE "sessionWindow") <=> stage'[s][a] = "announcing"
  BY DEF CoreInv, AttemptInv, DeliveryInv, Stores
<1> QED
  BY <1>1, <1>2 DEF Telling, Holders

\* A step of one entry that a directory allows.
Allowed(s, h) ==
  \/ stage[s][h] = "out" /\ stage'[s][h] \in {"entered", "announcing"} /\ Free(s, id[h])
  \/ stage[s][h] = "entered" /\ stage'[s][h] \in {"announcing", "dropped"}
  \/ stage[s][h] = "announcing" /\ stage'[s][h] \in {"announced", "disposed"}
  \/ stage[s][h] = "announced" /\ stage'[s][h] = "disposed"
  \/ stage'[s][h] = stage[s][h]
StoreStep(s) ==
  \/ stage'[s] = stage[s]
  \/ \E h \in Holders : Allowed(s, h) /\ \A k \in Holders \ {h} : stage'[s][k] = stage[s][k]
StoresStep == UNCHANGED id /\ \A s \in Stores : StoreStep(s)

LEMMA PublishStores ==
  ASSUME CoreInv, NEW a \in Attempts, NEW after, pc[a] \in Unpublished, Publish(a, after), UNCHANGED id
  PROVE  StoresStep
<1>1. AttemptInv(a) /\ StateTypes /\ a \in Holders
  BY AttemptFacts
<1>2. stage["sessions"][a] = "out" /\ stage["agents"][a] = "out"
  BY <1>1 DEF AttemptInv, CreationInv, Bare, Stores
<1>3. ASSUME Free("sessions", id[a]), Free("agents", id[a]),
             stage' = [stage EXCEPT !["sessions"][a] = "announcing", !["agents"][a] = "entered"]
      PROVE  StoresStep
  <2>1. /\ stage'["sessions"][a] = "announcing" /\ stage'["agents"][a] = "entered"
        /\ \A k \in Holders \ {a}, s \in Stores : stage'[s][k] = stage[s][k]
    BY <1>1, <1>3 DEF StateTypes, Stores
  <2> QED
    BY <1>1, <1>2, <1>3, <2>1 DEF StoresStep, StoreStep, Allowed, Stores
<1>4. ASSUME Free("sessions", id[a]), stage' = [stage EXCEPT !["sessions"][a] = "entered"]
      PROVE  StoresStep
  <2>1. /\ stage'["sessions"][a] = "entered" /\ stage'["agents"] = stage["agents"]
        /\ \A k \in Holders \ {a} : stage'["sessions"][k] = stage["sessions"][k]
    BY <1>1, <1>4 DEF StateTypes, Stores
  <2> QED
    BY <1>1, <1>2, <1>4, <2>1 DEF StoresStep, StoreStep, Allowed, Stores
<1>5. CASE UNCHANGED stage
  BY <1>5 DEF StoresStep, StoreStep
<1> QED
  BY <1>3, <1>4, <1>5 DEF Publish, registryVars

LEMMA CreateAtOnceStores ==
  ASSUME CoreInv, NEW a \in Attempts, pc[a] \in Unpublished, CreateAtOnce(a), UNCHANGED id
  PROVE  StoresStep
<1>1. Publish(a, "rejected") \/ UNCHANGED stage
  BY DEF CreateAtOnce, ConstructionFails, registryVars
<1> QED
  BY <1>1, PublishStores DEF StoresStep, StoreStep

\* Detaching the entries of one holder.
LEMMA DetachStores ==
  ASSUME CoreInv, NEW h \in Holders, NEW entries \in SUBSET (Stores \X {h}), Detach(entries), UNCHANGED id
  PROVE  StoresStep
<1>1. StateTypes /\ entries \in SUBSET (Stores \X Holders)
  BY DEF CoreInv
<1>2. \A s \in Stores, k \in Holders :
        stage'[s][k] = IF <<s, k>> \in entries /\ Attached(s, k) /\ ~Held(s, k)
                       THEN Gone(stage[s][k]) ELSE stage[s][k]
  BY <1>1, DetachFields
<1>3. ASSUME NEW s \in Stores PROVE StoreStep(s)
  <2>1. \A k \in Holders \ {h} : <<s, k>> \notin entries
    OBVIOUS
  <2>2. \A k \in Holders \ {h} : stage'[s][k] = stage[s][k]
    BY <1>2, <2>1
  <2>3. Allowed(s, h)
    BY <1>2 DEF Allowed, Attached, Held, Gone
  <2> QED
    BY <2>2, <2>3 DEF StoreStep
<1> QED
  BY <1>3 DEF StoresStep

LEMMA LeavesStores ==
  ASSUME CoreInv, NEW a \in Attempts, DisposeRefused(a) \/ AgentLeaves(a) \/ SessionLeaves(a)
  PROVE  StoresStep
<1>1. UNCHANGED id
  BY DEF DisposeRefused, AgentLeaves, SessionLeaves
<1>2. Detach(Mine(a)) \/ Detach({<<"agents", a>>}) \/ Detach({<<"sessions", a>>})
  BY DEF DisposeRefused, AgentLeaves, SessionLeaves
<1>3. /\ a \in Holders /\ Mine(a) \in SUBSET (Stores \X {a})
      /\ {<<"agents", a>>} \in SUBSET (Stores \X {a}) /\ {<<"sessions", a>>} \in SUBSET (Stores \X {a})
  BY DEF Mine, Stores, Holders
<1> QED
  BY <1>1, <1>2, <1>3, DetachStores

LEMMA ToldStores ==
  ASSUME CoreInv, NEW a \in Attempts, NEW veto, SessionTold(a, veto) \/ AgentTold(a, veto)
  PROVE  StoresStep
<1>1. AttemptInv(a) /\ StateTypes /\ a \in Holders
  BY AttemptFacts
<1>2. UNCHANGED id /\ \A s \in Stores : Unwound(s, a) \in {"announced", "disposed"}
  BY DEF SessionTold, AgentTold, StartVars, Unwound
<1>3. CASE SessionTold(a, veto)
  <2>1. stage["sessions"][a] = "announcing"
    BY <1>1, <1>3 DEF AttemptInv, DeliveryInv, SessionTold
  <2>2. CASE stage' = [stage EXCEPT !["sessions"][a] = Unwound("sessions", a)]
    <3>1. /\ stage'["sessions"][a] = Unwound("sessions", a) /\ stage'["agents"] = stage["agents"]
          /\ \A k \in Holders \ {a} : stage'["sessions"][k] = stage["sessions"][k]
      BY <1>1, <2>2 DEF StateTypes, Stores
    <3> QED
      BY <1>1, <1>2, <2>1, <3>1 DEF StoresStep, StoreStep, Allowed, Stores
  <2>3. CASE /\ stage["agents"][a] = "entered"
             /\ stage' = [stage EXCEPT !["sessions"][a] = Unwound("sessions", a), !["agents"][a] = "announcing"]
    <3>1. /\ stage'["sessions"][a] = Unwound("sessions", a) /\ stage'["agents"][a] = "announcing"
          /\ \A k \in Holders \ {a}, s \in Stores : stage'[s][k] = stage[s][k]
      BY <1>1, <2>3 DEF StateTypes, Stores
    <3>2. Allowed("sessions", a) /\ Allowed("agents", a)
      BY <1>2, <2>1, <2>3, <3>1 DEF Allowed, Stores
    <3> QED
      BY <1>1, <1>2, <3>1, <3>2 DEF StoresStep, StoreStep, Stores
  <2> QED
    BY <1>3, <2>2, <2>3 DEF SessionTold
<1>4. CASE AgentTold(a, veto)
  <2>1. stage["agents"][a] = "announcing"
    BY <1>1, <1>4 DEF AttemptInv, DeliveryInv, AgentTold
  <2>2. /\ stage'["agents"][a] = Unwound("agents", a) /\ stage'["sessions"] = stage["sessions"]
        /\ \A k \in Holders \ {a} : stage'["agents"][k] = stage["agents"][k]
    BY <1>1, <1>4 DEF AgentTold, StateTypes, Stores
  <2> QED
    BY <1>1, <1>2, <2>1, <2>2 DEF StoresStep, StoreStep, Allowed, Stores
<1> QED
  BY <1>3, <1>4

LEMMA AppendEndsStores == ASSUME CoreInv, NEW h \in Holders, AppendEnds(h) PROVE StoresStep
<1>1. StateTypes /\ UNCHANGED id
  BY DEF CoreInv, AppendEnds
<1>2. CASE UNCHANGED stage
  BY <1>1, <1>2 DEF StoresStep, StoreStep
<1>3. CASE stage["sessions"][h] = "announced" /\ stage' = [stage EXCEPT !["sessions"][h] = "disposed"]
  <2>1. /\ stage'["sessions"][h] = "disposed" /\ stage'["agents"] = stage["agents"]
        /\ \A k \in Holders \ {h} : stage'["sessions"][k] = stage["sessions"][k]
    BY <1>1, <1>3 DEF StateTypes, Stores
  <2> QED
    BY <1>1, <1>3, <2>1 DEF StoresStep, StoreStep, Allowed, Stores
<1> QED
  BY <1>2, <1>3 DEF AppendEnds, registryVars

LEMMA GuestStores ==
  ASSUME CoreInv, NEW g \in Guests, NEW s \in Stores,
         GuestEnters(s, g) \/ GuestLeaves(s, g) \/ \E veto \in BOOLEAN : GuestTold(s, g, veto)
  PROVE  StoresStep
<1>1. StateTypes /\ GuestInv(g) /\ g \in Holders /\ UNCHANGED id
  BY DEF CoreInv, Holders, GuestEnters, GuestLeaves, GuestTold
<1>2. CASE GuestLeaves(s, g)
  <2>1. {<<s, g>>} \in SUBSET (Stores \X {g}) /\ Detach({<<s, g>>})
    BY <1>2 DEF GuestLeaves
  <2> QED
    BY <1>1, <2>1, DetachStores
<1>3. ASSUME NEW to, stage' = [stage EXCEPT ![s][g] = to],
             \/ stage[s][g] = "out" /\ to = "announcing" /\ Free(s, id[g])
             \/ stage[s][g] = "announcing" /\ to \in {"announced", "disposed"}
      PROVE  StoresStep
  <2>1. /\ stage'[s][g] = to /\ \A k \in Holders \ {g} : stage'[s][k] = stage[s][k]
        /\ \A t \in Stores \ {s} : stage'[t] = stage[t]
    BY <1>1, <1>3 DEF StateTypes
  <2> QED
    BY <1>1, <1>3, <2>1 DEF StoresStep, StoreStep, Allowed
<1>4. CASE GuestEnters(s, g)
  BY <1>3, <1>4 DEF GuestEnters
<1>5. ASSUME NEW veto \in BOOLEAN, GuestTold(s, g, veto) PROVE StoresStep
  <2> DEFINE told == IF veto THEN "disposed" ELSE Unwound(s, g)
  <2>1. stage' = [stage EXCEPT ![s][g] = told] /\ told \in {"announced", "disposed"}
    BY <1>5 DEF GuestTold, Unwound
  <2>2. Top(s, g) /\ stack' = Tail(stack)
    BY <1>5 DEF GuestTold
  <2>3. Delivering(s, g)
    BY <2>2, PopTypes
  <2>4. stage[s][g] = "announcing"
    BY <1>1, <2>3 DEF GuestInv
  <2> HIDE DEF told
  <2> QED
    BY <1>3, <2>1, <2>4
<1> QED
  BY <1>2, <1>4, <1>5

LEMMA NextStores == ASSUME CoreInv, [Next]_vars PROVE StoresStep
<1>1. ASSUME UNCHANGED <<id, stage>> PROVE StoresStep
  BY <1>1 DEF StoresStep, StoreStep
<1>2. CASE UNCHANGED vars
  BY <1>1, <1>2 DEF vars, registryVars
<1>3. ASSUME Calls PROVE StoresStep
  <2>1. CASE \E h \in Holders : AppendBegins(h)
    BY <1>1, <2>1 DEF AppendBegins, registryVars
  <2>2. CASE \E g \in Guests, s \in Stores : GuestEnters(s, g) \/ GuestLeaves(s, g)
    BY <2>2, GuestStores
  <2>3. ASSUME NEW a \in Attempts,
          \/ CallerAborts(a) \/ OwnerUnloads(a)
          \/ Dispose(a) \/ DisposeRefused(a) \/ CloseIfIdle(a)
          \/ \E by \in Callers : Wake(a, by)
        PROVE StoresStep
    <3>1. CASE DisposeRefused(a)
      BY <3>1, LeavesStores
    <3>2. CASE \/ CallerAborts(a) \/ OwnerUnloads(a) \/ Dispose(a) \/ CloseIfIdle(a)
               \/ \E by \in Callers : Wake(a, by)
      BY <1>1, <3>2 DEF CallerAborts, OwnerUnloads, Dispose, CloseIfIdle, Wake, registryVars, StartVars
    <3> QED
      BY <2>3, <3>1, <3>2
  <2>4. CASE FactoryUnloads \/ \E by \in Callers : RegistryUnloads(by)
    BY <1>1, <2>4 DEF FactoryUnloads, RegistryUnloads, registryVars
  <2> QED
    BY <1>3, <2>1, <2>2, <2>3, <2>4 DEF Calls
<1>4. ASSUME Asks PROVE StoresStep
  <2> SUFFICES ASSUME NEW a \in Attempts,
                      \/ Create(a) \/ CreateConfigured(a) \/ Resume(a) \/ Restore(a)
                      \/ Loaded(a) \/ LoadEnds(a) \/ SetupEnds(a, TRUE) \/ SetupEnds(a, FALSE)
               PROVE  StoresStep
    BY <1>4 DEF Asks
  <2>1. CASE Create(a) \/ Resume(a) \/ Restore(a) \/ Loaded(a) \/ LoadEnds(a)
    BY <1>1, <2>1 DEF Create, ConstructionFails, Resume, Restore, Loaded, LoadEnds, registryVars, StartVars
  <2>2. CASE CreateConfigured(a)
    BY <2>2, CreateAtOnceStores DEF CreateConfigured, Asked, StartVars, Unpublished
  <2>3. CASE SetupEnds(a, TRUE) \/ SetupEnds(a, FALSE)
    <3>1. pc[a] \in Unpublished /\ UNCHANGED id /\ (Publish(a, "failing") \/ UNCHANGED stage)
      BY <2>3 DEF SetupEnds, StartVars, Unpublished, registryVars
    <3> QED
      BY <1>1, <3>1, PublishStores
  <2> QED
    BY <2>1, <2>2, <2>3
<1>5. ASSUME NEW a \in Attempts, Continues(a) \/ AbandonedLoadEnds(a) \/ Converges(a) PROVE StoresStep
  <2>1. ASSUME NEW exists, Listed(a, exists) PROVE StoresStep
    <3>1. pc[a] \in Unpublished /\ UNCHANGED id /\ (CreateAtOnce(a) \/ UNCHANGED stage)
      BY <2>1 DEF Listed, StartVars, Unpublished, registryVars
    <3> QED
      BY <1>1, <3>1, CreateAtOnceStores
  <2>2. CASE AgentLeaves(a)
    BY <2>2, LeavesStores
  <2>3. CASE \/ FormerLeft(a) \/ RolledBack(a) \/ Stopped(a) \/ ScopeUnwound(a) \/ OwnerEffects(a)
             \/ AbandonedLoadEnds(a) \/ Converges(a)
    BY <1>1, <2>3 DEF FormerLeft, RolledBack, Stopped, ScopeUnwound, OwnerEffects, AbandonedLoadEnds, Converges,
       registryVars, StartVars
  <2> QED
    BY <1>5, <2>1, <2>2, <2>3 DEF Continues
<1>6. ASSUME Returns PROVE StoresStep
  <2>1. CASE \E h \in Holders : AppendEnds(h)
    BY <2>1, AppendEndsStores
  <2>2. CASE \E g \in Guests, s \in Stores : \E veto \in BOOLEAN : GuestTold(s, g, veto)
    BY <2>2, GuestStores
  <2>3. ASSUME NEW a \in Attempts,
          \/ \E veto \in BOOLEAN : SessionTold(a, veto) \/ AgentTold(a, veto)
          \/ StartTold(a) \/ SessionLeaves(a)
        PROVE StoresStep
    <3>1. CASE StartTold(a)
      BY <1>1, <3>1 DEF StartTold, StartVars, registryVars
    <3> QED
      BY <2>3, <3>1, ToldStores, LeavesStores
  <2> QED
    BY <1>6, <2>1, <2>2, <2>3 DEF Returns
<1>7. CASE FactoryContinues \/ InitiatorsContinue
  BY <1>1, <1>7 DEF FactoryContinues, InitiatorsContinue, FactoryUnloads, FactoryDisposes, FactoryDisposed,
     DisposeInitiators, InitiatorsDrained, registryVars
<1> QED
  BY <1>2, <1>3, <1>4, <1>5, <1>6, <1>7 DEF Next, CountedCalls

\* The same step, read through the refinement mapping.
LEMMA AgentDirectoryStep ==
  ASSUME CoreInv, CoreInv', StoresStep PROVE [AgentDirectory!Next]_AgentDirectory!vars
<1>1. /\ UNCHANGED id /\ StoreStep("agents") /\ "agents" \in Stores
      /\ stage \in [Stores -> [Holders -> {"out", "entered", "announcing", "announced", "disposed", "dropped"}]]
      /\ stage' \in [Stores -> [Holders -> {"out", "entered", "announcing", "announced", "disposed", "dropped"}]]
  BY DEF StoresStep, Stores, CoreInv, StateTypes
<1>2. /\ Telling("agents") = {h \in Holders : stage["agents"][h] = "announcing"}
      /\ Telling("agents")' = {h \in Holders : stage'["agents"][h] = "announcing"}
  BY <1>1, TellingIs, TellingIsNext
<1>3. CASE stage'["agents"] = stage["agents"]
  BY <1>1, <1>2, <1>3 DEF AgentDirectory!vars
<1>4. ASSUME NEW h \in Holders, Allowed("agents", h), \A k \in Holders \ {h} : stage'["agents"][k] = stage["agents"][k]
      PROVE  [AgentDirectory!Next]_AgentDirectory!vars
  <2> DEFINE to == stage'["agents"][h]
  <2>1. stage'["agents"] = [stage["agents"] EXCEPT ![h] = to]
    BY <1>1, <1>4
  <2>2. \A k \in Holders \ {h} : k \in Telling("agents")' <=> k \in Telling("agents")
    BY <1>2, <1>4
  <2>3. /\ Telling("agents") \subseteq Holders /\ Telling("agents")' \subseteq Holders
        /\ h \in Telling("agents") <=> stage["agents"][h] = "announcing"
        /\ h \in Telling("agents")' <=> to = "announcing"
    BY <1>2
  <2>4. /\ (h \in Telling("agents") <=> h \in Telling("agents")') => Telling("agents")' = Telling("agents")
        /\ h \in Telling("agents")' => Telling("agents")' = Telling("agents") \cup {h}
        /\ h \notin Telling("agents")' => Telling("agents")' = Telling("agents") \ {h}
    BY <2>2, <2>3
  <2>5. Free("agents", id[h]) => AgentDirectory!Free(id[h])
    BY DEF Free, Attached, AgentDirectory!Free, AgentDirectory!Live
  <2> HIDE DEF to
  <2>6. CASE stage["agents"][h] = "out" /\ to = "entered" /\ Free("agents", id[h])
    <3>1. AgentDirectory!Enter(h)
      BY <1>1, <2>1, <2>3, <2>4, <2>5, <2>6 DEF AgentDirectory!Enter, AgentDirectory!Moves
    <3> QED
      BY <3>1 DEF AgentDirectory!Next
  <2>7. CASE stage["agents"][h] = "out" /\ to = "announcing" /\ Free("agents", id[h])
    <3>1. AgentDirectory!EnterAndAnnounce(h)
      BY <1>1, <2>1, <2>3, <2>4, <2>5, <2>7 DEF AgentDirectory!EnterAndAnnounce, AgentDirectory!Moves
    <3> QED
      BY <3>1 DEF AgentDirectory!Next
  <2>8. CASE stage["agents"][h] = "entered" /\ to = "announcing"
    <3>1. AgentDirectory!Announce(h)
      BY <1>1, <2>1, <2>3, <2>4, <2>8 DEF AgentDirectory!Announce, AgentDirectory!Moves
    <3> QED
      BY <3>1 DEF AgentDirectory!Next
  <2>9. CASE stage["agents"][h] = "entered" /\ to = "dropped"
    <3>1. AgentDirectory!Drop(h)
      BY <1>1, <2>1, <2>3, <2>4, <2>9 DEF AgentDirectory!Drop, AgentDirectory!Moves
    <3> QED
      BY <3>1 DEF AgentDirectory!Next
  <2>10. CASE stage["agents"][h] = "announcing" /\ to \in {"announced", "disposed"}
    <3>1. AgentDirectory!Told(h)
      BY <1>1, <2>1, <2>3, <2>4, <2>10 DEF AgentDirectory!Told, AgentDirectory!Moves
    <3> QED
      BY <3>1 DEF AgentDirectory!Next
  <2>11. CASE stage["agents"][h] = "announced" /\ to = "disposed"
    <3>1. AgentDirectory!Dispose(h)
      BY <1>1, <2>1, <2>3, <2>4, <2>11 DEF AgentDirectory!Dispose, AgentDirectory!Moves
    <3> QED
      BY <3>1 DEF AgentDirectory!Next
  <2>12. CASE to = stage["agents"][h]
    <3>1. stage'["agents"] = stage["agents"]
      BY <1>1, <2>1, <2>12
    <3> QED
      BY <1>3, <3>1
  <2> QED
    BY <1>4, <2>6, <2>7, <2>8, <2>9, <2>10, <2>11, <2>12 DEF Allowed, to
<1> QED
  BY <1>1, <1>3, <1>4 DEF StoreStep

LEMMA SessionDirectoryStep ==
  ASSUME CoreInv, CoreInv', StoresStep PROVE [SessionDirectory!Next]_SessionDirectory!vars
<1>1. /\ UNCHANGED id /\ StoreStep("sessions") /\ "sessions" \in Stores
      /\ stage \in [Stores -> [Holders -> {"out", "entered", "announcing", "announced", "disposed", "dropped"}]]
      /\ stage' \in [Stores -> [Holders -> {"out", "entered", "announcing", "announced", "disposed", "dropped"}]]
  BY DEF StoresStep, Stores, CoreInv, StateTypes
<1>2. /\ Telling("sessions") = {h \in Holders : stage["sessions"][h] = "announcing"}
      /\ Telling("sessions")' = {h \in Holders : stage'["sessions"][h] = "announcing"}
  BY <1>1, TellingIs, TellingIsNext
<1>3. CASE stage'["sessions"] = stage["sessions"]
  BY <1>1, <1>2, <1>3 DEF SessionDirectory!vars
<1>4. ASSUME NEW h \in Holders, Allowed("sessions", h), \A k \in Holders \ {h} : stage'["sessions"][k] = stage["sessions"][k]
      PROVE  [SessionDirectory!Next]_SessionDirectory!vars
  <2> DEFINE to == stage'["sessions"][h]
  <2>1. stage'["sessions"] = [stage["sessions"] EXCEPT ![h] = to]
    BY <1>1, <1>4
  <2>2. \A k \in Holders \ {h} : k \in Telling("sessions")' <=> k \in Telling("sessions")
    BY <1>2, <1>4
  <2>3. /\ Telling("sessions") \subseteq Holders /\ Telling("sessions")' \subseteq Holders
        /\ h \in Telling("sessions") <=> stage["sessions"][h] = "announcing"
        /\ h \in Telling("sessions")' <=> to = "announcing"
    BY <1>2
  <2>4. /\ (h \in Telling("sessions") <=> h \in Telling("sessions")') => Telling("sessions")' = Telling("sessions")
        /\ h \in Telling("sessions")' => Telling("sessions")' = Telling("sessions") \cup {h}
        /\ h \notin Telling("sessions")' => Telling("sessions")' = Telling("sessions") \ {h}
    BY <2>2, <2>3
  <2>5. Free("sessions", id[h]) => SessionDirectory!Free(id[h])
    BY DEF Free, Attached, SessionDirectory!Free, SessionDirectory!Live
  <2> HIDE DEF to
  <2>6. CASE stage["sessions"][h] = "out" /\ to = "entered" /\ Free("sessions", id[h])
    <3>1. SessionDirectory!Enter(h)
      BY <1>1, <2>1, <2>3, <2>4, <2>5, <2>6 DEF SessionDirectory!Enter, SessionDirectory!Moves
    <3> QED
      BY <3>1 DEF SessionDirectory!Next
  <2>7. CASE stage["sessions"][h] = "out" /\ to = "announcing" /\ Free("sessions", id[h])
    <3>1. SessionDirectory!EnterAndAnnounce(h)
      BY <1>1, <2>1, <2>3, <2>4, <2>5, <2>7 DEF SessionDirectory!EnterAndAnnounce, SessionDirectory!Moves
    <3> QED
      BY <3>1 DEF SessionDirectory!Next
  <2>8. CASE stage["sessions"][h] = "entered" /\ to = "announcing"
    <3>1. SessionDirectory!Announce(h)
      BY <1>1, <2>1, <2>3, <2>4, <2>8 DEF SessionDirectory!Announce, SessionDirectory!Moves
    <3> QED
      BY <3>1 DEF SessionDirectory!Next
  <2>9. CASE stage["sessions"][h] = "entered" /\ to = "dropped"
    <3>1. SessionDirectory!Drop(h)
      BY <1>1, <2>1, <2>3, <2>4, <2>9 DEF SessionDirectory!Drop, SessionDirectory!Moves
    <3> QED
      BY <3>1 DEF SessionDirectory!Next
  <2>10. CASE stage["sessions"][h] = "announcing" /\ to \in {"announced", "disposed"}
    <3>1. SessionDirectory!Told(h)
      BY <1>1, <2>1, <2>3, <2>4, <2>10 DEF SessionDirectory!Told, SessionDirectory!Moves
    <3> QED
      BY <3>1 DEF SessionDirectory!Next
  <2>11. CASE stage["sessions"][h] = "announced" /\ to = "disposed"
    <3>1. SessionDirectory!Dispose(h)
      BY <1>1, <2>1, <2>3, <2>4, <2>11 DEF SessionDirectory!Dispose, SessionDirectory!Moves
    <3> QED
      BY <3>1 DEF SessionDirectory!Next
  <2>12. CASE to = stage["sessions"][h]
    <3>1. stage'["sessions"] = stage["sessions"]
      BY <1>1, <2>1, <2>12
    <3> QED
      BY <1>3, <3>1
  <2> QED
    BY <1>4, <2>6, <2>7, <2>8, <2>9, <2>10, <2>11, <2>12 DEF Allowed, to
<1> QED
  BY <1>1, <1>3, <1>4 DEF StoreStep

LEMMA DirectoriesInit == ASSUME Init, CoreInv PROVE AgentDirectory!Init /\ SessionDirectory!Init
<1>1. /\ id \in [Holders -> Ids] /\ stage = [s \in Stores |-> [h \in Holders |-> "out"]]
      /\ "agents" \in Stores /\ "sessions" \in Stores
  BY DEF Init, CoreInv, StateTypes, Stores
<1>2. Telling("agents") = {} /\ Telling("sessions") = {}
  BY <1>1, TellingIs
<1> QED
  BY <1>1, <1>2 DEF AgentDirectory!Init, SessionDirectory!Init

\* The agent registry and the session store, each on its own, are directories
\* as LifecycleDirectory has them: one live entry per identity whoever enters,
\* an entry that stays until the last listener of its creation returned, and a
\* disposal told of exactly those whose creation was.
THEOREM RegistriesAreDirectories == Spec => Directories
<1>1. ASSUME LifecycleInv, LifecycleInv', [Next]_vars
      PROVE  [AgentDirectory!Next]_AgentDirectory!vars /\ [SessionDirectory!Next]_SessionDirectory!vars
  BY <1>1, NextStores, AgentDirectoryStep, SessionDirectoryStep DEF LifecycleInv
<1>2. Init /\ LifecycleInv => AgentDirectory!Init /\ SessionDirectory!Init
  BY DirectoriesInit DEF LifecycleInv
<1> QED
  BY <1>1, <1>2, LifecycleInvariant, PTL DEF Spec, Directories, AgentDirectory!Spec, SessionDirectory!Spec
=============================================================================
