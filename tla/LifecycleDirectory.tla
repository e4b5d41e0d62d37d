------------------------- MODULE LifecycleDirectory -------------------------
(***************************************************************************)
(* What a registry of live objects promises its listeners: one live entry  *)
(* per identity, a creation told at most once and only of a live entry,    *)
(* the entry still there until the last listener of its creation returned, *)
(* and a disposal told exactly of the entries whose creation was.          *)
(*                                                                         *)
(* AgentLifecycle implements it twice, as the agent registry and as the    *)
(* session store.                                                          *)
(***************************************************************************)
CONSTANTS Holders, Ids

VARIABLES
  id,       \* the identity each holder asks for
  stage,    \* how far each holder got
  telling   \* holders whose creation is being told right now

vars == <<id, stage, telling>>

Live(h) == stage[h] \in {"entered", "announcing", "announced"}
Free(i) == \A h \in Holders : Live(h) => id[h] # i

Init ==
  /\ id \in [Holders -> Ids]
  /\ stage = [h \in Holders |-> "out"]
  /\ telling = {}

Moves(h, from, to) == stage[h] = from /\ stage' = [stage EXCEPT ![h] = to] /\ UNCHANGED id

Enter(h) == Free(id[h]) /\ Moves(h, "out", "entered") /\ UNCHANGED telling
Announce(h) == Moves(h, "entered", "announcing") /\ telling' = telling \cup {h}
EnterAndAnnounce(h) ==
  Free(id[h]) /\ Moves(h, "out", "announcing") /\ telling' = telling \cup {h}
\* The last listener returned; a disposal asked for meanwhile follows at once.
Told(h) ==
  /\ Moves(h, "announcing", "announced") \/ Moves(h, "announcing", "disposed")
  /\ telling' = telling \ {h}
Dispose(h) == Moves(h, "announced", "disposed") /\ UNCHANGED telling
\* Nobody was told of this one.
Drop(h) == Moves(h, "entered", "dropped") /\ UNCHANGED telling

Next == \E h \in Holders :
  Enter(h) \/ Announce(h) \/ EnterAndAnnounce(h) \/ Told(h) \/ Dispose(h) \/ Drop(h)

Spec == Init /\ [][Next]_vars
=============================================================================
