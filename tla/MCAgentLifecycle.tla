--------------------------- MODULE MCAgentLifecycle ---------------------------
(* Instances of AgentLifecycle for TLC. *)
EXTENDS AgentLifecycle, TLC

CONSTANTS a1, a2, g1, i1, i2

PlanOf(id1, kind1, id2, kind2, idG, kindG, n) ==
  [id |-> (a1 :> id1 @@ a2 :> id2 @@ g1 :> idG),
   kind |-> (a1 :> kind1 @@ a2 :> kind2 @@ g1 :> kindG), calls |-> n]

\* One attempt under three interfering calls; two attempts for one identity
\* under one or two, an attempt and a guest for one identity under two; two
\* agents at a time under three.
MCPlans ==
  {PlanOf(i1, k, i1, "absent", i1, "absent", 3) : k \in {"create", "config", "resume", "restore"}}
  \cup {PlanOf(i1, "config", i1, "resume", i1, "absent", 2),
        PlanOf(i1, "create", i1, "restore", i1, "absent", 1),
        PlanOf(i1, "config", i2, "config", i1, "absent", 3)}
  \cup {PlanOf(i1, k, i1, "absent", i1, g, 2) :
          k \in {"create", "restore"}, g \in {"agents", "sessions"}}
=============================================================================
