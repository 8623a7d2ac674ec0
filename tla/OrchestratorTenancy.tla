------------------------- MODULE OrchestratorTenancy --------------------------
(***************************************************************************)
(* The orchestrator implements Tenancy: a child is the tenant of its key   *)
(* from the fork until it is told to stop, stops being driven, or dies.    *)
(***************************************************************************)
EXTENDS Orchestrator

\* The child may drive its device and nothing has told it to stop.
IsTenant(w) ==
  /\ Up
  /\ wpc[w] \in {"child", "started", "recv", "apply"}
  /\ \A i \in DOMAIN cmds[w] : cmds[w][i] # "Shutdown"

TenantsOf(k) == {w \in Inc : IsTenant(w) /\ key[w] = k}

OneOf(S) == IF S = {} THEN None ELSE CHOOSE w \in S : TRUE

Tenant  == [k \in Key |-> OneOf(TenantsOf(k))]
Leaving == {w \in Inc : Alive(w) /\ ~IsTenant(w)}
Used    == {w \in Inc : wpc[w] # "unborn"}

Abstract == INSTANCE Tenancy WITH tenant <- Tenant, leaving <- Leaving, used <- Used

\* Every key has at most one tenant, a dismissed child never drives its device
\* again under a tenancy, and every dismissed child goes away: across crashes,
\* vanished and returning units, supervisor panics and shutdown.
ImplementsTenancy == Abstract!Spec

=============================================================================
