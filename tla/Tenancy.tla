------------------------------- MODULE Tenancy --------------------------------
(***************************************************************************)
(* What the supervisors promise about who drives a device.  A key has at   *)
(* most one TENANT, the child process that is meant to drive the device.   *)
(* A tenant may be dismissed; it then still runs for a while (it restores  *)
(* its device) but never becomes the tenant again, and every dismissed     *)
(* process leaves in the end.  A new tenant is a new process and may       *)
(* arrive while a dismissed one is still leaving.                          *)
(***************************************************************************)
CONSTANTS Key, Inc, None

VARIABLES
  tenant,   \* the process meant to drive each key's device, or None
  leaving,  \* the processes that were dismissed and have not ended
  used      \* the processes that were ever admitted

vars == <<tenant, leaving, used>>

Init ==
  /\ tenant = [k \in Key |-> None]
  /\ leaving = {}
  /\ used = {}

\* A process that never ran before becomes the tenant of a free key.
Admit(k, w) ==
  /\ tenant[k] = None
  /\ w \notin used
  /\ tenant' = [tenant EXCEPT ![k] = w]
  /\ used' = used \cup {w}
  /\ UNCHANGED leaving

\* The tenants of some keys are dismissed at once; some end on the spot.
Dismiss(keys, ended) ==
  /\ \A k \in keys : tenant[k] # None
  /\ ended \subseteq {tenant[k] : k \in keys}
  /\ tenant' = [k \in Key |-> IF k \in keys THEN None ELSE tenant[k]]
  /\ leaving' = leaving \cup ({tenant[k] : k \in keys} \ ended)
  /\ UNCHANGED used

Leave(w) ==
  /\ w \in leaving
  /\ leaving' = leaving \ {w}
  /\ UNCHANGED <<tenant, used>>

Next ==
  \/ \E k \in Key, w \in Inc : Admit(k, w)
  \/ \E keys \in SUBSET Key : \E ended \in SUBSET Inc : Dismiss(keys, ended)
  \/ \E w \in Inc : Leave(w)

\* What may happen, and that every dismissed process leaves in the end.
Safety == Init /\ [][Next]_vars

Spec == Safety /\ \A w \in Inc : WF_vars(Leave(w))

=============================================================================
