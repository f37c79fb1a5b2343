--------------------------- MODULE ConnectionSlot ---------------------------
(***************************************************************************)
(* What one provider slot of the managed store promises to everybody who   *)
(* reads it: an identity, its generation, and whether its credential may   *)
(* be used.  The processes, the lock, reservations and tokens are absent.  *)
(***************************************************************************)
EXTENDS Naturals

CONSTANTS Ids, None

VARIABLES
  gen,    \* the identity generation
  id,     \* the saved connection, or None
  phase   \* what may be done with its credential

vars == <<gen, id, phase>>

Phases == {"absent", "ready", "renewing", "rejected", "unknown"}

TypeOK ==
  /\ gen \in Nat
  /\ id \in Ids \cup {None}
  /\ phase \in Phases
  /\ id = None <=> phase = "absent"

Init ==
  /\ gen \in Nat
  /\ \/ id = None /\ phase = "absent"
     \/ id \in Ids /\ phase = "ready"

-----------------------------------------------------------------------------

(* A sign-in, over whatever was there, but never in the middle of a renewal. *)
Connect ==
  /\ phase # "renewing"
  /\ \E new \in Ids \ {id} : id' = new
  /\ gen' = gen + 1
  /\ phase' = "ready"

(* A sign-out, also one that only ends an attempt. *)
SignOut ==
  /\ phase # "renewing"
  /\ id' = None
  /\ gen' = gen + 1
  /\ phase' = "absent"

BeginRenewal ==
  /\ phase = "ready"
  /\ phase' = "renewing"
  /\ UNCHANGED <<gen, id>>

(* The outcome is known, or the process dies, or the answer is lost. *)
EndRenewal ==
  /\ phase = "renewing"
  /\ phase' \in {"ready", "rejected", "unknown"}
  /\ UNCHANGED <<gen, id>>

(* Expired, with nothing to renew it with. *)
Expire ==
  /\ phase = "ready"
  /\ phase' = "rejected"
  /\ UNCHANGED <<gen, id>>

Next == Connect \/ SignOut \/ BeginRenewal \/ EndRenewal \/ Expire

Spec == Init /\ [][Next]_vars
=============================================================================
