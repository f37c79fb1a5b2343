----------------------------- MODULE ManagedSlot -----------------------------
(***************************************************************************)
(* The data of one provider slot of the managed credential store: the slot *)
(* record, the credential material beside it, how a stored document is     *)
(* viewed, and what each committed operation writes (login/manager.ts).    *)
(*                                                                         *)
(* Identifiers abstract the random strings of the code.  An operation      *)
(* draws at most one attempt id, one connection id and one credential from *)
(* the provider, so the operation itself stands for all three; Initial     *)
(* stands for what was in the store before.                                *)
(***************************************************************************)
EXTENDS Naturals

CONSTANTS
  Ops,      \* the asynchronous operations (calls on an Auth)
  Initial,  \* the connection, credential and refresh token saved earlier
  Null      \* no value

Ids == Ops \cup {Initial}

States == {"ready", "needs_login", "indeterminate"}

(***************************************************************************)
(* cid: connectionId; renews: renewal is neither "none" nor "recipe";      *)
(* marker: renewalInFlight is set; attempt: the id of the reservation;     *)
(* verified: the connection whose credential the recorded check measured   *)
(* (the code records the result, not the connection).                      *)
(***************************************************************************)
Slot ==
  [gen : Nat, cid : Ids \cup {Null}, rev : Nat, state : States,
   renews : BOOLEAN, loggedOut : BOOLEAN, marker : BOOLEAN,
   attempt : Ids \cup {Null}, verified : Ids \cup {Null},
   previous : SUBSET Ids]

(***************************************************************************)
(* cred: this access credential; token: the refresh token, if any; timed:  *)
(* it has an expiry; gen: the generation it was obtained for, which the    *)
(* code does not store (a history component).                              *)
(***************************************************************************)
Material ==
  [oauth : BOOLEAN, cred : Ids, token : Ids \cup {Null}, timed : BOOLEAN,
   gen : Nat]

Identity == [gen : Nat, cid : Ids]

ASSUME NullAssumption ==
  /\ Null \notin Ids
  /\ Null \notin Slot
  /\ Null \notin Material
  /\ Null \notin Identity

ASSUME InitialAssumption == Initial \notin Ops

-----------------------------------------------------------------------------
(* Views of the stored document *)

EmptySlot ==
  [gen |-> 0, cid |-> Null, rev |-> 0, state |-> "ready", renews |-> TRUE,
   loggedOut |-> FALSE, marker |-> FALSE, attempt |-> Null,
   verified |-> Null, previous |-> {}]

(* Material without a slot record: a login made before slots existed. *)
LegacySlot(material) ==
  [EmptySlot EXCEPT !.gen = 1, !.cid = Initial, !.rev = 1,
                    !.renews = material.oauth]

SlotView(record, material) ==
  IF record # Null THEN record
  ELSE IF material # Null THEN LegacySlot(material)
  ELSE EmptySlot

IdentityOf(slot) == [gen |-> slot.gen, cid |-> slot.cid]

Renewable(slot, material) == slot.renews /\ material.token # Null

(***************************************************************************)
(* The selection checks of a request, in the code's order: why the saved   *)
(* connection cannot be used, or "selected".                               *)
(***************************************************************************)
CheckSelected(slot, material, pin) ==
  CASE pin # Null /\ IdentityOf(slot) # pin ->
         IF slot.cid = Null THEN "login_required" ELSE "connection_changed"
    [] slot.cid = Null \/ material = Null -> "login_required"
    [] slot.state = "needs_login" -> "login_required"
    [] slot.state = "indeterminate" \/ slot.marker -> "indeterminate"
    [] OTHER -> "selected"

-----------------------------------------------------------------------------
(* What each operation writes *)

PreviousIds(slot) ==
  slot.previous \cup (IF slot.cid = Null THEN {} ELSE {slot.cid})

ReservedSlot(slot, id) == [slot EXCEPT !.attempt = id]

CommittedSlot(slot, id, renews) ==
  [EmptySlot EXCEPT !.gen = slot.gen + 1, !.cid = id, !.rev = 1,
                    !.renews = renews, !.previous = PreviousIds(slot)]

\* Mutant: a sign-out that keeps the generation.
ForgottenSlotSameGeneration(slot) ==
  [EmptySlot EXCEPT !.gen = slot.gen, !.renews = FALSE, !.loggedOut = TRUE,
                    !.previous = PreviousIds(slot)]

\* Mutant: a sign-out that keeps the reservation.
ForgottenSlotReserved(slot) ==
  [EmptySlot EXCEPT !.gen = slot.gen + 1, !.renews = FALSE,
                    !.loggedOut = TRUE, !.previous = PreviousIds(slot),
                    !.attempt = slot.attempt]

ForgottenSlot(slot) ==
  [EmptySlot EXCEPT !.gen = slot.gen + 1, !.renews = FALSE,
                    !.loggedOut = TRUE, !.previous = PreviousIds(slot)]

\* Mutant: records the renewal's error instead of a state.
MarkedSlotWithReason(slot, state, keepMarker) ==
  [slot EXCEPT !.state = "credential_rejected", !.marker = keepMarker /\ @]

(* `mark` of a renewal: the new state, the in-flight marker dropped or kept. *)
MarkedSlot(slot, state, keepMarker) ==
  [slot EXCEPT !.state = state, !.marker = keepMarker /\ @]

\* Mutant: a renewal that does not count.
RenewedSlotSameRevision(slot) ==
  [slot EXCEPT !.marker = FALSE, !.state = "ready"]

RenewedSlot(slot) ==
  [slot EXCEPT !.marker = FALSE, !.rev = @ + 1, !.state = "ready"]

(* What a login flow or a recipe may return for operation id. *)
LoginMaterial(id, gen) ==
  [oauth : {TRUE}, cred : {id}, token : {id, Null}, timed : {TRUE},
   gen : {gen}]

RecipeMaterial(id, gen) ==
  [oauth |-> FALSE, cred |-> id, token |-> Null, timed |-> FALSE,
   gen |-> gen]
=============================================================================
