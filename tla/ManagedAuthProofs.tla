-------------------------- MODULE ManagedAuthProofs --------------------------
(***************************************************************************)
(* Proofs about ManagedAuth, for any operations, processes and kinds, and  *)
(* whatever disturbs them.                                                 *)
(***************************************************************************)
EXTENDS ManagedAuth, TLAPS

(***************************************************************************)
(* The holder of the lock is in the middle of an exchange, of the document *)
(* as it is, which carries the in-flight marker.                           *)
(***************************************************************************)
LockInv ==
  /\ \A o \in Ops : pc[o] \in {"exchanging", "answered"} <=> lock = o
  /\ lock # Null =>
       /\ held[lock] = [slot |-> record, material |-> material]
       /\ record # Null /\ material # Null
       /\ record.marker /\ record.state = "ready"
       /\ record.cid # Null /\ material.token # Null

(* A spent token is saved only beside the marker, and names are fresh. *)
SpentInv ==
  /\ material # Null /\ material.token \in spent => TheSlot.marker
  /\ \A o \in Ops :
       o \in spent \/ (material # Null /\ material.token = o) =>
         pc[o] \in {"recording", "done", "dead"}
  /\ \A o \in Ops : pc[o] = "answered" =>
       /\ reply[o] \in Replies
       /\ reply[o] \notin {"rotated", "lost"} =>
            held[o].material.token \notin spent

(* A reservation, a cancellation and a commit each name an attempt made. *)
AttemptInv ==
  /\ TheSlot.attempt # Initial
  /\ \A o \in Ops :
       /\ pc[o] \in {"idle", "reserving"} =>
            TheSlot.attempt # o /\ o \notin cancelled
       /\ pc[o] \in {"idle", "reserving", "running", "committing"} =>
            o \notin committed
       /\ TheSlot.cid = o => o \in committed

(* What a call under way knows of the identities. *)
IdentityInv ==
  /\ \A o \in Ops : /\ pc[o] = "recording" => got[o] # Null
                    /\ got[o] # Null => pc[o] \in {"recording", "done", "dead"}
  /\ \A o \in Ops : since[o] <= TheSlot.gen
  /\ \A o \in Ops : pc[o] \in {"exchanging", "answered"} /\ Pin(o) # Null =>
       IdentityOf(held[o].slot) = Pin(o)

IInv ==
  /\ TypeOK
  /\ LockInv
  /\ SpentInv
  /\ AttemptInv
  /\ IdentityInv
  /\ MaterialMatchesSlot
  /\ NoBlindReplay
  /\ PinHonoured
  /\ CancelledNeverCommits
  /\ ReservationCurrent

-----------------------------------------------------------------------------
(* The data *)

(* The view of a well-formed document is a slot. *)
LEMMA SlotViewType ==
  ASSUME NEW r \in Slot \cup {Null}, NEW m \in Material \cup {Null}
  PROVE  SlotView(r, m) \in Slot
<1>1. EmptySlot \in Slot
  BY DEF EmptySlot, Slot, States
<1>2. m # Null => LegacySlot(m) \in Slot
  BY <1>1 DEF LegacySlot, Slot, Material, Ids
<1> QED
  BY <1>1, <1>2 DEF SlotView

(* What the operations write is a slot. *)
LEMMA WrittenSlots ==
  ASSUME NEW s \in Slot, NEW id \in Ids, NEW b \in BOOLEAN
  PROVE  /\ ReservedSlot(s, id) \in Slot
         /\ ReservedSlot(s, Null) \in Slot
         /\ CommittedSlot(s, id, b) \in Slot
         /\ ForgottenSlot(s) \in Slot
         /\ RenewedSlot(s) \in Slot
         /\ \A state \in States : MarkedSlot(s, state, b) \in Slot
         /\ [s EXCEPT !.marker = TRUE] \in Slot
         /\ [s EXCEPT !.verified = id] \in Slot
<1>1. PreviousIds(s) \in SUBSET Ids
  BY DEF PreviousIds, Slot
<1>2. s.gen + 1 \in Nat /\ s.rev + 1 \in Nat
  BY DEF Slot
<1>3. ReservedSlot(s, id) \in Slot /\ ReservedSlot(s, Null) \in Slot
  BY DEF ReservedSlot, Slot
<1>4. CommittedSlot(s, id, b) \in Slot
  BY <1>1, <1>2 DEF CommittedSlot, EmptySlot, Slot, States
<1>5. ForgottenSlot(s) \in Slot
  BY <1>1, <1>2 DEF ForgottenSlot, EmptySlot, Slot, States
<1>6. RenewedSlot(s) \in Slot
  BY <1>2 DEF RenewedSlot, Slot, States
<1>7. \A state \in States : MarkedSlot(s, state, b) \in Slot
  BY DEF MarkedSlot, Slot
<1>8. [s EXCEPT !.marker = TRUE] \in Slot /\ [s EXCEPT !.verified = id] \in Slot
  BY DEF Slot
<1> QED
  BY <1>3, <1>4, <1>5, <1>6, <1>7, <1>8

(* What a method returns for an attempt is a credential of its own. *)
LEMMA ObtainedMaterial ==
  ASSUME NEW id \in Ids, NEW g \in Nat,
         NEW m \in {RecipeMaterial(id, g)} \cup LoginMaterial(id, g)
  PROVE  /\ m \in Material /\ m.oauth \in BOOLEAN
         /\ m.gen = g /\ m.token \in {id, Null}
<1>1. CASE m = RecipeMaterial(id, g)
  BY <1>1 DEF RecipeMaterial, Material
<1>2. CASE m \in LoginMaterial(id, g)
  <2>1. /\ DOMAIN m = {"oauth", "cred", "token", "timed", "gen"}
        /\ m.oauth \in BOOLEAN /\ m.cred \in Ids /\ m.token \in {id, Null}
        /\ m.timed \in BOOLEAN /\ m.gen = g
    BY <1>2 DEF LoginMaterial
  <2>2. m = [oauth |-> m.oauth, cred |-> m.cred, token |-> m.token,
             timed |-> m.timed, gen |-> m.gen]
    BY <1>2 DEF LoginMaterial
  <2> QED
    BY <2>1, <2>2 DEF Material
<1> QED
  BY <1>1, <1>2

(* A selected connection has an identity and a credential, and no marker. *)
LEMMA SelectedMeans ==
  ASSUME NEW s \in Slot, NEW m, NEW pin, CheckSelected(s, m, pin) = "selected"
  PROVE  /\ s.cid # Null /\ m # Null
         /\ s.state = "ready" /\ ~s.marker
         /\ pin = Null \/ IdentityOf(s) = pin
BY DEF CheckSelected, Slot, States

-----------------------------------------------------------------------------
(* Type correctness *)

USE DEF document, external, process, call, attempts, renewal, history, vars

(* What is saved before the processes start. *)
LEMMA SavedDocument ==
  /\ SavedSlot \in Slot /\ SavedMaterial \in Material
  /\ ForgottenSlot(SavedSlot) \in Slot
  /\ SavedSlot # Null /\ SavedMaterial # Null /\ ForgottenSlot(SavedSlot) # Null
<1>1. SavedSlot \in Slot
  <2>1. EmptySlot \in Slot /\ Initial \in Ids
    BY DEF EmptySlot, Slot, States, Ids
  <2>2. CommittedSlot(EmptySlot, Initial, TRUE) \in Slot
    BY <2>1, WrittenSlots
  <2> QED
    BY <2>2 DEF SavedSlot, Slot
<1>2. SavedMaterial \in Material
  BY DEF SavedMaterial, Material, Ids
<1>3. ForgottenSlot(SavedSlot) \in Slot
  BY <1>1, WrittenSlots DEF Ids
<1> QED
  BY <1>1, <1>2, <1>3, NullAssumption

LEMMA InitType == Init => TypeOK
<1> SUFFICES ASSUME Init PROVE TypeOK
  OBVIOUS
<1>1. record \in Slot \cup {Null} /\ material \in Material \cup {Null}
  BY SavedDocument DEF Init, InitDocument
<1> QED
  BY <1>1 DEF Init, TypeOK, Labels

(* The parts of TypeOK that a step may disturb. *)
DocumentType == record \in Slot \cup {Null} /\ material \in Material \cup {Null}
ControlType == pc \in [Ops -> Labels] /\ active \in [Procs -> Ops \cup {Null}]
AbortedType == aborted \in [Ops -> BOOLEAN]
GotType == got \in [Ops -> Identity \cup {Null}]

LEMMA TypeStep == TypeOK /\ LockInv /\ IdentityInv /\ [Next]_vars => TypeOK'
<1> SUFFICES ASSUME TypeOK, LockInv, IdentityInv, [Next]_vars PROVE TypeOK'
  OBVIOUS
<1> USE DEF DocumentType, ControlType, AbortedType, GotType
<1>slot. TheSlot \in Slot /\ (TheSlot.gen \in Nat) /\ (TheSlot.attempt \in Ids \cup {Null})
  BY SlotViewType DEF TheSlot, TypeOK, Slot
<1>written. /\ \A id \in Ids \cup {Null} : ReservedSlot(TheSlot, id) \in Slot
            /\ \A id \in Ids, b \in BOOLEAN : CommittedSlot(TheSlot, id, b) \in Slot
            /\ \A id \in Ids : [TheSlot EXCEPT !.verified = id] \in Slot
            /\ ForgottenSlot(TheSlot) \in Slot
  BY <1>slot, WrittenSlots DEF Ids
<1>id. TheSlot.cid # Null => IdentityOf(TheSlot) \in Identity
  BY <1>slot DEF Slot, Identity, IdentityOf
<1>goto. ASSUME NEW o \in Ops, NEW l \in Labels, Goto(o, l)
         PROVE  pc' \in [Ops -> Labels]
  BY <1>goto DEF Goto, TypeOK
<1>finish. ASSUME NEW o \in Ops, Finish(o) PROVE ControlType'
  BY <1>finish DEF Finish, Goto, TypeOK, Labels
<1>abort. ASSUME NEW p, AbortActive(p) PROVE AbortedType'
  BY <1>abort DEF AbortActive, TypeOK
<1>serve. ASSUME NEW o \in Ops, NEW i \in Identity, Serve(o, i)
          PROVE  GotType' /\ pc' \in [Ops -> Labels]
  BY <1>serve DEF Serve, Goto, TypeOK, Labels
<1>call. ASSUME NEW o \in Ops, NEW p \in Procs, NEW k \in AllKinds,
                NEW a \in Ids \cup Identity \cup {Null}, NEW l \in Labels,
                Call(o, p, k, a, l)
         PROVE  TypeOK'
  BY <1>call, <1>slot DEF Call, Goto, TypeOK
<1>arg. SeenIds \subseteq Ids /\ Pins \subseteq Identity
  BY <1>slot DEF SeenIds, Pins, Slot, Identity, Ids
<1>1. ASSUME NEW o \in Ops, NEW p \in Procs, Start(o, p) PROVE TypeOK'
  <2>1. CASE Login(o, p)
    BY <2>1, <1>call, <1>arg DEF Login, AllKinds, Labels
  <2>2. CASE Configure(o, p)
    BY <2>2, <1>call, <1>arg DEF Configure, AllKinds, Labels
  <2>3. CASE CancelLogin(o, p)
    BY <2>3, <1>call DEF CancelLogin, AllKinds, Labels
  <2>4. CASE Logout(o, p)
    BY <2>4, <1>call, <1>arg DEF Logout, AllKinds, Labels
  <2>5. CASE RequestAuth(o, p)
    BY <2>5, <1>call, <1>arg DEF RequestAuth, AllKinds, Labels
  <2>6. CASE Verify(o, p)
    BY <2>6, <1>call DEF Verify, AllKinds, Labels
  <2> QED
    BY <1>1, <2>1, <2>2, <2>3, <2>4, <2>5, <2>6 DEF Start
<1>2. ASSUME NEW o \in Ops, Progress(o) PROVE TypeOK'
  <2>1. CASE Reserve(o)
    <3>1. DocumentType'
      BY <2>1, <1>written DEF Reserve, TypeOK, Ids
    <3>2. ControlType'
      BY <2>1 DEF Reserve, Goto, TypeOK, Labels
    <3>3. expected' \in [Ops -> Nat]
      BY <2>1, <1>slot DEF Reserve, TypeOK
    <3> QED
      BY <2>1, <3>1, <3>2, <3>3 DEF Reserve, TypeOK
  <2>2. CASE MethodSucceeds(o)
    BY <2>2, <1>goto, <1>finish DEF MethodSucceeds, TypeOK, Labels
  <2>3. CASE MethodFails(o)
    BY <2>3, <1>goto, <1>finish DEF MethodFails, TypeOK, Labels
  <2>4. CASE Commit(o)
    <3>1. \A m \in {RecipeMaterial(o, TheSlot.gen + 1)} \cup LoginMaterial(o, TheSlot.gen + 1) : m \in Material /\ m.oauth \in BOOLEAN
      BY <2>4, <1>slot, ObtainedMaterial DEF Ids
    <3>2. DocumentType'
      BY <2>4, <3>1, <1>written DEF Commit, TypeOK, Ids
    <3>3. ControlType'
      BY <2>4, <1>finish DEF Commit, CommitFails, Goto, TypeOK, Labels
    <3>4. committed' \subseteq Ids
      BY <2>4 DEF Commit, TypeOK, Ids
    <3> QED
      BY <2>4, <3>1, <3>2, <3>3, <3>4 DEF Commit, TypeOK
  <2>5. CASE Release(o)
    <3>1. DocumentType'
      BY <2>5, <1>slot, WrittenSlots DEF Release, TypeOK, Ids
    <3>2. ControlType'
      BY <2>5, <1>finish DEF Release, TypeOK
    <3> QED
      BY <2>5, <3>1, <3>2 DEF Release, TypeOK
  <2>6. CASE CancelAttempt(o)
    <3>1. DocumentType'
      BY <2>6, <1>slot, WrittenSlots DEF CancelAttempt, TypeOK, Ids
    <3>2. pc' \in [Ops -> Labels]
      BY <2>6, <1>goto DEF CancelAttempt, Labels
    <3>3. AbortedType'
      BY <2>6, <1>abort DEF CancelAttempt
    <3>4. cancelled' \subseteq Ids
      BY <2>6, <1>slot DEF CancelAttempt, TypeOK
    <3> QED
      BY <2>6, <3>1, <3>2, <3>3, <3>4 DEF CancelAttempt, TypeOK
  <2>7. CASE ResolveTarget(o)
    BY <2>7, <1>goto, <1>finish DEF ResolveTarget, TypeOK, Labels, Goto
  <2>8. CASE Forget(o)
    <3>1. DocumentType'
      BY <2>8, <1>slot, WrittenSlots DEF Forget, TypeOK, Ids
    <3>2. pc' \in [Ops -> Labels]
      BY <2>8, <1>goto DEF Forget, Labels
    <3>3. AbortedType'
      BY <2>8, <1>abort DEF Forget, TypeOK
    <3>4. cancelled' \subseteq Ids
      BY <2>8, <1>slot DEF Forget, TypeOK
    <3> QED
      BY <2>8, <3>1, <3>2, <3>3, <3>4 DEF Forget, TypeOK
  <2>9. CASE ForgetUnsaved(o)
    BY <2>9, <1>goto, <1>finish DEF ForgetUnsaved, TypeOK, Labels, AbortActive
  <2>10. CASE ReadSelection(o)
    <3>1. GotType' /\ pc' \in [Ops -> Labels]
      BY <2>10, <1>slot, <1>id, <1>goto, <1>serve, SelectedMeans DEF ReadSelection, Selected, TypeOK, Labels
    <3> QED
      BY <2>10, <3>1 DEF ReadSelection, TypeOK
  <2>11. CASE RenewSettled(o)
    <3>1. GotType' /\ pc' \in [Ops -> Labels]
      BY <2>11, <1>slot, <1>id, <1>goto, <1>serve, SelectedMeans DEF RenewSettled, Selected, TypeOK, Labels
    <3>2. DocumentType'
      BY <2>11, <1>slot, WrittenSlots DEF RenewSettled, TypeOK, States, Ids
    <3> QED
      BY <2>11, <3>1, <3>2 DEF RenewSettled, TypeOK
  <2>12. CASE RenewMarks(o)
    <3>3. [TheSlot EXCEPT !.marker = TRUE] \in Slot
      BY <1>slot DEF Slot
    <3>4. material # Null
      BY <2>12, <1>slot, SelectedMeans DEF RenewMarks, Selected
    <3>5. record' \in Slot /\ material' = material
      BY <2>12, <3>3 DEF RenewMarks
    <3>6. /\ held' = [held EXCEPT ![o] = [slot |-> [TheSlot EXCEPT !.marker = TRUE],
                                         material |-> material]]
          /\ material \in Material
      BY <2>12, <3>4 DEF RenewMarks, TypeOK
    <3>7. held' \in [Ops -> [slot : Slot, material : Material] \cup {Null}]
      BY <3>3, <3>6 DEF TypeOK
    <3>1. DocumentType' /\ held' \in [Ops -> [slot : Slot, material : Material] \cup {Null}]
      BY <3>5, <3>7 DEF TypeOK
    <3>2. pc' \in [Ops -> Labels]
      BY <2>12, <1>goto DEF RenewMarks, Labels
    <3> QED
      BY <2>12, <3>1, <3>2 DEF RenewMarks, TypeOK
  <2>13. CASE Exchange(o)
    <3>1. held[o].material \in Material /\ held[o].material.token \in Ids
      BY <2>13, ConstantsAssumption DEF Exchange, LockInv, TypeOK, Material
    <3>2. spent' \subseteq Ids /\ reply' \in [Ops -> Replies \cup {Null}]
      BY <2>13, <3>1 DEF Exchange, TypeOK
    <3>3. pc' \in [Ops -> Labels]
      BY <2>13, <1>goto DEF Exchange, Labels
    <3> QED
      BY <2>13, <3>1, <3>2, <3>3 DEF Exchange, TypeOK
  <2>14. CASE RenewWrites(o)
    <3>1. held[o].slot \in Slot /\ held[o].slot.cid # Null /\ held[o].material \in Material
      BY <2>14, ConstantsAssumption DEF RenewWrites, LockInv, TypeOK
    <3>5. /\ RenewedSlot(held[o].slot) \in Slot
          /\ \A state \in States, b \in BOOLEAN :
               MarkedSlot(held[o].slot, state, b) \in Slot
      BY <3>1, WrittenSlots DEF Ids
    <3>6. record' \in Slot
      BY <2>14, <3>5 DEF RenewWrites, States
    <3>7. RenewedMaterial(held[o].material, o, reply[o]) \in Material
      BY <3>1 DEF RenewedMaterial, Material, Ids
    <3>8. material' \in Material \cup {Null}
      BY <2>14, <3>1, <3>7 DEF RenewWrites
    <3>2. DocumentType'
      BY <3>6, <3>8
    <3>3. IdentityOf(held[o].slot) \in Identity
      BY <2>14, <3>1 DEF IdentityOf, Identity, Slot
    <3>4. GotType' /\ pc' \in [Ops -> Labels]
      BY <2>14, <3>3, <1>goto, <1>serve DEF RenewWrites, TypeOK, Labels
    <3> QED
      BY <2>14, <3>1, <3>2, <3>3, <3>4 DEF RenewWrites, TypeOK
  <2>15. CASE RenewUnsaved(o)
    BY <2>15, <1>goto, <1>finish DEF RenewUnsaved, TypeOK, Labels, Goto
  <2>16. CASE RecordVerification(o)
    <3>1. got[o].cid \in Ids
      BY <2>16 DEF RecordVerification, IdentityInv, TypeOK, Identity
    <3>2. DocumentType'
      BY <2>16, <3>1, <1>written DEF RecordVerification, TypeOK
    <3>3. pc' \in [Ops -> Labels]
      BY <2>16, <1>goto DEF RecordVerification, Labels
    <3> QED
      BY <2>16, <3>1, <3>2, <3>3 DEF RecordVerification, TypeOK
  <2>17. CASE VerifyFails(o)
    BY <2>17, <1>goto, <1>finish DEF VerifyFails, TypeOK, Labels
  <2>18. CASE StoreFails(o)
    <3>1. ControlType'
      BY <2>18, <1>finish, <1>goto DEF StoreFails, CommitFails, TypeOK, Labels
    <3> QED
      BY <2>18, <3>1 DEF StoreFails, TypeOK
  <2> QED
    BY <1>2, <2>1, <2>2, <2>3, <2>4, <2>5, <2>6, <2>7, <2>8, <2>9, <2>10, <2>11, <2>12, <2>13, <2>14, <2>15, <2>16, <2>17, <2>18 DEF Progress
<1>3. ASSUME NEW o \in Ops, AbortSignal(o) PROVE TypeOK'
  BY <1>3 DEF AbortSignal, TypeOK
<1>4. ASSUME NEW p \in Procs, Close(p) PROVE TypeOK'
  BY <1>4, <1>abort DEF Close, TypeOK
<1>5. ASSUME NEW p \in Procs, Crash(p) PROVE TypeOK'
  BY <1>5 DEF Crash, LockAfterCrash, TypeOK, Labels
<1>6. CASE Age
  BY <1>6 DEF Age, TypeOK, Material
<1>7. CASE Lapse
  BY <1>7, <1>slot DEF Lapse, TypeOK
<1>8. CASE UNCHANGED vars
  BY <1>8 DEF TypeOK
<1> QED
  BY <1>1, <1>2, <1>3, <1>4, <1>5, <1>6, <1>7, <1>8 DEF Next, Ended
-----------------------------------------------------------------------------
(* The kinds of steps *)

Before == {"idle", "reserving"}
Unsaved == {"idle", "reserving", "running", "committing"}
InExchange == {"exchanging", "answered"}
After == {"recording", "done", "dead"}

(* A call only goes forward. *)
Forward(o) ==
  /\ pc'[o] \in Before => pc[o] \in Before
  /\ pc'[o] \in Unsaved => pc[o] \in Unsaved
  /\ pc[o] \in After => pc'[o] \in After

KeepsOut(o) == pc'[o] = pc[o] \/ (pc[o] \notin InExchange /\ pc'[o] \notin InExchange)

(* Neither the document nor a renewal is touched. *)
QuietStep ==
  /\ UNCHANGED <<record, material, lock, spent, held, reply, cancelled, committed,
                 expected>>
  /\ \A o \in Ops : KeepsOut(o)

(* The slot is written, its connection stays. *)
SameConnection ==
  /\ TheSlot'.gen = TheSlot.gen /\ TheSlot'.cid = TheSlot.cid
  /\ TheSlot'.rev = TheSlot.rev /\ TheSlot'.state = TheSlot.state
  /\ TheSlot'.marker = TheSlot.marker

(* The reservation stays, ends, is cancelled, or is made. *)
AttemptEdit ==
  \/ /\ TheSlot'.attempt \in {TheSlot.attempt, Null}
     /\ expected' = expected
     /\ \/ cancelled' = cancelled
        \/ /\ TheSlot.attempt # Null /\ TheSlot'.attempt = Null
           /\ cancelled' = cancelled \cup {TheSlot.attempt}
  \/ \E u \in Ops : /\ pc[u] = "reserving" /\ pc'[u] = "running"
                    /\ TheSlot'.attempt = u /\ expected'[u] = TheSlot.gen
                    /\ cancelled' = cancelled

EditStep ==
  /\ lock = Null /\ SameConnection /\ AttemptEdit
  /\ UNCHANGED <<material, lock, spent, held, reply, committed>>
  /\ \A o \in Ops : KeepsOut(o)

(* The document becomes a given slot and credential. *)
LEMMA Written ==
  ASSUME record' \in Slot
  PROVE  TheSlot' = record'
BY NullAssumption DEF TheSlot, SlotView

LEMMA Forwards == TypeOK /\ [Next]_vars => \A o \in Ops : Forward(o)
<1> SUFFICES ASSUME TypeOK, [Next]_vars, NEW o \in Ops PROVE Forward(o)
  OBVIOUS
<1> USE DEF Forward, Before, Unsaved, After, Goto, TypeOK
<1>1. ASSUME NEW u \in Ops, NEW p \in Procs, Start(u, p) PROVE Forward(o)
  BY <1>1 DEF Start, Login, Configure, CancelLogin, Logout, RequestAuth, Verify, Call
<1>2. ASSUME NEW u \in Ops, Progress(u) PROVE Forward(o)
  <2>1. CASE Reserve(u)
    BY <2>1 DEF Reserve
  <2>2. CASE MethodSucceeds(u)
    BY <2>2 DEF MethodSucceeds
  <2>3. CASE MethodFails(u)
    BY <2>3 DEF MethodFails, Finish
  <2>4. CASE Commit(u)
    BY <2>4 DEF Commit, CommitFails, Finish
  <2>5. CASE Release(u)
    BY <2>5 DEF Release, Finish
  <2>6. CASE CancelAttempt(u)
    BY <2>6 DEF CancelAttempt
  <2>7. CASE ResolveTarget(u)
    BY <2>7 DEF ResolveTarget
  <2>8. CASE Forget(u)
    BY <2>8 DEF Forget
  <2>9. CASE ForgetUnsaved(u)
    BY <2>9 DEF ForgetUnsaved
  <2>10. CASE ReadSelection(u)
    BY <2>10 DEF ReadSelection, Serve
  <2>11. CASE RenewSettled(u)
    BY <2>11 DEF RenewSettled, Serve
  <2>12. CASE RenewMarks(u)
    BY <2>12 DEF RenewMarks
  <2>13. CASE Exchange(u)
    BY <2>13 DEF Exchange
  <2>14. CASE RenewWrites(u)
    BY <2>14 DEF RenewWrites, Serve
  <2>15. CASE RenewUnsaved(u)
    BY <2>15 DEF RenewUnsaved
  <2>16. CASE RecordVerification(u)
    BY <2>16 DEF RecordVerification
  <2>17. CASE VerifyFails(u)
    BY <2>17 DEF VerifyFails
  <2>18. CASE StoreFails(u)
    BY <2>18 DEF StoreFails, CommitFails, Finish
  <2> QED
    BY <1>2, <2>1, <2>2, <2>3, <2>4, <2>5, <2>6, <2>7, <2>8, <2>9, <2>10, <2>11, <2>12, <2>13, <2>14, <2>15, <2>16, <2>17, <2>18 DEF Progress
<1>3. ASSUME NEW u \in Ops, AbortSignal(u) PROVE Forward(o)
  BY <1>3 DEF AbortSignal
<1>4. ASSUME NEW p \in Procs, Close(p) PROVE Forward(o)
  BY <1>4 DEF Close
<1>5. ASSUME NEW p \in Procs, Crash(p) PROVE Forward(o)
  BY <1>5 DEF Crash, Live
<1>6. CASE Age \/ Lapse \/ UNCHANGED vars
  BY <1>6 DEF Age, Lapse
<1> QED
  BY <1>1, <1>2, <1>3, <1>4, <1>5, <1>6 DEF Next, Ended

(* Every step is quiet, an edit of the slot, or one of seven that matter. *)
LEMMA StepKinds ==
  TypeOK /\ IdentityInv /\ [Next]_vars =>
    \/ QuietStep
    \/ EditStep
    \/ \E o \in Ops : \/ Commit(o) \/ Forget(o) \/ RenewSettled(o)
                      \/ RenewMarks(o) \/ Exchange(o) \/ RenewWrites(o)
                      \/ RenewUnsaved(o)
    \/ \E p \in Procs : Crash(p)
<1> SUFFICES ASSUME TypeOK, IdentityInv, [Next]_vars
             PROVE  \/ QuietStep \/ EditStep
                    \/ \E o \in Ops :
                         \/ Commit(o) \/ Forget(o) \/ RenewSettled(o)
                         \/ RenewMarks(o) \/ Exchange(o) \/ RenewWrites(o)
                         \/ RenewUnsaved(o)
                    \/ \E p \in Procs : Crash(p)
  OBVIOUS
<1>slot. TheSlot \in Slot
  BY SlotViewType DEF TheSlot, TypeOK
<1>same. record' = record /\ material' = material => TheSlot' = TheSlot
  BY DEF TheSlot
<1>reserved. ASSUME NEW id \in Ids \cup {Null}, record' = ReservedSlot(TheSlot, id)
             PROVE  SameConnection /\ TheSlot'.attempt = id
  <2>1. record' \in Slot
    BY <1>reserved, <1>slot, WrittenSlots DEF Ids
  <2> QED
    BY <2>1, <1>reserved, <1>slot, Written DEF SameConnection, ReservedSlot, Slot
<1> USE DEF QuietStep, KeepsOut, InExchange, Goto
<1>1. ASSUME NEW u \in Ops, NEW p \in Procs, Start(u, p) PROVE QuietStep
  BY <1>1 DEF Start, Login, Configure, CancelLogin, Logout, RequestAuth, Verify, Call,
     TypeOK
<1>2. ASSUME NEW u \in Ops, MethodSucceeds(u) PROVE QuietStep
  BY <1>2 DEF MethodSucceeds, TypeOK
<1>3. ASSUME NEW u \in Ops, MethodFails(u) PROVE QuietStep
  BY <1>3 DEF MethodFails, TypeOK, Finish
<1>4. ASSUME NEW u \in Ops, ResolveTarget(u) PROVE QuietStep
  BY <1>4 DEF ResolveTarget, TypeOK
<1>5. ASSUME NEW u \in Ops, ForgetUnsaved(u) PROVE QuietStep
  BY <1>5 DEF ForgetUnsaved, TypeOK
<1>6. ASSUME NEW u \in Ops, ReadSelection(u) PROVE QuietStep
  BY <1>6 DEF ReadSelection, TypeOK, Serve
<1>7. ASSUME NEW u \in Ops, VerifyFails(u) PROVE QuietStep
  BY <1>7 DEF VerifyFails, TypeOK
<1>8. ASSUME NEW u \in Ops, StoreFails(u) PROVE QuietStep
  BY <1>8 DEF StoreFails, TypeOK, CommitFails, Finish
<1>9. ASSUME NEW u \in Ops, AbortSignal(u) PROVE QuietStep
  BY <1>9 DEF AbortSignal, TypeOK
<1>10. ASSUME NEW u \in Ops, Reserve(u) PROVE QuietStep \/ EditStep
  <2>1. ~ReservationRefused(u) => SameConnection /\ TheSlot'.attempt = u
    BY <1>10, <1>reserved DEF Reserve, Ids
  <2> QED
    BY <1>10, <2>1 DEF Reserve, EditStep, AttemptEdit, TypeOK
<1>11. ASSUME NEW u \in Ops, Release(u) PROVE QuietStep \/ EditStep
  <2>1. SameConnection /\ AttemptEdit
    BY <1>11, <1>reserved, <1>same DEF Release, SameConnection, AttemptEdit
  <2> QED
    BY <1>11, <2>1 DEF Release, Finish, EditStep, TypeOK
<1>12. ASSUME NEW u \in Ops, CancelAttempt(u) PROVE QuietStep \/ EditStep
  <2>1. SameConnection /\ AttemptEdit
    BY <1>12, <1>reserved, <1>same DEF CancelAttempt, SameConnection, AttemptEdit
  <2> QED
    BY <1>12, <2>1 DEF CancelAttempt, EditStep, TypeOK
<1>13. ASSUME NEW u \in Ops, RecordVerification(u) PROVE QuietStep \/ EditStep
  <2>1. CASE record' = record
    BY <1>13, <2>1, <1>same DEF RecordVerification, SameConnection, AttemptEdit, EditStep, TypeOK
  <2>2. CASE record' = [TheSlot EXCEPT !.verified = got[u].cid]
    <3>1. got[u].cid \in Ids
      BY <1>13 DEF RecordVerification, IdentityInv, TypeOK, Identity
    <3>2. TheSlot' = record'
      BY <2>2, <3>1, <1>slot, WrittenSlots, Written
    <3> QED
      BY <1>13, <2>2, <3>2, <1>slot DEF RecordVerification, SameConnection, AttemptEdit, EditStep, TypeOK, Slot
  <2> QED
    BY <1>13, <2>1, <2>2 DEF RecordVerification
<1>14. ASSUME NEW p \in Procs, Close(p) PROVE QuietStep
  BY <1>14 DEF Close
<1>15. CASE Age \/ Lapse \/ UNCHANGED vars
  BY <1>15 DEF Age, Lapse
<1> QED
  BY <1>1, <1>2, <1>3, <1>4, <1>5, <1>6, <1>7, <1>8, <1>9, <1>10, <1>11, <1>12, <1>13, <1>14, <1>15 DEF Next, Progress, Ended
-----------------------------------------------------------------------------
(* The inductive invariant *)

(* What the lock's holder read is the document. *)
LEMMA HolderReads ==
  ASSUME IInv, NEW o \in Ops, pc[o] \in InExchange
  PROVE  /\ lock = o /\ lock # Null
         /\ held[o].slot = record /\ held[o].material = material
         /\ record \in Slot /\ material \in Material /\ TheSlot = record
         /\ record.marker /\ record.state = "ready"
         /\ record.cid # Null /\ material.token \in Ids
<1>1. lock = o /\ lock # Null
  BY ConstantsAssumption DEF IInv, LockInv, InExchange
<1>2. /\ held[o].slot = record /\ held[o].material = material
      /\ record \in Slot /\ material \in Material
      /\ record.marker /\ record.state = "ready"
      /\ record.cid # Null /\ material.token # Null
  BY <1>1 DEF IInv, LockInv, TypeOK
<1> QED
  BY <1>1, <1>2, NullAssumption DEF TheSlot, SlotView, Material

(* What the steps that write make of the document. *)
LEMMA Outcomes ==
  ASSUME IInv, NEW o \in Ops
  PROVE  /\ Commit(o) => \/ UNCHANGED <<record, material, committed>>
                         \/ /\ ~CommitRefused(o) /\ committed' = committed \cup {o}
                            /\ \E b \in BOOLEAN :
                                 TheSlot' = CommittedSlot(TheSlot, o, b)
                            /\ material' \in Material /\ material' # Null
                            /\ material'.gen = TheSlot.gen + 1
                            /\ material'.token \in {o, Null}
         /\ Forget(o) => \/ UNCHANGED <<record, material, cancelled>>
                         \/ /\ TheSlot' = ForgottenSlot(TheSlot) /\ material' = Null
                            /\ cancelled' = cancelled \cup ({TheSlot.attempt} \ {Null})
         /\ RenewSettled(o) => \/ UNCHANGED <<record, material>>
                               \/ /\ TheSlot.cid # Null /\ TheSlot.state = "ready"
                                  /\ ~TheSlot.marker
                                  /\ TheSlot' = MarkedSlot(TheSlot, "needs_login", FALSE)
                                  /\ material' = Null
         /\ RenewMarks(o) => /\ TheSlot.cid # Null /\ TheSlot.state = "ready"
                             /\ ~TheSlot.marker /\ record' \in Slot
                             /\ TheSlot' = [TheSlot EXCEPT !.marker = TRUE]
                             /\ record' = TheSlot'
                             /\ Pin(o) = Null \/ IdentityOf(TheSlot) = Pin(o)
                             /\ material \in Material /\ material.token \in Ids
<1>slot. TheSlot \in Slot
  BY SlotViewType DEF TheSlot, TypeOK, IInv
<1>1. ASSUME Commit(o), ~CommitRefused(o)
      PROVE  /\ \E b \in BOOLEAN : TheSlot' = CommittedSlot(TheSlot, o, b)
             /\ material' \in Material /\ material' # Null
             /\ material'.gen = TheSlot.gen + 1
             /\ material'.token \in {o, Null}
  <2>1. PICK m \in {RecipeMaterial(o, TheSlot.gen + 1)} \cup
                   LoginMaterial(o, TheSlot.gen + 1) :
          record' = CommittedSlot(TheSlot, o, m.oauth) /\ material' = m
    BY <1>1 DEF Commit
  <2>2. /\ m \in Material /\ m.oauth \in BOOLEAN
        /\ m.gen = TheSlot.gen + 1 /\ m.token \in {o, Null}
    BY <1>slot, ObtainedMaterial DEF Slot, Ids
  <2>3. CommittedSlot(TheSlot, o, m.oauth) \in Slot
    BY <2>2, <1>slot, WrittenSlots DEF Ids
  <2> QED
    BY <2>1, <2>2, <2>3, Written, NullAssumption
<1>2. ForgottenSlot(TheSlot) \in Slot
  BY <1>slot, WrittenSlots DEF Ids
<1>3. MarkedSlot(TheSlot, "needs_login", FALSE) \in Slot
  BY <1>slot, WrittenSlots DEF Ids, States
<1>4. [TheSlot EXCEPT !.marker = TRUE] \in Slot
  BY <1>slot DEF Slot
<1>5. Selected(o) => /\ TheSlot.cid # Null /\ TheSlot.state = "ready"
                     /\ ~TheSlot.marker /\ material # Null
                     /\ Pin(o) = Null \/ IdentityOf(TheSlot) = Pin(o)
  BY <1>slot, SelectedMeans DEF Selected
<1>6. Commit(o) /\ CommitRefused(o) => UNCHANGED <<record, material, committed>>
  BY DEF Commit
<1>7. Commit(o) /\ ~CommitRefused(o) => committed' = committed \cup {o}
  BY DEF Commit
<1>8. Forget(o) => \/ UNCHANGED <<record, material, cancelled>>
                   \/ /\ TheSlot' = ForgottenSlot(TheSlot) /\ material' = Null
                      /\ cancelled' = cancelled \cup ({TheSlot.attempt} \ {Null})
  BY <1>2, Written DEF Forget
<1>9. RenewSettled(o) =>
        \/ UNCHANGED <<record, material>>
        \/ /\ TheSlot.cid # Null /\ TheSlot.state = "ready" /\ ~TheSlot.marker
           /\ TheSlot' = MarkedSlot(TheSlot, "needs_login", FALSE)
           /\ material' = Null
  BY <1>3, <1>5, Written DEF RenewSettled
<1>10. RenewMarks(o) =>
         /\ TheSlot.cid # Null /\ TheSlot.state = "ready"
         /\ ~TheSlot.marker /\ record' \in Slot
         /\ TheSlot' = [TheSlot EXCEPT !.marker = TRUE]
         /\ record' = TheSlot'
         /\ Pin(o) = Null \/ IdentityOf(TheSlot) = Pin(o)
         /\ material \in Material /\ material.token \in Ids
  BY <1>4, <1>5, Written DEF RenewMarks, Renewable, Material, IInv, TypeOK
<1> QED
  BY <1>1, <1>6, <1>7, <1>8, <1>9, <1>10

LEMMA LockStep == IInv /\ [Next]_vars => LockInv'
<1> SUFFICES ASSUME IInv, [Next]_vars PROVE LockInv'
  OBVIOUS
<1> USE ConstantsAssumption DEF InExchange, KeepsOut, Goto
<1>1. CASE QuietStep
  BY <1>1 DEF QuietStep, LockInv, IInv
<1>2. CASE EditStep
  BY <1>2 DEF EditStep, LockInv, IInv
<1>3. ASSUME NEW o \in Ops, Commit(o) \/ Forget(o) \/ RenewSettled(o) PROVE LockInv'
  <2>1. /\ lock = Null /\ lock' = Null
        /\ pc[o] \notin InExchange /\ pc'[o] \notin InExchange
        /\ \A u \in Ops \ {o} : pc'[u] = pc[u]
    BY <1>3 DEF Commit, CommitFails, Finish, Forget, RenewSettled, Serve, IInv, TypeOK
  <2> QED
    BY <2>1 DEF LockInv, IInv
<1>4. ASSUME NEW o \in Ops, RenewMarks(o) PROVE LockInv'
  <2>1. \A u \in Ops : pc'[u] \in InExchange <=> lock' = u
    BY <1>4 DEF RenewMarks, LockInv, IInv, TypeOK
  <2>2. lock' = o /\ o # Null /\ material' = material /\ material # Null
    BY <1>4, Outcomes, NullAssumption DEF RenewMarks
  <2>3. held'[o] = [slot |-> record', material |-> material']
    BY <1>4 DEF RenewMarks, IInv, TypeOK
  <2>4. /\ record' # Null /\ record'.marker /\ record'.state = "ready"
        /\ record'.cid # Null
    <3>1. TheSlot \in Slot
      BY SlotViewType DEF TheSlot, TypeOK, IInv
    <3>2. /\ record' = [TheSlot EXCEPT !.marker = TRUE] /\ record' \in Slot
          /\ TheSlot.cid # Null /\ TheSlot.state = "ready"
      BY <1>4, Outcomes
    <3> QED
      BY <3>1, <3>2, NullAssumption DEF Slot
  <2>5. material.token # Null
    BY <1>4, Outcomes, NullAssumption
  <2> QED
    BY <2>1, <2>2, <2>3, <2>4, <2>5 DEF LockInv
<1>5. ASSUME NEW o \in Ops, Exchange(o) PROVE LockInv'
  BY <1>5 DEF Exchange, LockInv, IInv, TypeOK
<1>6. ASSUME NEW o \in Ops, RenewWrites(o) \/ RenewUnsaved(o) PROVE LockInv'
  <2>1. lock' = Null /\ lock = o
    BY <1>6 DEF RenewWrites, RenewUnsaved, LockInv, IInv
  <2>2. \A u \in Ops : pc'[u] \notin InExchange
    BY <1>6, <2>1 DEF RenewWrites, RenewUnsaved, Serve, LockInv, IInv, TypeOK
  <2> QED
    BY <2>1, <2>2 DEF LockInv
<1>7. ASSUME NEW p \in Procs, Crash(p) PROVE LockInv'
  BY <1>7 DEF Crash, LockAfterCrash, Live, LockInv, IInv, TypeOK
<1> QED
  BY <1>1, <1>2, <1>3, <1>4, <1>5, <1>6, <1>7, StepKinds DEF IInv

(* What an exchange does to the tokens, and what the flow makes of it. *)
LEMMA ExchangeSpends ==
  ASSUME IInv, NEW o \in Ops, Exchange(o)
  PROVE  /\ material \in Material /\ material.token \in Ids /\ TheSlot.marker
         /\ reply'[o] \in Replies
         /\ spent' \in {spent, spent \cup {material.token}}
         /\ reply'[o] \notin {"rotated", "lost"} => spent' = spent
         /\ material.token \notin spent
         /\ \A u \in Ops : pc'[u] = "answered" => u = o
<1>1. pc[o] \in InExchange
  BY DEF Exchange, InExchange
<1>2. held[o].material = material /\ lock = o
  BY <1>1, HolderReads
<1>3. material \in Material /\ material.token \in Ids /\ TheSlot.marker
  BY <1>1, HolderReads
<1>4. reply'[o] \in Replies
  BY DEF Exchange, IInv, TypeOK
<1>5. /\ spent' \in {spent, spent \cup {material.token}}
      /\ reply'[o] \notin {"rotated", "lost"} => spent' = spent
  BY <1>2 DEF Exchange, IInv, TypeOK
<1>6. material.token \notin spent
  BY <1>2 DEF Exchange, IInv, NoBlindReplay
<1>7. \A u \in Ops : pc'[u] = "answered" => u = o
  BY <1>2 DEF Exchange, Goto, IInv, LockInv, TypeOK
<1> QED
  BY <1>3, <1>4, <1>5, <1>6, <1>7

(* What a renewal writes, by its outcome. *)
LEMMA RenewalOutcomes ==
  ASSUME IInv, NEW o \in Ops, RenewWrites(o)
  PROVE  \/ /\ TheSlot' = RenewedSlot(TheSlot) /\ reply[o] \in {"rotated", "kept"}
            /\ material' = RenewedMaterial(material, o, reply[o])
            /\ material' \in Material
         \/ /\ TheSlot' = MarkedSlot(TheSlot, "needs_login", FALSE)
            /\ material' = Null
         \/ /\ TheSlot' = MarkedSlot(TheSlot, "ready", FALSE)
            /\ material' = material /\ reply[o] \notin {"rotated", "lost"}
         \/ /\ TheSlot' = MarkedSlot(TheSlot, "indeterminate", TRUE)
            /\ material' = material
<1>1. /\ held[o].slot = TheSlot /\ held[o].material = material
      /\ TheSlot \in Slot /\ material \in Material
  BY HolderReads DEF RenewWrites, InExchange
<1>2. /\ reply[o] \in Replies
  BY DEF RenewWrites, IInv, SpentInv
<1>3. /\ RenewedSlot(TheSlot) \in Slot
      /\ \A state \in States, b \in BOOLEAN : MarkedSlot(TheSlot, state, b) \in Slot
  BY <1>1, WrittenSlots DEF Ids
<1>4. RenewedMaterial(material, o, reply[o]) \in Material
  BY <1>1 DEF RenewedMaterial, Material, Ids
<1>5. /\ Verdict(reply[o]) = "renewed" => reply[o] \in {"rotated", "kept"}
      /\ Verdict(reply[o]) = "safe" => reply[o] \notin {"rotated", "lost"}
  BY <1>2 DEF Verdict, Replies
<1>6. CASE Verdict(reply[o]) = "renewed"
  BY <1>1, <1>3, <1>4, <1>5, <1>6, Written DEF RenewWrites
<1>7. CASE Verdict(reply[o]) = "denied"
  BY <1>1, <1>3, <1>7, Written DEF RenewWrites, States
<1>8. CASE Verdict(reply[o]) = "safe"
  BY <1>1, <1>3, <1>5, <1>8, Written DEF RenewWrites, States
<1>9. CASE Verdict(reply[o]) = "uncertain"
  BY <1>1, <1>3, <1>9, Written DEF RenewWrites, States
<1> QED
  BY <1>6, <1>7, <1>8, <1>9 DEF RenewWrites

LEMMA TokenStep == IInv /\ [Next]_vars => SpentInv' /\ NoBlindReplay'
<1> SUFFICES ASSUME IInv, [Next]_vars PROVE SpentInv' /\ NoBlindReplay'
  OBVIOUS
<1>slot. TheSlot \in Slot
  BY SlotViewType DEF TheSlot, TypeOK, IInv
<1>forward. \A o \in Ops : Forward(o)
  BY Forwards DEF IInv
<1>null. Null \notin spent
  BY NullAssumption DEF IInv, TypeOK
<1> USE DEF InExchange, KeepsOut, Goto, Forward, After
<1>1. CASE QuietStep
  <2>1. TheSlot' = TheSlot
    BY <1>1 DEF QuietStep, TheSlot
  <2> QED
    BY <1>1, <1>forward, <2>1 DEF QuietStep, IInv, SpentInv, NoBlindReplay
<1>2. CASE EditStep
  BY <1>2, <1>forward DEF EditStep, SameConnection, IInv, SpentInv, NoBlindReplay
<1>3. ASSUME NEW o \in Ops, Commit(o) \/ Forget(o) \/ RenewSettled(o)
      PROVE  SpentInv' /\ NoBlindReplay'
  <2>5. spent' = spent /\ lock = Null
    BY <1>3 DEF Commit, CommitFails, Forget, RenewSettled
  <2>6. \E l \in Labels \ InExchange : pc' = [pc EXCEPT ![o] = l]
    BY <1>3 DEF Commit, CommitFails, Finish, Forget, RenewSettled, Serve, Labels
  <2>7. \A u \in Ops : pc[u] \notin InExchange
    BY <2>5, ConstantsAssumption DEF IInv, LockInv
  <2>1. /\ spent' = spent
        /\ \A u \in Ops : pc'[u] \notin InExchange
    BY <2>5, <2>6, <2>7 DEF IInv, TypeOK
  <2>2. UNCHANGED <<record, material>> => TheSlot' = TheSlot
    BY DEF TheSlot
  <2>3. \/ material' = Null
        \/ UNCHANGED <<record, material>>
        \/ /\ material'.token \in {o, Null} /\ pc[o] = "committing" /\ pc'[o] = "done"
    BY <1>3, Outcomes DEF Commit, Finish, IInv, TypeOK
  <2>4. pc[o] = "committing" => o \notin spent
    BY DEF IInv, SpentInv
  <2> QED
    BY <2>1, <2>2, <2>3, <2>4, <1>forward, <1>null, NullAssumption
       DEF IInv, SpentInv, NoBlindReplay, Ids
<1>4. ASSUME NEW o \in Ops, RenewMarks(o) PROVE SpentInv' /\ NoBlindReplay'
  <2>1. /\ TheSlot' = [TheSlot EXCEPT !.marker = TRUE] /\ ~TheSlot.marker
        /\ material \in Material
    BY <1>4, Outcomes
  <2>2. TheSlot'.marker
    BY <2>1, <1>slot DEF Slot
  <2>3. /\ material' = material /\ spent' = spent /\ held'[o].material = material
        /\ \A u \in Ops : pc'[u] \in InExchange => u = o /\ pc'[u] = "exchanging"
    BY <1>4, ConstantsAssumption DEF RenewMarks, IInv, TypeOK, LockInv
  <2>4. material.token \notin spent
    BY <2>1, NullAssumption DEF IInv, SpentInv
  <2> QED
    BY <2>2, <2>3, <2>4, <1>forward DEF IInv, SpentInv, NoBlindReplay
<1>5. ASSUME NEW o \in Ops, Exchange(o) PROVE SpentInv' /\ NoBlindReplay'
  <2>1. /\ UNCHANGED <<record, material, held>> /\ TheSlot' = TheSlot
    BY <1>5 DEF Exchange, TheSlot
  <2>2. \A u \in Ops : pc'[u] # "exchanging"
    BY <1>5, ConstantsAssumption DEF Exchange, IInv, TypeOK, LockInv
  <2>3. held[o].material = material
    BY <1>5, HolderReads DEF Exchange
  <2>4. \A u \in Ops : u \in spent' => u \in spent \/ u = material.token
    BY <1>5, ExchangeSpends
  <2>5. /\ reply'[o] \in Replies
        /\ reply'[o] \notin {"rotated", "lost"} => material.token \notin spent'
        /\ TheSlot.marker /\ material # Null
        /\ \A u \in Ops : pc'[u] = "answered" => u = o
    BY <1>5, ExchangeSpends, NullAssumption
  <2> QED
    BY <2>1, <2>2, <2>3, <2>4, <2>5, <1>forward DEF IInv, SpentInv, NoBlindReplay
<1>6. ASSUME NEW o \in Ops, RenewWrites(o) PROVE SpentInv' /\ NoBlindReplay'
  <2>1. /\ pc[o] = "answered" /\ spent' = spent /\ pc'[o] \in After
        /\ \A u \in Ops : pc'[u] \notin InExchange
    BY <1>6, ConstantsAssumption DEF RenewWrites, Serve, IInv, TypeOK, LockInv
  <2>2. held[o].material = material /\ material \in Material
    BY <2>1, HolderReads
  <2>3. reply[o] \notin {"rotated", "lost"} => material.token \notin spent
    BY <2>1, <2>2 DEF IInv, SpentInv
  <2>4. o \notin spent
    BY <2>1 DEF IInv, SpentInv
  <2>5. CASE /\ material' = RenewedMaterial(material, o, reply[o])
             /\ reply[o] \in {"rotated", "kept"}
    <3>1. \/ material'.token = o /\ o \notin spent
          \/ material'.token = material.token /\ material.token \notin spent
      BY <2>2, <2>3, <2>4, <2>5 DEF RenewedMaterial, Material
    <3> QED
      BY <2>1, <2>2, <3>1, <1>forward, NullAssumption DEF IInv, SpentInv, NoBlindReplay
  <2>6. CASE material' = Null
    BY <2>1, <2>6, <1>forward DEF IInv, SpentInv, NoBlindReplay
  <2>7. CASE material' = material /\ reply[o] \notin {"rotated", "lost"}
    BY <2>1, <2>3, <2>7, <1>forward DEF IInv, SpentInv, NoBlindReplay
  <2>8. CASE TheSlot' = MarkedSlot(TheSlot, "indeterminate", TRUE) /\ material' = material
    <3>1. TheSlot.marker
      BY <2>1, HolderReads
    <3>2. TheSlot'.marker
      BY <3>1, <2>8, <1>slot DEF MarkedSlot, Slot
    <3> QED
      BY <2>1, <2>8, <3>2, <1>forward DEF IInv, SpentInv, NoBlindReplay
  <2> QED
    BY <1>6, <2>5, <2>6, <2>7, <2>8, RenewalOutcomes
<1>7. ASSUME NEW o \in Ops, RenewUnsaved(o) PROVE SpentInv' /\ NoBlindReplay'
  <2>1. UNCHANGED <<record, material, spent>> /\ TheSlot' = TheSlot
    BY <1>7 DEF RenewUnsaved, TheSlot
  <2>2. \A u \in Ops : pc'[u] \notin InExchange
    BY <1>7, ConstantsAssumption DEF RenewUnsaved, IInv, TypeOK, LockInv
  <2> QED
    BY <2>1, <2>2, <1>forward DEF IInv, SpentInv, NoBlindReplay
<1>8. ASSUME NEW p \in Procs, Crash(p) PROVE SpentInv' /\ NoBlindReplay'
  <2>1. UNCHANGED <<record, material, spent, reply>> /\ TheSlot' = TheSlot
    BY <1>8 DEF Crash, TheSlot
  <2>2. \A u \in Ops : pc'[u] \in InExchange => pc[u] = pc'[u] /\ held'[u] = held[u]
    BY <1>8 DEF Crash, Live, IInv, TypeOK
  <2> QED
    BY <2>1, <2>2, <1>forward DEF IInv, SpentInv, NoBlindReplay
<1> QED
  BY <1>1, <1>2, <1>3, <1>4, <1>5, <1>6, <1>7, <1>8, StepKinds DEF IInv

LEMMA AttemptStep ==
  IInv /\ [Next]_vars => AttemptInv' /\ CancelledNeverCommits' /\ ReservationCurrent'
<1> DEFINE Goal == AttemptInv /\ CancelledNeverCommits /\ ReservationCurrent
<1> SUFFICES ASSUME IInv, [Next]_vars PROVE Goal'
  OBVIOUS
<1> HIDE DEF Goal
<1>slot. TheSlot \in Slot
  BY SlotViewType DEF TheSlot, TypeOK, IInv
<1>forward. \A o \in Ops : Forward(o)
  BY Forwards DEF IInv
<1>null. Null \notin Ops /\ Null # Initial /\ Initial \notin Ops
  BY NullAssumption, InitialAssumption DEF Ids
<1> USE DEF Forward, Before, Unsaved
(* A step that leaves reservation, identity, cancellations and commits alone. *)
<1>kept. ASSUME TheSlot'.gen = TheSlot.gen, TheSlot'.cid = TheSlot.cid,
                TheSlot'.attempt = TheSlot.attempt,
                UNCHANGED <<expected, cancelled, committed>>
         PROVE  Goal'
  BY <1>kept, <1>forward DEF Goal, IInv, AttemptInv, CancelledNeverCommits, ReservationCurrent
<1>1. CASE QuietStep
  <2>1. TheSlot' = TheSlot
    BY <1>1 DEF QuietStep, TheSlot
  <2> QED
    BY <1>1, <1>kept, <2>1 DEF QuietStep
<1>2. CASE EditStep
  <2>1. TheSlot'.gen = TheSlot.gen /\ TheSlot'.cid = TheSlot.cid /\ committed' = committed
    BY <1>2 DEF EditStep, SameConnection
  <2>2. CASE /\ TheSlot'.attempt \in {TheSlot.attempt, Null} /\ expected' = expected
             /\ cancelled' = cancelled
    BY <2>1, <2>2, <1>forward, <1>null
       DEF Goal, IInv, AttemptInv, CancelledNeverCommits, ReservationCurrent
  <2>3. CASE /\ TheSlot.attempt # Null /\ TheSlot'.attempt = Null
             /\ expected' = expected
             /\ cancelled' = cancelled \cup {TheSlot.attempt}
    BY <2>1, <2>3, <1>forward, <1>null
       DEF Goal, IInv, AttemptInv, CancelledNeverCommits, ReservationCurrent
  <2>4. ASSUME NEW u \in Ops, pc[u] = "reserving", pc'[u] = "running",
               TheSlot'.attempt = u, expected'[u] = TheSlot.gen, cancelled' = cancelled
        PROVE  Goal'
    <3>1. u \notin cancelled /\ u \notin committed /\ u # Initial
      BY <2>4, <1>null DEF IInv, AttemptInv
    <3>2. AttemptInv'
      BY <2>1, <2>4, <3>1, <1>forward DEF IInv, AttemptInv
    <3>3. CancelledNeverCommits'
      BY <2>1, <2>4 DEF IInv, CancelledNeverCommits
    <3>4. ReservationCurrent'
      BY <2>1, <2>4, <3>1 DEF ReservationCurrent
    <3> QED
      BY <3>2, <3>3, <3>4 DEF Goal
  <2>5. CASE \E u \in Ops : /\ pc[u] = "reserving" /\ pc'[u] = "running"
                           /\ TheSlot'.attempt = u /\ expected'[u] = TheSlot.gen
                           /\ cancelled' = cancelled
    BY ONLY <2>4, <2>5
  <2>6. AttemptEdit
    BY <1>2 DEF EditStep
  <2> QED
    BY ONLY <2>2, <2>3, <2>5, <2>6 DEF AttemptEdit
<1>3. ASSUME NEW o \in Ops, Commit(o) PROVE Goal'
  <2>1. UNCHANGED <<expected, cancelled>>
    BY <1>3 DEF Commit
  <2>2. CASE UNCHANGED <<record, material, committed>>
    <3>1. TheSlot' = TheSlot
      BY <2>2 DEF TheSlot
    <3> QED
      BY <2>1, <2>2, <3>1, <1>kept
  <2>3. CASE /\ committed' = committed \cup {o} /\ ~CommitRefused(o)
             /\ \E b \in BOOLEAN : TheSlot' = CommittedSlot(TheSlot, o, b)
    <3>1. TheSlot'.cid = o /\ TheSlot'.attempt = Null
      <4>1. PICK b \in BOOLEAN : TheSlot' = CommittedSlot(TheSlot, o, b)
        BY <2>3
      <4> QED
        BY <4>1 DEF CommittedSlot, EmptySlot
    <3>2. pc'[o] = "done" /\ TheSlot.attempt = o
      BY <1>3, <2>3 DEF Commit, CommitRefused, Finish, Goto, IInv, TypeOK
    <3> QED
      BY <2>1, <2>3, <3>1, <3>2, <1>forward, <1>null
         DEF Goal, IInv, AttemptInv, CancelledNeverCommits, ReservationCurrent
  <2> QED
    BY <1>3, <2>2, <2>3, Outcomes
<1>4. ASSUME NEW o \in Ops, Forget(o) PROVE Goal'
  <2>1. UNCHANGED <<expected, committed>>
    BY <1>4 DEF Forget
  <2>2. CASE UNCHANGED <<record, material, cancelled>>
    <3>1. TheSlot' = TheSlot
      BY <2>2 DEF TheSlot
    <3> QED
      BY <2>1, <2>2, <3>1, <1>kept
  <2>3. CASE /\ TheSlot' = ForgottenSlot(TheSlot)
             /\ cancelled' = cancelled \cup ({TheSlot.attempt} \ {Null})
    <3>1. TheSlot'.cid = Null /\ TheSlot'.attempt = Null
      BY <2>3 DEF ForgottenSlot, EmptySlot
    <3> QED
      BY <2>1, <2>3, <3>1, <1>forward, <1>null
         DEF Goal, IInv, AttemptInv, CancelledNeverCommits, ReservationCurrent
  <2> QED
    BY <1>4, <2>2, <2>3, Outcomes
<1>5. ASSUME NEW o \in Ops, RenewSettled(o) PROVE Goal'
  <2>1. UNCHANGED <<expected, cancelled, committed>>
    BY <1>5 DEF RenewSettled
  <2>2. TheSlot' = TheSlot \/ TheSlot' = MarkedSlot(TheSlot, "needs_login", FALSE)
    BY <1>5, Outcomes DEF TheSlot
  <2>3. /\ TheSlot'.gen = TheSlot.gen /\ TheSlot'.cid = TheSlot.cid
        /\ TheSlot'.attempt = TheSlot.attempt
    BY <2>2, <1>slot DEF MarkedSlot, Slot
  <2> QED
    BY <2>1, <2>3, <1>kept
<1>6. ASSUME NEW o \in Ops, RenewMarks(o) PROVE Goal'
  <2>1. UNCHANGED <<expected, cancelled, committed>>
    BY <1>6 DEF RenewMarks
  <2>2. TheSlot' = [TheSlot EXCEPT !.marker = TRUE]
    BY <1>6, Outcomes
  <2>3. /\ TheSlot'.gen = TheSlot.gen /\ TheSlot'.cid = TheSlot.cid
        /\ TheSlot'.attempt = TheSlot.attempt
    BY <2>2, <1>slot DEF Slot
  <2> QED
    BY <2>1, <2>3, <1>kept
<1>7. ASSUME NEW o \in Ops, RenewWrites(o) PROVE Goal'
  <2>1. UNCHANGED <<expected, cancelled, committed>>
    BY <1>7 DEF RenewWrites
  <2>2. \/ TheSlot' = RenewedSlot(TheSlot)
        \/ \E s \in States, b \in BOOLEAN : TheSlot' = MarkedSlot(TheSlot, s, b)
    BY <1>7, RenewalOutcomes DEF States
  <2>3. /\ TheSlot'.gen = TheSlot.gen /\ TheSlot'.cid = TheSlot.cid
        /\ TheSlot'.attempt = TheSlot.attempt
    BY <2>2, <1>slot DEF MarkedSlot, RenewedSlot, Slot
  <2> QED
    BY <2>1, <2>3, <1>kept
<1>8. ASSUME \/ \E o \in Ops : Exchange(o) \/ RenewUnsaved(o)
             \/ \E p \in Procs : Crash(p)
      PROVE  Goal'
  <2>1. UNCHANGED <<record, material, expected, cancelled, committed>>
    BY <1>8 DEF Exchange, RenewUnsaved, Crash
  <2>2. TheSlot' = TheSlot
    BY <2>1 DEF TheSlot
  <2> QED
    BY <2>1, <2>2, <1>kept
<1> QED
  BY <1>1, <1>2, <1>3, <1>4, <1>5, <1>6, <1>7, <1>8, StepKinds DEF IInv

LEMMA MaterialStep == IInv /\ [Next]_vars => MaterialMatchesSlot'
<1> SUFFICES ASSUME IInv, [Next]_vars PROVE MaterialMatchesSlot'
  OBVIOUS
<1>slot. TheSlot \in Slot
  BY SlotViewType DEF TheSlot, TypeOK, IInv
<1>kept. ASSUME TheSlot'.gen = TheSlot.gen, TheSlot'.cid = TheSlot.cid,
                material' \in {material, Null}
         PROVE  MaterialMatchesSlot'
  BY <1>kept DEF IInv, MaterialMatchesSlot
<1>same. ASSUME UNCHANGED <<record, material>> PROVE MaterialMatchesSlot'
  BY <1>same, <1>kept DEF TheSlot
<1>1. CASE QuietStep
  BY <1>1, <1>same DEF QuietStep
<1>2. CASE EditStep
  BY <1>2, <1>kept DEF EditStep, SameConnection
<1>3. ASSUME NEW o \in Ops, Commit(o) PROVE MaterialMatchesSlot'
  <2>1. CASE /\ \E b \in BOOLEAN : TheSlot' = CommittedSlot(TheSlot, o, b)
             /\ material'.gen = TheSlot.gen + 1
    BY <2>1, NullAssumption DEF CommittedSlot, EmptySlot, MaterialMatchesSlot, Ids
  <2> QED
    BY <1>3, <2>1, <1>same, Outcomes
<1>4. ASSUME NEW o \in Ops, Forget(o) PROVE MaterialMatchesSlot'
  BY <1>4, <1>same, Outcomes DEF MaterialMatchesSlot
<1>5. ASSUME NEW o \in Ops, RenewSettled(o) PROVE MaterialMatchesSlot'
  BY <1>5, <1>same, Outcomes DEF MaterialMatchesSlot
<1>6. ASSUME NEW o \in Ops, RenewMarks(o) PROVE MaterialMatchesSlot'
  <2>1. TheSlot' = [TheSlot EXCEPT !.marker = TRUE] /\ material' = material
    BY <1>6, Outcomes DEF RenewMarks
  <2> QED
    BY <2>1, <1>slot, <1>kept DEF Slot
<1>7. ASSUME NEW o \in Ops, RenewWrites(o) PROVE MaterialMatchesSlot'
  <2>1. \/ TheSlot' = RenewedSlot(TheSlot)
        \/ \E s \in States, b \in BOOLEAN : TheSlot' = MarkedSlot(TheSlot, s, b)
    BY <1>7, RenewalOutcomes DEF States
  <2>2. TheSlot'.gen = TheSlot.gen /\ TheSlot'.cid = TheSlot.cid
    BY <2>1, <1>slot DEF MarkedSlot, RenewedSlot, Slot
  <2>3. material \in Material /\ material # Null
    BY <1>7, HolderReads, NullAssumption DEF RenewWrites, InExchange
  <2>4. material' \in {material, Null} \/ material' = RenewedMaterial(material, o, reply[o])
    BY <1>7, RenewalOutcomes
  <2>5. material' # Null => material'.gen = material.gen
    BY <2>3, <2>4 DEF RenewedMaterial, Material
  <2> QED
    BY <2>2, <2>3, <2>5 DEF IInv, MaterialMatchesSlot
<1>8. ASSUME \/ \E o \in Ops : Exchange(o) \/ RenewUnsaved(o)
             \/ \E p \in Procs : Crash(p)
      PROVE  MaterialMatchesSlot'
  BY <1>8, <1>same DEF Exchange, RenewUnsaved, Crash
<1> QED
  BY <1>1, <1>2, <1>3, <1>4, <1>5, <1>6, <1>7, <1>8, StepKinds DEF IInv

(* What a step makes of a call's identities: kind, pin and beginning are set  *)
(* when it is made, and it is given the identity of the slot, if it fits.     *)
Informed(o) ==
  /\ pc[o] # "idle" => Pin(o)' = Pin(o) /\ since'[o] = since[o]
  /\ since'[o] = since[o] \/ (since'[o] = TheSlot.gen /\ UNCHANGED <<record, material>>)
  /\ \/ got'[o] = got[o] /\ (pc'[o] = "recording" => pc[o] = "recording")
     \/ /\ got'[o] = IdentityOf(TheSlot) /\ TheSlot.cid # Null
        /\ Pin(o) = Null \/ IdentityOf(TheSlot) = Pin(o)
        /\ pc[o] \notin {"idle"} \cup After /\ pc'[o] \in After

LEMMA Informs == IInv /\ [Next]_vars => \A o \in Ops : Informed(o)
<1> SUFFICES ASSUME IInv, [Next]_vars, NEW o \in Ops PROVE Informed(o)
  OBVIOUS
<1>type. TypeOK
  BY DEF IInv
<1>slot. TheSlot \in Slot
  BY SlotViewType DEF TheSlot, TypeOK, IInv
<1>selected. ASSUME NEW u \in Ops, Selected(u)
             PROVE  /\ TheSlot.cid # Null
                    /\ Pin(u) = Null \/ IdentityOf(TheSlot) = Pin(u)
  BY <1>selected, <1>slot, SelectedMeans DEF Selected
<1> USE <1>type DEF Informed, Pin, After, Goto, TypeOK
<1>1. ASSUME NEW u \in Ops, NEW p \in Procs, Start(u, p) PROVE Informed(o)
  BY <1>1 DEF Start, Login, Configure, CancelLogin, Logout, RequestAuth, Verify, Call
<1>2. ASSUME NEW u \in Ops, Progress(u) PROVE Informed(o)
  <2>1. CASE Reserve(u)
    BY <2>1 DEF Reserve
  <2>2. CASE MethodSucceeds(u)
    BY <2>2 DEF MethodSucceeds
  <2>3. CASE MethodFails(u)
    BY <2>3 DEF MethodFails
  <2>4. CASE Commit(u)
    BY <2>4 DEF Commit, CommitFails, Finish
  <2>5. CASE Release(u)
    BY <2>5 DEF Release, Finish
  <2>6. CASE CancelAttempt(u)
    BY <2>6 DEF CancelAttempt
  <2>7. CASE ResolveTarget(u)
    BY <2>7 DEF ResolveTarget
  <2>8. CASE Forget(u)
    BY <2>8 DEF Forget
  <2>9. CASE ForgetUnsaved(u)
    BY <2>9 DEF ForgetUnsaved
  <2>10. CASE ReadSelection(u)
    BY <2>10, <1>selected DEF ReadSelection, Serve
  <2>11. CASE RenewSettled(u)
    BY <2>11, <1>selected DEF RenewSettled, Serve
  <2>12. CASE RenewMarks(u)
    BY <2>12 DEF RenewMarks
  <2>13. CASE Exchange(u)
    BY <2>13 DEF Exchange
  <2>14. CASE RenewWrites(u)
    <3>1. held[u].slot = TheSlot /\ pc[u] = "answered" /\ TheSlot.cid # Null
      BY <2>14, HolderReads DEF RenewWrites, InExchange
    <3>2. Pin(u) = Null \/ IdentityOf(TheSlot) = Pin(u)
      BY <3>1 DEF IInv, IdentityInv
    <3> QED
      BY <2>14, <3>1, <3>2 DEF RenewWrites, Serve
  <2>15. CASE RenewUnsaved(u)
    BY <2>15 DEF RenewUnsaved
  <2>16. CASE RecordVerification(u)
    BY <2>16 DEF RecordVerification
  <2>17. CASE VerifyFails(u)
    BY <2>17 DEF VerifyFails
  <2>18. CASE StoreFails(u)
    BY <2>18 DEF StoreFails, CommitFails, Finish
  <2> QED
    BY <1>2, <2>1, <2>2, <2>3, <2>4, <2>5, <2>6, <2>7, <2>8, <2>9, <2>10, <2>11, <2>12, <2>13, <2>14, <2>15, <2>16, <2>17, <2>18 DEF Progress
<1>3. ASSUME NEW u \in Ops, AbortSignal(u) PROVE Informed(o)
  BY <1>3 DEF AbortSignal
<1>4. ASSUME NEW p \in Procs, Close(p) PROVE Informed(o)
  BY <1>4 DEF Close
<1>5. ASSUME NEW p \in Procs, Crash(p) PROVE Informed(o)
  BY <1>5 DEF Crash, Live
<1>6. CASE Age \/ Lapse \/ UNCHANGED vars
  BY <1>6 DEF Age, Lapse
<1> QED
  BY <1>1, <1>2, <1>3, <1>4, <1>5, <1>6 DEF Next, Ended

(* Generations never go back. *)
LEMMA GenerationGrows ==
  IInv /\ [Next]_vars => /\ TheSlot.gen \in Nat /\ TheSlot'.gen \in Nat
                         /\ TheSlot'.gen >= TheSlot.gen
<1> SUFFICES ASSUME IInv, [Next]_vars
             PROVE  /\ TheSlot.gen \in Nat /\ TheSlot'.gen \in Nat
                    /\ TheSlot'.gen >= TheSlot.gen
  OBVIOUS
<1>slot. TheSlot \in Slot /\ TheSlot.gen \in Nat
  BY SlotViewType DEF TheSlot, TypeOK, IInv, Slot
<1>kept. ASSUME TheSlot'.gen = TheSlot.gen
         PROVE  TheSlot'.gen \in Nat /\ TheSlot'.gen >= TheSlot.gen
  BY <1>kept, <1>slot
<1>same. ASSUME UNCHANGED <<record, material>> PROVE TheSlot'.gen = TheSlot.gen
  BY <1>same DEF TheSlot
<1>1. CASE QuietStep
  BY <1>1, <1>slot, <1>same, <1>kept DEF QuietStep
<1>2. CASE EditStep
  BY <1>2, <1>slot, <1>kept DEF EditStep, SameConnection
<1>3. ASSUME NEW o \in Ops, Commit(o)
      PROVE  TheSlot'.gen \in Nat /\ TheSlot'.gen >= TheSlot.gen
  <2>1. \/ UNCHANGED <<record, material>>
        \/ \E b \in BOOLEAN : TheSlot' = CommittedSlot(TheSlot, o, b)
    BY <1>3, Outcomes
  <2>2. TheSlot'.gen \in {TheSlot.gen, TheSlot.gen + 1}
    BY <2>1, <1>same DEF CommittedSlot, EmptySlot
  <2> QED
    BY <2>2, <1>slot
<1>4. ASSUME NEW o \in Ops, Forget(o)
      PROVE  TheSlot'.gen \in Nat /\ TheSlot'.gen >= TheSlot.gen
  <2>1. UNCHANGED <<record, material>> \/ TheSlot' = ForgottenSlot(TheSlot)
    BY <1>4, Outcomes
  <2>2. TheSlot'.gen \in {TheSlot.gen, TheSlot.gen + 1}
    BY <2>1, <1>same DEF ForgottenSlot, EmptySlot
  <2> QED
    BY <2>2, <1>slot
<1>5. ASSUME NEW o \in Ops, RenewSettled(o) PROVE TheSlot'.gen = TheSlot.gen
  BY <1>5, <1>slot, <1>same, Outcomes DEF MarkedSlot, Slot
<1>6. ASSUME NEW o \in Ops, RenewMarks(o) PROVE TheSlot'.gen = TheSlot.gen
  BY <1>6, <1>slot, Outcomes DEF Slot
<1>7. ASSUME NEW o \in Ops, RenewWrites(o) PROVE TheSlot'.gen = TheSlot.gen
  BY <1>7, <1>slot, RenewalOutcomes DEF RenewedSlot, MarkedSlot, Slot
<1>8. ASSUME \/ \E o \in Ops : Exchange(o) \/ RenewUnsaved(o)
             \/ \E p \in Procs : Crash(p)
      PROVE  TheSlot'.gen = TheSlot.gen
  BY <1>8, <1>same DEF Exchange, RenewUnsaved, Crash
<1> QED
  BY <1>slot, <1>kept, <1>1, <1>2, <1>3, <1>4, <1>5, <1>6, <1>7, <1>8, StepKinds DEF IInv

LEMMA IdentityStep == IInv /\ [Next]_vars => IdentityInv' /\ PinHonoured'
<1> SUFFICES ASSUME IInv, [Next]_vars PROVE IdentityInv' /\ PinHonoured'
  OBVIOUS
<1>informed. \A o \in Ops : Informed(o)
  BY Informs
<1>forward. \A o \in Ops : Forward(o)
  BY Forwards DEF IInv
<1>gen. TheSlot.gen \in Nat /\ TheSlot'.gen \in Nat /\ TheSlot'.gen >= TheSlot.gen
  BY GenerationGrows
<1>since. \A o \in Ops : since[o] \in Nat
  BY DEF IInv, TypeOK
<1>slot. TheSlot \in Slot
  BY SlotViewType DEF TheSlot, TypeOK, IInv
<1>identity. /\ TheSlot.cid # Null => IdentityOf(TheSlot) # Null
             /\ IdentityOf(TheSlot).gen = TheSlot.gen
  BY <1>slot, NullAssumption DEF IdentityOf, Identity, Slot
<1>1. ASSUME NEW o \in Ops
      PROVE  /\ pc'[o] = "recording" => got'[o] # Null
             /\ got'[o] # Null => pc'[o] \in After
  BY <1>informed, <1>forward, <1>identity DEF Informed, Forward, After, IInv, IdentityInv
<1>2. ASSUME NEW o \in Ops PROVE since'[o] <= TheSlot'.gen
  BY <1>informed, <1>gen, <1>since DEF Informed, IInv, IdentityInv
<1>3. ASSUME NEW o \in Ops, pc'[o] \in InExchange, Pin(o)' # Null
      PROVE  IdentityOf(held'[o].slot) = Pin(o)'
  <2>kept. ASSUME pc[o] \in InExchange, held'[o] = held[o]
           PROVE  IdentityOf(held'[o].slot) = Pin(o)'
    BY <1>3, <2>kept, <1>informed DEF Informed, InExchange, IInv, IdentityInv
  <2>out. \A u \in Ops : lock = Null => pc[u] \notin InExchange
    BY ConstantsAssumption DEF IInv, LockInv, InExchange
  <2>1. CASE QuietStep \/ EditStep
    BY <2>1, <1>3, <2>kept DEF QuietStep, EditStep, KeepsOut
  <2>2. ASSUME NEW u \in Ops, Commit(u) \/ Forget(u) \/ RenewSettled(u) PROVE FALSE
    BY <2>2, <2>out, <1>3 DEF Commit, CommitFails, Finish, Goto, Forget, RenewSettled,
       Serve, InExchange, IInv, TypeOK
  <2>3. ASSUME NEW u \in Ops, RenewMarks(u)
        PROVE  IdentityOf(held'[o].slot) = Pin(o)'
    <3>1. /\ o = u /\ pc[u] = "renewing"
          /\ held'[u].slot = [TheSlot EXCEPT !.marker = TRUE]
      BY <2>3, <2>out, <1>3 DEF RenewMarks, Goto, InExchange, IInv, TypeOK
    <3>2. Pin(u)' = Pin(u)
      BY <3>1, <1>informed DEF Informed
    <3>3. IdentityOf([TheSlot EXCEPT !.marker = TRUE]) = IdentityOf(TheSlot)
      BY <1>slot DEF IdentityOf, Slot
    <3> QED
      BY <2>3, <3>1, <3>2, <3>3, <1>3, Outcomes
  <2>4. ASSUME NEW u \in Ops, Exchange(u) PROVE pc[o] \in InExchange /\ held'[o] = held[o]
    BY <2>4, <1>3 DEF Exchange, Goto, InExchange, IInv, TypeOK
  <2>5. ASSUME NEW u \in Ops, RenewWrites(u) \/ RenewUnsaved(u) PROVE FALSE
    BY <2>5, <1>3, ConstantsAssumption DEF RenewWrites, RenewUnsaved, Serve, Goto,
       InExchange, IInv, TypeOK, LockInv
  <2>6. ASSUME NEW p \in Procs, Crash(p) PROVE pc[o] \in InExchange /\ held'[o] = held[o]
    BY <2>6, <1>3 DEF Crash, Live, InExchange, IInv, TypeOK
  <2> QED
    BY <2>kept, <2>1, <2>2, <2>3, <2>4, <2>5, <2>6, StepKinds DEF IInv
<1>4. ASSUME NEW o \in Ops, got'[o] # Null
      PROVE  /\ Pin(o)' # Null => got'[o] = Pin(o)'
             /\ got'[o].gen >= since'[o]
  BY <1>4, <1>informed, <1>identity, <1>since, <1>gen
     DEF Informed, After, IInv, IdentityInv, PinHonoured
<1> QED
  BY <1>1, <1>2, <1>3, <1>4 DEF IdentityInv, PinHonoured, InExchange, After

LEMMA InitInv == Init => IInv
<1> SUFFICES ASSUME Init PROVE IInv
  OBVIOUS
<1>1. TypeOK
  BY InitType
<1>2. /\ lock = Null /\ spent = {} /\ cancelled = {} /\ committed = {}
      /\ \A o \in Ops : pc[o] = "idle" /\ got[o] = Null /\ since[o] = 0
  BY DEF Init
<1>3. TheSlot \in Slot
  BY <1>1, SlotViewType DEF TheSlot, TypeOK
<1>4. /\ TheSlot.attempt = Null /\ TheSlot.cid \in {Null, Initial}
      /\ material # Null => TheSlot.cid = Initial /\ material.gen = TheSlot.gen
  <2>1. SavedSlot.attempt = Null /\ SavedSlot.cid = Initial /\ SavedSlot.gen = 1
    BY DEF SavedSlot, CommittedSlot, EmptySlot
  <2>2. /\ ForgottenSlot(SavedSlot).attempt = Null
        /\ ForgottenSlot(SavedSlot).cid = Null
    BY DEF ForgottenSlot, EmptySlot
  <2>3. LegacySlot(SavedMaterial).attempt = Null
    BY DEF LegacySlot, EmptySlot
  <2>4. LegacySlot(SavedMaterial).cid = Initial /\ LegacySlot(SavedMaterial).gen = 1
    BY DEF LegacySlot, EmptySlot
  <2>5. /\ EmptySlot.attempt = Null /\ EmptySlot.cid = Null
        /\ SavedMaterial.gen = 1
    BY DEF EmptySlot, SavedMaterial
  <2> QED
    BY <2>1, <2>2, <2>3, <2>4, <2>5, SavedDocument
       DEF Init, InitDocument, TheSlot, SlotView
<1>5. Null \notin Ops /\ Initial \notin Ops /\ Null # Initial
  BY NullAssumption, InitialAssumption DEF Ids
<1>6. LockInv /\ SpentInv /\ NoBlindReplay
  <2>1. material # Null => material.token \in {Initial, Null}
    BY SavedDocument DEF Init, InitDocument, SavedMaterial
  <2> QED
    BY <1>2, <1>5, <2>1 DEF LockInv, SpentInv, NoBlindReplay
<1>7. AttemptInv /\ CancelledNeverCommits /\ ReservationCurrent
  BY <1>2, <1>4, <1>5 DEF AttemptInv, CancelledNeverCommits, ReservationCurrent
<1>8. IdentityInv /\ PinHonoured
  BY <1>2, <1>3 DEF IdentityInv, PinHonoured, Slot
<1>9. MaterialMatchesSlot
  BY <1>4, <1>5 DEF MaterialMatchesSlot
<1> QED
  BY <1>1, <1>6, <1>7, <1>8, <1>9 DEF IInv

LEMMA StepInv == IInv /\ [Next]_vars => IInv'
BY TypeStep, LockStep, TokenStep, AttemptStep, IdentityStep, MaterialStep DEF IInv

(***************************************************************************)
(* The inductive invariant holds in every reachable state.                 *)
(***************************************************************************)
THEOREM Invariance == Spec => []IInv
BY InitInv, StepInv, PTL DEF Spec

(* Every variable keeps its type, whatever the calls do and whoever crashes. *)
THEOREM TypeCorrect == Spec => []TypeOK
BY Invariance, PTL DEF IInv

(* A credential is only saved beside the slot it was obtained for. *)
THEOREM MaterialCorrect == Spec => []MaterialMatchesSlot
BY Invariance, PTL DEF IInv

(* A used up refresh token is never sent again. *)
THEOREM ReplayFree == Spec => []NoBlindReplay
BY Invariance, PTL DEF IInv

(* A pinned call is given its own connection's credential or an error. *)
THEOREM PinsCorrect == Spec => []PinHonoured
BY Invariance, PTL DEF IInv

(* A cancelled attempt never saves a connection. *)
THEOREM CancellationCorrect == Spec => []CancelledNeverCommits
BY Invariance, PTL DEF IInv

(* A reservation is of the generation its attempt observed. *)
THEOREM ReservationsCorrect == Spec => []ReservationCurrent
BY Invariance, PTL DEF IInv

(* The slot as the abstract specification sees it: no write is lost on it. *)
LEMMA PhaseFacts ==
  ASSUME IInv
  PROVE  /\ TheSlot \in Slot
         /\ lock # Null => lock \in Ops /\ TheSlot.cid # Null
         /\ lock = Null => SlotPhase # "renewing"
         /\ TheSlot.cid # Null /\ lock = Null =>
              SlotPhase \in {"ready", "rejected", "unknown"}
<1>1. TheSlot \in Slot
  BY SlotViewType DEF TheSlot, TypeOK, IInv
<1>2. lock # Null => /\ lock \in Ops /\ pc[lock] \in InExchange
  BY DEF IInv, TypeOK, LockInv, InExchange
<1> QED
  BY <1>1, <1>2, HolderReads DEF SlotPhase

LEMMA SlotStep ==
  IInv /\ IInv' /\ [Next]_vars => [Slots!Next]_(Slots!vars)
<1> SUFFICES ASSUME IInv, IInv', [Next]_vars
             PROVE  Slots!Next \/ UNCHANGED Slots!vars
  OBVIOUS
<1>slot. TheSlot \in Slot
  BY PhaseFacts
<1>next. /\ TheSlot'.cid # Null /\ lock' = Null =>
              SlotPhase' \in {"ready", "rejected", "unknown"}
  <2>1. SlotPhase' = IF TheSlot'.cid = Null THEN "absent"
                     ELSE IF lock' # Null THEN "renewing"
                     ELSE IF TheSlot'.marker THEN "unknown"
                     ELSE IF TheSlot'.state = "needs_login" THEN "rejected"
                     ELSE "ready"
    BY DEF SlotPhase
  <2> QED
    BY <2>1
<1>same. ASSUME UNCHANGED <<TheSlot, lock>> PROVE UNCHANGED Slots!vars
  BY <1>same DEF SlotPhase, Slots!vars
<1>doc. ASSUME UNCHANGED <<record, material>> PROVE TheSlot' = TheSlot
  BY <1>doc DEF TheSlot
<1>null. Null \notin Ids
  BY NullAssumption
<1>1. CASE QuietStep
  BY <1>1, <1>same, <1>doc DEF QuietStep
<1>2. CASE EditStep
  BY <1>2 DEF EditStep, SameConnection, SlotPhase, Slots!vars
(* A login's commit is a sign-in, with a connection of its own. *)
<1>3. ASSUME NEW o \in Ops, Commit(o) PROVE Slots!Next \/ UNCHANGED Slots!vars
  <2>1. lock = Null /\ lock' = Null /\ pc[o] = "committing"
    BY <1>3 DEF Commit
  <2>2. CASE UNCHANGED <<record, material, committed>>
    BY <2>1, <2>2, <1>same, <1>doc
  <2>3. ASSUME NEW b \in BOOLEAN, TheSlot' = CommittedSlot(TheSlot, o, b)
        PROVE  Slots!Connect
    <3>1. o \in Ids \ {TheSlot.cid}
      BY <2>1 DEF IInv, AttemptInv, Ids
    <3>2. /\ TheSlot'.cid = o /\ TheSlot'.gen = TheSlot.gen + 1
          /\ TheSlot'.state = "ready" /\ TheSlot'.marker = FALSE
      BY <2>3 DEF CommittedSlot, EmptySlot
    <3>3. SlotPhase' = "ready"
      BY <2>1, <3>1, <3>2, <1>null DEF SlotPhase
    <3> QED
      BY <2>1, <3>1, <3>2, <3>3, PhaseFacts DEF Slots!Connect
  <2> QED
    BY <1>3, <2>2, <2>3, Outcomes DEF Slots!Next
<1>4. ASSUME NEW o \in Ops, Forget(o) PROVE Slots!Next \/ UNCHANGED Slots!vars
  <2>1. lock = Null /\ lock' = Null
    BY <1>4 DEF Forget
  <2>2. CASE UNCHANGED <<record, material, cancelled>>
    BY <2>1, <2>2, <1>same, <1>doc
  <2>3. CASE TheSlot' = ForgottenSlot(TheSlot)
    <3>1. TheSlot'.cid = Null /\ TheSlot'.gen = TheSlot.gen + 1
      BY <2>3 DEF ForgottenSlot, EmptySlot
    <3>2. SlotPhase' = "absent"
      BY <3>1 DEF SlotPhase
    <3> QED
      BY <2>1, <3>1, <3>2, PhaseFacts DEF Slots!SignOut, Slots!Next
  <2> QED
    BY <1>4, <2>2, <2>3, Outcomes
(* An expired credential that nothing renews is given up. *)
<1>5. ASSUME NEW o \in Ops, RenewSettled(o) PROVE Slots!Next \/ UNCHANGED Slots!vars
  <2>1. lock = Null /\ lock' = Null
    BY <1>5 DEF RenewSettled
  <2>2. CASE UNCHANGED <<record, material>>
    BY <2>1, <2>2, <1>same, <1>doc
  <2>3. CASE /\ TheSlot.cid # Null /\ TheSlot.state = "ready" /\ ~TheSlot.marker
             /\ TheSlot' = MarkedSlot(TheSlot, "needs_login", FALSE)
    <3>1. /\ TheSlot'.cid = TheSlot.cid /\ TheSlot'.gen = TheSlot.gen
          /\ TheSlot'.state = "needs_login" /\ TheSlot'.marker = FALSE
      BY <2>3, <1>slot DEF MarkedSlot, Slot
    <3>2. SlotPhase = "ready"
      BY <2>1, <2>3 DEF SlotPhase
    <3>3. SlotPhase' = "rejected"
      BY <2>1, <2>3, <3>1 DEF SlotPhase
    <3> QED
      BY <3>1, <3>2, <3>3 DEF Slots!Expire, Slots!Next
  <2> QED
    BY <1>5, <2>2, <2>3, Outcomes
<1>6. ASSUME NEW o \in Ops, RenewMarks(o) PROVE Slots!Next
  <2>1. /\ TheSlot.cid # Null /\ TheSlot.state = "ready" /\ ~TheSlot.marker
        /\ TheSlot' = [TheSlot EXCEPT !.marker = TRUE]
    BY <1>6, Outcomes
  <2>2. TheSlot'.cid = TheSlot.cid /\ TheSlot'.gen = TheSlot.gen
    BY <2>1, <1>slot DEF Slot
  <2>3. lock = Null /\ lock' # Null
    BY <1>6, ConstantsAssumption DEF RenewMarks
  <2>4. SlotPhase = "ready" /\ SlotPhase' = "renewing"
    BY <2>1, <2>2, <2>3 DEF SlotPhase
  <2> QED
    BY <2>2, <2>4 DEF Slots!BeginRenewal, Slots!Next
<1>7. ASSUME NEW o \in Ops, Exchange(o) PROVE UNCHANGED Slots!vars
  BY <1>7, <1>same, <1>doc DEF Exchange
(* A renewal ends with a write, without one, or with its process. *)
<1>ends. ASSUME lock # Null, lock' = Null, TheSlot'.gen = TheSlot.gen,
                TheSlot'.cid = TheSlot.cid
         PROVE  Slots!Next
  <2>1. TheSlot.cid # Null
    BY <1>ends, PhaseFacts
  <2>2. SlotPhase = "renewing"
    BY <1>ends, <2>1 DEF SlotPhase
  <2>3. SlotPhase' \in {"ready", "rejected", "unknown"}
    BY <1>ends, <2>1, <1>next
  <2> QED
    BY <1>ends, <2>2, <2>3 DEF Slots!EndRenewal, Slots!Next
<1>8. ASSUME NEW o \in Ops, RenewWrites(o) PROVE Slots!Next
  <2>1. lock # Null /\ lock' = Null
    BY <1>8, HolderReads DEF RenewWrites, InExchange
  <2>2. \/ TheSlot' = RenewedSlot(TheSlot)
        \/ \E s \in States, b \in BOOLEAN : TheSlot' = MarkedSlot(TheSlot, s, b)
    BY <1>8, RenewalOutcomes DEF States
  <2>3. TheSlot'.gen = TheSlot.gen /\ TheSlot'.cid = TheSlot.cid
    BY <2>2, <1>slot DEF MarkedSlot, RenewedSlot, Slot
  <2> QED
    BY <2>1, <2>3, <1>ends
<1>9. ASSUME NEW o \in Ops, RenewUnsaved(o) PROVE Slots!Next
  <2>1. lock # Null /\ lock' = Null
    BY <1>9, HolderReads DEF RenewUnsaved, InExchange
  <2> QED
    BY <1>9, <2>1, <1>doc, <1>ends DEF RenewUnsaved
<1>10. ASSUME NEW p \in Procs, Crash(p) PROVE Slots!Next \/ UNCHANGED Slots!vars
  <2>1. TheSlot' = TheSlot /\ lock' \in {lock, Null}
    BY <1>10, <1>doc DEF Crash, LockAfterCrash
  <2> QED
    BY <2>1, <1>ends, <1>same
<1> QED
  BY <1>1, <1>2, <1>3, <1>4, <1>5, <1>6, <1>7, <1>8, <1>9, <1>10, StepKinds DEF IInv

(***************************************************************************)
(* The store's document behaves as one connection slot: whatever runs over *)
(* it, each step is a sign-in, a sign-out, the beginning or the end of a   *)
(* renewal, an expiry, or invisible.                                       *)
(***************************************************************************)
THEOREM SlotRefinement == Spec => ImplementsConnectionSlot
<1>1. Init => Slots!Init
  <2> SUFFICES ASSUME Init PROVE Slots!Init
    OBVIOUS
  <2>1. IInv /\ lock = Null
    BY InitInv DEF Init
  <2>2. TheSlot.gen \in Nat
    BY <2>1, PhaseFacts DEF Slot
  <2>3. /\ TheSlot.cid \in {Null, Initial}
        /\ TheSlot.state = "ready" /\ ~TheSlot.marker
    BY SavedDocument DEF Init, InitDocument, TheSlot, SlotView, SavedSlot, ForgottenSlot,
       CommittedSlot, LegacySlot, EmptySlot
  <2> QED
    BY <2>1, <2>2, <2>3, NullAssumption DEF SlotPhase, Slots!Init, Ids
<1>2. IInv /\ IInv' /\ [Next]_vars => [Slots!Next]_(Slots!vars)
  BY SlotStep
<1> QED
  BY <1>1, <1>2, Invariance, PTL DEF Spec, ImplementsConnectionSlot, Slots!Spec

(***************************************************************************)
(* If the flow tells a rate limit from a denial, an answer that cannot     *)
(* have used the refresh token up never costs the saved credential.        *)
(***************************************************************************)
THEOREM SafeRepliesCorrect ==
  ASSUME RateLimitAware = TRUE PROVE Spec => SafeRepliesKeep
<1>1. ASSUME IInv, [Next]_vars, NEW o \in Ops PROVE KeepsCredential(o)
  <2> SUFFICES ASSUME pc[o] = "answered", pc'[o] = "done", reply[o] \in SafeReplies,
                      lock' = Null
               PROVE  material' = material
    BY DEF KeepsCredential
  <2>1. lock = o /\ lock # Null /\ held[o].material = material
    BY <1>1, HolderReads DEF InExchange
  <2>2. Verdict(reply[o]) = "safe"
    BY DEF Verdict, SafeReplies
  <2>3. ASSUME NEW u \in Ops, RenewWrites(u) PROVE material' = material
    <3>1. u = o
      BY <1>1, <2>1, <2>3, HolderReads DEF RenewWrites, InExchange
    <3> QED
      BY <2>1, <2>2, <2>3, <3>1 DEF RenewWrites
  <2>4. ASSUME NEW u \in Ops, Commit(u) \/ Forget(u) \/ RenewSettled(u) \/ RenewMarks(u)
        PROVE  FALSE
    BY <2>1, <2>4 DEF Commit, Forget, RenewSettled, RenewMarks
  <2> QED
    BY <1>1, <2>3, <2>4, StepKinds
       DEF IInv, QuietStep, EditStep, Exchange, RenewUnsaved, Crash
<1>2. IInv /\ [Next]_vars => [\A o \in Ops : KeepsCredential(o)]_vars
  BY <1>1
<1> QED
  BY <1>2, Invariance, PTL DEF Spec, SafeRepliesKeep

(***************************************************************************)
(* Within a generation the revision never goes back, and the credential is *)
(* only ever replaced by a renewal that raises it.                         *)
(***************************************************************************)
THEOREM RevisionsCorrect == Spec => RevisionFollowsCredential
<1> DEFINE Follows ==
      TheSlot'.gen = TheSlot.gen =>
        /\ TheSlot'.rev >= TheSlot.rev
        /\ material' \notin {material, Null} => TheSlot'.rev > TheSlot.rev
<1>1. ASSUME IInv, [Next]_vars PROVE Follows
  <2>slot. TheSlot \in Slot /\ TheSlot.gen \in Nat /\ TheSlot.rev \in Nat
    BY <1>1, PhaseFacts DEF Slot
  <2>doc. ASSUME UNCHANGED <<record, material>> PROVE Follows
    BY <2>doc, <2>slot DEF TheSlot
  <2>kept. ASSUME TheSlot'.rev = TheSlot.rev, material' \in {material, Null}
           PROVE  Follows
    BY <2>kept, <2>slot
  <2>1. CASE QuietStep
    BY <2>1, <2>doc DEF QuietStep
  <2>2. CASE EditStep
    BY <2>2, <2>kept DEF EditStep, SameConnection
  <2>3. ASSUME NEW o \in Ops, Commit(o) PROVE Follows
    <3>1. ASSUME NEW b \in BOOLEAN, TheSlot' = CommittedSlot(TheSlot, o, b) PROVE Follows
      BY <3>1, <2>slot DEF CommittedSlot, EmptySlot
    <3> QED
      BY <1>1, <2>3, <2>doc, <3>1, Outcomes
  <2>4. ASSUME NEW o \in Ops, Forget(o) PROVE Follows
    <3>1. ASSUME TheSlot' = ForgottenSlot(TheSlot) PROVE Follows
      BY <3>1, <2>slot DEF ForgottenSlot, EmptySlot
    <3> QED
      BY <1>1, <2>4, <2>doc, <3>1, Outcomes
  <2>5. ASSUME NEW o \in Ops, RenewSettled(o) PROVE Follows
    <3>1. ASSUME TheSlot' = MarkedSlot(TheSlot, "needs_login", FALSE), material' = Null
          PROVE  Follows
      BY <3>1, <2>slot, <2>kept DEF MarkedSlot, Slot
    <3> QED
      BY <1>1, <2>5, <2>doc, <3>1, Outcomes
  <2>6. ASSUME NEW o \in Ops, RenewMarks(o) PROVE Follows
    <3>1. TheSlot' = [TheSlot EXCEPT !.marker = TRUE] /\ material' = material
      BY <1>1, <2>6, Outcomes DEF RenewMarks
    <3> QED
      BY <3>1, <2>slot, <2>kept DEF Slot
  <2>7. ASSUME NEW o \in Ops, RenewWrites(o) PROVE Follows
    <3>1. CASE TheSlot' = RenewedSlot(TheSlot)
      BY <3>1, <2>slot DEF RenewedSlot, Slot
    <3>2. ASSUME NEW s \in States, NEW b \in BOOLEAN, TheSlot' = MarkedSlot(TheSlot, s, b),
                 material' \in {material, Null}
          PROVE  Follows
      BY <3>2, <2>slot, <2>kept DEF MarkedSlot, Slot
    <3> QED
      BY <1>1, <2>7, <3>1, <3>2, RenewalOutcomes DEF States
  <2>8. ASSUME \/ \E o \in Ops : Exchange(o) \/ RenewUnsaved(o)
               \/ \E p \in Procs : Crash(p)
        PROVE  Follows
    BY <2>8, <2>doc DEF Exchange, RenewUnsaved, Crash
  <2> QED
    BY <1>1, <2>1, <2>2, <2>3, <2>4, <2>5, <2>6, <2>7, <2>8, StepKinds DEF IInv
<1>2. IInv /\ [Next]_vars => [Follows]_vars
  BY <1>1
<1> QED
  BY <1>2, Invariance, PTL DEF Spec, RevisionFollowsCredential

-----------------------------------------------------------------------------
(* Who owns a reservation *)

(* An attempt that still has its release before it, or died before it. *)
Owning == {"running", "committing", "releasing", "dead"}

OwnerInv == \A o \in Ops : TheSlot.attempt = o => pc[o] \in Owning

(* Only a reservation names an attempt: all else keeps it or drops it. *)
LEMMA AttemptMoves ==
  ASSUME IInv, [Next]_vars
  PROVE  \/ TheSlot'.attempt \in {TheSlot.attempt, Null}
         \/ \E u \in Ops : pc'[u] = "running" /\ TheSlot'.attempt = u
<1> DEFINE Goal == \/ TheSlot'.attempt \in {TheSlot.attempt, Null}
                   \/ \E u \in Ops : pc'[u] = "running" /\ TheSlot'.attempt = u
<1> SUFFICES Goal
  OBVIOUS
<1>slot. TheSlot \in Slot
  BY SlotViewType DEF TheSlot, TypeOK, IInv
<1>same. ASSUME UNCHANGED <<record, material>> PROVE Goal
  BY <1>same DEF TheSlot
<1>1. CASE QuietStep
  BY <1>1, <1>same DEF QuietStep
<1>2. CASE EditStep
  BY <1>2 DEF EditStep, AttemptEdit
<1>3. ASSUME NEW o \in Ops, Commit(o) \/ Forget(o) PROVE Goal
  <2>1. \/ UNCHANGED <<record, material>>
        \/ \E b \in BOOLEAN : TheSlot' = CommittedSlot(TheSlot, o, b)
        \/ TheSlot' = ForgottenSlot(TheSlot)
    BY <1>3, Outcomes
  <2> QED
    BY <2>1, <1>same DEF CommittedSlot, ForgottenSlot, EmptySlot
<1>4. ASSUME NEW o \in Ops, RenewSettled(o) \/ RenewMarks(o) \/ RenewWrites(o) PROVE Goal
  <2>1. \/ UNCHANGED <<record, material>>
        \/ TheSlot' = [TheSlot EXCEPT !.marker = TRUE]
        \/ TheSlot' = RenewedSlot(TheSlot)
        \/ \E s \in States, b \in BOOLEAN : TheSlot' = MarkedSlot(TheSlot, s, b)
    BY <1>4, Outcomes, RenewalOutcomes DEF States
  <2> QED
    BY <2>1, <1>same, <1>slot DEF MarkedSlot, RenewedSlot, Slot
<1>5. ASSUME NEW o \in Ops, Exchange(o) \/ RenewUnsaved(o) PROVE Goal
  BY <1>5, <1>same DEF Exchange, RenewUnsaved
<1>6. ASSUME NEW p \in Procs, Crash(p) PROVE Goal
  BY <1>6, <1>same DEF Crash
<1> QED
  BY <1>1, <1>2, <1>3, <1>4, <1>5, <1>6, StepKinds DEF IInv

(* Its owner gives a reservation up before it ends, unless it dies. *)
LEMMA OwnerGoesOn ==
  ASSUME IInv, [Next]_vars, "store failure" \notin Disturbances,
         NEW o \in Ops, TheSlot.attempt = o, TheSlot'.attempt = o, pc[o] \in Owning
  PROVE  pc'[o] \in Owning
<1>type. pc \in [Ops -> Labels] /\ TheSlot \in Slot /\ o # Null
  BY SlotViewType, NullAssumption DEF TheSlot, IInv, TypeOK, Ids
<1> USE DEF Owning, Goto
<1>1. ASSUME NEW u \in Ops, NEW p \in Procs, Start(u, p) PROVE pc'[o] \in Owning
  BY <1>1, <1>type DEF Start, Login, Configure, CancelLogin, Logout, RequestAuth, Verify, Call
<1>2. CASE MethodSucceeds(o) \/ MethodFails(o)
  BY <1>2, <1>type DEF MethodSucceeds, MethodFails
<1>3. ~Commit(o)
  <2>1. TheSlot.gen = expected[o] /\ o \notin committed
    BY <1>type DEF IInv, ReservationCurrent
  <2>2. Commit(o) => ~CommitRefused(o)
    BY <2>1 DEF CommitRefused
  <2>3. \A b : CommittedSlot(TheSlot, o, b).attempt = Null
    BY DEF CommittedSlot, EmptySlot
  <2>4. Commit(o) => committed' # committed
    BY <2>1, <2>2 DEF Commit
  <2> QED
    BY <1>type, <2>3, <2>4, Outcomes
<1>4. ~Release(o)
  <2>1. Release(o) => TheSlot' = ReservedSlot(TheSlot, Null)
    BY <1>type, WrittenSlots, Written DEF Release, Ids
  <2>2. ReservedSlot(TheSlot, Null).attempt = Null
    BY <1>type DEF ReservedSlot, Slot
  <2> QED
    BY <1>type, <2>1, <2>2
<1>5. ASSUME NEW u \in Ops \ {o}, Progress(u) PROVE pc'[o] = pc[o]
  BY <1>5, <1>type DEF Progress, Reserve, MethodSucceeds, MethodFails, Commit, CommitFails,
     Release, Finish, CancelAttempt, ResolveTarget, Forget, ForgetUnsaved, ReadSelection,
     RenewSettled, Serve, RenewMarks, Exchange, RenewWrites, RenewUnsaved,
     RecordVerification, VerifyFails, StoreFails
<1>6. CASE Progress(o)
  BY <1>2, <1>3, <1>4, <1>6 DEF Progress, Reserve, CancelAttempt, ResolveTarget, Forget,
     ForgetUnsaved, ReadSelection, RenewSettled, RenewMarks, Exchange, RenewWrites,
     RenewUnsaved, RecordVerification, VerifyFails, StoreFails
<1>7. CASE \/ \E u \in Ops : AbortSignal(u)
           \/ \E p \in Procs : Close(p)
           \/ Age \/ Lapse \/ UNCHANGED vars
  BY <1>7 DEF AbortSignal, Close, Age, Lapse
<1>8. ASSUME NEW p \in Procs, Crash(p) PROVE pc'[o] \in Owning
  BY <1>8, <1>type DEF Crash
<1> QED
  BY <1>1, <1>5, <1>6, <1>7, <1>8 DEF Next, Ended

(* While the store works, a recorded reservation is of a running attempt   *)
(* or of one whose process died: "any exit without a saved connection ends *)
(* the attempt, so its reservation must not outlive it" (manager.ts:543).   *)
THEOREM ReservationsAreOwned ==
  ASSUME "store failure" \notin Disturbances
  PROVE  Spec => []ReservationHasOwner
<1>1. Init => OwnerInv
  BY NullAssumption DEF Init, InitDocument, OwnerInv, TheSlot, SlotView, SavedSlot,
     ForgottenSlot, CommittedSlot, LegacySlot, EmptySlot, Ids
<1>2. IInv /\ OwnerInv /\ [Next]_vars => OwnerInv'
  <2> SUFFICES ASSUME IInv, OwnerInv, [Next]_vars, NEW o \in Ops, TheSlot'.attempt = o
               PROVE  pc'[o] \in Owning
    BY DEF OwnerInv
  <2>1. TheSlot.attempt = o \/ pc'[o] = "running"
    BY AttemptMoves, NullAssumption DEF Ids
  <2> QED
    BY <2>1, OwnerGoesOn DEF OwnerInv, Owning
<1>3. OwnerInv => ReservationHasOwner
  BY DEF OwnerInv, Owning, ReservationHasOwner, Live
<1> QED
  BY <1>1, <1>2, <1>3, Invariance, PTL DEF Spec
=============================================================================
