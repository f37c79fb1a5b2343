-------------------------- MODULE TransportProofs --------------------------
(***************************************************************************)
(* Proofs about Transport, for any requests, origins and capacities.       *)
(*                                                                         *)
(* The invariant has two halves: admission (the permits, the queue and the *)
(* tickets) and the sockets.  Each action of Transport is, for admission,  *)
(* one of six steps.                                                       *)
(***************************************************************************)
EXTENDS Transport, FiniteSetTheorems, TLAPS

USE RequestsAssumption, MaximaAssumption

Holding == Body \cup {"granted", "dialing", "awaiting"}

(* The queue holds those that wait, by the tickets they took. *)
QueueInv ==
  /\ \A i \in 1..Len(queue) : pc[queue[i]] = "queued"
  /\ \A i, j \in 1..Len(queue) : i < j => ticket[queue[i]] < ticket[queue[j]]
  /\ \A r \in Requests : pc[r] = "queued" => \E i \in 1..Len(queue) : queue[i] = r

(* Tickets are taken in turn, as a request is sent. *)
TicketInv ==
  \A r \in Requests : /\ ticket[r] <= Cardinality(Asked)
                      /\ pc[r] = "idle" => ticket[r] = 0 /\ permit[r] = "none"

AdmissionType ==
  /\ maximum \in Nat \ {0}
  /\ active \in 0..maximum
  /\ queue \in Seq(Requests)
  /\ pc \in [Requests -> Labels]
  /\ permit \in [Requests -> {"none", "held", "released"}]
  /\ ticket \in [Requests -> Nat]

AdmissionInv ==
  /\ AdmissionType
  /\ PermitsCounted
  /\ NoWaiterWhileFree
  /\ NoOvertaking
  /\ QueueInv
  /\ TicketInv

-----------------------------------------------------------------------------
(* Admission, step by step. *)

(* A holder of a permit goes on. *)
Moves(r) ==
  /\ pc[r] \in Holding
  /\ \E l \in Holding : pc' = [pc EXCEPT ![r] = l]
  /\ UNCHANGED <<slots, ticket>>

(* Waiters and holders are let go at once, and nobody waits any more. *)
LetGo(cleaned) ==
  /\ \A r \in cleaned : pc[r] \in Holding
  /\ active' = active - Cardinality(cleaned)
  /\ permit' = [r \in Requests |-> IF r \in cleaned THEN "released" ELSE permit[r]]
  /\ pc' = [r \in Requests |->
              IF r \in cleaned \/ pc[r] = "queued" THEN "over" ELSE pc[r]]
  /\ queue' = <<>>
  /\ UNCHANGED ticket

LEMMA FiniteHolders ==
  /\ IsFiniteSet(Holders) /\ Cardinality(Holders) \in Nat
  /\ IsFiniteSet(Asked) /\ Cardinality(Asked) \in Nat
BY FS_Subset, FS_CardinalityType DEF Holders, Asked

LEMMA MovesKeeps ==
  ASSUME AdmissionInv, UNCHANGED maximum, NEW r \in Requests, Moves(r)
  PROVE  AdmissionInv'
<1> USE DEF AdmissionInv
<1>1. PICK l \in Holding : pc' = [pc EXCEPT ![r] = l]
  BY DEF Moves
<1>2. AdmissionType'
  BY <1>1 DEF AdmissionType, Moves, slots, Holding, Body, Labels
<1>3. Holders' = Holders /\ Asked' = Asked
  BY DEF Moves, slots, Holders, Asked
<1>4. PermitsCounted'
  BY <1>1, <1>3 DEF PermitsCounted, AdmissionType, Moves, slots, Holding
<1>5. NoWaiterWhileFree'
  BY DEF NoWaiterWhileFree, Moves, slots
<1>6. \A q \in Requests : (pc'[q] = "queued" <=> pc[q] = "queued")
                        /\ (pc'[q] = "idle" => pc[q] = "idle")
  BY <1>1 DEF Moves, Holding, Body, AdmissionType
<1>7. NoOvertaking'
  BY <1>6 DEF NoOvertaking, Moves, slots
<1>8. QueueInv'
  <2>1. \A i \in 1..Len(queue) : queue[i] \in Requests
    BY DEF AdmissionType
  <2> QED
    BY <1>6, <2>1 DEF QueueInv, Moves, slots
<1>9. TicketInv'
  BY <1>3, <1>6 DEF TicketInv, Moves, slots
<1> QED
  BY <1>2, <1>4, <1>5, <1>7, <1>8, <1>9

LEMMA RefuseKeeps ==
  ASSUME AdmissionInv, UNCHANGED maximum, NEW r \in Requests,
         pc[r] = "idle", pc' = [pc EXCEPT ![r] = "over"], UNCHANGED <<slots, ticket>>
  PROVE  AdmissionInv'
<1> USE DEF AdmissionInv
<1>2. AdmissionType'
  BY DEF AdmissionType, slots, Labels
<1>3. Holders' = Holders /\ Asked' = Asked
  BY DEF slots, Holders, Asked
<1>4. PermitsCounted'
  BY <1>3 DEF PermitsCounted, AdmissionType, slots, Body
<1>5. NoWaiterWhileFree'
  BY DEF NoWaiterWhileFree, slots
<1>6. \A q \in Requests : (pc'[q] = "queued" <=> pc[q] = "queued")
                        /\ (pc'[q] = "idle" => pc[q] = "idle")
  BY DEF AdmissionType
<1>7. NoOvertaking'
  BY <1>6 DEF NoOvertaking, slots
<1>8. QueueInv'
  <2>1. \A i \in 1..Len(queue) : queue[i] \in Requests
    BY DEF AdmissionType
  <2> QED
    BY <1>6, <2>1 DEF QueueInv, slots
<1>9. TicketInv'
  BY <1>3, <1>6 DEF TicketInv, slots
<1> QED
  BY <1>2, <1>4, <1>5, <1>7, <1>8, <1>9

LEMMA AcquireKeeps ==
  ASSUME AdmissionInv, UNCHANGED maximum, NEW r \in Requests,
         pc[r] = "idle", Acquire(r)
  PROVE  AdmissionInv'
<1> USE DEF AdmissionInv
<1>1. ticket[r] = 0 /\ permit[r] = "none"
  BY DEF TicketInv
<1>2. /\ Asked' = Asked \cup {r} /\ r \notin Asked
      /\ ticket' = [ticket EXCEPT ![r] = Cardinality(Asked) + 1]
  <2> DEFINE n == Cardinality(Asked) + 1
  <2>1. ticket' = [ticket EXCEPT ![r] = n]
    BY DEF Acquire
  <2>2. n # 0
    BY FiniteHolders
  <2> HIDE DEF n
  <2>3. \A q \in Requests : ticket'[q] = IF q = r THEN n ELSE ticket[q]
    BY <2>1 DEF AdmissionType
  <2>4. Asked' = Asked \cup {r} /\ r \notin Asked
    BY <2>2, <2>3, <1>1 DEF Asked
  <2> QED
    BY <2>1, <2>4 DEF n
<1>3. Cardinality(Asked') = Cardinality(Asked) + 1
  BY <1>2, FiniteHolders, FS_AddElement
<1>4. \A q \in Requests \ {r} : ticket'[q] = ticket[q] /\ ticket[q] < ticket'[r]
  BY <1>2, FiniteHolders DEF TicketInv, AdmissionType
<1>5. \A i \in 1..Len(queue) : queue[i] \in Requests \ {r}
  BY DEF AdmissionType, QueueInv
<1>6. CASE Admits
  <2>1. /\ active' = active + 1 /\ UNCHANGED queue
        /\ permit' = [permit EXCEPT ![r] = "held"]
        /\ pc' = [pc EXCEPT ![r] = "granted"]
    BY <1>6 DEF Acquire
  <2>2. queue = <<>> /\ \A q \in Requests : pc[q] # "queued"
    BY <1>6 DEF NoWaiterWhileFree, Admits, AdmissionType, QueueInv
  <2>3. Holders' = Holders \cup {r} /\ r \notin Holders
    BY <2>1, <1>1 DEF Holders, AdmissionType
  <2>4. Cardinality(Holders') = Cardinality(Holders) + 1
    BY <2>3, FiniteHolders, FS_AddElement
  <2>5. AdmissionType'
    BY <2>1, <1>2, <1>6, FiniteHolders DEF AdmissionType, Labels, Admits
  <2>6. PermitsCounted'
    BY <2>1, <2>4, <1>1 DEF PermitsCounted, AdmissionType, Body
  <2>7. \A q \in Requests : pc'[q] # "queued"
    BY <2>1, <2>2 DEF AdmissionType
  <2>8. NoWaiterWhileFree' /\ NoOvertaking' /\ QueueInv'
    BY <2>1, <2>2, <2>7 DEF NoWaiterWhileFree, NoOvertaking, QueueInv
  <2>9. TicketInv'
    BY <2>1, <1>2, <1>3, <1>4, FiniteHolders DEF TicketInv, AdmissionType
  <2> QED
    BY <2>5, <2>6, <2>8, <2>9
<1>7. CASE ~Admits
  <2>1. /\ queue' = Append(queue, r) /\ UNCHANGED <<active, permit>>
        /\ pc' = [pc EXCEPT ![r] = "queued"]
    BY <1>7 DEF Acquire, Enqueued
  <2>2. /\ Len(queue') = Len(queue) + 1 /\ queue' \in Seq(Requests)
        /\ queue'[Len(queue) + 1] = r
        /\ \A i \in 1..Len(queue) : queue'[i] = queue[i]
        /\ Len(queue) \in Nat
    BY <2>1 DEF AdmissionType
  <2>3. AdmissionType'
    BY <2>1, <2>2, <1>2, FiniteHolders DEF AdmissionType, Labels
  <2>4. Holders' = Holders
    BY <2>1 DEF Holders
  <2>5. PermitsCounted'
    BY <2>1, <2>4, <1>1 DEF PermitsCounted, AdmissionType, Body
  <2>6. NoWaiterWhileFree'
    BY <2>1, <1>7 DEF NoWaiterWhileFree, Admits, AdmissionType
  <2>7. \A q \in Requests \ {r} : pc'[q] = pc[q]
    BY <2>1 DEF AdmissionType
  <2>8. pc'[r] = "queued"
    BY <2>1 DEF AdmissionType
  <2>9. NoOvertaking'
    <3> SUFFICES ASSUME NEW p \in Requests, NEW q \in Requests,
                        pc'[q] = "queued", permit'[p] # "none"
                 PROVE  ticket'[p] < ticket'[q]
      BY DEF NoOvertaking
    <3>1. permit[r] = "none"
      BY <1>1
    <3> QED
      BY <3>1, <2>1, <2>7, <1>4 DEF NoOvertaking
  <2>10. QueueInv'
    <3>1. \A i \in 1..Len(queue') : i \in 1..Len(queue) \/ i = Len(queue) + 1
      BY <2>2
    <3>2. \A i \in 1..Len(queue') : pc'[queue'[i]] = "queued"
      BY <3>1, <2>2, <2>7, <2>8, <1>5 DEF QueueInv
    <3>3. \A i, j \in 1..Len(queue') : i < j => ticket'[queue'[i]] < ticket'[queue'[j]]
      <4> SUFFICES ASSUME NEW i \in 1..Len(queue'), NEW j \in 1..Len(queue'), i < j
                   PROVE  ticket'[queue'[i]] < ticket'[queue'[j]]
        OBVIOUS
      <4>1. i \in 1..Len(queue)
        BY <2>2
      <4>2. CASE j \in 1..Len(queue)
        BY <4>1, <4>2, <2>2, <1>4, <1>5 DEF QueueInv
      <4>3. CASE j = Len(queue) + 1
        BY <4>1, <4>3, <2>2, <1>4, <1>5
      <4> QED
        BY <3>1, <4>2, <4>3
    <3>4. \A q \in Requests : pc'[q] = "queued" => \E i \in 1..Len(queue') : queue'[i] = q
      <4> SUFFICES ASSUME NEW q \in Requests, pc'[q] = "queued"
                   PROVE  \E i \in 1..Len(queue') : queue'[i] = q
        OBVIOUS
      <4>1. CASE q = r
        BY <4>1, <2>2
      <4>2. CASE q # r
        <5>1. PICK i \in 1..Len(queue) : queue[i] = q
          BY <4>2, <2>7 DEF QueueInv
        <5> QED
          BY <5>1, <2>2
      <4> QED
        BY <4>1, <4>2
    <3> QED
      BY <3>2, <3>3, <3>4 DEF QueueInv
  <2>11. TicketInv'
    BY <2>1, <2>7, <2>8, <1>2, <1>3, <1>4, FiniteHolders DEF TicketInv, AdmissionType
  <2> QED
    BY <2>3, <2>5, <2>6, <2>9, <2>10, <2>11
<1> QED
  BY <1>6, <1>7

(* A waiter leaves the queue from wherever it stands. *)
LEMMA FailWaiterKeeps ==
  ASSUME AdmissionInv, UNCHANGED <<maximum, ticket>>, NEW r \in Requests,
         pc[r] = "queued", FailWaiter(r)
  PROVE  AdmissionInv'
<1> USE DEF AdmissionInv
<1> DEFINE k == Place(r)
           Old(i) == IF i < k THEN i ELSE i + 1
<1>1. k \in 1..Len(queue) /\ queue[k] = r
  BY DEF QueueInv, Place
<1> HIDE DEF k
<1>2. Len(queue) \in Nat \ {0} /\ k \in Nat
  BY <1>1 DEF AdmissionType
<1>3. queue' = [i \in 1..(Len(queue) - 1) |-> IF i < k THEN queue[i] ELSE queue[i + 1]]
  BY DEF FailWaiter, k
<1>4. \A i \in 1..(Len(queue) - 1) :
        /\ Old(i) \in 1..Len(queue) /\ Old(i) # k
        /\ queue'[i] = queue[Old(i)]
  BY <1>1, <1>2, <1>3
<1>5. queue' \in Seq(Requests) /\ Len(queue') = Len(queue) - 1
  <2>1. \A i \in 1..(Len(queue) - 1) : queue'[i] \in Requests
    BY <1>4 DEF AdmissionType
  <2>2. Len(queue) - 1 \in Nat
    BY <1>2
  <2> QED
    BY <1>3, <2>1, <2>2
<1>6. \A i \in 1..Len(queue) : i # k => queue[i] # r
  <2> SUFFICES ASSUME NEW i \in 1..Len(queue), i # k, queue[i] = r PROVE FALSE
    OBVIOUS
  <2>1. i < k \/ k < i
    BY <1>2
  <2> QED
    BY <2>1, <1>1 DEF QueueInv, AdmissionType
<1>7. /\ \A q \in Requests \ {r} : pc'[q] = pc[q]
      /\ pc'[r] = "over" /\ UNCHANGED <<active, permit>>
  BY DEF FailWaiter, AdmissionType
<1>8. Holders' = Holders /\ Asked' = Asked
  BY <1>7 DEF Holders, Asked
<1>9. AdmissionType'
  BY <1>5, <1>7 DEF AdmissionType, FailWaiter, Labels
<1>10. PermitsCounted'
  BY <1>7, <1>8 DEF PermitsCounted, Body
<1>11. NoWaiterWhileFree'
  BY <1>1, <1>2, <1>7 DEF NoWaiterWhileFree
<1>12. NoOvertaking'
  BY <1>7 DEF NoOvertaking
<1>13. QueueInv'
  <2>1. \A i \in 1..Len(queue') : pc'[queue'[i]] = "queued"
    <3> SUFFICES ASSUME NEW i \in 1..Len(queue') PROVE pc'[queue'[i]] = "queued"
      OBVIOUS
    <3>1. Old(i) \in 1..Len(queue) /\ Old(i) # k /\ queue'[i] = queue[Old(i)]
      BY <1>4, <1>5
    <3> HIDE DEF Old
    <3>2. queue[Old(i)] \in Requests \ {r}
      BY <3>1, <1>6 DEF AdmissionType
    <3> QED
      BY <3>1, <3>2, <1>7 DEF QueueInv
  <2>2. \A i, j \in 1..Len(queue') : i < j => ticket'[queue'[i]] < ticket'[queue'[j]]
    <3> SUFFICES ASSUME NEW i \in 1..Len(queue'), NEW j \in 1..Len(queue'), i < j
                 PROVE  ticket'[queue'[i]] < ticket'[queue'[j]]
      OBVIOUS
    <3>1. Old(i) < Old(j)
      BY <1>2
    <3> QED
      BY <3>1, <1>4, <1>5 DEF QueueInv
  <2>3. \A q \in Requests : pc'[q] = "queued" => \E i \in 1..Len(queue') : queue'[i] = q
    <3> SUFFICES ASSUME NEW q \in Requests, pc'[q] = "queued"
                 PROVE  \E i \in 1..Len(queue') : queue'[i] = q
      OBVIOUS
    <3>1. q # r
      BY <1>7
    <3>2. PICK j \in 1..Len(queue) : queue[j] = q
      BY <3>1, <1>7 DEF QueueInv
    <3>3. j # k
      BY <3>1, <3>2, <1>1
    <3>4. CASE j < k
      <4>1. j \in 1..(Len(queue) - 1)
        BY <3>4, <1>1, <1>2
      <4>2. queue'[j] = q /\ j \in 1..Len(queue')
        BY <4>1, <3>2, <3>4, <1>3, <1>5
      <4> QED
        BY <4>2
    <3>5. CASE j > k
      <4>1. j - 1 \in 1..(Len(queue) - 1) /\ ~(j - 1 < k) /\ (j - 1) + 1 = j
        BY <3>5, <1>1, <1>2
      <4>2. queue'[j - 1] = q /\ j - 1 \in 1..Len(queue')
        BY <4>1, <3>2, <1>3, <1>5
      <4> QED
        BY <4>2
    <3> QED
      BY <3>3, <3>4, <3>5, <1>2
  <2> QED
    BY <2>1, <2>2, <2>3 DEF QueueInv
<1>14. TicketInv'
  BY <1>7, <1>8 DEF TicketInv
<1> QED
  BY <1>9, <1>10, <1>11, <1>12, <1>13, <1>14

(* A request that is over passes its permit on, or frees it. *)
LEMMA OverKeeps ==
  ASSUME AdmissionInv, UNCHANGED <<maximum, ticket>>, NEW r \in Requests,
         pc[r] \in Holding \cup {"over"}, Over(r)
  PROVE  AdmissionInv'
<1> USE DEF AdmissionInv
<1>1. pc[r] # "queued" /\ pc[r] # "idle"
  BY DEF Holding, Body
<1>2. \A i \in 1..Len(queue) : queue[i] \in Requests /\ queue[i] # r
  BY <1>1 DEF QueueInv, AdmissionType
<1>3. Asked' = Asked
  BY DEF Asked
<1>4. CASE ~Releases(r)
  <2>1. pc' = [pc EXCEPT ![r] = "over"] /\ UNCHANGED slots /\ permit[r] # "held"
    BY <1>4 DEF Over, Releases
  <2>2. pc' = pc
    BY <2>1 DEF PermitsCounted, Holding, AdmissionType
  <2> QED
    BY <2>1, <2>2, <1>3 DEF AdmissionType, PermitsCounted, NoWaiterWhileFree,
       NoOvertaking, QueueInv, TicketInv, slots, Holders
<1>5. CASE Releases(r) /\ queue = <<>>
  <2>1. /\ pc' = [pc EXCEPT ![r] = "over"] /\ UNCHANGED queue
        /\ active' = active - 1
        /\ permit' = [permit EXCEPT ![r] = "released"]
        /\ permit[r] = "held"
    BY <1>5 DEF Over, Releases
  <2>2. Holders' = Holders \ {r} /\ r \in Holders
    BY <2>1 DEF Holders, AdmissionType
  <2>3. Cardinality(Holders') = Cardinality(Holders) - 1
    BY <2>2, FiniteHolders, FS_RemoveElement
  <2>4. active # 0
    BY <2>2, FiniteHolders, FS_EmptySet DEF PermitsCounted
  <2>5. AdmissionType'
    BY <2>1, <2>4 DEF AdmissionType, Labels
  <2>6. PermitsCounted'
    BY <2>1, <2>3 DEF PermitsCounted, AdmissionType, Body
  <2>7. \A q \in Requests : pc'[q] # "queued"
    BY <2>1, <1>5 DEF QueueInv, AdmissionType
  <2>8. NoWaiterWhileFree' /\ NoOvertaking' /\ QueueInv'
    BY <2>1, <2>7, <1>5 DEF NoWaiterWhileFree, NoOvertaking, QueueInv
  <2>9. TicketInv'
    BY <2>1, <1>1, <1>3 DEF TicketInv, AdmissionType
  <2> QED
    BY <2>5, <2>6, <2>8, <2>9
<1>6. CASE Releases(r) /\ queue # <<>>
  <2> DEFINE h == Head(queue)
  <2>1. /\ pc' = [pc EXCEPT ![r] = "over", ![h] = "granted"]
        /\ permit' = [permit EXCEPT ![r] = "released", ![h] = "held"]
        /\ queue' = Tail(queue) /\ UNCHANGED active
        /\ permit[r] = "held"
    BY <1>6 DEF Over, Releases
  <2>2. /\ Len(queue) \in Nat \ {0} /\ h = queue[1]
        /\ queue' \in Seq(Requests) /\ Len(queue') = Len(queue) - 1
        /\ \A i \in 1..(Len(queue) - 1) : queue'[i] = queue[i + 1]
    BY <1>6, <2>1 DEF AdmissionType
  <2>3. h \in Requests /\ h # r /\ pc[h] = "queued"
    BY <1>2, <2>2 DEF QueueInv
  <2> HIDE DEF h
  <2>4. /\ \A q \in Requests \ {r, h} : pc'[q] = pc[q] /\ permit'[q] = permit[q]
        /\ pc'[r] = "over" /\ permit'[r] = "released"
        /\ pc'[h] = "granted" /\ permit'[h] = "held"
    BY <2>1, <2>3 DEF AdmissionType
  <2>5. Holders' = (Holders \ {r}) \cup {h} /\ r \in Holders /\ h \notin Holders
    <3>1. permit[h] # "held"
      BY <2>3 DEF PermitsCounted, Body
    <3> QED
      BY <3>1, <2>1, <2>3, <2>4 DEF Holders
  <2>6. Cardinality(Holders') = Cardinality(Holders)
    <3>1. IsFiniteSet(Holders \ {r}) /\ Cardinality(Holders \ {r}) = Cardinality(Holders) - 1
      BY <2>5, FiniteHolders, FS_RemoveElement
    <3>2. h \notin Holders \ {r}
      BY <2>5
    <3>3. Cardinality((Holders \ {r}) \cup {h}) = Cardinality(Holders \ {r}) + 1
      BY <3>1, <3>2, FS_AddElement
    <3> QED
      BY <3>1, <3>3, <2>5, FiniteHolders
  <2>7. AdmissionType'
    <3>1. pc' \in [Requests -> Labels]
      BY <2>1 DEF AdmissionType, Labels
    <3>2. permit' \in [Requests -> {"none", "held", "released"}]
      BY <2>1 DEF AdmissionType
    <3> QED
      BY <3>1, <3>2, <2>1, <2>2 DEF AdmissionType
  <2>8. PermitsCounted'
    <3>1. active' = Cardinality(Holders')
      BY <2>1, <2>6 DEF PermitsCounted
    <3>2. \A q \in Requests : permit'[q] = "held"
                            <=> pc'[q] \in Body \cup {"granted", "dialing", "awaiting"}
      BY <2>4 DEF PermitsCounted, Body
    <3> QED
      BY <3>1, <3>2 DEF PermitsCounted
  <2>9. NoWaiterWhileFree'
    BY <2>1, <1>6 DEF NoWaiterWhileFree
  <2>10. \A i \in 1..(Len(queue) - 1) : /\ queue[i + 1] \in Requests \ {r, h}
                                        /\ ticket[h] < ticket[queue[i + 1]]
    <3> SUFFICES ASSUME NEW i \in 1..(Len(queue) - 1)
                 PROVE  /\ queue[i + 1] \in Requests \ {r, h}
                        /\ ticket[h] < ticket[queue[i + 1]]
      OBVIOUS
    <3>1. i + 1 \in 1..Len(queue) /\ 1 \in 1..Len(queue) /\ 1 < i + 1
      BY <2>2
    <3>2. ticket[h] < ticket[queue[i + 1]]
      BY <3>1, <2>2 DEF QueueInv
    <3>3. ~(ticket[h] < ticket[h])
      BY <2>3 DEF AdmissionType
    <3> QED
      BY <3>1, <3>2, <3>3, <1>2
  <2>11. QueueInv'
    <3>1. \A i \in 1..Len(queue') : pc'[queue'[i]] = "queued"
      <4> SUFFICES ASSUME NEW i \in 1..Len(queue') PROVE pc'[queue'[i]] = "queued"
        OBVIOUS
      <4>1. i \in 1..(Len(queue) - 1) /\ i + 1 \in 1..Len(queue)
        BY <2>2
      <4> QED
        BY <4>1, <2>2, <2>4, <2>10 DEF QueueInv
    <3>2. \A i, j \in 1..Len(queue') : i < j => ticket'[queue'[i]] < ticket'[queue'[j]]
      <4> SUFFICES ASSUME NEW i \in 1..Len(queue'), NEW j \in 1..Len(queue'), i < j
                   PROVE  ticket'[queue'[i]] < ticket'[queue'[j]]
        OBVIOUS
      <4>1. /\ i + 1 \in 1..Len(queue) /\ j + 1 \in 1..Len(queue) /\ i + 1 < j + 1
            /\ i \in 1..(Len(queue) - 1) /\ j \in 1..(Len(queue) - 1)
        BY <2>2
      <4> QED
        BY <4>1, <2>2 DEF QueueInv
    <3>3. \A q \in Requests : pc'[q] = "queued" => \E i \in 1..Len(queue') : queue'[i] = q
      <4> SUFFICES ASSUME NEW q \in Requests, pc'[q] = "queued"
                   PROVE  \E i \in 1..Len(queue') : queue'[i] = q
        OBVIOUS
      <4>1. q # r /\ q # h /\ pc[q] = "queued"
        BY <2>4
      <4>2. PICK j \in 1..Len(queue) : queue[j] = q
        BY <4>1 DEF QueueInv
      <4>3. j - 1 \in 1..Len(queue') /\ (j - 1) + 1 = j /\ j - 1 \in 1..(Len(queue) - 1)
        BY <4>1, <4>2, <2>2
      <4> QED
        BY <4>2, <4>3, <2>2
    <3> QED
      BY <3>1, <3>2, <3>3 DEF QueueInv
  <2>12. NoOvertaking'
    <3> SUFFICES ASSUME NEW p \in Requests, NEW q \in Requests,
                        pc'[q] = "queued", permit'[p] # "none"
                 PROVE  ticket'[p] < ticket'[q]
      BY DEF NoOvertaking
    <3>1. pc[q] = "queued" /\ q # r /\ q # h
      BY <2>4
    <3>2. ticket[h] < ticket[q]
      <4>1. PICK j \in 1..Len(queue) : queue[j] = q
        BY <3>1 DEF QueueInv
      <4>2. j - 1 \in 1..(Len(queue) - 1) /\ (j - 1) + 1 = j
        BY <3>1, <4>1, <2>2
      <4> QED
        BY <4>1, <4>2, <2>10
    <3>3. CASE p = h
      BY <3>2, <3>3
    <3>4. CASE p # h
      <4>1. permit[p] # "none"
        BY <3>4, <2>1, <2>4
      <4> QED
        BY <4>1, <3>1 DEF NoOvertaking
    <3> QED
      BY <3>3, <3>4
  <2>13. TicketInv'
    BY <2>3, <2>4, <1>1, <1>3 DEF TicketInv
  <2> QED
    BY <2>7, <2>8, <2>9, <2>11, <2>12, <2>13
<1> QED
  BY <1>4, <1>5, <1>6

LEMMA LetGoKeeps ==
  ASSUME AdmissionInv, UNCHANGED maximum, NEW cleaned \in SUBSET Requests, LetGo(cleaned)
  PROVE  AdmissionInv'
<1> USE DEF AdmissionInv
<1>1. Asked' = Asked
  BY DEF LetGo, Asked
<1>2. cleaned \subseteq Holders
  BY DEF LetGo, Holders, PermitsCounted, Holding, AdmissionType
<1>3. Holders' = Holders \ cleaned
  BY DEF LetGo, Holders, AdmissionType
<1>4. /\ Cardinality(Holders') = Cardinality(Holders) - Cardinality(cleaned)
      /\ Cardinality(cleaned) \in Nat
      /\ Cardinality(cleaned) <= Cardinality(Holders)
  <2>1. Holders \cap cleaned = cleaned
    BY <1>2
  <2>2. Cardinality(Holders \ cleaned) = Cardinality(Holders) - Cardinality(Holders \cap cleaned)
    BY FiniteHolders, FS_Difference
  <2>3. IsFiniteSet(cleaned) /\ Cardinality(cleaned) <= Cardinality(Holders)
    BY <1>2, FiniteHolders, FS_Subset
  <2> QED
    BY <1>3, <2>1, <2>2, <2>3, FS_CardinalityType
<1>5. AdmissionType'
  BY <1>4, FiniteHolders DEF AdmissionType, LetGo, Labels, PermitsCounted
<1>6. PermitsCounted'
  BY <1>4 DEF PermitsCounted, AdmissionType, LetGo, Holding, Body
<1>7. \A q \in Requests : pc'[q] # "queued" /\ (pc'[q] = "idle" => pc[q] = "idle")
  BY DEF LetGo, AdmissionType
<1>8. NoWaiterWhileFree' /\ NoOvertaking' /\ QueueInv'
  BY <1>7 DEF NoWaiterWhileFree, NoOvertaking, QueueInv, LetGo
<1>9. TicketInv'
  BY <1>1, <1>7 DEF TicketInv, LetGo, AdmissionType, Holding, Body
<1> QED
  BY <1>5, <1>6, <1>8, <1>9

-----------------------------------------------------------------------------
(* The sockets. *)

Waits == {"idle", "queued", "granted"}
Dialing == {r \in Requests : pc[r] = "dialing"}
Wire == {r \in Requests : OnTheWire(r)}

SocketType ==
  /\ pc \in [Requests -> Labels]
  /\ socket \in [Requests -> Requests \cup {Null}]
  /\ idle \subseteq open /\ open \subseteq Requests

(* Fetch has no sockets. *)
FetchInv == native \/ (open = {} /\ idle = {})

(* Those on the wire have a socket each, the name of a new one is new, a   *)
(* socket that is not idle is on the wire, and only a request that dials   *)
(* may have brought one too many.                                          *)
SocketInv ==
  /\ SocketType
  /\ \A r \in Wire : socket[r] \in open \ idle
  /\ \A r, q \in Wire : socket[r] = socket[q] => r = q
  /\ \A s \in open : pc[s] \notin Waits
  /\ \A s \in open \ idle : \E r \in Wire : socket[r] = s
  /\ Cardinality(open) <= maximum + Cardinality(Dialing)

(* What a request's step is to the others: one may be granted its permit. *)
Others(r) ==
  \A q \in Requests \ {r} :
    pc'[q] = pc[q] \/ (pc[q] = "queued" /\ pc'[q] = "granted")

LEMMA OverOthers ==
  ASSUME AdmissionInv, NEW r \in Requests, pc[r] \in Holding \cup {"over"}, Over(r)
  PROVE  pc'[r] = "over" /\ Others(r)
<1>1. CASE ~Releases(r) \/ queue = <<>>
  BY <1>1 DEF Over, Releases, Others, AdmissionInv, AdmissionType
<1>2. CASE Releases(r) /\ queue # <<>>
  <2>1. Head(queue) \in Requests /\ pc[Head(queue)] = "queued"
    BY <1>2 DEF AdmissionInv, AdmissionType, QueueInv
  <2>2. Head(queue) # r
    BY <2>1 DEF Holding, Body
  <2> QED
    BY <1>2, <2>1, <2>2 DEF Over, Releases, Others, AdmissionInv, AdmissionType
<1> QED
  BY <1>1, <1>2

LEMMA FiniteOpen ==
  ASSUME SocketInv
  PROVE  /\ IsFiniteSet(open) /\ Cardinality(open) \in Nat
         /\ IsFiniteSet(Dialing) /\ Cardinality(Dialing) \in Nat
BY FS_Subset, FS_CardinalityType DEF SocketInv, SocketType, Dialing

(* The sockets on the wire are no more than the permits. *)
LEMMA InUseBounded ==
  ASSUME SocketInv, AdmissionInv
  PROVE  IsFiniteSet(open \ idle) /\ Cardinality(open \ idle) <= maximum
<1> DEFINE user == [s \in open \ idle |-> CHOOSE r \in Wire : socket[r] = s]
<1>1. \A s \in open \ idle : user[s] \in Wire /\ socket[user[s]] = s
  BY DEF SocketInv
<1>2. Wire \subseteq Holders
  BY DEF Wire, OnTheWire, Holders, AdmissionInv, PermitsCounted, Body
<1>3. user \in [open \ idle -> Holders]
  BY <1>1, <1>2
<1> HIDE DEF user
<1>4. user \in Injection(open \ idle, Holders)
  BY <1>1, <1>3 DEF Injection, IsInjective
<1>5. IsFiniteSet(open \ idle) /\ Cardinality(open \ idle) <= Cardinality(Holders)
  BY <1>4, FiniteHolders, FS_Injection
<1>6. Cardinality(open \ idle) \in Nat
  BY <1>5, FS_CardinalityType
<1> QED
  BY <1>5, <1>6, FiniteHolders DEF AdmissionInv, AdmissionType, PermitsCounted

(* Trimming leaves the sockets in use, and no more than the maximum. *)
LEMMA Trimmed ==
  ASSUME maximum \in Nat, NEW o \in SUBSET Requests, NEW i \in SUBSET o,
         Cardinality(o \ i) <= maximum, TrimIdle(o, i)
  PROVE  /\ open' \subseteq o /\ idle' \subseteq i /\ idle' \subseteq open'
         /\ open' \ idle' = o \ i
         /\ Cardinality(open') <= maximum
<1>1. PICK gone \in SUBSET i :
        /\ \/ Cardinality(gone) = Excess(o, i)
           \/ gone = i /\ Cardinality(i) < Excess(o, i)
        /\ open' = o \ gone
        /\ idle' = i \ gone
  BY DEF TrimIdle
<1>2. IsFiniteSet(o) /\ Cardinality(o) \in Nat
  BY FS_Subset, FS_CardinalityType
<1>3. Cardinality(open') <= maximum
  <2>1. CASE gone = i
    BY <1>1, <2>1
  <2>2. CASE Cardinality(gone) = Excess(o, i)
    <3>1. o \cap gone = gone
      BY <1>1
    <3>2. Cardinality(o \ gone) = Cardinality(o) - Cardinality(gone)
      BY <1>2, <3>1, FS_Difference
    <3> QED
      BY <1>1, <1>2, <2>2, <3>2 DEF Excess
  <2> QED
    BY <1>1, <2>1, <2>2
<1> QED
  BY <1>1, <1>3

(* A step that borrows, returns and destroys no socket. *)
LEMMA SocketsStay ==
  ASSUME SocketInv, UNCHANGED <<maximum, socket, open, idle>>, NEW r \in Requests,
         pc' \in [Requests -> Labels], Others(r), Wire' = Wire,
         pc'[r] \in Waits => pc[r] \in Waits,
         pc'[r] = "dialing" <=> pc[r] = "dialing"
  PROVE  SocketInv'
<1>1. \A q \in Requests : pc'[q] \in Waits => pc[q] \in Waits
  BY DEF Others, Waits
<1>2. Dialing' = Dialing
  BY DEF Others, Dialing
<1>3. Cardinality(open') <= maximum' + Cardinality(Dialing')
  BY <1>2 DEF SocketInv
<1>4. \A s \in open' : pc'[s] \notin Waits
  BY <1>1 DEF SocketInv, SocketType
<1> QED
  BY <1>3, <1>4 DEF SocketInv, SocketType

(* A request leaves the wire, and its socket is destroyed. *)
LEMMA SocketDestroyed ==
  ASSUME SocketInv, UNCHANGED <<maximum, socket>>, NEW r \in Wire, maximum \in Nat,
         pc' \in [Requests -> Labels], Others(r), Wire' = Wire \ {r},
         pc'[r] \notin Waits, pc'[r] # "dialing",
         open' = open \ {socket[r]}, idle' = idle \ {socket[r]}
  PROVE  SocketInv'
<1>1. \A q \in Requests \ {r} : pc'[q] \in Waits => pc[q] \in Waits
  BY DEF Others, Waits
<1>2. socket[r] \in open /\ r \in Requests
  BY DEF Wire, SocketInv
<1>3. Dialing' = Dialing \ {r}
  BY <1>2 DEF Others, Dialing
<1> USE DEF SocketInv, SocketType
<1>4. Cardinality(open') = Cardinality(open) - 1
  BY <1>2, FiniteOpen, FS_RemoveElement
<1>5. Cardinality(Dialing') >= Cardinality(Dialing) - 1 /\ Cardinality(Dialing') \in Nat
  <2>1. /\ IsFiniteSet(Dialing \ {r})
        /\ Cardinality(Dialing \ {r}) =
             IF r \in Dialing THEN Cardinality(Dialing) - 1 ELSE Cardinality(Dialing)
    BY FiniteOpen, FS_RemoveElement
  <2>2. Cardinality(Dialing \ {r}) \in Nat
    BY <2>1, FS_CardinalityType
  <2> QED
    BY <1>3, <2>1, <2>2, FiniteOpen
<1>6. Cardinality(open') <= maximum' + Cardinality(Dialing')
  BY <1>4, <1>5, FiniteOpen
<1>7. \A q \in Wire' : socket'[q] \in open' \ idle'
  OBVIOUS
<1>8. \A s \in open' : pc'[s] \notin Waits
  BY <1>1
<1> QED
  BY <1>6, <1>7, <1>8

(* The agents trim their idle sockets, those of a request that has left    *)
(* the wire among them.                                                    *)
LEMMA SocketsTrimmed ==
  ASSUME SocketInv, AdmissionInv, UNCHANGED <<maximum, socket>>, NEW r \in Wire,
         pc' \in [Requests -> Labels], Others(r), pc'[r] \notin Waits,
         NEW i,
         \/ Wire' = Wire /\ i = idle
         \/ Wire' = Wire \ {r} /\ i = idle \cup {socket[r]},
         TrimIdle(open, i)
  PROVE  SocketInv'
<1> USE DEF SocketInv, SocketType
<1>1. \A q \in Requests \ {r} : pc'[q] \in Waits => pc[q] \in Waits
  BY DEF Others, Waits
<1>2. socket[r] \in open /\ r \in Requests
  BY DEF Wire
<1>3. i \in SUBSET open /\ open \in SUBSET Requests /\ open \ i \subseteq open \ idle
  BY <1>2
<1>4. Cardinality(open \ i) <= maximum /\ maximum \in Nat
  <2>1. IsFiniteSet(open \ i) /\ Cardinality(open \ i) <= Cardinality(open \ idle)
    BY <1>3, InUseBounded, FS_Subset
  <2>2. Cardinality(open \ i) \in Nat /\ Cardinality(open \ idle) \in Nat
    BY <2>1, InUseBounded, FS_CardinalityType
  <2> QED
    BY <2>1, <2>2, InUseBounded DEF AdmissionInv, AdmissionType
<1>5. /\ open' \subseteq open /\ idle' \subseteq open'
      /\ open' \ idle' = open \ i
      /\ Cardinality(open') <= maximum
  BY <1>3, <1>4, Trimmed
<1>6. IsFiniteSet(Dialing') /\ Cardinality(Dialing') \in Nat /\ Cardinality(open') \in Nat
  BY <1>3, <1>5, FS_Subset, FS_CardinalityType DEF Dialing
<1>7. \A q \in Wire' : socket'[q] \in open' \ idle'
  BY <1>5
<1>8. \A s \in open' : pc'[s] \notin Waits
  BY <1>1, <1>5
<1>9. \A s \in open' \ idle' : \E q \in Wire' : socket'[q] = s
  BY <1>5
<1>10. Cardinality(open') <= maximum' + Cardinality(Dialing')
  BY <1>4, <1>5, <1>6
<1> QED
  BY <1>5, <1>7, <1>8, <1>9, <1>10

(* A request borrows a socket, or makes one. *)
LEMMA SocketBorrowed ==
  ASSUME SocketInv, UNCHANGED maximum, maximum \in Nat, NEW r \in Requests,
         pc[r] = "granted", pc' = [pc EXCEPT ![r] = "dialing"],
         r \notin Wire, Wire' = Wire \cup {r}, BorrowSocket(r)
  PROVE  SocketInv'
<1> USE DEF SocketInv, SocketType
<1>1. r \notin open
  BY DEF Waits
<1>2. /\ pc' \in [Requests -> Labels]
      /\ \A q \in Requests : pc'[q] \in Waits => pc[q] \in Waits
      /\ Dialing' = Dialing \cup {r} /\ r \notin Dialing
  BY DEF Labels, Waits, Dialing
<1>3. Cardinality(Dialing') = Cardinality(Dialing) + 1
  BY <1>2, FiniteOpen, FS_AddElement
<1>4. CASE Reusable(r) # {}
  <2>1. PICK s \in Reusable(r) :
          /\ socket' = [socket EXCEPT ![r] = s]
          /\ idle' = idle \ {s}
          /\ open' = open
    BY <1>4 DEF BorrowSocket
  <2>2. s \in idle
    BY DEF Reusable
  <2>3. \A q \in Wire : socket'[q] = socket[q] /\ q # r /\ socket[q] # s
    BY <2>1, <2>2 DEF Wire
  <2>4. socket'[r] = s
    BY <2>1
  <2>5. Cardinality(open') <= maximum' + Cardinality(Dialing')
    BY <1>3, <2>1, FiniteOpen
  <2>6. \A s1 \in open' \ idle' : \E q \in Wire' : socket'[q] = s1
    BY <2>1, <2>3, <2>4
  <2>7. \A p, q \in Wire' : socket'[p] = socket'[q] => p = q
    BY <2>3, <2>4
  <2>8. \A q \in Wire' : socket'[q] \in open' \ idle'
    BY <2>1, <2>2, <2>3, <2>4
  <2>9. SocketType'
    BY <1>2, <2>1, <2>2
  <2>10. \A s1 \in open' : pc'[s1] \notin Waits
    BY <1>2, <2>1
  <2> QED
    BY <2>5, <2>6, <2>7, <2>8, <2>9, <2>10
<1>5. CASE Reusable(r) = {}
  <2>1. /\ socket' = [socket EXCEPT ![r] = r]
        /\ open' = open \cup {r}
        /\ idle' = idle
    BY <1>5 DEF BorrowSocket
  <2>3. \A q \in Wire : socket'[q] = socket[q] /\ q # r /\ socket[q] # r
    BY <1>1, <2>1 DEF Wire
  <2>4. socket'[r] = r /\ r \notin idle
    BY <1>1, <2>1
  <2>5. Cardinality(open') <= maximum' + Cardinality(Dialing')
    <3>1. Cardinality(open') = Cardinality(open) + 1
      BY <1>1, <2>1, FiniteOpen, FS_AddElement
    <3> QED
      BY <3>1, <1>3, FiniteOpen
  <2>6. \A s1 \in open' \ idle' : \E q \in Wire' : socket'[q] = s1
    BY <2>1, <2>3, <2>4
  <2>7. \A p, q \in Wire' : socket'[p] = socket'[q] => p = q
    BY <2>3, <2>4
  <2>8. \A q \in Wire' : socket'[q] \in open' \ idle'
    BY <2>1, <2>3, <2>4
  <2>9. SocketType'
    BY <1>2, <2>1
  <2>10. pc'[r] = "dialing"
    OBVIOUS
  <2>11. \A s1 \in open' : pc'[s1] \notin Waits
    BY <1>2, <2>1, <2>10 DEF Waits
  <2> QED
    BY <2>5, <2>6, <2>7, <2>8, <2>9, <2>11
<1> QED
  BY <1>4, <1>5

(* Nothing is left on the wire. *)
LEMMA SocketsGone ==
  ASSUME SocketType', AdmissionType', open' = {}, idle' = {}, Wire' = {}
  PROVE  SocketInv'
<1>1. IsFiniteSet(Dialing') /\ Cardinality(Dialing') \in Nat
  BY FS_Subset, FS_CardinalityType DEF Dialing
<1>2. Cardinality(open') = 0
  BY FS_EmptySet
<1>3. Cardinality(open') <= maximum' + Cardinality(Dialing')
  BY <1>1, <1>2 DEF AdmissionType
<1> QED
  BY <1>3 DEF SocketInv

-----------------------------------------------------------------------------
(* The invariant, step by step. *)

KindInv ==
  /\ native \in BOOLEAN /\ maximum \in Maxima /\ closed \in BOOLEAN
  /\ aborted \subseteq Requests

IInv == KindInv /\ AdmissionInv /\ SocketInv /\ FetchInv

(* The labels at which Node's request is on the wire. *)
OnWire == {"dialing", "awaiting", "open", "reading", "yielded"}

LEMMA WireIs ==
  /\ native => Wire = {r \in Requests : pc[r] \in OnWire}
  /\ ~native => Wire = {}
<1>1. ASSUME native PROVE Wire = {r \in Requests : pc[r] \in OnWire}
  BY <1>1 DEF Wire, OnTheWire, OnWire
<1>2. ASSUME ~native PROVE Wire = {}
  BY <1>2 DEF Wire, OnTheWire
<1> QED
  BY <1>1, <1>2

LEMMA InvInit == Init => IInv
<1> SUFFICES ASSUME Init PROVE IInv
  OBVIOUS
<1> USE DEF Init
<1>1. KindInv /\ FetchInv
  BY DEF KindInv, FetchInv
<1>2. AdmissionType
  BY DEF AdmissionType, Labels
<1>3. Holders = {} /\ Asked = {} /\ Cardinality({}) = 0
  BY FS_EmptySet DEF Holders, Asked
<1>4. PermitsCounted
  BY <1>3 DEF PermitsCounted, Body
<1>5. NoWaiterWhileFree /\ NoOvertaking
  BY DEF NoWaiterWhileFree, NoOvertaking
<1>6. QueueInv /\ TicketInv
  BY <1>3 DEF QueueInv, TicketInv
<1>7. Wire = {} /\ Dialing = {}
  BY DEF Wire, OnTheWire, Dialing
<1>8. SocketInv
  BY <1>2, <1>3, <1>7 DEF SocketInv, SocketType, AdmissionType
<1> QED
  BY <1>1, <1>2, <1>4, <1>5, <1>6, <1>8 DEF IInv, AdmissionInv

LEMMA AdmissionStep ==
  ASSUME IInv, Next
  PROVE  AdmissionInv'
<1> USE DEF IInv
<1>1. CASE Close
  <2> DEFINE cleaned == {r \in Requests : pc[r] \in CleansAtOnce}
  <2>1. cleaned \in SUBSET Requests /\ \A r \in cleaned : pc[r] \in Holding
    BY DEF CleansAtOnce, Holding
  <2>2. LetGo(cleaned) /\ UNCHANGED maximum
    BY <1>1, <2>1 DEF Close, LetGo, kind
  <2> HIDE DEF cleaned
  <2> QED
    BY <2>1, <2>2, LetGoKeeps
<1>2. CASE IdleCloses
  <2>1. UNCHANGED <<maximum, slots, pc, ticket>>
    BY <1>2 DEF IdleCloses, kind
  <2>2. Holders' = Holders /\ Asked' = Asked
    BY <2>1 DEF Holders, Asked, slots
  <2> QED
    BY <2>1, <2>2 DEF AdmissionInv, AdmissionType, PermitsCounted,
       NoWaiterWhileFree, NoOvertaking, QueueInv, TicketInv, slots
<1>3. ASSUME NEW r \in Requests, Request(r) PROVE AdmissionInv'
  <2>0. UNCHANGED maximum
    BY <1>3 DEF Request, Runs, Refuse, Send, LeaveQueue, Resume, Unwind,
       SocketAssigned, HeadArrives, SendFails, Abort, Read, Chunk, BodyEnds,
       Finish, Abandon, GiveUp, Cancel, kind
  <2>1. CASE Refuse(r)
    BY <2>0, <2>1, RefuseKeeps DEF Refuse
  <2>2. CASE Send(r)
    BY <2>0, <2>2, AcquireKeeps DEF Send
  <2>3. CASE LeaveQueue(r)
    BY <2>0, <2>3, FailWaiterKeeps DEF LeaveQueue
  <2>4. CASE Resume(r) /\ r \in aborted
    BY <2>0, <2>4, OverKeeps DEF Resume, ResumeAborted, Holding
  <2>5. CASE Resume(r) /\ r \notin aborted
    <3>1. Moves(r)
      BY <2>5 DEF Resume, Moves, Holding
    <3> QED
      BY <2>0, <3>1, MovesKeeps
  <2>6. CASE SocketAssigned(r) \/ HeadArrives(r) \/ Read(r) \/ Chunk(r)
    <3>1. Moves(r)
      BY <2>6 DEF SocketAssigned, HeadArrives, Read, Chunk, Moves, Holding, Body
    <3> QED
      BY <2>0, <3>1, MovesKeeps
  <2>7. CASE Abort(r) /\ pc[r] \notin CleansAtOnce
    <3>1. UNCHANGED <<pc, slots, ticket>>
      BY <2>7 DEF Abort
    <3>2. Holders' = Holders /\ Asked' = Asked
      BY <3>1 DEF Holders, Asked, slots
    <3> QED
      BY <2>0, <3>1, <3>2 DEF AdmissionInv, AdmissionType, PermitsCounted,
         NoWaiterWhileFree, NoOvertaking, QueueInv, TicketInv, slots
  <2>8. CASE Abort(r) /\ pc[r] \in CleansAtOnce
    <3>1. pc[r] \in Holding
      BY <2>8 DEF CleansAtOnce, Holding
    <3>2. Over(r) /\ UNCHANGED ticket
      BY <2>8 DEF Abort
    <3> QED
      BY <2>0, <3>1, <3>2, OverKeeps
  <2>9. CASE BodyEnds(r) /\ native
    <3>1. Moves(r)
      BY <2>9 DEF BodyEnds, Moves, Holding, Body
    <3> QED
      BY <2>0, <3>1, MovesKeeps
  <2>10. CASE BodyEnds(r) /\ ~native
    BY <2>0, <2>10, OverKeeps DEF BodyEnds, Holding, Body
  <2>11. CASE SendFails(r) \/ Unwind(r) \/ Finish(r) \/ Abandon(r) \/ Cancel(r)
    <3>1. pc[r] \in Holding \cup {"over"}
      BY <2>11 DEF SendFails, Unwind, Finish, Abandon, Cancel, Holding, Body
    <3>2. Over(r) /\ UNCHANGED ticket
      BY <2>11 DEF SendFails, Unwind, Finish, Abandon, Cancel, GiveUp
    <3> QED
      BY <2>0, <3>1, <3>2, OverKeeps
  <2> QED
    BY <1>3, <2>1, <2>2, <2>3, <2>4, <2>5, <2>6, <2>7, <2>8, <2>9, <2>10, <2>11
       DEF Request, Runs
<1> QED
  BY <1>1, <1>2, <1>3 DEF Next

(* Without sockets, there is nothing to go wrong with them. *)
LEMMA FetchStep ==
  ASSUME IInv, Next, ~native
  PROVE  SocketInv' /\ FetchInv'
<1>1. AdmissionType' /\ Wire' = {}
  <2>1. native' = native
    BY DEF Next, Close, IdleCloses, Request, Runs, Refuse, Send, LeaveQueue,
       Resume, Unwind, SocketAssigned, HeadArrives, SendFails, Abort, Read,
       Chunk, BodyEnds, Finish, Abandon, GiveUp, Cancel, kind
  <2>2. ~native'
    BY <2>1
  <2>3. Wire' = {}
    BY <2>2 DEF Wire, OnTheWire
  <2> QED
    BY <2>3, AdmissionStep DEF AdmissionInv
<1>2. open = {} /\ idle = {} /\ CleansAtOnce = Body
  BY DEF IInv, FetchInv, CleansAtOnce
<1>3. UNCHANGED socket /\ open' = {} /\ idle' = {}
  <2>1. CASE Close \/ IdleCloses
    BY <1>2, <2>1 DEF Close, IdleCloses
  <2>2. ASSUME NEW r \in Requests, Request(r) PROVE UNCHANGED socket /\ open' = {} /\ idle' = {}
    <3>1. CASE SocketAssigned(r)
      BY <1>2, <3>1 DEF SocketAssigned, TrimIdle
    <3>2. CASE Abort(r)
      BY <1>2, <3>2 DEF Abort, DestroySocket, sockets, Body
    <3>3. CASE SendFails(r) \/ Abandon(r) \/ Cancel(r)
      BY <1>2, <3>3 DEF SendFails, Abandon, Cancel, GiveUp, DestroySocket, sockets
    <3>4. CASE Refuse(r) \/ Send(r) \/ LeaveQueue(r) \/ Resume(r) \/ Unwind(r)
      BY <1>2, <3>4 DEF Refuse, Send, LeaveQueue, Resume, Unwind, sockets
    <3>5. CASE HeadArrives(r) \/ Read(r) \/ Chunk(r) \/ BodyEnds(r) \/ Finish(r)
      BY <1>2, <3>5 DEF HeadArrives, Read, Chunk, BodyEnds, Finish, sockets
    <3> QED
      BY <2>2, <3>1, <3>2, <3>3, <3>4, <3>5 DEF Request, Runs
  <2> QED
    BY <2>1, <2>2 DEF Next
<1>4. SocketType'
  BY <1>1, <1>3 DEF SocketType, AdmissionType, IInv, SocketInv
<1> QED
  BY <1>1, <1>3, <1>4, SocketsGone DEF FetchInv

(* What the wire becomes when only r, and those granted a permit, move. *)
LEMMA WireMoves ==
  ASSUME native, native', NEW r \in Requests, Others(r)
  PROVE  /\ pc'[r] \in OnWire => Wire' = Wire \cup {r}
         /\ pc'[r] \notin OnWire => Wire' = Wire \ {r}
<1>1. /\ Wire = {q \in Requests : pc[q] \in OnWire}
      /\ Wire' = {q \in Requests : pc'[q] \in OnWire}
  BY DEF Wire, OnTheWire, OnWire
<1>2. \A q \in Requests \ {r} : (pc'[q] \in OnWire) = (pc[q] \in OnWire)
  BY DEF Others, OnWire
<1> QED
  BY <1>1, <1>2

(* A request that has no socket is over, or never had one. *)
LEMMA OverStays ==
  ASSUME IInv, AdmissionInv', native, native', UNCHANGED <<maximum, sockets>>,
         NEW r \in Requests, pc[r] \in {"granted", "tail", "over"}, Over(r)
  PROVE  SocketInv'
<1>1. pc'[r] = "over" /\ Others(r)
  BY OverOthers DEF IInv, Holding, Body
<1>2. r \notin Wire /\ Wire' = Wire \ {r}
  BY <1>1, WireMoves, WireIs DEF OnWire
<1>3. Wire' = Wire
  BY <1>2
<1>4. SocketInv /\ UNCHANGED <<maximum, socket, open, idle>>
  BY DEF IInv, sockets
<1>5. pc' \in [Requests -> Labels]
  BY DEF AdmissionInv, AdmissionType
<1>6. pc'[r] \notin Waits /\ pc'[r] # "dialing" /\ pc[r] # "dialing"
  BY <1>1 DEF Waits
<1> QED
  BY <1>1, <1>3, <1>4, <1>5, <1>6, SocketsStay

(* A request is over and destroys its socket, if it still has it. *)
LEMMA OverDestroys ==
  ASSUME IInv, AdmissionInv', native, native', UNCHANGED maximum,
         NEW r \in Requests, pc[r] \in Body \cup {"dialing", "awaiting"},
         DestroySocket(r), Over(r)
  PROVE  SocketInv'
<1>1. pc'[r] = "over" /\ Others(r)
  BY OverOthers DEF IInv, Holding
<1>2. Wire' = Wire \ {r}
  BY <1>1, WireMoves DEF OnWire
<1>3. CASE pc[r] = "tail"
  BY <1>3, OverStays DEF DestroySocket
<1>4. CASE pc[r] # "tail"
  <2>1. r \in Wire
    BY <1>4, WireIs DEF Body, OnWire
  <2>2. UNCHANGED socket /\ open' = open \ {socket[r]} /\ idle' = idle \ {socket[r]}
    BY <1>4 DEF DestroySocket
  <2> QED
    BY <1>1, <1>2, <2>1, <2>2, SocketDestroyed
       DEF IInv, AdmissionInv, AdmissionType, Waits
<1> QED
  BY <1>3, <1>4

LEMMA NodeStep ==
  ASSUME IInv, Next, native
  PROVE  SocketInv' /\ FetchInv'
<1> USE DEF IInv
<1>1. UNCHANGED kind
  BY DEF Next, Close, IdleCloses, Request, Runs, Refuse, Send, LeaveQueue,
     Resume, Unwind, SocketAssigned, HeadArrives, SendFails, Abort, Read,
     Chunk, BodyEnds, Finish, Abandon, GiveUp, Cancel
<1>2. native' /\ UNCHANGED maximum /\ FetchInv'
  BY <1>1 DEF kind, FetchInv
<1>3. AdmissionInv' /\ maximum \in Nat /\ pc' \in [Requests -> Labels]
      /\ pc \in [Requests -> Labels]
  BY AdmissionStep DEF AdmissionInv, AdmissionType
<1>4. CASE Close
  <2>1. CleansAtOnce = Body \cup {"dialing", "awaiting"}
    BY DEF CleansAtOnce
  <2>2. \A q \in Requests : pc'[q] \notin OnWire
    BY <1>4, <2>1 DEF Close, OnWire, Body
  <2>3. Wire' = {}
    BY <1>2, <2>2 DEF Wire, OnTheWire, OnWire
  <2>4. UNCHANGED socket /\ open' = {} /\ idle' = {}
    BY <1>4 DEF Close
  <2>5. SocketType'
    BY <1>3, <2>4 DEF SocketType, SocketInv
  <2> QED
    BY <1>2, <1>3, <2>3, <2>4, <2>5, SocketsGone DEF AdmissionInv
<1>5. CASE IdleCloses
  <2>1. PICK s \in idle : open' = open \ {s} /\ idle' = idle \ {s}
    BY <1>5 DEF IdleCloses
  <2>2. UNCHANGED <<pc, socket>> /\ Wire' = Wire /\ Dialing' = Dialing
    BY <1>1, <1>5 DEF IdleCloses, kind, Wire, OnTheWire, Dialing
  <2>3. Cardinality(open') <= maximum' + Cardinality(Dialing')
    <3>1. s \in open
      BY DEF SocketInv, SocketType
    <3>2. Cardinality(open') = Cardinality(open) - 1
      BY <2>1, <3>1, FiniteOpen, FS_RemoveElement
    <3> QED
      BY <1>2, <1>3, <2>2, <3>2, FiniteOpen DEF SocketInv
  <2> QED
    BY <1>2, <2>1, <2>2, <2>3 DEF SocketInv, SocketType
<1>6. ASSUME NEW r \in Requests, Request(r) PROVE SocketInv'
  <2>1. CASE Refuse(r) \/ Send(r) \/ LeaveQueue(r)
    <3>1. UNCHANGED sockets /\ Others(r)
      BY <2>1, <1>3 DEF Refuse, Send, LeaveQueue, Acquire, FailWaiter, Others
    <3>2. /\ pc'[r] \in Waits \cup {"over"}
          /\ pc[r] \in Waits
      BY <2>1, <1>3 DEF Refuse, Send, LeaveQueue, Acquire, FailWaiter, Waits
    <3>3. Wire' = Wire \ {r} /\ r \notin Wire
      BY <1>2, <3>1, <3>2, WireMoves, WireIs DEF OnWire, Waits
    <3> QED
      BY <1>2, <1>3, <3>1, <3>2, <3>3, SocketsStay DEF sockets, Waits
  <2>2. CASE Resume(r) /\ r \in aborted
    BY <2>2, <1>2, <1>3, OverStays DEF Resume, ResumeAborted
  <2>3. CASE Resume(r) /\ r \notin aborted
    <3>1. pc[r] = "granted" /\ pc' = [pc EXCEPT ![r] = "dialing"] /\ BorrowSocket(r)
      BY <2>3 DEF Resume
    <3>2. Others(r) /\ pc'[r] = "dialing"
      BY <3>1, <1>3 DEF Others
    <3>3. Wire' = Wire \cup {r} /\ r \notin Wire
      BY <1>2, <3>1, <3>2, WireMoves, WireIs DEF OnWire
    <3> QED
      BY <1>2, <1>3, <3>1, <3>3, SocketBorrowed
  <2>4. CASE SocketAssigned(r)
    <3>1. /\ pc[r] = "dialing" /\ pc' = [pc EXCEPT ![r] = "awaiting"]
          /\ TrimIdle(open, idle) /\ UNCHANGED socket
      BY <2>4 DEF SocketAssigned
    <3>2. Others(r) /\ pc'[r] = "awaiting"
      BY <3>1, <1>3 DEF Others
    <3>3. Wire' = Wire /\ r \in Wire
      BY <1>2, <3>1, <3>2, WireMoves, WireIs DEF OnWire
    <3> QED
      BY <1>2, <1>3, <3>1, <3>2, <3>3, SocketsTrimmed DEF Waits
  <2>5. CASE HeadArrives(r) \/ Read(r) \/ Chunk(r)
    <3>1. /\ pc[r] \in OnWire \ {"dialing"} /\ UNCHANGED sockets
          /\ \E l \in OnWire \ {"dialing"} : pc' = [pc EXCEPT ![r] = l]
      BY <2>5 DEF HeadArrives, Read, Chunk, OnWire
    <3>2. Others(r) /\ pc'[r] \in OnWire \ {"dialing"}
      BY <3>1, <1>3 DEF Others
    <3>3. Wire' = Wire
      BY <1>2, <3>1, <3>2, WireMoves, WireIs
    <3> QED
      BY <1>2, <1>3, <3>1, <3>2, <3>3, SocketsStay DEF sockets, Waits, OnWire
  <2>6. CASE BodyEnds(r) /\ ReturnSocket(r)
    <3>1. /\ pc[r] = "reading" /\ pc' = [pc EXCEPT ![r] = "tail"]
          /\ TrimIdle(open, idle \cup {socket[r]}) /\ UNCHANGED socket
      BY <2>6 DEF BodyEnds, ReturnSocket
    <3>2. Others(r) /\ pc'[r] = "tail"
      BY <3>1, <1>3 DEF Others
    <3>3. Wire' = Wire \ {r} /\ r \in Wire
      BY <1>2, <3>1, <3>2, WireMoves, WireIs DEF OnWire
    <3> QED
      BY <1>2, <1>3, <3>1, <3>2, <3>3, SocketsTrimmed DEF Waits
  <2>7. CASE BodyEnds(r) /\ DestroySocket(r)
    <3>1. /\ pc[r] = "reading" /\ pc' = [pc EXCEPT ![r] = "tail"]
          /\ open' = open \ {socket[r]} /\ idle' = idle \ {socket[r]}
          /\ UNCHANGED socket
      BY <2>7 DEF BodyEnds, DestroySocket
    <3>2. Others(r) /\ pc'[r] = "tail"
      BY <3>1, <1>3 DEF Others
    <3>3. Wire' = Wire \ {r} /\ r \in Wire
      BY <1>2, <3>1, <3>2, WireMoves, WireIs DEF OnWire
    <3> QED
      BY <1>2, <1>3, <3>1, <3>2, <3>3, SocketDestroyed DEF Waits
  <2>8. CASE Abort(r) /\ pc[r] \notin CleansAtOnce
    <3>1. UNCHANGED <<pc, sockets>> /\ Others(r) /\ Wire' = Wire
      BY <2>8, <1>1 DEF Abort, Others, Wire, OnTheWire, kind
    <3> QED
      BY <1>2, <1>3, <3>1, SocketsStay DEF sockets
  <2>9. CASE Abort(r) /\ pc[r] \in CleansAtOnce /\ DestroySocket(r)
    <3>1. pc[r] \in Body \cup {"dialing", "awaiting"} /\ Over(r)
      BY <2>9 DEF Abort, CleansAtOnce
    <3> QED
      BY <1>2, <1>3, <2>9, <3>1, OverDestroys
  <2>10. CASE Abort(r) /\ pc[r] = "dialing" /\ ReturnSocket(r)
    <3>1. /\ Over(r)
          /\ TrimIdle(open, idle \cup {socket[r]}) /\ UNCHANGED socket
      BY <2>10 DEF Abort, ReturnSocket, CleansAtOnce
    <3>2. Others(r) /\ pc'[r] = "over"
      BY <2>10, <3>1, OverOthers DEF Holding
    <3>3. Wire' = Wire \ {r} /\ r \in Wire
      BY <1>2, <2>10, <3>2, WireMoves, WireIs DEF OnWire
    <3> QED
      BY <1>2, <1>3, <3>1, <3>2, <3>3, SocketsTrimmed DEF Waits
  <2>11. CASE SendFails(r)
    BY <1>2, <1>3, <2>11, OverDestroys DEF SendFails
  <2>12. CASE Unwind(r)
    BY <2>12 DEF Unwind
  <2>13. CASE Finish(r)
    BY <1>2, <1>3, <2>13, OverStays DEF Finish
  <2>14. CASE Abandon(r)
    BY <1>2, <1>3, <2>14, OverDestroys DEF Abandon, GiveUp, Body
  <2>15. CASE Cancel(r)
    <3>1. CASE pc[r] \in Body /\ GiveUp(r)
      BY <1>2, <1>3, <3>1, OverDestroys DEF GiveUp
    <3>2. CASE pc[r] = "over" /\ Over(r) /\ UNCHANGED sockets
      BY <1>2, <1>3, <3>2, OverStays
    <3> QED
      BY <2>15, <3>1, <3>2 DEF Cancel
  <2> QED
    BY <1>6, <2>1, <2>2, <2>3, <2>4, <2>5, <2>6, <2>7, <2>8, <2>9, <2>10,
       <2>11, <2>12, <2>13, <2>14, <2>15 DEF Request, Runs, BodyEnds, Abort, CleansAtOnce
<1> QED
  BY <1>2, <1>4, <1>5, <1>6 DEF Next

LEMMA InvStep ==
  ASSUME IInv, [Next]_vars
  PROVE  IInv'
<1>1. CASE Next
  <2>1. AdmissionInv'
    BY <1>1, AdmissionStep
  <2>2. SocketInv' /\ FetchInv'
    BY <1>1, FetchStep, NodeStep
  <2>3. UNCHANGED kind /\ closed' \in {closed, TRUE}
    BY <1>1 DEF Next, Close, IdleCloses, Request, Runs, Refuse, Send, LeaveQueue,
       Resume, Unwind, SocketAssigned, HeadArrives, SendFails, Abort, Read,
       Chunk, BodyEnds, Finish, Abandon, GiveUp, Cancel
  <2>4. aborted' \subseteq Requests
    BY <1>1 DEF Next, Close, IdleCloses, Request, Runs, Refuse, Send, LeaveQueue,
       Resume, Unwind, SocketAssigned, HeadArrives, SendFails, Abort, Read,
       Chunk, BodyEnds, Finish, Abandon, GiveUp, Cancel, IInv, KindInv
  <2>5. KindInv'
    BY <2>3, <2>4 DEF KindInv, kind, IInv
  <2> QED
    BY <2>1, <2>2, <2>5 DEF IInv
<1>2. CASE UNCHANGED vars
  <2>1. UNCHANGED <<Holders, Asked, Wire, Dialing>>
    BY <1>2 DEF vars, slots, kind, Holders, Asked, Wire, OnTheWire, Dialing
  <2>2. AdmissionInv'
    BY <1>2, <2>1 DEF IInv, AdmissionInv, AdmissionType, PermitsCounted,
       NoWaiterWhileFree, NoOvertaking, QueueInv, TicketInv, vars, slots, kind
  <2>3. SocketInv' /\ FetchInv' /\ KindInv'
    BY <1>2, <2>1 DEF IInv, SocketInv, SocketType, FetchInv, KindInv, vars, sockets, slots, kind
  <2> QED
    BY <2>2, <2>3 DEF IInv
<1> QED
  BY <1>1, <1>2

LEMMA InvAlways == Spec => []IInv
<1> QED
  BY InvInit, InvStep, PTL DEF Spec

(* Where its own step takes a request, and that it does no more to another *)
(* than grant it its permit.                                               *)
LEMMA RequestMoves ==
  ASSUME IInv, NEW r \in Requests, Request(r)
  PROVE  /\ Others(r)
         /\ pc[r] = "over" => pc'[r] = "over"
         /\ pc[r] \in Body => pc'[r] \in Body \cup {"over"}
         /\ Abandon(r) \/ Refuse(r) => pc'[r] = "over"
         /\ pc[r] = "idle" => Refuse(r) \/ Send(r)
<1>1. AdmissionInv /\ pc \in [Requests -> Labels]
  BY DEF IInv, AdmissionInv, AdmissionType
<1>2. CASE pc[r] \in Holding \cup {"over"} /\ Over(r)
  <2>1. pc'[r] = "over" /\ Others(r) /\ pc[r] # "idle"
    BY <1>1, <1>2, OverOthers DEF Holding, Body
  <2> QED
    BY <2>1
<1>3. CASE Refuse(r)
  BY <1>1, <1>3 DEF Refuse, Others, Abandon, Body
<1>4. CASE Send(r)
  BY <1>1, <1>4 DEF Send, Acquire, Others, Refuse, Abandon, Body
<1>5. CASE /\ pc[r] \in {"queued", "granted", "dialing", "awaiting"}
           /\ \E l \in Labels : pc' = [pc EXCEPT ![r] = l]
  BY <1>1, <1>5 DEF Refuse, Others, Abandon, Body
<1>6. CASE /\ pc[r] \in Body /\ ~Abandon(r)
           /\ \E l \in Body : pc' = [pc EXCEPT ![r] = l]
  BY <1>1, <1>6 DEF Refuse, Others, Body
<1>7. CASE pc[r] \in {"granted", "dialing", "awaiting"} /\ UNCHANGED pc
  BY <1>1, <1>7 DEF Refuse, Others, Abandon, Body
<1>8. CASE LeaveQueue(r) \/ HeadArrives(r) \/ SocketAssigned(r)
  BY <1>5, <1>8 DEF LeaveQueue, FailWaiter, HeadArrives, SocketAssigned, Labels
<1>9. CASE Resume(r)
  BY <1>2, <1>5, <1>9 DEF Resume, ResumeAborted, Holding, Labels
<1>10. CASE Unwind(r) \/ SendFails(r) \/ Finish(r) \/ Abandon(r) \/ Cancel(r)
  BY <1>2, <1>10 DEF Unwind, SendFails, Finish, Abandon, Cancel, GiveUp, Holding, Body
<1>11. CASE Abort(r)
  BY <1>1, <1>2, <1>7, <1>11 DEF Abort, CleansAtOnce, Holding, Body, Labels
<1>12. CASE Read(r) \/ Chunk(r) \/ BodyEnds(r)
  BY <1>2, <1>6, <1>10, <1>12 DEF Read, Chunk, BodyEnds, Holding, Body
<1> QED
  BY <1>3, <1>4, <1>8, <1>9, <1>10, <1>11, <1>12 DEF Request, Runs

LEMMA InvIsTyped == IInv => TypeOK
BY DEF IInv, KindInv, AdmissionInv, AdmissionType, SocketInv, SocketType, TypeOK

-----------------------------------------------------------------------------
(* TypeOK holds of every reachable state: in particular TransportSlots'    *)
(* count never leaves 0..maximum (transport.ts:63-115).                    *)
THEOREM TypeCorrect == Spec => []TypeOK
BY InvIsTyped, InvAlways, PTL

(* The semaphore counts exactly the requests whose exchange holds a permit,*)
(* whatever the order of grants, aborts, timers, failures and close        *)
(* (transport.ts:72-114, transport_node.ts:95-110).                        *)
THEOREM PermitsAreCounted == Spec => []PermitsCounted
<1>1. IInv => PermitsCounted
  BY DEF IInv, AdmissionInv
<1> QED
  BY <1>1, InvAlways, PTL

(* No request waits while a permit is free (transport.ts:73-109).          *)
THEOREM WaitersAreServed == Spec => []NoWaiterWhileFree
<1>1. IInv => NoWaiterWhileFree
  BY DEF IInv, AdmissionInv
<1> QED
  BY <1>1, InvAlways, PTL

(* Permits are given in the order they were asked for, though waiters may  *)
(* leave the queue from anywhere in it (transport.ts:62, 86-109).          *)
THEOREM FirstComeFirstServed == Spec => []NoOvertaking
<1>1. IInv => NoOvertaking
  BY DEF IInv, AdmissionInv
<1> QED
  BY <1>1, InvAlways, PTL

(* A request on the wire has a socket of its own: no cleanup, trim or loan *)
(* takes it away (transport_node.ts:83-117).                               *)
THEOREM SocketIsKept == Spec => []OwnSocketKept
<1>1. ASSUME IInv PROVE OwnSocketKept
  <2> SUFFICES ASSUME NEW r \in Requests, OnTheWire(r)
               PROVE  /\ socket[r] \in open \ idle
                      /\ \A q \in Requests \ {r} : OnTheWire(q) => socket[q] # socket[r]
    BY DEF OwnSocketKept
  <2>1. r \in Wire /\ \A q \in Requests : OnTheWire(q) => q \in Wire
    BY DEF Wire
  <2> QED
    BY <1>1, <2>1 DEF IInv, SocketInv
<1> QED
  BY <1>1, InvAlways, PTL

(* Between two loans, the sockets of all origins are no more than the      *)
(* connections allowed (transport_node.ts:36-43, 130-138).                 *)
THEOREM SocketsAreBounded == Spec => []SocketsBounded
<1>1. ASSUME IInv, \A r \in Requests : pc[r] # "dialing"
      PROVE  Cardinality(open) <= maximum
  <2>1. Dialing = {}
    BY <1>1 DEF Dialing
  <2>2. Cardinality(Dialing) = 0 /\ maximum \in Nat
    BY <1>1, <2>1, FS_EmptySet DEF IInv, AdmissionInv, AdmissionType
  <2> QED
    BY <1>1, <2>2 DEF IInv, SocketInv
<1>2. IInv => SocketsBounded
  BY <1>1 DEF SocketsBounded
<1> QED
  BY <1>2, InvAlways, PTL
=============================================================================
